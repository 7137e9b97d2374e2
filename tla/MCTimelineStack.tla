-------------------------- MODULE MCTimelineStack --------------------------
(* Two layers, two dates, and a stack with room for one entry too many.    *)
EXTENDS TimelineStack, TLC

CONSTANTS a, b, t1, t2

\* One layer starts at one of the dates, the other and the default at the other one.
Starts == a :> t1 @@ b :> t2 @@ Default :> t2

=============================================================================
