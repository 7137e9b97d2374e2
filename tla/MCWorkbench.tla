---------------------------- MODULE MCWorkbench ----------------------------
(***************************************************************************)
(* A strong reference to imagery, a weak one to an imagery layer that is   *)
(* kept on top, and a data source that cannot be reordered; two adds in    *)
(* flight, and references loaded by others at any time.                    *)
(***************************************************************************)
EXTENDS Workbench, TLC

CONSTANTS strong, weak, image, top, vector, nested, group

PlainTargets == strong :> image @@ weak :> top
GroupTargets == strong :> group

\* nested leads to strong, which leads to image.
NestedTargets == nested :> strong @@ strong :> image

\* The invocations of add() are interchangeable.
Symmetry == Permutations(Slot)

=============================================================================
