---------------------------- MODULE LoadRequest ----------------------------
(***************************************************************************)
(* What AsyncLoader promises those who call load(), without its promises,  *)
(* its cache or its reload counter: a caller is answered, and the answer   *)
(* is that of a load made from the observables as they stood when it       *)
(* called.  Callers of a disposed loader are answered by no load at all.   *)
(***************************************************************************)
EXTENDS Integers

CONSTANT Call

VARIABLES
  version,   \* the observables a load depends on
  disposed,
  busy,      \* what isLoading shows
  request    \* the callers: [state, served], served being the version answered from

vars == <<version, disposed, busy, request>>

Nothing == -1   \* served: no load, the loader is disposed
Outcome == {"ok", "failed"}

Init ==
  /\ version = 0
  /\ disposed = FALSE
  /\ busy = FALSE
  /\ request = [c \in Call |-> [state |-> "idle", served |-> Nothing]]

Change ==
  /\ version' = version + 1
  /\ UNCHANGED <<disposed, busy, request>>

\* A caller asks.  The ones who force a reload revive a disposed loader.
Ask(c, dead) ==
  /\ request[c].state # "waiting"
  /\ disposed' = dead
  /\ busy' \in {busy, TRUE}
  /\ request' = [request EXCEPT ![c] =
                   [state  |-> "waiting",
                    served |-> IF dead THEN Nothing ELSE version]]
  /\ UNCHANGED version

Answer(c) ==
  /\ request[c].state = "waiting"
  /\ \E outcome \in Outcome :
       request' = [request EXCEPT ![c].state = outcome]
  /\ busy' = FALSE
  /\ UNCHANGED <<version, disposed>>

Next ==
  \/ Change
  \/ \E c \in Call : Answer(c) \/ \E dead \in BOOLEAN : Ask(c, dead)

Spec == Init /\ [][Next]_vars

\* Every caller is answered in the end.
FairSpec == Spec /\ \A c \in Call : WF_vars(Answer(c))

=============================================================================
