--------------------------- MODULE MCAsyncLoader ---------------------------
(* Two callers in flight at once, three promises, two changes of the       *)
(* observables and one forced reload after a dispose.                      *)
EXTENDS AsyncLoader
=============================================================================
