---------------------------- MODULE MCReference ----------------------------
(* Two calls of loadReference() in flight and three runs of the callback,  *)
(* so that an older run can end after a newer one with a third to come.    *)
EXTENDS Reference
=============================================================================
