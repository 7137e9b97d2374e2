------------------------------ MODULE MCSearch ------------------------------
(* Two texts besides the empty one and one that is too short, three members  *)
(* of which one matches both, and three searches at a time.                  *)
EXTENDS Search

CONSTANTS t1, t2, d1, d2, d3

MCMatches == [t \in Text |-> CASE t = t1 -> {d1, d2} [] t = t2 -> {d2} [] OTHER -> {}]
=============================================================================
