------------------------------- MODULE ListOps -------------------------------
(***************************************************************************)
(* Lists made of lists, as a loop with a push or concat() makes them, and  *)
(* parts of a list, as filter() does, from the first element to the last.  *)
(* All rest on one recursive function, of which ListLemmas says what it    *)
(* returns.                                                                *)
(***************************************************************************)
EXTENDS Integers, Sequences

\* The first n of the lists, one after another.
FirstJoined(lists, n) ==
  LET upTo[m \in 0..Len(lists)] == IF m = 0 THEN << >> ELSE upTo[m - 1] \o lists[m]
  IN  upTo[n]

\* The elements of the list at these places, in order.
Sublist(list, places) ==
  FirstJoined([n \in 1..Len(list) |-> IF n \in places THEN <<list[n]>> ELSE << >>], Len(list))

\* filter(): those elements that are in S.
Filter(list, S) == Sublist(list, {n \in 1..Len(list) : list[n] \in S})

\* A set of the elements, in the order in which each first occurs.
WithoutDuplicates(list) ==
  Sublist(list, {n \in 1..Len(list) : \A m \in 1..n - 1 : list[m] # list[n]})

=============================================================================
