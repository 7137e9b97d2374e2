----------------------------- MODULE ListLemmas -----------------------------
(***************************************************************************)
(* Min and Max of the community module FiniteSetsExt, of sets of natural   *)
(* numbers: the places and the loop indices of the lists of this project   *)
(* are defined from them.  The elements of a list that something was       *)
(* taken out of.  And what the loops of ListOps compute: as no rule of     *)
(* induction can be instantiated, an induction on the length of a list is  *)
(* here a least counterexample, by LeastElement.                           *)
(***************************************************************************)
EXTENDS FiniteSetsExt, ListOps, FiniteSetTheorems, TLAPS

\* The least number of a set, which is FiniteSetsExt's Min.
LEMMA LeastElement ==
  ASSUME NEW S \in SUBSET Nat, S # {}
  PROVE  Min(S) \in S /\ \A x \in S : Min(S) <= x
<1> DEFINE Less == {ss \in Nat \X Nat : ss[1] < ss[2]}
<1>1. IsWellFoundedOn(Less, Nat)
  BY NatLessThanWellFounded, Zenon DEF OpToRel
<1>2. PICK x \in S : \A y \in S : <<y, x>> \notin Less
  BY <1>1, WFMin
<1>3. ASSUME NEW y \in S PROVE x <= y
  <2>1. x \in Nat /\ y \in Nat
    OBVIOUS
  <2>2. y < x => <<y, x>> \in Less
    BY <2>1
  <2> QED BY <1>2, <2>1, <2>2
<1> QED BY <1>3 DEF Min

\* The greatest number of a finite set, which is FiniteSetsExt's Max.
LEMMA GreatestElement ==
  ASSUME NEW n \in Nat, NEW S \in SUBSET (0..n), S # {}
  PROVE  Max(S) \in S /\ \A x \in S : x <= Max(S)
<1> DEFINE T == {n - x : x \in S}
<1>1. T \in SUBSET Nat /\ T # {}
  <2>1. \A x \in S : n - x \in Nat
    OBVIOUS
  <2>2. PICK x \in S : TRUE
    OBVIOUS
  <2>3. n - x \in T
    BY <2>2
  <2> QED BY <2>1, <2>3
<1>2. PICK t \in T : \A y \in T : t <= y
  BY <1>1, LeastElement
<1>3. PICK x \in S : t = n - x
  BY <1>2
<1>4. \A y \in S : x >= y
  BY <1>2, <1>3
<1> QED BY <1>4 DEF Max

\* Two lists joined.
LEMMA ConcatElements ==
  ASSUME NEW S, NEW s \in Seq(S), NEW t \in Seq(S)
  PROVE  /\ s \o t \in Seq(S)
         /\ Len(s \o t) = Len(s) + Len(t)
         /\ \A i \in 1..Len(s) + Len(t) :
              (s \o t)[i] = IF i <= Len(s) THEN s[i] ELSE t[i - Len(s)]
OBVIOUS

\* The elements of a list before p.
LEMMA Before ==
  ASSUME NEW S, NEW list \in Seq(S), NEW p \in 1..Len(list)
  PROVE  LET before == SubSeq(list, 1, p - 1) IN
         /\ before \in Seq(S) /\ Len(before) = p - 1
         /\ \A i \in 1..p - 1 : before[i] = list[i]
BY SMT

\* A list without its element p, as SequencesExt's RemoveAt has it.
LEMMA TakenOut ==
  ASSUME NEW S, NEW list \in Seq(S), NEW p \in 1..Len(list)
  PROVE  LET new == SubSeq(list, 1, p - 1) \o SubSeq(list, p + 1, Len(list)) IN
         /\ new \in Seq(S)
         /\ Len(new) = Len(list) - 1
         /\ \A i \in 1..Len(new) : new[i] = IF i < p THEN list[i] ELSE list[i + 1]
<1> DEFINE before == SubSeq(list, 1, p - 1)
           after  == SubSeq(list, p + 1, Len(list))
<1>1. /\ before \in Seq(S) /\ Len(before) = p - 1
      /\ \A i \in 1..p - 1 : before[i] = list[i]
  BY Before
<1>2. /\ after \in Seq(S) /\ Len(after) = Len(list) - p
      /\ \A i \in 1..Len(list) - p : after[i] = list[i + p]
  BY SMT
<1> HIDE DEF before, after
<1>4. /\ before \o after \in Seq(S)
      /\ Len(before \o after) = (p - 1) + (Len(list) - p)
      /\ \A i \in 1..(p - 1) + (Len(list) - p) :
           (before \o after)[i] = IF i <= p - 1 THEN before[i] ELSE after[i - (p - 1)]
  <2>1. before \in Seq(S) /\ after \in Seq(S)
    BY <1>1, <1>2
  <2>2. /\ before \o after \in Seq(S)
        /\ Len(before \o after) = Len(before) + Len(after)
        /\ \A i \in 1..Len(before) + Len(after) :
             (before \o after)[i] = IF i <= Len(before) THEN before[i] ELSE after[i - Len(before)]
    BY <2>1, ConcatElements
  <2> QED BY <1>1, <1>2, <2>2
<1>5. (p - 1) + (Len(list) - p) = Len(list) - 1
  BY SMT
<1>6. \A i \in 1..Len(list) - 1 : i > p - 1 => after[i - (p - 1)] = list[i + 1]
  BY <1>2
<1> DEFINE new == before \o after
<1>7. new \in Seq(S) /\ Len(new) = Len(list) - 1
  BY <1>4, <1>5
<1>8. ASSUME NEW i \in 1..Len(list) - 1
      PROVE  new[i] = IF i < p THEN list[i] ELSE list[i + 1]
  <2>1. i < p => new[i] = list[i]
    BY <1>1, <1>4, <1>5
  <2>2. ~(i < p) => new[i] = list[i + 1]
    BY <1>4, <1>5, <1>6
  <2> HIDE DEF new
  <2> QED BY <2>1, <2>2
<1> QED BY <1>7, <1>8 DEF new, before, after

-----------------------------------------------------------------------------
(* Lists joined *)

\* f[n] is the first n lists, one after another.
IsUpTo(f, lists, m) == f = [n \in 0..m |-> IF n = 0 THEN << >> ELSE f[n - 1] \o lists[n]]

OneMore(f, lists, k) == f[k] = f[k - 1] \o lists[k]

\* What a function that joins the lists says of the first k of them.
LEMMA UpToAt ==
  ASSUME NEW f, NEW lists, NEW m \in Nat, IsUpTo(f, lists, m), NEW k \in 1..m
  PROVE  OneMore(f, lists, k)
<1>1. k \in 0..m /\ k # 0
  OBVIOUS
<1>2. f[k] = IF k = 0 THEN << >> ELSE f[k - 1] \o lists[k]
  BY <1>1, Zenon DEF IsUpTo
<1> QED BY <1>1, <1>2, Zenon DEF OneMore

\* There is such a function: it is made from the longest prefix that has one.
LEMMA UpToExists ==
  ASSUME NEW lists, NEW m \in Nat
  PROVE  \E f : IsUpTo(f, lists, m)
<1> DEFINE bad == {n \in Nat : ~ \E f : IsUpTo(f, lists, n)}
<1> SUFFICES ASSUME bad # {} PROVE FALSE
  OBVIOUS
<1>1. PICK n \in bad : \A k \in bad : n <= k
  <2>1. bad \in SUBSET Nat
    OBVIOUS
  <2> HIDE DEF bad
  <2> QED BY <2>1, LeastElement
<1>2. n # 0
  <2> DEFINE f0 == [k \in 0..0 |-> << >>]
  <2>1. IsUpTo(f0, lists, 0)
    BY DEF IsUpTo
  <2> QED BY <2>1
<1>3. n \in Nat /\ n - 1 \in Nat /\ n - 1 \notin bad
  BY <1>1, <1>2
<1>4. PICK g : IsUpTo(g, lists, n - 1)
  BY <1>3
<1> DEFINE f      == [k \in 0..n |-> IF k < n THEN g[k] ELSE g[n - 1] \o lists[n]]
           new(k) == IF k = 0 THEN << >> ELSE f[k - 1] \o lists[k]
<1>5. ASSUME NEW k \in 0..n PROVE f[k] = new(k)
  <2>1. CASE k = 0
    <3>1. g[0] = << >>
      BY <1>3, <1>4 DEF IsUpTo
    <3> QED BY <1>2, <1>3, <2>1, <3>1
  <2>2. CASE k \in 1..n - 1
    <3>1. OneMore(g, lists, k)
      BY <1>3, <1>4, <2>2, UpToAt
    <3>2. f[k] = g[k] /\ f[k - 1] = g[k - 1] /\ k # 0
      BY <1>3, <2>2
    <3> HIDE DEF f
    <3> QED BY <3>1, <3>2, Zenon DEF OneMore
  <2>3. CASE k = n
    <3>1. f[n - 1] = g[n - 1]
      BY <1>3
    <3> QED BY <1>2, <1>3, <2>3, <3>1
  <2> QED BY <1>3, <2>1, <2>2, <2>3
<1>6. f = [k \in 0..n |-> new(k)]
  BY <1>5
<1>7. IsUpTo(f, lists, n)
  BY <1>6 DEF IsUpTo
<1> QED BY <1>1, <1>7

\* None of the lists, and one more of them.
LEMMA JoinedOneMore ==
  ASSUME NEW S, NEW lists \in Seq(S)
  PROVE  /\ FirstJoined(lists, 0) = << >>
         /\ \A n \in 1..Len(lists) :
              FirstJoined(lists, n) = FirstJoined(lists, n - 1) \o lists[n]
<1> DEFINE f == CHOOSE f : IsUpTo(f, lists, Len(lists))
<1>1. Len(lists) \in Nat
  OBVIOUS
<1>2. IsUpTo(f, lists, Len(lists))
  BY <1>1, UpToExists
<1>3. \A n : FirstJoined(lists, n) = f[n]
  BY Zenon DEF FirstJoined, IsUpTo
<1> HIDE DEF f
<1>4. f[0] = << >>
  BY <1>1, <1>2 DEF IsUpTo
<1>5. \A n \in 1..Len(lists) : OneMore(f, lists, n)
  BY <1>1, <1>2, UpToAt
<1> QED BY <1>3, <1>4, <1>5, Zenon DEF OneMore

-----------------------------------------------------------------------------
(* Sublist *)

\* A sublist is what is joined from one list for each place.
LEMMA SublistUpTo ==
  ASSUME NEW S, NEW list \in Seq(S), NEW places
  PROVE  \E f, lists :
           /\ Sublist(list, places) = f[Len(list)]
           /\ f[0] = << >>
           /\ \A n \in 1..Len(list) :
                /\ OneMore(f, lists, n)
                /\ lists[n] = IF n \in places THEN <<list[n]>> ELSE << >>
<1> DEFINE lists == [n \in 1..Len(list) |-> IF n \in places THEN <<list[n]>> ELSE << >>]
           f     == [n \in 0..Len(list) |-> FirstJoined(lists, n)]
<1>1. Len(list) \in Nat
  OBVIOUS
<1>2. lists \in Seq(Seq(S)) /\ Len(lists) = Len(list)
  <2>1. \A n \in 1..Len(list) : lists[n] \in Seq(S)
    OBVIOUS
  <2>2. lists \in [1..Len(list) -> Seq(S)]
    BY <2>1
  <2> HIDE DEF lists
  <2> QED BY <1>1, <2>2
<1>3. \A n \in 1..Len(list) : lists[n] = IF n \in places THEN <<list[n]>> ELSE << >>
  OBVIOUS
<1>4. Sublist(list, places) = FirstJoined(lists, Len(list))
  BY DEF Sublist
<1> HIDE DEF lists
<1>5. FirstJoined(lists, 0) = << >>
  BY <1>2, JoinedOneMore
<1>6. ASSUME NEW n \in 1..Len(list) PROVE OneMore(f, lists, n)
  <2>1. FirstJoined(lists, n) = FirstJoined(lists, n - 1) \o lists[n]
    BY <1>2, JoinedOneMore
  <2>2. f[n] = FirstJoined(lists, n) /\ f[n - 1] = FirstJoined(lists, n - 1)
    BY <1>1
  <2> HIDE DEF f
  <2> QED BY <2>1, <2>2, Zenon DEF OneMore
<1>7. f[0] = << >> /\ Sublist(list, places) = f[Len(list)]
  BY <1>1, <1>4, <1>5
<1> HIDE DEF f
<1> QED BY <1>3, <1>6, <1>7

\* new is made of the elements of list at these places up to m, by the places g.
Selects(g, new, list, places, m) ==
  /\ g \in [1..Len(new) -> 1..m]
  /\ \A i \in 1..Len(new) : g[i] \in places /\ new[i] = list[g[i]]
  /\ \A i, j \in 1..Len(new) : i < j => g[i] < g[j]
  /\ \A n \in 1..m : n \in places => \E i \in 1..Len(new) : g[i] = n

\* A choice of places goes on with the next place, or without it.
LEMMA SelectsOneMore ==
  ASSUME NEW S, NEW list \in Seq(S), NEW places, NEW n \in 1..Len(list),
         NEW old \in Seq(S), Len(old) <= n - 1, NEW g, Selects(g, old, list, places, n - 1)
  PROVE  LET new == IF n \in places THEN Append(old, list[n]) ELSE old IN
         /\ new \in Seq(S) /\ Len(new) <= n
         /\ \E h : Selects(h, new, list, places, n)
<1>1. CASE n \notin places
  <2>1. Selects(g, old, list, places, n)
    BY <1>1 DEF Selects
  <2> QED BY <1>1, <2>1
<1>2. CASE n \in places
  <2> DEFINE new == Append(old, list[n])
             h   == [i \in 1..Len(old) + 1 |-> IF i <= Len(old) THEN g[i] ELSE n]
  <2>1. /\ new \in Seq(S) /\ Len(new) = Len(old) + 1
        /\ \A i \in 1..Len(old) : new[i] = old[i]
        /\ new[Len(old) + 1] = list[n]
    OBVIOUS
  <2> HIDE DEF new
  <2>2. h \in [1..Len(new) -> 1..n]
    BY <2>1 DEF Selects
  <2>3. \A i \in 1..Len(new) : h[i] \in places /\ new[i] = list[h[i]]
    BY <1>2, <2>1 DEF Selects
  <2>4. \A i, j \in 1..Len(new) : i < j => h[i] < h[j]
    BY <2>1 DEF Selects
  <2>5. ASSUME NEW m \in 1..n, m \in places
        PROVE  \E i \in 1..Len(new) : h[i] = m
    <3>1. CASE m = n
      <4>1. h[Len(old) + 1] = n /\ Len(old) + 1 \in 1..Len(new)
        BY <2>1
      <4> QED BY <3>1, <4>1
    <3>2. CASE m # n
      <4>1. PICK i \in 1..Len(old) : g[i] = m
        BY <2>5, <3>2 DEF Selects
      <4>2. i \in 1..Len(new) /\ h[i] = g[i]
        BY <2>1
      <4> QED BY <4>1, <4>2
    <3> QED BY <3>1, <3>2
  <2>6. Selects(h, new, list, places, n)
    BY <2>2, <2>3, <2>4, <2>5 DEF Selects
  <2>7. new = IF n \in places THEN Append(old, list[n]) ELSE old
    BY <1>2 DEF new
  <2> HIDE DEF h
  <2> QED BY <2>1, <2>6, <2>7
<1> QED BY <1>1, <1>2

\* A sublist has the elements at those places, all of them, in their order.
LEMMA SublistSelects ==
  ASSUME NEW S, NEW list \in Seq(S), NEW places
  PROVE  LET new == Sublist(list, places) IN
         /\ new \in Seq(S) /\ Len(new) <= Len(list)
         /\ \E g : Selects(g, new, list, places, Len(list))
<1>1. PICK f, lists :
        /\ Sublist(list, places) = f[Len(list)]
        /\ f[0] = << >>
        /\ \A n \in 1..Len(list) :
             /\ OneMore(f, lists, n)
             /\ lists[n] = IF n \in places THEN <<list[n]>> ELSE << >>
  BY SublistUpTo
<1> DEFINE good(n) == /\ f[n] \in Seq(S) /\ Len(f[n]) <= n
                      /\ \E g : Selects(g, f[n], list, places, n)
           bad     == {n \in 0..Len(list) : ~good(n)}
<1> HIDE DEF good
<1>2. good(0)
  <2>1. Selects(<< >>, << >>, list, places, 0)
    BY DEF Selects
  <2> QED BY <1>1, <2>1 DEF good
<1>3. bad = {}
  <2> SUFFICES ASSUME bad # {} PROVE FALSE
    OBVIOUS
  <2>1. PICK n \in bad : \A k \in bad : n <= k
    <3>1. bad \in SUBSET Nat
      OBVIOUS
    <3> HIDE DEF bad
    <3> QED BY <3>1, LeastElement
  <2>2. n \in 1..Len(list) /\ ~good(n) /\ good(n - 1)
    BY <1>2, <2>1
  <2>3. PICK g : Selects(g, f[n - 1], list, places, n - 1)
    BY <2>2 DEF good
  <2>4. f[n - 1] \in Seq(S) /\ Len(f[n - 1]) <= n - 1
    BY <2>2 DEF good
  <2>5. f[n] = IF n \in places THEN Append(f[n - 1], list[n]) ELSE f[n - 1]
    <3>1. OneMore(f, lists, n) /\ lists[n] = IF n \in places THEN <<list[n]>> ELSE << >>
      BY <1>1, <2>2
    <3>2. f[n - 1] \o <<list[n]>> = Append(f[n - 1], list[n]) /\ f[n - 1] \o << >> = f[n - 1]
      BY <2>2, <2>4
    <3>3. f[n] = f[n - 1] \o lists[n]
      BY <3>1 DEF OneMore
    <3> QED BY <3>1, <3>2, <3>3
  <2>6. f[n] \in Seq(S) /\ Len(f[n]) <= n /\ \E h : Selects(h, f[n], list, places, n)
    BY <2>2, <2>3, <2>4, <2>5, SelectsOneMore
  <2> QED BY <2>2, <2>6 DEF good
<1>4. good(Len(list))
  BY <1>3
<1> QED BY <1>1, <1>4 DEF good

\* A sublist at no places is empty.
LEMMA SublistEmpty ==
  ASSUME NEW S, NEW list \in Seq(S), NEW places, places \intersect (1..Len(list)) = {}
  PROVE  Sublist(list, places) = << >>
<1> DEFINE new == Sublist(list, places)
<1>1. new \in Seq(S) /\ \E g : Selects(g, new, list, places, Len(list))
  BY SublistSelects
<1> HIDE DEF new
<1>2. \A i \in 1..Len(new) : FALSE
  BY <1>1 DEF Selects
<1>3. new = << >>
  BY <1>1, <1>2
<1> QED BY <1>3 DEF new

\* A list has no element twice.
Distinct(list) == \A i, j \in 1..Len(list) : list[i] = list[j] => i = j

\* A list is made of elements of another one, in their order.
PartOf(new, list) ==
  /\ Len(new) <= Len(list)
  /\ \A i \in 1..Len(new) : \E n \in 1..Len(list) : list[n] = new[i]
  /\ \A i, j \in 1..Len(new) : i < j =>
       \E m, n \in 1..Len(list) : m < n /\ list[m] = new[i] /\ list[n] = new[j]

\* A part of a list without an element twice has none twice.
LEMMA PartDistinct ==
  ASSUME NEW S, NEW new \in Seq(S), NEW list, PartOf(new, list), Distinct(list)
  PROVE  Distinct(new)
<1>1. \A i, j \in 1..Len(new) : i < j => new[i] # new[j]
  BY DEF PartOf, Distinct
<1> QED BY <1>1 DEF Distinct

\* filter() leaves the elements in T, all of them.
LEMMA FilterElements ==
  ASSUME NEW S, NEW list \in Seq(S), NEW T
  PROVE  LET new == Filter(list, T) IN
         /\ new \in Seq(S) /\ PartOf(new, list)
         /\ \A i \in 1..Len(new) : new[i] \in T
         /\ \A n \in 1..Len(list) : list[n] \in T => \E i \in 1..Len(new) : new[i] = list[n]
<1> DEFINE places == {n \in 1..Len(list) : list[n] \in T}
           new    == Filter(list, T)
<1>1. /\ new \in Seq(S) /\ Len(new) <= Len(list)
      /\ \E g : Selects(g, new, list, places, Len(list))
  BY SublistSelects DEF Filter
<1> HIDE DEF new
<1>2. PICK g : Selects(g, new, list, places, Len(list))
  BY <1>1
<1>3. \A i \in 1..Len(new) : g[i] \in places /\ new[i] = list[g[i]]
  BY <1>2 DEF Selects
<1>4. ASSUME NEW n \in 1..Len(list), list[n] \in T
      PROVE  \E i \in 1..Len(new) : new[i] = list[n]
  <2>1. PICK i \in 1..Len(new) : g[i] = n
    BY <1>2, <1>4 DEF Selects
  <2> QED BY <1>3, <2>1
<1>5. ASSUME NEW i \in 1..Len(new), NEW j \in 1..Len(new), i < j
      PROVE  \E m, n \in 1..Len(list) : m < n /\ list[m] = new[i] /\ list[n] = new[j]
  <2>1. g[i] < g[j]
    BY <1>2, <1>5 DEF Selects
  <2> QED BY <1>3, <2>1
<1>6. PartOf(new, list)
  BY <1>1, <1>3, <1>5 DEF PartOf
<1> QED BY <1>1, <1>3, <1>4, <1>6 DEF new

\* A list without an element twice stays so when it is filtered.
LEMMA FilterDistinct ==
  ASSUME NEW S, NEW list \in Seq(S), NEW T, Distinct(list)
  PROVE  Distinct(Filter(list, T))
<1>1. Filter(list, T) \in Seq(S) /\ PartOf(Filter(list, T), list)
  BY FilterElements
<1> QED BY <1>1, PartDistinct

\* Two sets that tell the elements of a list apart in the same way leave the same.
LEMMA FilterSame ==
  ASSUME NEW list, NEW T, NEW U, \A n \in 1..Len(list) : list[n] \in T <=> list[n] \in U
  PROVE  Filter(list, T) = Filter(list, U)
<1>1. {n \in 1..Len(list) : list[n] \in T} = {n \in 1..Len(list) : list[n] \in U}
  OBVIOUS
<1> QED BY <1>1 DEF Filter

\* Nothing is left by a set that has none of the elements.
LEMMA FilterEmpty ==
  ASSUME NEW S, NEW list \in Seq(S), NEW T, \A n \in 1..Len(list) : list[n] \notin T
  PROVE  Filter(list, T) = << >>
<1>1. {n \in 1..Len(list) : list[n] \in T} \intersect (1..Len(list)) = {}
  OBVIOUS
<1> QED BY <1>1, SublistEmpty DEF Filter

\* The setter of the workbench's items leaves the same elements, each of them once.
LEMMA WithoutDuplicatesElements ==
  ASSUME NEW S, NEW list \in Seq(S)
  PROVE  LET new == WithoutDuplicates(list) IN
         /\ new \in Seq(S) /\ Distinct(new)
         /\ \A i \in 1..Len(new) : \E n \in 1..Len(list) : list[n] = new[i]
         /\ \A n \in 1..Len(list) : \E i \in 1..Len(new) : new[i] = list[n]
<1> DEFINE first  == {n \in 1..Len(list) : \A m \in 1..n - 1 : list[m] # list[n]}
           new    == WithoutDuplicates(list)
<1>1. new \in Seq(S) /\ \E g : Selects(g, new, list, first, Len(list))
  BY SublistSelects DEF WithoutDuplicates
<1> HIDE DEF new
<1>2. PICK g : Selects(g, new, list, first, Len(list))
  BY <1>1
<1>3. \A i \in 1..Len(new) : g[i] \in first /\ new[i] = list[g[i]]
  BY <1>2 DEF Selects
<1>4. ASSUME NEW i \in 1..Len(new), NEW j \in 1..Len(new), i < j
      PROVE  new[i] # new[j]
  <2>1. g[i] < g[j]
    BY <1>2, <1>4 DEF Selects
  <2>2. g[i] \in 1..g[j] - 1
    BY <1>3, <2>1
  <2> QED BY <1>3, <2>2
<1>5. Distinct(new)
  BY <1>1, <1>4 DEF Distinct
<1>6. ASSUME NEW n \in 1..Len(list)
      PROVE  \E i \in 1..Len(new) : new[i] = list[n]
  <2> DEFINE same == {m \in 1..n : list[m] = list[n]}
  <2>1. PICK m \in same : \A k \in same : m <= k
    <3>1. same \in SUBSET Nat /\ n \in same
      OBVIOUS
    <3> HIDE DEF same
    <3> QED BY <3>1, LeastElement
  <2>2. m \in first
    BY <2>1
  <2>3. PICK i \in 1..Len(new) : g[i] = m
    BY <1>2, <2>2 DEF Selects
  <2> QED BY <1>3, <2>1, <2>3
<1> QED BY <1>1, <1>3, <1>5, <1>6 DEF new

-----------------------------------------------------------------------------
(* A list that is parted *)

\* g says where in list each element of a, and then of b, comes from: from places of their
\* own, all there are, and those of each part in their order.
Parts(g, list, a, b) ==
  /\ g \in [1..Len(list) -> 1..Len(list)]
  /\ \A i, j \in 1..Len(list) : g[i] = g[j] => i = j
  /\ \A n \in 1..Len(list) : \E i \in 1..Len(list) : g[i] = n
  /\ \A i \in 1..Len(a) : a[i] = list[g[i]]
  /\ \A i \in Len(a) + 1..Len(list) : b[i - Len(a)] = list[g[i]]
  /\ \A i, j \in 1..Len(list) : i < j /\ (j <= Len(a) \/ i > Len(a)) => g[i] < g[j]

\* The elements that a filter leaves and those that it does not are the whole list.
LEMMA Parted ==
  ASSUME NEW S, NEW list \in Seq(S), NEW T, NEW U,
         \A n \in 1..Len(list) : list[n] \in T <=> list[n] \notin U
  PROVE  LET a == Filter(list, T)
             b == Filter(list, U) IN
         /\ a \in Seq(S) /\ \A i \in 1..Len(a) : a[i] \in T
         /\ b \in Seq(S) /\ \A i \in 1..Len(b) : b[i] \in U
         /\ Len(a) + Len(b) = Len(list)
         /\ \E g : Parts(g, list, a, b)
<1> DEFINE a    == Filter(list, T)
           b    == Filter(list, U)
           inT  == {n \in 1..Len(list) : list[n] \in T}
           inU  == {n \in 1..Len(list) : list[n] \in U}
<1>1. /\ a \in Seq(S) /\ \A i \in 1..Len(a) : a[i] \in T
      /\ \E g : Selects(g, a, list, inT, Len(list))
  <2>1. a \in Seq(S) /\ \A i \in 1..Len(a) : a[i] \in T
    BY FilterElements
  <2>2. a = Sublist(list, inT)
    BY DEF Filter
  <2> QED BY <2>1, <2>2, SublistSelects
<1>2. /\ b \in Seq(S) /\ \A i \in 1..Len(b) : b[i] \in U
      /\ \E g : Selects(g, b, list, inU, Len(list))
  <2>1. b \in Seq(S) /\ \A i \in 1..Len(b) : b[i] \in U
    BY FilterElements
  <2>2. b = Sublist(list, inU)
    BY DEF Filter
  <2> QED BY <2>1, <2>2, SublistSelects
<1>3. PICK ga, gb : Selects(ga, a, list, inT, Len(list)) /\ Selects(gb, b, list, inU, Len(list))
  BY <1>1, <1>2
<1> HIDE DEF a, b
<1> DEFINE m == Len(a)
           n == Len(a) + Len(b)
           g == [i \in 1..n |-> IF i <= m THEN ga[i] ELSE gb[i - m]]
<1>4. m \in Nat /\ n \in Nat /\ Len(list) \in Nat /\ n - m = Len(b)
  BY <1>1, <1>2
<1>5. /\ ga \in [1..m -> 1..Len(list)] /\ gb \in [1..n - m -> 1..Len(list)]
      /\ \A i \in 1..m : ga[i] \in inT /\ a[i] = list[ga[i]]
      /\ \A i \in 1..n - m : gb[i] \in inU /\ b[i] = list[gb[i]]
  BY <1>3, <1>4 DEF Selects
<1>6. /\ \A i, j \in 1..m : i < j => ga[i] < ga[j]
      /\ \A i, j \in 1..n - m : i < j => gb[i] < gb[j]
  BY <1>3, <1>4 DEF Selects
<1>7. /\ \A k \in inT : \E i \in 1..m : ga[i] = k
      /\ \A k \in inU : \E i \in 1..n - m : gb[i] = k
  BY <1>3, <1>4 DEF Selects
<1> HIDE DEF m, n
<1>8. inT \intersect inU = {} /\ inT \union inU = 1..Len(list)
  OBVIOUS
<1> HIDE DEF inT, inU
<1>9. /\ \A i \in 1..n : i <= m => i \in 1..m /\ g[i] = ga[i]
      /\ \A i \in 1..n : i > m => i - m \in 1..n - m /\ g[i] = gb[i - m]
  BY <1>4
<1>10. g \in [1..n -> 1..Len(list)]
  BY <1>4, <1>5
<1> HIDE DEF g
<1>11. \A i, j \in 1..n : i < j /\ (j <= m \/ i > m) => g[i] < g[j]
  BY <1>4, <1>6, <1>9
<1>12. ASSUME NEW i \in 1..n, NEW j \in 1..n, i < j PROVE g[i] # g[j]
  <2>1. CASE i <= m /\ j > m
    BY <1>5, <1>8, <1>9, <2>1
  <2>2. CASE j <= m \/ i > m
    BY <1>10, <1>11, <1>12, <2>2
  <2> QED BY <1>4, <2>1, <2>2
<1>13. \A i, j \in 1..n : g[i] = g[j] => i = j
  BY <1>4, <1>12
<1>14. ASSUME NEW k \in 1..Len(list) PROVE \E i \in 1..n : g[i] = k
  <2>1. CASE k \in inT
    <3>1. PICK i \in 1..m : ga[i] = k
      BY <1>7, <2>1
    <3>2. i \in 1..n
      BY <1>1, <1>2, <1>4
    <3> QED BY <1>9, <3>1, <3>2
  <2>2. CASE k \in inU
    <3>1. PICK i \in 1..n - m : gb[i] = k
      BY <1>7, <2>2
    <3>2. i + m \in 1..n /\ i + m > m /\ (i + m) - m = i
      BY <1>4
    <3> QED BY <1>9, <3>1, <3>2
  <2> QED BY <1>8, <2>1, <2>2
<1>15. n = Len(list)
  <2>1. g \in Bijection(1..n, 1..Len(list))
    BY <1>10, <1>13, <1>14 DEF Bijection, Injection, Surjection, IsInjective
  <2>2. Cardinality(1..Len(list)) = n
    BY <1>4, <2>1, FS_CountingElements DEF ExistsBijection
  <2>3. Cardinality(1..Len(list)) = Len(list)
    <3>1. Len(list) \in Int /\ (1 > Len(list) => Len(list) = 0) /\ Len(list) - 1 + 1 = Len(list)
      BY <1>4
    <3>2. Cardinality(1..Len(list)) = IF 1 > Len(list) THEN 0 ELSE Len(list) - 1 + 1
      BY <3>1, FS_Interval
    <3> QED BY <3>1, <3>2
  <2> QED BY <2>2, <2>3
<1>16. Parts(g, list, a, b)
  <2>1. \A i \in 1..Len(a) : a[i] = list[g[i]]
    BY <1>4, <1>5, <1>9 DEF m, n
  <2>2. ASSUME NEW i \in Len(a) + 1..Len(list) PROVE b[i - Len(a)] = list[g[i]]
    <3>1. i \in 1..n /\ i > m
      BY <1>4, <1>15 DEF m
    <3> QED BY <1>5, <1>9, <3>1 DEF m
  <2>3. \A i, j \in 1..Len(list) : i < j /\ (j <= Len(a) \/ i > Len(a)) => g[i] < g[j]
    BY <1>11, <1>15 DEF m
  <2> QED BY <1>10, <1>13, <1>14, <1>15, <2>1, <2>2, <2>3 DEF Parts
<1>17. Len(a) + Len(b) = Len(list)
  BY <1>15 DEF n
<1> QED BY <1>1, <1>2, <1>16, <1>17 DEF a, b

=============================================================================
