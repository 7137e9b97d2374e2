-------------------------- MODULE WorkbenchProofs --------------------------
(***************************************************************************)
(* Theorems of Workbench for every set of models, traits and adds: what    *)
(* insertItem's four loops compute, that no operation disturbs the order   *)
(* of the list, and that no model is shown twice, whether as itself or as  *)
(* the target of references.                                               *)
(***************************************************************************)
EXTENDS Workbench, ListLemmas, FiniteSetTheorems, TLAPS

-----------------------------------------------------------------------------
(* Sequences with an element put in or taken out *)

LEMMA InsertAtElements ==
  ASSUME NEW S, NEW list \in Seq(S), NEW e \in S, NEW p \in 1..Len(list) + 1
  PROVE  LET new == Lists!InsertAt(list, p, e) IN
         /\ new \in Seq(S)
         /\ Len(new) = Len(list) + 1
         /\ \A i \in 1..Len(new) :
              new[i] = IF i < p THEN list[i] ELSE IF i = p THEN e ELSE list[i - 1]
<1> DEFINE before == SubSeq(list, 1, p - 1)
           after  == SubSeq(list, p, Len(list))
<1>1. /\ before \in Seq(S) /\ Len(before) = p - 1
      /\ \A i \in 1..p - 1 : before[i] = list[i]
  BY SMT
<1>2. /\ after \in Seq(S) /\ Len(after) = Len(list) - p + 1
      /\ \A i \in 1..Len(list) - p + 1 : after[i] = list[i + p - 1]
  BY SMT
<1> HIDE DEF before, after
<1>3. before \o <<e>> \o after = Lists!InsertAt(list, p, e)
  BY DEF Lists!InsertAt, before, after
<1>4. /\ before \o <<e>> \in Seq(S) /\ Len(before \o <<e>>) = p
      /\ \A i \in 1..p : (before \o <<e>>)[i] = IF i < p THEN list[i] ELSE e
  BY <1>1
<1>5. /\ (before \o <<e>>) \o after \in Seq(S)
      /\ Len((before \o <<e>>) \o after) = p + (Len(list) - p + 1)
      /\ \A i \in 1..p + (Len(list) - p + 1) :
           ((before \o <<e>>) \o after)[i] =
             IF i <= p THEN (before \o <<e>>)[i] ELSE after[i - p]
  <2> DEFINE front == before \o <<e>>
  <2>1. front \in Seq(S) /\ after \in Seq(S)
    BY <1>2, <1>4
  <2> HIDE DEF front
  <2>2. /\ front \o after \in Seq(S)
        /\ Len(front \o after) = Len(front) + Len(after)
        /\ \A i \in 1..Len(front) + Len(after) :
             (front \o after)[i] = IF i <= Len(front) THEN front[i] ELSE after[i - Len(front)]
    BY <2>1, ConcatElements
  <2>3. Len(front) = p /\ Len(after) = Len(list) - p + 1
    BY <1>2, <1>4 DEF front
  <2>4. /\ front \o after \in Seq(S)
        /\ Len(front \o after) = p + (Len(list) - p + 1)
        /\ \A i \in 1..p + (Len(list) - p + 1) :
             (front \o after)[i] = IF i <= p THEN front[i] ELSE after[i - p]
    BY <2>2, <2>3
  <2> QED BY <2>4 DEF front
<1>6. p + (Len(list) - p + 1) = Len(list) + 1
  BY SMT
<1>7. \A i \in 1..Len(list) + 1 : i > p => after[i - p] = list[i - 1]
  BY <1>2
<1> HIDE DEF before, after
<1> DEFINE new == (before \o <<e>>) \o after
<1>8. new \in Seq(S) /\ Len(new) = Len(list) + 1
  BY <1>5, <1>6
<1>9. ASSUME NEW i \in 1..Len(list) + 1
      PROVE  new[i] = IF i < p THEN list[i] ELSE IF i = p THEN e ELSE list[i - 1]
  BY <1>4, <1>5, <1>6, <1>7
<1> QED BY <1>3, <1>8, <1>9

LEMMA RemoveAtElements ==
  ASSUME NEW S, NEW list \in Seq(S), NEW p \in 1..Len(list)
  PROVE  LET new == Lists!RemoveAt(list, p) IN
         /\ new \in Seq(S)
         /\ Len(new) = Len(list) - 1
         /\ \A i \in 1..Len(new) : new[i] = IF i < p THEN list[i] ELSE list[i + 1]
BY TakenOut DEF Lists!RemoveAt

-----------------------------------------------------------------------------
(* What the four loops of insertItem compute *)

Shown(list, i) == Dereferenced(list[i])

\* The list has no model that can be reordered above one that cannot.
ClassOrdered(list) ==
  \A i, j \in 1..Len(list) : i < j /\ Movable(Shown(list, i)) => Movable(Shown(list, j))

LEMMA ClassIndexSeparates ==
  ASSUME NEW list \in Seq(Model), ClassOrdered(list), NEW m, NEW index \in 0..Len(list),
         NEW p, p = ClassIndex(list, m, index)
  PROVE  /\ p \in 0..Len(list)
         /\ Movable(m) => \A k \in p + 1..Len(list) : Movable(Shown(list, k))
         /\ ~Movable(m) => \A k \in 1..p : ~Movable(Shown(list, k))
<1> DEFINE n == Len(list)
<1>0. n \in Nat
  OBVIOUS
<1>1. CASE Movable(m)
  <2> DEFINE Stops == {i \in index..n : i = n \/ ~ ~Movable(Shown(list, i + 1))}
  <2>1. p = Min(Stops)
    BY <1>1 DEF ClassIndex, Down, Shown
  <2>2. Stops \in SUBSET Nat /\ n \in Stops
    OBVIOUS
  <2>3. p \in Stops
    BY <2>1, <2>2, LeastElement
  <2>4. p \in 0..n /\ (p = n \/ Movable(Shown(list, p + 1)))
    BY <2>3
  <2> HIDE DEF Stops
  <2> QED BY <1>1, <2>4 DEF ClassOrdered
<1>2. CASE ~Movable(m)
  <2> DEFINE Stops == {i \in 0..index : i = 0 \/ ~Movable(Shown(list, i))}
  <2>1. p = Max(Stops)
    BY <1>2 DEF ClassIndex, Up, Shown
  <2>2. Stops \in SUBSET (0..n) /\ 0 \in Stops
    OBVIOUS
  <2>3. p \in Stops
    BY <1>0, <2>1, <2>2, GreatestElement
  <2>4. p \in 0..n /\ (p = 0 \/ ~Movable(Shown(list, p)))
    BY <2>3
  <2> HIDE DEF Stops
  <2> QED BY <1>2, <2>4 DEF ClassOrdered
<1> QED BY <1>1, <1>2

LEMMA OrderedByClass ==
  ASSUME NEW list \in Seq(Model), Ordered(list) PROVE ClassOrdered(list)
BY DEF Ordered, ClassOrdered, Rank, Shown

LEMMA TopIndexFits ==
  ASSUME NEW list \in Seq(Model), Ordered(list), NEW m, NEW p \in 0..Len(list),
         Movable(m) => \A k \in p + 1..Len(list) : Movable(Shown(list, k)),
         ~Movable(m) => \A k \in 1..p : ~Movable(Shown(list, k)),
         NEW q, q = TopIndex(list, m, p)
  PROVE  /\ q \in 0..Len(list)
         /\ \A k \in 1..q : Rank(Shown(list, k)) <= Rank(m)
         /\ \A k \in q + 1..Len(list) : Rank(m) <= Rank(Shown(list, k))
<1> DEFINE n == Len(list)
           Alike(o) == Movable(o) <=> Movable(m)
<1>0. n \in Nat
  OBVIOUS
<1>1. \A i, j \in 1..n : i <= j => Rank(Shown(list, i)) <= Rank(Shown(list, j))
  BY DEF Ordered, Rank, Shown
<1>2. CASE OnTop(m)
  <2> DEFINE Stops == {i \in 0..p : i = 0 \/ ~(~OnTop(Shown(list, i)) /\ Alike(Shown(list, i)))}
  <2>1. q = Max(Stops)
    BY <1>2 DEF TopIndex, Up, Shown
  <2>2. Stops \in SUBSET (0..n) /\ 0 \in Stops
    OBVIOUS
  <2>3. q \in Stops /\ \A i \in Stops : i <= q
    BY <1>0, <2>1, <2>2, GreatestElement
  <2>4. q \in 0..p /\ (q = 0 \/ OnTop(Shown(list, q)) \/ ~Alike(Shown(list, q)))
    BY <2>3
  <2>5. \A k \in q + 1..p : ~OnTop(Shown(list, k)) /\ Alike(Shown(list, k))
    BY <2>3
  <2> HIDE DEF Stops
  <2>6. q # 0 => Rank(Shown(list, q)) <= Rank(m)
    BY <1>2, <2>4 DEF Rank
  <2>7. \A k \in 1..q : Rank(Shown(list, k)) <= Rank(m)
    BY <1>1, <2>4, <2>6 DEF Rank
  <2>8. \A k \in q + 1..n : Rank(m) <= Rank(Shown(list, k))
    BY <1>2, <2>4, <2>5 DEF Rank
  <2> QED BY <2>4, <2>7, <2>8
<1>3. CASE ~OnTop(m)
  <2> DEFINE Stops == {i \in p..n : i = n \/ ~(OnTop(Shown(list, i + 1)) /\ Alike(Shown(list, i + 1)))}
  <2>1. q = Min(Stops)
    BY <1>3 DEF TopIndex, Down, Shown
  <2>2. Stops \in SUBSET Nat /\ n \in Stops
    OBVIOUS
  <2>3. q \in Stops /\ \A i \in Stops : q <= i
    BY <2>1, <2>2, LeastElement
  <2>4. q \in p..n /\ (q = n \/ ~OnTop(Shown(list, q + 1)) \/ ~Alike(Shown(list, q + 1)))
    BY <2>3
  <2>5. \A k \in p + 1..q : OnTop(Shown(list, k)) /\ Alike(Shown(list, k))
    <3>1. ASSUME NEW k \in p + 1..q PROVE OnTop(Shown(list, k)) /\ Alike(Shown(list, k))
      <4>1. k - 1 \in p..n /\ k - 1 < q /\ (k - 1) + 1 = k
        BY <2>4
      <4>2. k - 1 \notin Stops
        BY <2>3, <4>1
      <4> QED BY <4>1, <4>2
    <3> QED BY <3>1
  <2> HIDE DEF Stops
  <2>6. q # n => Rank(m) <= Rank(Shown(list, q + 1))
    BY <1>3, <2>4 DEF Rank
  <2>7. \A k \in 1..q : Rank(Shown(list, k)) <= Rank(m)
    BY <1>3, <2>4, <2>5 DEF Rank
  <2>8. \A k \in q + 1..n : Rank(m) <= Rank(Shown(list, k))
    BY <1>1, <2>4, <2>6 DEF Rank
  <2> QED BY <2>4, <2>7, <2>8
<1> QED BY <1>2, <1>3

-----------------------------------------------------------------------------
(* Inserting and removing *)

\* No reference leads to another reference.
NoNesting == \A r \in Reference : TargetOf[r] \notin Reference

LEMMA SourceIsModel ==
  ASSUME NEW m \in Model PROVE SourceOf(m) \in Model
<1>1. CASE \E r \in Reference : IsSource(r, m)
  BY <1>1, ModelAssumption DEF SourceOf, ModelAssumption
<1>2. CASE ~ \E r \in Reference : IsSource(r, m)
  BY <1>2 DEF SourceOf
<1> QED BY <1>1, <1>2

\* The model put on the list shows what was inserted.
LEMMA SourceShows ==
  ASSUME NoNesting, resolved \subseteq Reference, NEW m \in Model, Exists(m)
  PROVE  Dereferenced(SourceOf(m)) = Dereferenced(m)
<1>1. CASE \E r \in Reference : IsSource(r, m)
  <2>1. SourceOf(m) \in Reference /\ IsSource(SourceOf(m), m)
    BY <1>1 DEF SourceOf
  <2>2. SourceOf(m) \in resolved /\ TargetOf[SourceOf(m)] = m /\ m \notin Reference
    BY <2>1 DEF Exists, IsSource, NoNesting
  <2> QED BY <2>2 DEF Dereferenced
<1>2. CASE ~ \E r \in Reference : IsSource(r, m)
  BY <1>2 DEF SourceOf
<1> QED BY <1>1, <1>2

LEMMA FirstPlace ==
  ASSUME NEW list \in Seq(Model), NEW m, Contains(list, m)
  PROVE  Min(Places(list, m)) \in 1..Len(list)
<1>1. Places(list, m) \in SUBSET Nat /\ Places(list, m) # {}
  BY DEF Places, Contains
<1>2. Min(Places(list, m)) \in Places(list, m)
  BY <1>1, LeastElement
<1> QED BY <1>2 DEF Places

\* What remove() leaves.
LEMMA RemovedList ==
  ASSUME NEW list \in Seq(Model), NEW m
  PROVE  /\ Removed(list, m) \in Seq(Model)
         /\ Len(Removed(list, m)) = IF Contains(list, m) THEN Len(list) - 1 ELSE Len(list)
         /\ Ordered(list) => Ordered(Removed(list, m))
         /\ \A i \in 1..Len(Removed(list, m)) : \E j \in 1..Len(list) : Removed(list, m)[i] = list[j]
<1>1. CASE ~Contains(list, m)
  BY <1>1 DEF Removed
<1>2. CASE Contains(list, m)
  <2> DEFINE p == Min(Places(list, m))
  <2>1. p \in 1..Len(list) /\ Removed(list, m) = Lists!RemoveAt(list, p)
    BY <1>2, FirstPlace DEF Removed
  <2> HIDE DEF p
  <2> DEFINE new == Lists!RemoveAt(list, p)
  <2>2. /\ new \in Seq(Model) /\ Len(new) = Len(list) - 1
        /\ \A i \in 1..Len(new) : new[i] = IF i < p THEN list[i] ELSE list[i + 1]
    BY <2>1, RemoveAtElements
  <2> HIDE DEF new
  <2>3. Ordered(list) => Ordered(new)
    BY <2>1, <2>2 DEF Ordered
  <2>4. \A i \in 1..Len(new) : \E j \in 1..Len(list) : new[i] = list[j]
    <3>1. ASSUME NEW i \in 1..Len(new) PROVE \E j \in 1..Len(list) : new[i] = list[j]
      <4>1. i < p => new[i] = list[i] /\ i \in 1..Len(list)
        BY <2>1, <2>2
      <4>2. ~(i < p) => new[i] = list[i + 1] /\ i + 1 \in 1..Len(list)
        BY <2>1, <2>2
      <4> QED BY <4>1, <4>2
    <3> QED BY <3>1
  <2> QED BY <1>2, <2>1, <2>2, <2>3, <2>4 DEF new
<1> QED BY <1>1, <1>2

\* insertItem puts an item where its rank belongs, from whatever index it starts.
LEMMA InsertedList ==
  ASSUME NEW list \in Seq(Model), NEW m \in Model, NEW index \in 0..Len(list), Ordered(list),
         Dereferenced(SourceOf(m)) = Dereferenced(m)
  PROVE  Ordered(Inserted(list, m, index))
<1>1. CASE Contains(list, m)
  BY <1>1 DEF Inserted
<1>2. CASE ~Contains(list, m)
  <2> DEFINE d == Dereferenced(m)
             p == ClassIndex(list, d, index)
             q == TopIndex(list, d, p)
             e == SourceOf(m)
             new == Lists!InsertAt(list, 1 + q, e)
  <2>1. Inserted(list, m, index) = new
    BY <1>2 DEF Inserted, Position
  <2>2. ClassOrdered(list)
    BY OrderedByClass
  <2>3. /\ p \in 0..Len(list)
        /\ Movable(d) => \A k \in p + 1..Len(list) : Movable(Shown(list, k))
        /\ ~Movable(d) => \A k \in 1..p : ~Movable(Shown(list, k))
    <3> HIDE DEF p, d
    <3> QED BY <2>2, ClassIndexSeparates DEF p
  <2>4. /\ q \in 0..Len(list)
        /\ \A k \in 1..q : Rank(Shown(list, k)) <= Rank(d)
        /\ \A k \in q + 1..Len(list) : Rank(d) <= Rank(Shown(list, k))
    <3> HIDE DEF p, d
    <3> HIDE DEF q
    <3> QED BY <2>3, TopIndexFits DEF q
  <2> HIDE DEF q
  <2>5. e \in Model
    BY SourceIsModel
  <2>6. /\ new \in Seq(Model) /\ Len(new) = Len(list) + 1
        /\ \A i \in 1..Len(new) :
             new[i] = IF i < 1 + q THEN list[i] ELSE IF i = 1 + q THEN e ELSE list[i - 1]
    <3>1. 1 + q \in 1..Len(list) + 1
      BY <2>4
    <3> HIDE DEF e
    <3> QED BY <2>5, <3>1, InsertAtElements
  <2>7. Dereferenced(e) = d
    OBVIOUS
  <2> HIDE DEF new, d, e
  <2>8. ASSUME NEW i \in 1..Len(new), NEW j \in 1..Len(new), i < j
        PROVE  Rank(Dereferenced(new[i])) <= Rank(Dereferenced(new[j]))
    <3>1. CASE j < 1 + q
      BY <2>4, <2>6, <2>8, <3>1 DEF Ordered
    <3>2. CASE j = 1 + q
      BY <2>4, <2>6, <2>7, <2>8, <3>2 DEF Shown
    <3>3. CASE j > 1 + q /\ i = 1 + q
      <4>1. j - 1 \in q + 1..Len(list) /\ new[j] = list[j - 1] /\ new[i] = e
        BY <2>4, <2>6, <3>3
      <4> QED BY <2>4, <2>7, <4>1 DEF Shown
    <3>4. CASE j > 1 + q /\ i < 1 + q
      <4>1. /\ i \in 1..Len(list) /\ j - 1 \in 1..Len(list) /\ i < j - 1
            /\ new[j] = list[j - 1] /\ new[i] = list[i]
        BY <2>4, <2>6, <3>4
      <4> QED BY <4>1 DEF Ordered
    <3>5. CASE j > 1 + q /\ i > 1 + q
      <4>1. i - 1 \in 1..Len(list) /\ j - 1 \in 1..Len(list) /\ i - 1 < j - 1
        BY <2>4, <2>6, <2>8, <3>5
      <4>2. new[j] = list[j - 1]
        BY <2>4, <2>6, <3>5
      <4>3. new[i] = list[i - 1]
        BY <2>4, <2>6, <3>5
      <4> QED BY <4>1, <4>2, <4>3 DEF Ordered
    <3> QED BY <2>4, <3>1, <3>2, <3>3, <3>4, <3>5
  <2> QED BY <2>1, <2>8 DEF Ordered
<1> QED BY <1>1, <1>2

\* Wherever insertItem starts, its loops stay within the list, ordered or not.
LEMMA ClassIndexInRange ==
  ASSUME NEW list \in Seq(Model), NEW m, NEW index \in 0..Len(list)
  PROVE  ClassIndex(list, m, index) \in 0..Len(list)
<1>1. CASE Movable(m)
  <2> DEFINE Stops == {i \in index..Len(list) : i = Len(list) \/ ~ ~Movable(Dereferenced(list[i + 1]))}
  <2>1. ClassIndex(list, m, index) = Min(Stops)
    BY <1>1 DEF ClassIndex, Down
  <2>2. Stops \in SUBSET Nat /\ Len(list) \in Stops
    OBVIOUS
  <2>3. Min(Stops) \in Stops
    BY <2>2, LeastElement
  <2> QED BY <2>1, <2>3
<1>2. CASE ~Movable(m)
  <2> DEFINE Stops == {i \in 0..index : i = 0 \/ ~Movable(Dereferenced(list[i]))}
  <2>1. ClassIndex(list, m, index) = Max(Stops)
    BY <1>2 DEF ClassIndex, Up
  <2>2. Stops \in SUBSET (0..index) /\ 0 \in Stops /\ index \in Nat
    OBVIOUS
  <2>3. Max(Stops) \in Stops
    BY <2>2, GreatestElement
  <2> QED BY <2>1, <2>3
<1> QED BY <1>1, <1>2

LEMMA TopIndexInRange ==
  ASSUME NEW list \in Seq(Model), NEW m, NEW p \in 0..Len(list)
  PROVE  TopIndex(list, m, p) \in 0..Len(list)
<1> DEFINE Alike(o) == Movable(o) <=> Movable(m)
<1>1. CASE OnTop(m)
  <2> DEFINE Stops == {i \in 0..p : i = 0 \/ ~(~OnTop(Dereferenced(list[i])) /\ Alike(Dereferenced(list[i])))}
  <2>1. TopIndex(list, m, p) = Max(Stops)
    BY <1>1 DEF TopIndex, Up
  <2>2. Stops \in SUBSET (0..p) /\ 0 \in Stops /\ p \in Nat
    OBVIOUS
  <2>3. Max(Stops) \in Stops
    BY <2>2, GreatestElement
  <2> QED BY <2>1, <2>3
<1>2. CASE ~OnTop(m)
  <2> DEFINE Stops == {i \in p..Len(list) : i = Len(list) \/
                         ~(OnTop(Dereferenced(list[i + 1])) /\ Alike(Dereferenced(list[i + 1])))}
  <2>1. TopIndex(list, m, p) = Min(Stops)
    BY <1>2 DEF TopIndex, Down
  <2>2. Stops \in SUBSET Nat /\ Len(list) \in Stops
    OBVIOUS
  <2>3. Min(Stops) \in Stops
    BY <2>2, LeastElement
  <2> QED BY <2>1, <2>3
<1> QED BY <1>1, <1>2

\* The models of a list after insertItem.
LEMMA InsertedModels ==
  ASSUME NEW list \in Seq(Model), NEW m \in Model, NEW index \in 0..Len(list)
  PROVE  /\ Inserted(list, m, index) \in Seq(Model)
         /\ \A i \in 1..Len(Inserted(list, m, index)) :
              \/ Inserted(list, m, index)[i] = SourceOf(m)
              \/ \E j \in 1..Len(list) : Inserted(list, m, index)[i] = list[j]
<1>1. CASE Contains(list, m)
  BY <1>1 DEF Inserted
<1>2. CASE ~Contains(list, m)
  <2> DEFINE q == Position(list, Dereferenced(m), index)
             e == SourceOf(m)
             new == Lists!InsertAt(list, 1 + q, e)
  <2>1. Inserted(list, m, index) = new
    BY <1>2 DEF Inserted
  <2>2. 1 + q \in 1..Len(list) + 1
    <3>1. q \in 0..Len(list)
      BY ClassIndexInRange, TopIndexInRange DEF Position
    <3> HIDE DEF q
    <3> QED BY <3>1
  <2>3. e \in Model
    BY SourceIsModel
  <2> HIDE DEF q, e
  <2>4. /\ new \in Seq(Model) /\ Len(new) = Len(list) + 1
        /\ \A i \in 1..Len(new) :
             new[i] = IF i < 1 + q THEN list[i] ELSE IF i = 1 + q THEN e ELSE list[i - 1]
    BY <2>2, <2>3, InsertAtElements
  <2> HIDE DEF new
  <2>5. ASSUME NEW i \in 1..Len(new)
        PROVE  new[i] = e \/ \E j \in 1..Len(list) : new[i] = list[j]
    <3>1. i < 1 + q => new[i] = list[i] /\ i \in 1..Len(list)
      BY <2>2, <2>4
    <3>2. i = 1 + q => new[i] = e
      BY <2>2, <2>4
    <3>3. i > 1 + q => new[i] = list[i - 1] /\ i - 1 \in 1..Len(list)
      BY <2>2, <2>4
    <3>4. i < 1 + q \/ i = 1 + q \/ i > 1 + q
      BY <2>2, <2>4
    <3> QED BY <3>1, <3>2, <3>3, <3>4
  <2> QED BY <2>1, <2>4, <2>5 DEF e
<1> QED BY <1>1, <1>2


-----------------------------------------------------------------------------
(* What the list contains *)

\* Where no reference leads to another, whatever is shown is not dereferenced again.
LEMMA ShownItself ==
  ASSUME NoNesting, resolved \subseteq Reference, NEW m \in Model
  PROVE  Dereferenced(Dereferenced(m)) = Dereferenced(m)
BY DEF NoNesting, Dereferenced

\* contains() asks whether the list shows what the model shows.
LEMMA ContainsShown ==
  ASSUME NoNesting, resolved \subseteq Reference, NEW list \in Seq(Model), NEW m \in Model,
         NEW i \in 1..Len(list)
  PROVE  i \in Places(list, m) <=> Dereferenced(list[i]) = Dereferenced(m)
<1>1. list[i] \in Model
  OBVIOUS
<1>2. Dereferenced(Dereferenced(list[i])) = Dereferenced(list[i])
  BY <1>1, ShownItself
<1> QED BY <1>2 DEF Places

\* remove() leaves everything but one entry, which showed what was removed.
LEMMA RemovedKeeps ==
  ASSUME NoNesting, resolved \subseteq Reference, NEW list \in Seq(Model), NEW m \in Model
  PROVE  /\ Lists!IsInjective(list) => Lists!IsInjective(Removed(list, m))
         /\ \A i \in 1..Len(list) : Dereferenced(list[i]) # Dereferenced(m) =>
              \E j \in 1..Len(Removed(list, m)) : Removed(list, m)[j] = list[i]
<1>1. CASE ~Contains(list, m)
  BY <1>1 DEF Removed
<1>2. CASE Contains(list, m)
  <2> DEFINE p == Min(Places(list, m))
             new == Lists!RemoveAt(list, p)
  <2>1. p \in 1..Len(list) /\ Removed(list, m) = new
    BY <1>2, FirstPlace DEF Removed
  <2>2. Dereferenced(list[p]) = Dereferenced(m)
    <3>1. Places(list, m) \in SUBSET Nat /\ Places(list, m) # {}
      BY <1>2 DEF Places, Contains
    <3>2. p \in Places(list, m)
      BY <3>1, LeastElement
    <3> HIDE DEF p
    <3> QED BY <2>1, <3>2, ContainsShown
  <2> HIDE DEF p
  <2>3. /\ new \in Seq(Model) /\ Len(new) = Len(list) - 1
        /\ \A i \in 1..Len(new) : new[i] = IF i < p THEN list[i] ELSE list[i + 1]
    BY <2>1, RemoveAtElements
  <2> HIDE DEF new
  <2>4. Lists!IsInjective(list) => Lists!IsInjective(new)
    <3> SUFFICES ASSUME Lists!IsInjective(list), NEW a \in 1..Len(new), NEW b \in 1..Len(new),
                        new[a] = new[b]
                 PROVE  a = b
      BY <2>3 DEF Lists!IsInjective
    <3> DEFINE old(i) == IF i < p THEN i ELSE i + 1
    <3>1. old(a) \in 1..Len(list) /\ old(b) \in 1..Len(list)
      BY <2>1, <2>3
    <3>2. list[old(a)] = list[old(b)]
      BY <2>3
    <3>3. old(a) = old(b)
      BY <3>1, <3>2 DEF Lists!IsInjective
    <3> QED BY <2>1, <3>3
  <2>5. ASSUME NEW i \in 1..Len(list), Dereferenced(list[i]) # Dereferenced(m)
        PROVE  \E j \in 1..Len(new) : new[j] = list[i]
    <3>1. i # p
      BY <2>2, <2>5
    <3>2. CASE i < p
      BY <2>1, <2>3, <3>2
    <3>3. CASE i > p
      <4>1. i - 1 \in 1..Len(new) /\ new[i - 1] = list[i]
        BY <2>1, <2>3, <3>3
      <4> QED BY <4>1
    <3> QED BY <2>1, <3>1, <3>2, <3>3
  <2> QED BY <2>1, <2>4, <2>5
<1> QED BY <1>1, <1>2

\* insertItem leaves every entry there was, and one that shows what was inserted.
LEMMA InsertedKeeps ==
  ASSUME NoNesting, resolved \subseteq Reference, NEW list \in Seq(Model), NEW m \in Model,
         Exists(m), NEW index \in 0..Len(list)
  PROVE  LET new == Inserted(list, m, index) IN
         /\ Lists!IsInjective(list) => Lists!IsInjective(new)
         /\ \A i \in 1..Len(list) : \E j \in 1..Len(new) : new[j] = list[i]
         /\ \E j \in 1..Len(new) : Dereferenced(new[j]) = Dereferenced(m)
<1>1. CASE Contains(list, m)
  <2>1. Inserted(list, m, index) = list
    BY <1>1 DEF Inserted
  <2>2. PICK i \in 1..Len(list) : i \in Places(list, m)
    BY <1>1 DEF Contains, Places
  <2> QED BY <2>1, <2>2, ContainsShown
<1>2. CASE ~Contains(list, m)
  <2> DEFINE q == Position(list, Dereferenced(m), index)
             e == SourceOf(m)
             new == Lists!InsertAt(list, 1 + q, e)
  <2>1. Inserted(list, m, index) = new
    BY <1>2 DEF Inserted
  <2>2. q \in 0..Len(list)
    BY ClassIndexInRange, TopIndexInRange DEF Position
  <2>3. e \in Model /\ Dereferenced(e) = Dereferenced(m)
    BY SourceIsModel, SourceShows
  <2> HIDE DEF q, e
  <2>4. 1 + q \in 1..Len(list) + 1
    BY <2>2
  <2>5. /\ new \in Seq(Model) /\ Len(new) = Len(list) + 1
        /\ \A i \in 1..Len(new) :
             new[i] = IF i < 1 + q THEN list[i] ELSE IF i = 1 + q THEN e ELSE list[i - 1]
    BY <2>3, <2>4, InsertAtElements
  <2> HIDE DEF new
  <2>6. \A i \in 1..Len(list) : list[i] # e
    <3> SUFFICES ASSUME NEW i \in 1..Len(list), list[i] = e PROVE FALSE
      OBVIOUS
    <3>1. i \in Places(list, m)
      BY <2>3, ContainsShown
    <3> QED BY <1>2, <3>1 DEF Contains
  <2>7. Lists!IsInjective(list) => Lists!IsInjective(new)
    <3> SUFFICES ASSUME Lists!IsInjective(list), NEW a \in 1..Len(new), NEW b \in 1..Len(new),
                        new[a] = new[b]
                 PROVE  a = b
      BY <2>5 DEF Lists!IsInjective
    <3> DEFINE old(i) == IF i < 1 + q THEN i ELSE i - 1
    <3>1. \A i \in 1..Len(new) : i # 1 + q => old(i) \in 1..Len(list) /\ new[i] = list[old(i)]
      BY <2>2, <2>5
    <3>2. new[1 + q] = e
      BY <2>2, <2>5
    <3>3. CASE a = 1 + q \/ b = 1 + q
      <4> HIDE DEF old
      <4> QED BY <2>6, <3>1, <3>2, <3>3
    <3>4. CASE a # 1 + q /\ b # 1 + q
      <4>1. old(a) = old(b)
        <5> HIDE DEF old
        <5> QED BY <3>1, <3>4 DEF Lists!IsInjective
      <4> QED BY <2>2, <3>4, <4>1
    <3> QED BY <3>3, <3>4
  <2>8. ASSUME NEW i \in 1..Len(list) PROVE \E j \in 1..Len(new) : new[j] = list[i]
    <3>1. CASE i < 1 + q
      <4>1. i \in 1..Len(new) /\ new[i] = list[i]
        BY <2>5, <3>1
      <4> QED BY <4>1
    <3>2. CASE i >= 1 + q
      <4>1. i + 1 \in 1..Len(new) /\ new[i + 1] = list[i]
        BY <2>2, <2>5, <3>2
      <4> QED BY <4>1
    <3> QED BY <2>2, <3>1, <3>2
  <2>9. 1 + q \in 1..Len(new) /\ new[1 + q] = e
    BY <2>2, <2>5
  <2> QED BY <2>1, <2>3, <2>7, <2>8, <2>9
<1> QED BY <1>1, <1>2

-----------------------------------------------------------------------------
(* The invariant, and the order *)

Sources(list) == \A i \in 1..Len(list), r \in Reference : ~IsSource(r, list[i])

\* The list holds references in place of the targets they construct.
ListHoldsSources == Sources(items)

IInv == TypeOK /\ ListHoldsSources

\* insertItem with a model that exists.
LEMMA InsertStep ==
  ASSUME NoNesting, resolved \subseteq Reference, NEW list \in Seq(Model), Sources(list),
         NEW m \in Model, Exists(m), NEW index \in 0..Len(list)
  PROVE  LET new == Inserted(list, m, index) IN
         new \in Seq(Model) /\ Sources(new) /\ (Ordered(list) => Ordered(new))
<1> DEFINE new == Inserted(list, m, index)
<1>1. new \in Seq(Model)
  BY InsertedModels
<1>2. Ordered(list) => Ordered(new)
  BY SourceShows, InsertedList
<1>3. \A r \in Reference : ~IsSource(r, SourceOf(m))
  <2>1. CASE \E q \in Reference : IsSource(q, m)
    <3>1. SourceOf(m) \in Reference
      BY <2>1 DEF SourceOf
    <3> QED BY <3>1 DEF IsSource, NoNesting
  <2>2. CASE ~ \E q \in Reference : IsSource(q, m)
    BY <2>2 DEF SourceOf
  <2> QED BY <2>1, <2>2
<1>4. \A i \in 1..Len(new) : new[i] = SourceOf(m) \/ \E j \in 1..Len(list) : new[i] = list[j]
  BY InsertedModels
<1> HIDE DEF new
<1>5. Sources(new)
  BY <1>3, <1>4 DEF Sources
<1> QED BY <1>1, <1>2, <1>5 DEF new

LEMMA RemoveStep ==
  ASSUME NEW list \in Seq(Model), Sources(list), NEW m
  PROVE  LET new == Removed(list, m) IN
         new \in Seq(Model) /\ Sources(new) /\ (Ordered(list) => Ordered(new))
<1> DEFINE new == Removed(list, m)
<1>1. new \in Seq(Model) /\ (Ordered(list) => Ordered(new))
  BY RemovedList
<1>2. \A i \in 1..Len(new) : \E j \in 1..Len(list) : new[i] = list[j]
  BY RemovedList
<1> HIDE DEF new
<1>3. Sources(new)
  BY <1>2 DEF Sources
<1> QED BY <1>1, <1>3 DEF new

\* The target of a reference that has one exists.
LEMMA TargetExists ==
  ASSUME NEW r \in resolved, resolved \subseteq Reference
  PROVE  TargetOf[r] \in Model /\ Exists(TargetOf[r])
BY ModelAssumption DEF ModelAssumption, Exists, IsSource

LEMMA Step ==
  ASSUME NoNesting, IInv, [Next]_vars
  PROVE  IInv' /\ (Ordered(items) /\ UNCHANGED resolved => Ordered(items'))
<1> DEFINE Good == items' \in Seq(Model) /\ Sources(items') /\ (Ordered(items) => Ordered(items'))
<1>0. /\ items \in Seq(Model) /\ Sources(items) /\ resolved \subseteq Reference
      /\ adding \in [Slot -> [stage : Stage, item : Model]] /\ disturbed \subseteq Slot
      /\ doubled \subseteq Model
  BY DEF IInv, TypeOK, ListHoldsSources, Sources
<1>1. ASSUME NEW s \in Slot, NEW m \in Model, Add(s, m) PROVE Good /\ IInv'
  <2>1. 0 \in 0..Len(items)
    BY <1>0
  <2>2. Good
    BY <1>0, <1>1, <2>1, InsertStep DEF Add
  <2>3. adding' \in [Slot -> [stage : Stage, item : Model]] /\ disturbed' \subseteq Slot
    BY <1>0, <1>1 DEF Add, FirstStage, Stage
  <2> QED BY <1>0, <1>1, <2>2, <2>3 DEF Add, Settle, IInv, TypeOK, ListHoldsSources, Sources
<1>2. ASSUME NEW s \in Slot, AddTarget(s) PROVE Good /\ IInv'
  <2> DEFINE r == adding[s].item
             list == Removed(items, r)
             m == TargetOf[r]
  <2>1. r \in resolved /\ items' = Inserted(list, m, 0) /\ UNCHANGED <<resolved, disturbed>>
        /\ doubled' \subseteq Model
    BY <1>0, <1>2 DEF AddTarget, Settle
  <2>2. m \in Model /\ Exists(m)
    BY <1>0, <2>1, TargetExists
  <2>3. list \in Seq(Model) /\ Sources(list) /\ (Ordered(items) => Ordered(list))
    BY <1>0, RemoveStep
  <2>4. adding' \in [Slot -> [stage : Stage, item : Model]]
    BY <1>0, <1>2, <2>2 DEF AddTarget, FirstStage, Stage
  <2> HIDE DEF list, m
  <2>5. 0 \in 0..Len(list)
    BY <2>3
  <2>6. Good
    BY <1>0, <2>1, <2>2, <2>3, <2>5, InsertStep
  <2> QED BY <1>0, <2>1, <2>4, <2>6 DEF IInv, TypeOK, ListHoldsSources, Sources
<1>3. ASSUME NEW s \in Slot, NEW severity \in Severity, Finish(s, severity) PROVE Good /\ IInv'
  <2>1. Good
    BY <1>0, <1>3, RemoveStep DEF Finish
  <2>2. adding' \in [Slot -> [stage : Stage, item : Model]] /\ disturbed' \subseteq Slot
    BY <1>0, <1>3 DEF Finish, Stage
  <2> QED BY <1>0, <1>3, <2>1, <2>2 DEF Finish, Settle, IInv, TypeOK, ListHoldsSources, Sources
<1>4. ASSUME NEW s \in Slot, Continue(s) PROVE Good /\ IInv'
  <2>1. CASE AddTarget(s)
    BY <1>2, <2>1
  <2>2. CASE ReferenceFails(s)
    BY <1>3, <2>2 DEF ReferenceFails
  <2>3. ASSUME NEW severity \in Severity, MetadataReturns(s, severity) PROVE Good /\ IInv'
    <3>1. CASE Finish(s, severity)
      BY <1>3, <3>1
    <3>2. CASE adding' = [adding EXCEPT ![s].stage = "mapItems"] /\ UNCHANGED <<items, resolved, disturbed, doubled>>
      BY <1>0, <3>2 DEF IInv, TypeOK, ListHoldsSources, Sources, Stage
    <3> QED BY <2>3, <3>1, <3>2 DEF MetadataReturns
  <2>4. ASSUME NEW severity \in Severity, MapItemsReturn(s, severity) PROVE Good /\ IInv'
    BY <1>3, <2>4 DEF MapItemsReturn
  <2> QED BY <1>4, <2>1, <2>2, <2>3, <2>4 DEF Continue
<1>5. ASSUME NEW m \in Model, Remove(m) PROVE Good /\ IInv'
  <2>1. Good
    BY <1>0, <1>5, RemoveStep DEF Remove
  <2> QED BY <1>0, <1>5, <2>1 DEF Remove, Settle, IInv, TypeOK, ListHoldsSources, Sources
<1>6. ASSUME NEW from \in 1..Len(items), NEW index \in 0..Len(items) - 1,
             MoveItemToIndex(Dereferenced(items[from]), index)
      PROVE  Good /\ IInv'
  <2> DEFINE m == Dereferenced(items[from])
             list == Removed(items, m)
  <2>1. Contains(items, m) /\ items' = Inserted(list, m, index) /\ UNCHANGED <<resolved, adding, disturbed>>
        /\ doubled' \subseteq Model
    BY <1>0, <1>6 DEF MoveItemToIndex, Settle
  <2>2. m \in Model /\ Exists(m)
    <3>1. CASE items[from] \in resolved
      BY <1>0, <3>1, TargetExists DEF Dereferenced
    <3>2. CASE items[from] \notin resolved
      BY <1>0, <3>2 DEF Dereferenced, Sources, Exists
    <3> QED BY <3>1, <3>2
  <2> HIDE DEF m
  <2>3. list \in Seq(Model) /\ Sources(list) /\ (Ordered(items) => Ordered(list))
    BY <1>0, RemoveStep
  <2>4. index \in 0..Len(list)
    BY <1>0, <2>1, RemovedList
  <2> HIDE DEF list
  <2>5. Good
    BY <1>0, <2>1, <2>2, <2>3, <2>4, InsertStep
  <2> QED BY <1>0, <2>1, <2>5 DEF IInv, TypeOK, ListHoldsSources, Sources
<1>7. CASE RemoveAll
  <2>1. items' = << >> /\ UNCHANGED <<resolved, adding>> /\ disturbed' = Slot
        /\ doubled' \subseteq Model
    BY <1>0, <1>7 DEF RemoveAll, Settle
  <2>2. Good
    BY <2>1 DEF Sources, Ordered
  <2> QED BY <1>0, <2>1, <2>2 DEF IInv, TypeOK, ListHoldsSources, Sources
<1>8. ASSUME NEW r \in Reference, ReferenceLoads(r)
      PROVE  IInv' /\ (UNCHANGED resolved => (Ordered(items) => Ordered(items')))
  BY <1>0, <1>8, ModelAssumption DEF ReferenceLoads, ModelAssumption, IInv, TypeOK, ListHoldsSources, Sources
<1>9. CASE UNCHANGED vars
  BY <1>0, <1>9 DEF vars, IInv, TypeOK, ListHoldsSources, Sources
<1> QED BY <1>1, <1>4, <1>5, <1>6, <1>7, <1>8, <1>9 DEF Next

LEMMA Start == Init => IInv
<1> SUFFICES ASSUME Init PROVE IInv
  OBVIOUS
<1>1. items \in Seq(Model) /\ ListHoldsSources /\ resolved \subseteq Reference /\ disturbed \subseteq Slot
      /\ doubled \subseteq Model
  BY DEF Init, ListHoldsSources, Sources
<1>2. adding \in [Slot -> [stage : Stage, item : Model]]
  <2>1. (CHOOSE m \in Model : TRUE) \in Model
    BY ModelAssumption DEF ModelAssumption
  <2> QED BY <2>1 DEF Init, Stage
<1> QED BY <1>1, <1>2 DEF IInv, TypeOK

-----------------------------------------------------------------------------
(* Nothing is there twice, and what was added stays *)

Shows(list, m) == \E i \in 1..Len(list) : Dereferenced(list[i]) = Dereferenced(m)

LEMMA ContainsIsShows ==
  ASSUME NoNesting, resolved \subseteq Reference, NEW list \in Seq(Model), NEW m \in Model
  PROVE  Contains(list, m) <=> Shows(list, m)
<1>1. \A i \in 1..Len(list) : i \in Places(list, m) <=> Dereferenced(list[i]) = Dereferenced(m)
  BY ContainsShown
<1> QED BY <1>1 DEF Contains, Shows, Places

Kept == NoDuplicates /\ \A s \in Slot \ disturbed : Shows(items, adding[s].item)

LEMMA KeptIs == ASSUME NoNesting, IInv PROVE Kept <=> NoDuplicates /\ AddedStays
<1>1. items \in Seq(Model) /\ resolved \subseteq Reference /\ \A s \in Slot : adding[s].item \in Model
  BY DEF IInv, TypeOK
<1>2. \A s \in Slot : Contains(items, adding[s].item) <=> Shows(items, adding[s].item)
  BY <1>1, ContainsIsShows
<1> QED BY <1>2 DEF Kept, AddedStays

\* Taking a model out and putting the same one in, anywhere, loses nothing.
LEMMA Replaced ==
  ASSUME NoNesting, resolved \subseteq Reference, NEW list \in Seq(Model), NEW out \in Model,
         NEW m \in Model, Exists(m), Dereferenced(out) = Dereferenced(m),
         NEW index \in 0..Len(Removed(list, out)), Lists!IsInjective(list)
  PROVE  LET new == Inserted(Removed(list, out), m, index) IN
         /\ Lists!IsInjective(new)
         /\ Shows(new, m)
         /\ \A o \in Model : Shows(list, o) => Shows(new, o)
<1> DEFINE less == Removed(list, out)
           new  == Inserted(less, m, index)
<1>1. less \in Seq(Model) /\ Lists!IsInjective(less)
  BY RemovedList, RemovedKeeps
<1>2. \A i \in 1..Len(list) : Dereferenced(list[i]) # Dereferenced(out) =>
        \E j \in 1..Len(less) : less[j] = list[i]
  BY RemovedKeeps
<1> HIDE DEF less
<1>3. /\ Lists!IsInjective(new)
      /\ \A i \in 1..Len(less) : \E j \in 1..Len(new) : new[j] = less[i]
      /\ \E j \in 1..Len(new) : Dereferenced(new[j]) = Dereferenced(m)
  BY <1>1, InsertedKeeps DEF less
<1> HIDE DEF new
<1>4. ASSUME NEW o \in Model, Shows(list, o) PROVE Shows(new, o)
  BY <1>2, <1>3, <1>4 DEF Shows
<1> QED BY <1>3, <1>4 DEF Shows, new, less

LEMMA FinishKeeps ==
  ASSUME NoNesting, IInv, Kept, NEW s \in Slot, NEW severity \in Severity, Finish(s, severity)
  PROVE  Kept'
<1>0. /\ items \in Seq(Model) /\ resolved \subseteq Reference
      /\ adding \in [Slot -> [stage : Stage, item : Model]]
  BY DEF IInv, TypeOK
<1>1. adding[s].item \in Model /\ \A u \in Slot : adding'[u].item = adding[u].item
  BY <1>0 DEF Finish
<1>2. Lists!IsInjective(items')
  BY <1>0, <1>1, RemovedKeeps DEF Finish, Kept, NoDuplicates
<1> QED BY <1>1, <1>2 DEF Finish, Kept, NoDuplicates, Shows, Dereferenced

LEMMA StepKeeps == ASSUME NoNesting, IInv, Kept, [Next]_vars PROVE Kept'
<1>0. /\ items \in Seq(Model) /\ resolved \subseteq Reference
      /\ adding \in [Slot -> [stage : Stage, item : Model]] /\ disturbed \subseteq Slot
      /\ Lists!IsInjective(items)
      /\ \A i \in 1..Len(items), r \in Reference : ~IsSource(r, items[i])
  BY DEF IInv, TypeOK, Kept, NoDuplicates, ListHoldsSources, Sources
<1>d. UNCHANGED resolved => \A m : Dereferenced(m)' = Dereferenced(m)
  BY DEF Dereferenced
<1>1. ASSUME NEW s \in Slot, NEW m \in Model, Add(s, m) PROVE Kept'
  <2>1. 0 \in 0..Len(items) /\ items' = Inserted(items, m, 0) /\ Exists(m) /\ UNCHANGED resolved
    BY <1>0, <1>1 DEF Add
  <2>2. /\ Lists!IsInjective(items')
        /\ \A i \in 1..Len(items) : \E j \in 1..Len(items') : items'[j] = items[i]
        /\ \E j \in 1..Len(items') : Dereferenced(items'[j]) = Dereferenced(m)
    BY <1>0, <2>1, InsertedKeeps
  <2>3. adding'[s].item = m /\ \A u \in Slot : u # s => adding'[u].item = adding[u].item
    BY <1>0, <1>1 DEF Add
  <2>4. ASSUME NEW u \in Slot \ disturbed' PROVE Shows(items, adding[u].item)' 
    <3>1. CASE u = s
      BY <1>d, <2>1, <2>2, <2>3, <3>1 DEF Shows
    <3>2. CASE u # s
      <4>1. Shows(items, adding[u].item)
        BY <1>1, <2>4, <3>2 DEF Add, Kept
      <4> QED BY <1>d, <2>1, <2>2, <2>3, <3>2, <4>1 DEF Shows
    <3> QED BY <3>1, <3>2
  <2> QED BY <2>2, <2>4 DEF Kept, NoDuplicates
<1>2. ASSUME NEW s \in Slot, AddTarget(s) PROVE Kept'
  <2> DEFINE r == adding[s].item
             m == TargetOf[r]
             less == Removed(items, r)
  <2>1. r \in resolved /\ items' = Inserted(less, m, 0) /\ UNCHANGED <<resolved, disturbed>>
    BY <1>2 DEF AddTarget
  <2>2. m \in Model /\ Exists(m) /\ r \in Model
    BY <1>0, <2>1, TargetExists, ModelAssumption DEF ModelAssumption
  <2>3. Dereferenced(r) = m /\ Dereferenced(m) = m
    BY <1>0, <2>1 DEF Dereferenced, NoNesting
  <2>4. 0 \in 0..Len(less)
    BY <1>0, RemovedList
  <2>5. adding'[s].item = m /\ \A u \in Slot : u # s => adding'[u].item = adding[u].item
    BY <1>0, <1>2 DEF AddTarget
  <2> HIDE DEF r, m
  <2>6. /\ Lists!IsInjective(items')
        /\ \A o \in Model : Shows(items, o) => Shows(items', o)
    BY <1>0, <2>1, <2>2, <2>3, <2>4, Replaced
  <2>7. ASSUME NEW u \in Slot \ disturbed' PROVE Shows(items, adding[u].item)'
    <3>1. Shows(items', adding[u].item)
      BY <1>0, <2>1, <2>6, <2>7 DEF Kept
    <3>2. CASE u = s
      BY <1>d, <2>1, <2>3, <2>5, <3>1, <3>2 DEF Shows, r
    <3>3. CASE u # s
      BY <1>d, <2>1, <2>5, <3>1, <3>3 DEF Shows
    <3> QED BY <3>2, <3>3
  <2> QED BY <2>6, <2>7 DEF Kept, NoDuplicates
<1>3. ASSUME NEW s \in Slot, Continue(s) PROVE Kept'
  <2>1. CASE ReferenceFails(s)
    BY <2>1, FinishKeeps DEF ReferenceFails
  <2>2. ASSUME NEW severity \in Severity, MetadataReturns(s, severity) PROVE Kept'
    <3>1. CASE Finish(s, severity)
      BY <3>1, FinishKeeps
    <3>2. CASE adding' = [adding EXCEPT ![s].stage = "mapItems"] /\ UNCHANGED <<items, resolved, disturbed, doubled>>
      <4>1. \A u \in Slot : adding'[u].item = adding[u].item
        BY <1>0, <3>2
      <4> QED BY <1>d, <3>2, <4>1 DEF Kept, NoDuplicates, Shows
    <3> QED BY <2>2, <3>1, <3>2 DEF MetadataReturns
  <2>3. ASSUME NEW severity \in Severity, MapItemsReturn(s, severity) PROVE Kept'
    BY <2>3, FinishKeeps DEF MapItemsReturn
  <2> QED BY <1>2, <1>3, <2>1, <2>2, <2>3 DEF Continue
<1>4. ASSUME NEW m \in Model, Remove(m) PROVE Kept'
  BY <1>0, <1>4, RemovedKeeps DEF Remove, Kept, NoDuplicates
<1>5. ASSUME NEW from \in 1..Len(items), NEW index \in 0..Len(items) - 1,
             MoveItemToIndex(Dereferenced(items[from]), index)
      PROVE  Kept'
  <2> DEFINE m == Dereferenced(items[from])
  <2>1. /\ Contains(items, m) /\ UNCHANGED <<resolved, adding, disturbed>>
        /\ items' = Inserted(Removed(items, m), m, index)
    BY <1>5 DEF MoveItemToIndex
  <2>2. m \in Model /\ Exists(m)
    <3>1. CASE items[from] \in resolved
      BY <1>0, <3>1, TargetExists DEF Dereferenced
    <3>2. CASE items[from] \notin resolved
      BY <1>0, <3>2 DEF Dereferenced, Exists
    <3> QED BY <3>1, <3>2
  <2> HIDE DEF m
  <2>3. index \in 0..Len(Removed(items, m))
    BY <1>0, <2>1, RemovedList
  <2>4. /\ Lists!IsInjective(items')
        /\ \A o \in Model : Shows(items, o) => Shows(items', o)
    BY <1>0, <2>1, <2>2, <2>3, Replaced
  <2>5. ASSUME NEW u \in Slot \ disturbed' PROVE Shows(items, adding[u].item)'
    <3>1. Shows(items', adding[u].item)
      BY <1>0, <2>1, <2>4, <2>5 DEF Kept
    <3> QED BY <1>d, <2>1, <3>1 DEF Shows
  <2> QED BY <2>4, <2>5 DEF Kept, NoDuplicates
<1>6. CASE RemoveAll
  BY <1>6 DEF RemoveAll, Kept, NoDuplicates, Lists!IsInjective
<1>7. ASSUME NEW r \in Reference, ReferenceLoads(r) PROVE Kept'
  <2>1. resolved' = resolved \union {r} /\ UNCHANGED <<items, adding, disturbed>>
    BY <1>7 DEF ReferenceLoads
  <2>2. ASSUME NEW a \in Model, NEW b \in Model, Dereferenced(a) = Dereferenced(b)
        PROVE  Dereferenced(a)' = Dereferenced(b)'
    BY <1>0, <2>1, <2>2 DEF Dereferenced, NoNesting
  <2>3. ASSUME NEW u \in Slot \ disturbed' PROVE Shows(items, adding[u].item)'
    <3>1. Shows(items, adding[u].item) /\ adding[u].item \in Model
      BY <1>0, <2>1, <2>3 DEF Kept
    <3> QED BY <1>0, <2>1, <2>2, <3>1 DEF Shows
  <2> QED BY <2>1, <2>3 DEF Kept, NoDuplicates
<1>8. CASE UNCHANGED vars
  BY <1>d, <1>8 DEF vars, Kept, NoDuplicates, Shows
<1> QED BY <1>1, <1>3, <1>4, <1>5, <1>6, <1>7, <1>8 DEF Next

\* No add, swap, removal or move to any index puts an ordered list out of order.
THEOREM OrderIsKept == NoNesting => (Spec => OrderKept)
<1> SUFFICES ASSUME NoNesting PROVE Spec => OrderKept
  OBVIOUS
<1>1. Init => IInv
  BY Start
<1>2. IInv /\ [Next]_vars => IInv'
  BY Step
<1>3. IInv /\ [Next]_vars => [Ordered(items) /\ UNCHANGED resolved => Ordered(items')]_vars
  BY Step
<1> QED BY <1>1, <1>2, <1>3, PTL DEF Spec, OrderKept

LEMMA KeepsAll == NoNesting => (Spec => [](IInv /\ Kept))
<1> SUFFICES ASSUME NoNesting PROVE Spec => [](IInv /\ Kept)
  OBVIOUS
<1>1. Init => IInv /\ Kept
  <2>1. Init => Kept
    BY DEF Init, Kept, NoDuplicates, Lists!IsInjective
  <2> QED BY <2>1, Start
<1>2. IInv /\ Kept /\ [Next]_vars => (IInv /\ Kept)'
  BY Step, StepKeeps
<1> QED BY <1>1, <1>2, PTL DEF Spec

\* insertItem's check by equality is enough: no mixture of adding, removing and moving
\* references and their targets brings a model onto the list twice.
THEOREM NothingTwice == NoNesting => (Spec => []NoDuplicates)
<1> SUFFICES ASSUME NoNesting PROVE Spec => []NoDuplicates
  OBVIOUS
<1>1. Spec => [](IInv /\ Kept)
  BY KeepsAll
<1>2. IInv /\ Kept => NoDuplicates
  BY DEF Kept
<1> QED BY <1>1, <1>2, PTL

\* Whatever else is added, moved or swapped for its target during an add(), its item stays
\* until an error or a user takes something out.
THEOREM WhatWasAddedStays == NoNesting => (Spec => []AddedStays)
<1> SUFFICES ASSUME NoNesting PROVE Spec => []AddedStays
  OBVIOUS
<1>1. Spec => [](IInv /\ Kept)
  BY KeepsAll
<1>2. IInv /\ Kept => AddedStays
  BY KeptIs
<1> QED BY <1>1, <1>2, PTL
-----------------------------------------------------------------------------
(* Two entries that show the same model *)

\* The entries that show d, and the adds about to swap a reference for its target d.
Alike(list, d) == {m \in Model : (\E i \in 1..Len(list) : list[i] = m) /\ Dereferenced(m) = d}
Count(list, d) == Cardinality(Alike(list, d))

Swaps(d) ==
  {s \in Slot : /\ adding[s].stage = "reference" /\ adding[s].item \in resolved
                /\ TargetOf[adding[s].item] = d}

\* A reference that loads may turn out to show what the list shows already; unless the
\* load was for somebody else, every such entry but one is matched by an add that has yet
\* to remove it.
Few == \A d \in Model : d \notin doubled => Count(items, d) <= 1 + Cardinality(Swaps(d))

\* What is no longer doubled is not shown twice.
Heals == \A d \in doubled : d \notin doubled' => d \notin Twice(items)'

LEMMA SettleHeals == Settle \/ UNCHANGED doubled => Heals
BY DEF Settle, Heals

LEMMA Counted ==
  ASSUME NEW list \in Seq(Model), NEW d
  PROVE  IsFiniteSet(Alike(list, d)) /\ Count(list, d) \in Nat
<1> DEFINE entries == {m \in Model : \E i \in 1..Len(list) : list[i] = m}
<1>1. list \in Surjection(1..Len(list), entries)
  BY DEF Surjection
<1>2. IsFiniteSet(1..Len(list))
  BY FS_Interval
<1>3. IsFiniteSet(entries)
  BY <1>1, <1>2, FS_Surjection
<1>4. Alike(list, d) \in SUBSET entries
  BY DEF Alike
<1> HIDE DEF entries
<1> QED BY <1>3, <1>4, FS_Subset, FS_CardinalityType DEF Count

LEMMA AtMostOne ==
  ASSUME NEW list \in Seq(Model), NEW S,
         \A i, j \in 1..Len(list) : list[i] \in S /\ list[j] \in S => i = j
  PROVE  Cardinality({m \in S : \E i \in 1..Len(list) : list[i] = m}) <= 1
<1> DEFINE found == {m \in S : \E i \in 1..Len(list) : list[i] = m}
<1>1. CASE found = {}
  <2> HIDE DEF found
  <2>1. Cardinality(found) = 0
    BY <1>1, FS_EmptySet
  <2> QED BY <2>1 DEF found
<1>2. CASE found # {}
  <2>1. PICK m \in found : TRUE
    BY <1>2
  <2>2. found = {m}
    BY <2>1
  <2> HIDE DEF found
  <2>3. Cardinality(found) = 1
    BY <2>2, FS_Singleton
  <2> QED BY <2>3 DEF found
<1> QED BY <1>1, <1>2

\* A model that is not shown twice has one entry at most.
LEMMA OneUnlessTwice ==
  ASSUME IInv', NEW d, d \notin Twice(items)'
  PROVE  Count(items, d)' <= 1
<1> DEFINE S == {m \in Model : Dereferenced(m)' = d}
<1>1. items' \in Seq(Model)
  BY DEF IInv, TypeOK
<1>2. \A i \in 1..Len(items') : \A k \in 1..(i - 1) :
        ~(Dereferenced(items[k])' = d /\ Dereferenced(items[i])' = d)
  BY DEF Twice
<1>3. \A i, j \in 1..Len(items') : items'[i] \in S /\ items'[j] \in S => i = j
  <2> SUFFICES ASSUME NEW i \in 1..Len(items'), NEW j \in 1..Len(items'),
                      items'[i] \in S, items'[j] \in S, i # j
               PROVE  FALSE
    OBVIOUS
  <2>1. CASE i < j
    <3>1. i \in 1..(j - 1)
      BY <1>1, <2>1
    <3> QED BY <1>2, <3>1
  <2>2. CASE j < i
    <3>1. j \in 1..(i - 1)
      BY <1>1, <2>2
    <3> QED BY <1>2, <3>1
  <2> QED BY <1>1, <2>1, <2>2
<1>4. Alike(items, d)' = {m \in S : \E i \in 1..Len(items') : items'[i] = m}
  BY DEF Alike
<1> HIDE DEF S
<1> QED BY <1>1, <1>3, <1>4, AtMostOne DEF Count

LEMMA FewerAlike ==
  ASSUME NEW list \in Seq(Model), NEW new \in Seq(Model), NEW d, Alike(new, d) \subseteq Alike(list, d)
  PROVE  Count(new, d) <= Count(list, d)
BY Counted, FS_Subset DEF Count

\* remove() takes one of the entries out that show what was removed, and no other.
LEMMA CountRemoved ==
  ASSUME NoNesting, resolved \subseteq Reference, NEW list \in Seq(Model),
         Lists!IsInjective(list), NEW m \in Model, NEW d
  PROVE  LET new == Removed(list, m) IN
         /\ Count(new, d) <= Count(list, d)
         /\ d = Dereferenced(m) /\ Count(list, d) # 0 => Count(new, d) = Count(list, d) - 1
<1> DEFINE new == Removed(list, m)
<1>1. new \in Seq(Model) /\ \A i \in 1..Len(new) : \E j \in 1..Len(list) : new[i] = list[j]
  BY RemovedList
<1>2. Count(new, d) <= Count(list, d)
  <2>1. Alike(new, d) \subseteq Alike(list, d)
    BY <1>1 DEF Alike
  <2> HIDE DEF new
  <2> QED BY <1>1, <2>1, FewerAlike
<1>3. ASSUME d = Dereferenced(m), Count(list, d) # 0 PROVE Count(new, d) = Count(list, d) - 1
  <2> DEFINE p == Min(Places(list, m))
             e == list[p]
  <2>1. PICK o \in Alike(list, d) : TRUE
    BY <1>3, FS_EmptySet DEF Count
  <2>2. Contains(list, m)
    BY <1>3, <2>1, ContainsShown DEF Alike, Contains
  <2>3. p \in 1..Len(list) /\ new = Lists!RemoveAt(list, p)
    BY <2>2, FirstPlace DEF Removed
  <2>4. p \in Places(list, m)
    <3>1. Places(list, m) \in SUBSET Nat /\ Places(list, m) # {}
      BY <2>2 DEF Places, Contains
    <3> QED BY <3>1, LeastElement
  <2> HIDE DEF p
  <2>5. e \in Alike(list, d)
    BY <1>3, <2>3, <2>4, ContainsShown DEF Alike
  <2>6. /\ Len(new) = Len(list) - 1
        /\ \A i \in 1..Len(new) : new[i] = IF i < p THEN list[i] ELSE list[i + 1]
    BY <2>3, RemoveAtElements
  <2> HIDE DEF new
  <2>7. \A i \in 1..Len(new) : new[i] # e
    <3> SUFFICES ASSUME NEW i \in 1..Len(new) PROVE new[i] # e
      OBVIOUS
    <3>1. CASE i < p
      BY <2>3, <2>6, <3>1 DEF Lists!IsInjective
    <3>2. CASE ~(i < p)
      <4>1. i + 1 \in 1..Len(list) /\ i + 1 # p /\ new[i] = list[i + 1]
        BY <2>3, <2>6, <3>2
      <4> QED BY <2>3, <4>1 DEF Lists!IsInjective
    <3> QED BY <3>1, <3>2
  <2>8. \A i \in 1..Len(list) : i # p => \E j \in 1..Len(new) : new[j] = list[i]
    <3> SUFFICES ASSUME NEW i \in 1..Len(list), i # p PROVE \E j \in 1..Len(new) : new[j] = list[i]
      OBVIOUS
    <3>1. CASE i < p
      BY <2>3, <2>6, <3>1
    <3>2. CASE i > p
      <4>1. i - 1 \in 1..Len(new) /\ new[i - 1] = list[i]
        BY <2>3, <2>6, <3>2
      <4> QED BY <4>1
    <3> QED BY <2>3, <3>1, <3>2
  <2>9. Alike(new, d) = Alike(list, d) \ {e}
    <3>1. Alike(new, d) \subseteq Alike(list, d) \ {e}
      BY <1>1, <2>7 DEF Alike
    <3>2. Alike(list, d) \ {e} \subseteq Alike(new, d)
      BY <2>8 DEF Alike
    <3> QED BY <3>1, <3>2
  <2> HIDE DEF e
  <2> QED BY <2>5, <2>9, Counted, FS_RemoveElement DEF Count
<1> QED BY <1>2, <1>3

\* insertItem adds no second entry that shows the same.
LEMMA CountInserted ==
  ASSUME NoNesting, resolved \subseteq Reference, NEW list \in Seq(Model), NEW m \in Model,
         Exists(m), NEW index \in 0..Len(list), NEW d
  PROVE  \/ Count(Inserted(list, m, index), d) <= Count(list, d)
         \/ d = Dereferenced(m) /\ Count(Inserted(list, m, index), d) <= 1
<1> DEFINE new == Inserted(list, m, index)
           e   == SourceOf(m)
<1>1. CASE Contains(list, m)
  <2>1. new = list
    BY <1>1 DEF Inserted
  <2> HIDE DEF new
  <2>2. Count(new, d) <= Count(list, d)
    <3>1. Count(list, d) \in Nat
      BY Counted
    <3> QED BY <2>1, <3>1
  <2> QED BY <2>2 DEF new
<1>2. CASE ~Contains(list, m)
  <2>1. new \in Seq(Model)
        /\ \A i \in 1..Len(new) : new[i] = e \/ \E j \in 1..Len(list) : new[i] = list[j]
    BY InsertedModels
  <2>2. Dereferenced(e) = Dereferenced(m)
    BY SourceShows
  <2> HIDE DEF new, e
  <2>3. CASE d # Dereferenced(m)
    <3>1. Alike(new, d) \subseteq Alike(list, d)
      BY <2>1, <2>2, <2>3 DEF Alike
    <3>2. Count(new, d) <= Count(list, d)
      BY <2>1, <3>1, FewerAlike
    <3> QED BY <3>2 DEF new
  <2>4. CASE d = Dereferenced(m)
    <3>1. \A i \in 1..Len(list) : Dereferenced(list[i]) # d
      BY <1>2, <2>4, ContainsShown DEF Contains
    <3>2. Alike(new, d) \in SUBSET {e}
      BY <2>1, <3>1 DEF Alike
    <3>3. Count(new, d) <= 1
      <4>1. IsFiniteSet({e}) /\ Cardinality({e}) = 1
        BY FS_Singleton
      <4>2. Cardinality(Alike(new, d)) <= Cardinality({e})
        BY <3>2, <4>1, FS_Subset
      <4> QED BY <4>1, <4>2 DEF Count
    <3> QED BY <2>4, <3>3 DEF new
  <2> QED BY <2>3, <2>4
<1> QED BY <1>1, <1>2

LEMMA SwapsFinite == \A d : IsFiniteSet(Swaps(d)) /\ Cardinality(Swaps(d)) \in Nat
<1> SUFFICES ASSUME NEW d PROVE IsFiniteSet(Swaps(d)) /\ Cardinality(Swaps(d)) \in Nat
  OBVIOUS
<1>1. Swaps(d) \in SUBSET Slot
  BY DEF Swaps
<1> QED BY <1>1, ModelAssumption, FS_Subset, FS_CardinalityType DEF ModelAssumption

\* The adds about to swap stay, where nothing about them changes.
LEMMA SwapsKept ==
  ASSUME NEW d, UNCHANGED resolved,
         \A s \in Slot : adding[s].stage = "reference" =>
           adding'[s].stage = "reference" /\ adding'[s].item = adding[s].item
  PROVE  Cardinality(Swaps(d)) <= Cardinality(Swaps(d)') /\ Cardinality(Swaps(d)') \in Nat
<1>1. Swaps(d) \subseteq Swaps(d)'
  BY DEF Swaps
<1>2. IsFiniteSet(Swaps(d)')
  <2>1. Swaps(d)' \in SUBSET Slot
    BY DEF Swaps
  <2> QED BY <2>1, ModelAssumption, FS_Subset DEF ModelAssumption
<1> QED BY <1>1, <1>2, FS_Subset, FS_CardinalityType

\* The same entries, fewer of them or a model put where nothing showed it.
LEMMA FewKept ==
  ASSUME IInv, Few, IInv', Heals, UNCHANGED resolved,
         \A d \in Model : Count(items', d) <= Count(items, d) \/ Count(items', d) <= 1,
         \A s \in Slot : adding[s].stage = "reference" =>
           adding'[s].stage = "reference" /\ adding'[s].item = adding[s].item
  PROVE  Few'
<1> SUFFICES ASSUME NEW d \in Model, d \notin doubled'
             PROVE  Count(items, d)' <= 1 + Cardinality(Swaps(d)')
  BY DEF Few
<1>1. Count(items, d)' = Count(items', d)
  BY DEF Count, Alike, Dereferenced
<1>2. Cardinality(Swaps(d)) <= Cardinality(Swaps(d)') /\ Cardinality(Swaps(d)') \in Nat
  BY SwapsKept
<1>3. items \in Seq(Model) /\ items' \in Seq(Model)
  BY DEF IInv, TypeOK
<1>4. /\ Count(items, d) \in Nat /\ Count(items', d) \in Nat
      /\ Cardinality(Swaps(d)) \in Nat
  BY <1>3, Counted, SwapsFinite
<1>5. d \notin doubled => Count(items, d) <= 1 + Cardinality(Swaps(d))
  BY DEF Few
<1>6. d \in doubled => Count(items, d)' <= 1
  BY OneUnlessTwice DEF Heals
<1> HIDE DEF Few
<1> QED BY <1>1, <1>2, <1>4, <1>5, <1>6

\* An add that ends was not about to swap.
LEMMA FewAfter ==
  ASSUME IInv, Few, IInv', Heals, UNCHANGED resolved, NEW s \in Slot,
         \A d \in Model : Count(items', d) <= Count(items, d),
         adding' = [adding EXCEPT ![s].stage = "idle"],
         adding[s].stage = "reference" => adding[s].item \notin resolved
  PROVE  Few'
<1> SUFFICES ASSUME NEW d \in Model, d \notin doubled'
             PROVE  Count(items, d)' <= 1 + Cardinality(Swaps(d)')
  BY DEF Few
<1>1. Count(items, d)' = Count(items', d)
  BY DEF Count, Alike, Dereferenced
<1>2. Swaps(d)' = Swaps(d)
  BY DEF IInv, TypeOK, Swaps
<1>3. items \in Seq(Model) /\ items' \in Seq(Model)
  BY DEF IInv, TypeOK
<1>4. /\ Count(items, d) \in Nat /\ Count(items', d) \in Nat
      /\ Cardinality(Swaps(d)) \in Nat
  BY <1>3, Counted, SwapsFinite
<1>5. d \notin doubled => Count(items, d) <= 1 + Cardinality(Swaps(d))
  BY DEF Few
<1>6. d \in doubled => Count(items, d)' <= 1
  BY OneUnlessTwice DEF Heals
<1> HIDE DEF Few
<1> QED BY <1>1, <1>2, <1>4, <1>5, <1>6

\* A reference that loads may show what another entry shows, and is waited for or doubles it.
LEMMA LoadsCounts ==
  ASSUME IInv, Few, IInv', NEW r \in Reference, ReferenceLoads(r)
  PROVE  Few'
<1>0. /\ items \in Seq(Model) /\ resolved \subseteq Reference
      /\ resolved' = resolved \union {r} /\ UNCHANGED <<items, adding, disturbed>>
  BY DEF IInv, TypeOK, ReferenceLoads
<1>1. doubled \subseteq doubled'
  BY DEF ReferenceLoads
<1> SUFFICES ASSUME NEW d \in Model, d \notin doubled'
             PROVE  Count(items, d)' <= 1 + Cardinality(Swaps(d)')
  BY DEF Few
<1>2. /\ IsFiniteSet(Swaps(d)) /\ IsFiniteSet(Swaps(d)')
      /\ Cardinality(Swaps(d)) \in Nat /\ Cardinality(Swaps(d)') \in Nat
      /\ Swaps(d) \subseteq Swaps(d)'
  <2>1. Swaps(d)' \in SUBSET Slot /\ Swaps(d) \in SUBSET Slot
    BY DEF Swaps
  <2>2. Swaps(d) \subseteq Swaps(d)'
    BY <1>0 DEF Swaps
  <2> QED BY <2>1, <2>2, ModelAssumption, FS_Subset, FS_CardinalityType DEF ModelAssumption
<1>3. Count(items, d) \in Nat /\ IsFiniteSet(Alike(items, d))
  BY <1>0, Counted
<1>4. Count(items, d) <= 1 + Cardinality(Swaps(d))
  BY <1>1 DEF Few
<1>5. Cardinality(Swaps(d)) <= Cardinality(Swaps(d)')
  BY <1>2, FS_Subset
<1> HIDE DEF Few
<1>6. CASE r \in resolved \/ TargetOf[r] # d
  <2>1. Alike(items, d)' \subseteq Alike(items, d)
    BY <1>0, <1>6 DEF Alike, Dereferenced
  <2>2. Count(items, d)' <= Count(items, d) /\ Count(items, d)' \in Nat
    BY <1>3, <2>1, FS_Subset, FS_CardinalityType DEF Count
  <2> QED BY <1>2, <1>3, <1>4, <1>5, <2>2
<1>7. CASE TargetOf[r] = d /\ ~ \E s \in Slot : WaitsFor(s, r)
  <2>1. d \notin Twice(items)'
    BY <1>7 DEF ReferenceLoads
  <2>2. Count(items, d)' <= 1
    BY <2>1, OneUnlessTwice
  <2>3. Count(items, d)' \in Nat
    <3>1. items' \in Seq(Model) /\ IsFiniteSet(Alike(items, d)')
      <4>1. Alike(items, d)' \subseteq Alike(items, d) \union {r}
        BY <1>0 DEF Alike, Dereferenced
      <4>2. IsFiniteSet(Alike(items, d) \union {r})
        BY <1>3, FS_AddElement
      <4> QED BY <1>0, <4>1, <4>2, FS_Subset
    <3> QED BY <3>1, FS_CardinalityType DEF Count
  <2> QED BY <1>2, <2>2, <2>3
<1>8. CASE r \notin resolved /\ TargetOf[r] = d /\ \E s \in Slot : WaitsFor(s, r)
  <2>1. Alike(items, d)' \in SUBSET (Alike(items, d) \union {r})
    BY <1>0, <1>8 DEF Alike, Dereferenced
  <2>2. /\ IsFiniteSet(Alike(items, d) \union {r})
        /\ Cardinality(Alike(items, d) \union {r}) <= Count(items, d) + 1
    <3> DEFINE now == Alike(items, d)
    <3>1. IsFiniteSet(now) /\ Cardinality(now) = Count(items, d)
      BY <1>3 DEF Count
    <3> HIDE DEF now
    <3>2. /\ IsFiniteSet(now \union {r})
          /\ Cardinality(now \union {r}) = IF r \in now THEN Cardinality(now) ELSE Cardinality(now) + 1
      BY <3>1, FS_AddElement
    <3>3. Cardinality(now \union {r}) <= Count(items, d) + 1
      BY <1>3, <3>1, <3>2
    <3> QED BY <3>2, <3>3 DEF now
  <2>3. Count(items, d)' <= Count(items, d) + 1
    <3>1. /\ IsFiniteSet(Alike(items, d)')
          /\ Cardinality(Alike(items, d)') <= Cardinality(Alike(items, d) \union {r})
      BY <2>1, <2>2, FS_Subset
    <3>2. Cardinality(Alike(items, d)') \in Nat
          /\ Cardinality(Alike(items, d) \union {r}) \in Nat
      BY <2>2, <3>1, FS_CardinalityType
    <3>3. Count(items, d)' = Cardinality(Alike(items, d)')
      BY DEF Count
    <3> QED BY <1>3, <2>2, <3>1, <3>2, <3>3
  <2> PICK s \in Slot : WaitsFor(s, r)
    BY <1>8
  <2>4. s \in Swaps(d)' /\ s \notin Swaps(d)
    BY <1>0, <1>8 DEF Swaps, WaitsFor
  <2>5. Cardinality(Swaps(d)) # Cardinality(Swaps(d)')
    BY <1>2, <2>4, FS_Subset
  <2>6. Count(items, d)' \in Nat
    <3>1. items' \in Seq(Model)
      BY <1>0
    <3>2. IsFiniteSet(Alike(items, d)')
      BY <2>1, <2>2, FS_Subset
    <3> QED BY <3>2, FS_CardinalityType DEF Count
  <2> QED BY <1>2, <1>3, <1>4, <1>5, <2>3, <2>5, <2>6
<1> QED BY <1>6, <1>7, <1>8

LEMMA StepCounts == ASSUME NoNesting, IInv, Kept, Few, IInv', [Next]_vars PROVE Few'
<1>0. /\ items \in Seq(Model) /\ resolved \subseteq Reference
      /\ adding \in [Slot -> [stage : Stage, item : Model]]
      /\ Lists!IsInjective(items)
      /\ \A i \in 1..Len(items), r \in Reference : ~IsSource(r, items[i])
  BY DEF IInv, TypeOK, Kept, NoDuplicates, ListHoldsSources, Sources
<1>c. \A d : Count(items, d) \in Nat
  BY <1>0, Counted
<1>h. Settle \/ UNCHANGED doubled => Heals
  BY SettleHeals
<1>1. ASSUME NEW s \in Slot, NEW m \in Model, Add(s, m) PROVE Few'
  <2>1. 0 \in 0..Len(items) /\ items' = Inserted(items, m, 0) /\ Exists(m) /\ UNCHANGED resolved
    BY <1>0, <1>1 DEF Add
  <2>2. \A d \in Model : Count(items', d) <= Count(items, d) \/ Count(items', d) <= 1
    BY <1>0, <2>1, CountInserted
  <2>3. \A u \in Slot : adding[u].stage = "reference" =>
          adding'[u].stage = "reference" /\ adding'[u].item = adding[u].item
    BY <1>0, <1>1 DEF Add
  <2>4. Heals
    BY <1>h, <1>1 DEF Add
  <2> QED BY <2>1, <2>2, <2>3, <2>4, FewKept
<1>2. ASSUME NEW s \in Slot, AddTarget(s) PROVE Few'
  <2> DEFINE r == adding[s].item
             m == TargetOf[r]
             less == Removed(items, r)
  <2>1. /\ r \in resolved /\ items' = Inserted(less, m, 0) /\ UNCHANGED <<resolved, disturbed>>
        /\ adding[s].stage = "reference"
        /\ adding' = [adding EXCEPT ![s] = [stage |-> FirstStage(m), item |-> m]]
    BY <1>2 DEF AddTarget
  <2>2. m \in Model /\ Exists(m) /\ r \in Model /\ m \notin Reference
    BY <1>0, <2>1, TargetExists, ModelAssumption DEF ModelAssumption, NoNesting
  <2>3. Dereferenced(r) = m /\ Dereferenced(m) = m
    BY <1>0, <2>1 DEF Dereferenced, NoNesting
  <2>4. less \in Seq(Model) /\ 0 \in 0..Len(less)
    BY <1>0, RemovedList
  <2>5. FirstStage(m) # "reference"
    BY <2>2 DEF FirstStage
  <2>6. \A d : Swaps(d)' = Swaps(d) \ (IF d = m THEN {s} ELSE {})
    BY <1>0, <2>1, <2>5 DEF Swaps
  <2>7. s \in Swaps(m)
    BY <2>1 DEF Swaps
  <2> SUFFICES ASSUME NEW d \in Model, d \notin doubled'
               PROVE  Count(items, d)' <= 1 + Cardinality(Swaps(d)')
    BY DEF Few
  <2>0. Count(items, d)' = Count(items', d)
    BY <2>1 DEF Count, Alike, Dereferenced
  <2> HIDE DEF r, m
  <2>8. /\ Count(less, d) <= Count(items, d)
        /\ d = m /\ Count(items, d) # 0 => Count(less, d) = Count(items, d) - 1
    BY <1>0, <2>2, <2>3, CountRemoved
  <2> HIDE DEF less
  <2>9. Count(items', d) <= Count(less, d) \/ (d = m /\ Count(items', d) <= 1)
    <3>1. items' = Inserted(less, m, 0)
      BY <2>1
    <3>2. \/ Count(Inserted(less, m, 0), d) <= Count(less, d)
          \/ d = Dereferenced(m) /\ Count(Inserted(less, m, 0), d) <= 1
      BY <1>0, <2>2, <2>4, CountInserted
    <3> QED BY <2>3, <3>1, <3>2
  <2>10. items' \in Seq(Model)
    BY DEF IInv, TypeOK
  <2>11. Count(less, d) \in Nat /\ Count(items', d) \in Nat
    BY <2>4, <2>10, Counted
  <2>12. /\ d \notin doubled => Count(items, d) <= 1 + Cardinality(Swaps(d))
         /\ Cardinality(Swaps(d)) \in Nat
    BY SwapsFinite DEF Few
  <2>13. Cardinality(Swaps(d)') = IF d = m THEN Cardinality(Swaps(d)) - 1 ELSE Cardinality(Swaps(d))
    BY <2>6, <2>7, SwapsFinite, FS_RemoveElement
  <2>14. d = m => Cardinality(Swaps(d)) # 0
    BY <2>7, SwapsFinite, FS_EmptySet
  <2>15. d \in doubled => Count(items, d)' <= 1
    BY <1>2, <1>h, OneUnlessTwice DEF AddTarget, Heals
  <2> HIDE DEF Few
  <2> QED BY <1>c, <2>0, <2>8, <2>9, <2>11, <2>12, <2>13, <2>14, <2>15
<1>3. ASSUME NEW s \in Slot, NEW severity \in Severity, Finish(s, severity),
             adding[s].stage = "reference" => adding[s].item \notin resolved
      PROVE  Few'
  <2>1. UNCHANGED resolved /\ adding' = [adding EXCEPT ![s].stage = "idle"]
        /\ (items' = items \/ items' = Removed(items, adding[s].item))
    BY <1>3 DEF Finish
  <2>2. \A d \in Model : Count(items', d) <= Count(items, d)
    BY <1>0, <1>c, <2>1, CountRemoved
  <2>3. Heals
    BY <1>h, <1>3 DEF Finish
  <2> QED BY <1>3, <2>1, <2>2, <2>3, FewAfter
<1>4. ASSUME NEW s \in Slot, Continue(s) PROVE Few'
  <2>1. CASE ReferenceFails(s)
    BY <1>3, <2>1 DEF ReferenceFails
  <2>2. ASSUME NEW severity \in Severity, MetadataReturns(s, severity) PROVE Few'
    <3>1. CASE Finish(s, severity)
      BY <1>3, <2>2, <3>1 DEF MetadataReturns
    <3>2. CASE adding' = [adding EXCEPT ![s].stage = "mapItems"] /\ UNCHANGED <<items, resolved, disturbed, doubled>>
      <4>1. \A u \in Slot : adding[u].stage = "reference" =>
              adding'[u].stage = "reference" /\ adding'[u].item = adding[u].item
        BY <1>0, <2>2, <3>2 DEF MetadataReturns
      <4>2. \A d \in Model : Count(items', d) <= Count(items, d)
        BY <1>c, <3>2
      <4> QED BY <1>h, <3>2, <4>1, <4>2, FewKept
    <3> QED BY <2>2, <3>1, <3>2 DEF MetadataReturns
  <2>3. ASSUME NEW severity \in Severity, MapItemsReturn(s, severity) PROVE Few'
    BY <1>3, <2>3 DEF MapItemsReturn
  <2> QED BY <1>2, <1>4, <2>1, <2>2, <2>3 DEF Continue
<1>5. ASSUME NEW m \in Model, Remove(m) PROVE Few'
  <2>1. \A d \in Model : Count(items', d) <= Count(items, d)
    BY <1>0, <1>5, CountRemoved DEF Remove
  <2> QED BY <1>5, <1>h, <2>1, FewKept DEF Remove
<1>6. ASSUME NEW from \in 1..Len(items), NEW index \in 0..Len(items) - 1,
             MoveItemToIndex(Dereferenced(items[from]), index)
      PROVE  Few'
  <2> DEFINE m == Dereferenced(items[from])
             less == Removed(items, m)
  <2>1. Contains(items, m) /\ items' = Inserted(less, m, index) /\ UNCHANGED <<resolved, adding, disturbed>>
    BY <1>6 DEF MoveItemToIndex
  <2>2. m \in Model /\ Exists(m)
    <3>1. CASE items[from] \in resolved
      BY <1>0, <3>1, TargetExists DEF Dereferenced
    <3>2. CASE items[from] \notin resolved
      BY <1>0, <3>2 DEF Dereferenced, Exists
    <3> QED BY <3>1, <3>2
  <2> HIDE DEF m
  <2>3. less \in Seq(Model) /\ index \in 0..Len(less)
    BY <1>0, <2>1, RemovedList
  <2>4. \A d \in Model : Count(items', d) <= Count(items, d) \/ Count(items', d) <= 1
    <3> SUFFICES ASSUME NEW d \in Model
                 PROVE  Count(items', d) <= Count(items, d) \/ Count(items', d) <= 1
      OBVIOUS
    <3>2. Count(less, d) <= Count(items, d)
      BY <1>0, <2>2, CountRemoved
    <3> HIDE DEF less
    <3>3. Count(items', d) <= Count(less, d) \/ Count(items', d) <= 1
      BY <1>0, <2>1, <2>2, <2>3, CountInserted
    <3>4. items' \in Seq(Model)
      BY DEF IInv, TypeOK
    <3>5. Count(less, d) \in Nat /\ Count(items', d) \in Nat
      BY <2>3, <3>4, Counted
    <3> QED BY <1>c, <3>2, <3>3, <3>5
  <2>5. Heals
    BY <1>h, <1>6 DEF MoveItemToIndex
  <2> QED BY <2>1, <2>4, <2>5, FewKept
<1>7. CASE RemoveAll
  <2>1. items' = << >> /\ UNCHANGED <<resolved, adding>>
    BY <1>7 DEF RemoveAll
  <2>2. \A d \in Model : Count(items', d) <= 1
    <3> SUFFICES ASSUME NEW d \in Model PROVE Count(items', d) <= 1
      OBVIOUS
    <3>1. Alike(items', d) = {}
      BY <2>1 DEF Alike
    <3>2. Count(items', d) = 0
      BY <3>1, FS_EmptySet DEF Count
    <3> QED BY <3>2
  <2>3. Heals
    BY <1>h, <1>7 DEF RemoveAll
  <2> QED BY <2>1, <2>2, <2>3, FewKept
<1>8. ASSUME NEW r \in Reference, ReferenceLoads(r) PROVE Few'
  BY <1>0, <1>8, LoadsCounts
<1>9. CASE UNCHANGED vars
  <2>1. \A d \in Model : Count(items', d) <= Count(items, d)
    BY <1>c, <1>9 DEF vars
  <2> QED BY <1>9, <1>h, <2>1, FewKept DEF vars
<1> QED BY <1>1, <1>4, <1>5, <1>6, <1>7, <1>8, <1>9 DEF Next

LEMMA CountsAll == NoNesting => (Spec => [](IInv /\ Kept /\ Few))
<1> SUFFICES ASSUME NoNesting PROVE Spec => [](IInv /\ Kept /\ Few)
  OBVIOUS
<1>1. Spec => [](IInv /\ Kept)
  BY KeepsAll
<1>2. Init => Few
  <2> SUFFICES ASSUME Init, NEW d \in Model PROVE Count(items, d) <= 1 + Cardinality(Swaps(d))
    BY DEF Few
  <2>1. Alike(items, d) = {}
    BY DEF Init, Alike
  <2> QED BY <2>1, FS_EmptySet, SwapsFinite DEF Count
<1>3. IInv /\ Kept /\ Few /\ (IInv /\ Kept)' /\ [Next]_vars => Few'
  BY StepCounts
<1> QED BY <1>1, <1>2, <1>3, PTL DEF Spec

\* Once every add is over, two entries of the workbench show the same model only if a load
\* that no add had asked for made them, though a reference and its target, or several
\* references to it, may have been added before the references had loaded.
THEOREM NothingShownTwice == NoNesting => (Spec => []ShownOnce)
<1> SUFFICES ASSUME NoNesting PROVE Spec => []ShownOnce
  OBVIOUS
<1>1. Spec => [](IInv /\ Kept /\ Few)
  BY CountsAll
<1>2. IInv /\ Kept /\ Few => ShownOnce
  <2> SUFFICES ASSUME IInv, Kept, Few, Idle, NEW i \in 1..Len(items), NEW j \in 1..(i - 1),
                      Dereferenced(items[j]) = Dereferenced(items[i]),
                      Dereferenced(items[i]) \notin doubled
               PROVE  FALSE
    BY DEF ShownOnce, Twice
  <2> DEFINE d == Dereferenced(items[i])
  <2>1. items \in Seq(Model) /\ resolved \subseteq Reference /\ Lists!IsInjective(items)
        /\ j \in 1..Len(items) /\ i # j
    BY DEF IInv, TypeOK, Kept, NoDuplicates
  <2>2. d \in Model
    BY <2>1, ModelAssumption DEF ModelAssumption, Dereferenced
  <2>3. Swaps(d) = {}
    BY DEF Idle, Swaps
  <2>4. Count(items, d) <= 1
    <3>1. Count(items, d) <= 1 + Cardinality(Swaps(d))
      BY <2>2 DEF Few
    <3>2. Cardinality(Swaps(d)) = 0
      BY <2>3, FS_EmptySet
    <3> QED BY <3>1, <3>2
  <2>5. items[i] \in Alike(items, d) /\ items[j] \in Alike(items, d) /\ items[i] # items[j]
    BY <2>1 DEF Alike, Lists!IsInjective
  <2> HIDE DEF d
  <2>6. Cardinality(Alike(items, d)) \in {0, 1} /\ IsFiniteSet(Alike(items, d))
    BY <2>1, <2>4, Counted DEF Count
  <2>7. Cardinality(Alike(items, d)) # 0
    BY <2>5, <2>6, FS_EmptySet
  <2>8. PICK x : Alike(items, d) = {x}
    BY <2>6, <2>7, FS_Singleton
  <2> QED BY <2>5, <2>8
<1> QED BY <1>1, <1>2, PTL

=============================================================================
