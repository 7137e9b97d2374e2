----------------------------- MODULE Workbench -----------------------------
(***************************************************************************)
(* lib/Models/Workbench.ts: the list of the models shown on the map.       *)
(*                                                                         *)
(* add() inserts its item at once and goes on in the background: it loads  *)
(* a reference, swaps it for its target, loads metadata and map items, and *)
(* takes the item out again on an error.  Users and other adds change the  *)
(* list between any two of these steps.  The list holds references rather  *)
(* than their targets; everything that reads it dereferences first.        *)
(* add() of an array is its adds in reverse order, without a step between  *)
(* their synchronous parts: one of the interleavings here.                 *)
(***************************************************************************)
EXTENDS Integers, Sequences, FiniteSetsExt

CONSTANTS
  Model,
  Reference,    \* the models that are ReferenceMixins
  Weak,         \* the references whose targets have no sourceReference
  TargetOf,     \* the target each reference has once it is loaded
  Reorderable,  \* models whose trait supportsReordering is true
  KeptOnTop,    \* models whose trait keepOnTop is true
  Mappable,     \* models that are MappableMixins
  Chartable,    \* models that are ChartableMixins
  Slot          \* invocations of add() in flight, finitely many

ASSUME ModelAssumption ==
  /\ Model # {}
  /\ Reference \subseteq Model /\ Weak \subseteq Reference
  /\ TargetOf \in [Reference -> Model]
  /\ Reorderable \subseteq Model /\ KeptOnTop \subseteq Model
  /\ Mappable \subseteq Model /\ Chartable \subseteq Model
  /\ IsFiniteSet(Slot)
  \* a target with a sourceReference is the target of that reference alone
  /\ \A r \in Reference \ Weak, q \in Reference : TargetOf[q] = TargetOf[r] => q = r

VARIABLES
  items,     \* _items
  resolved,  \* the references that have a target
  adding,    \* the invocations of add(): how far each is, and with which item
  disturbed, \* history: the adds since whose start something was taken out
  doubled    \* history: the models that two entries have shown since a load
             \* that no add had asked for

vars == <<items, resolved, adding, disturbed, doubled>>

Severity == {"none", "warning", "error"}
Stage    == {"idle", "reference", "metadata", "mapItems"}

TypeOK ==
  /\ items \in Seq(Model)
  /\ resolved \subseteq Reference
  /\ adding \in [Slot -> [stage : Stage, item : Model]]
  /\ disturbed \subseteq Slot
  /\ doubled \subseteq Model

Lists == INSTANCE SequencesExt

-----------------------------------------------------------------------------
(* Reading the list *)

Dereferenced(m) == IF m \in resolved THEN TargetOf[m] ELSE m

\* Strong references, and the model that stands for m in the list.
IsSource(r, m) == r \in Reference \ Weak /\ TargetOf[r] = m

SourceOf(m) == IF \E r \in Reference : IsSource(r, m)
                 THEN CHOOSE r \in Reference : IsSource(r, m) ELSE m

\* A target that its own reference constructs exists once it is loaded.
Exists(m) == \A r \in Reference : IsSource(r, m) => r \in resolved

\* Mutant: indexOf compares identities only.
IdenticalPlaces(list, m) == {i \in 1..Len(list) : Dereferenced(list[i]) = m}

\* indexOf: the places (from 1) of m or its dereferenced equivalent.
Places(list, m) ==
  {i \in 1..Len(list) :
     LET model == Dereferenced(list[i])
     IN  model = m \/ Dereferenced(model) = Dereferenced(m)}

Contains(list, m) == Places(list, m) # {}

\* The models that more than one entry shows.
Twice(list) ==
  {Dereferenced(list[i]) :
     i \in {j \in 1..Len(list) : \E k \in 1..(j - 1) : Dereferenced(list[k]) = Dereferenced(list[j])}}

Removed(list, m) == IF Contains(list, m) THEN Lists!RemoveAt(list, Min(Places(list, m))) ELSE list

-----------------------------------------------------------------------------
(* insertItem *)

Movable(m) == m \in Reorderable
OnTop(m)   == m \in KeptOnTop

\* while (index < length && Passes(items[index])) ++index, the index from 0.
Down(list, index, Passes(_)) ==
  Min({i \in index..Len(list) : i = Len(list) \/ ~Passes(Dereferenced(list[i + 1]))})

\* while (index > 0 && Passes(items[index - 1])) --index
Up(list, index, Passes(_)) ==
  Max({i \in 0..index : i = 0 \/ ~Passes(Dereferenced(list[i]))})

\* Mutant: only the layers that can be reordered are kept to their place.
ClassIndexDownOnly(list, m, index) ==
  IF Movable(m) THEN Down(list, index, LAMBDA o : ~Movable(o)) ELSE index

\* Layers that can be reordered go below those that cannot.
ClassIndex(list, m, index) ==
  IF Movable(m) THEN Down(list, index, LAMBDA o : ~Movable(o))
                ELSE Up(list, index, Movable)

\* Among their own kind, models kept on top go above the others.
TopIndex(list, m, index) ==
  LET Alike(o) == Movable(o) <=> Movable(m)
  IN  IF OnTop(m) THEN Up(list, index, LAMBDA o : ~OnTop(o) /\ Alike(o))
                  ELSE Down(list, index, LAMBDA o : OnTop(o) /\ Alike(o))

Position(list, m, index) == TopIndex(list, m, ClassIndex(list, m, index))

\* Mutant: insertItem does not look whether the item is there.
InsertedAnyway(list, m, index) ==
  Lists!InsertAt(list, 1 + Position(list, Dereferenced(m), index), SourceOf(m))

Inserted(list, m, index) ==
  IF Contains(list, m) THEN list
  ELSE Lists!InsertAt(list, 1 + Position(list, Dereferenced(m), index), SourceOf(m))

-----------------------------------------------------------------------------
(* Operations *)

Init ==
  /\ items = << >>
  /\ resolved \in SUBSET Reference
  /\ adding = [s \in Slot |-> [stage |-> "idle", item |-> CHOOSE m \in Model : TRUE]]
  /\ disturbed = Slot
  /\ doubled = {}

\* No longer doubled, once at most one entry is left.
Settle == doubled' = {m \in doubled : m \in Twice(items)'}

Visual(m) == m \in Mappable \union Chartable

\* Where add(m) is when it first waits: nothing to visualise is a warning at once.
FirstStage(m) == IF m \in Reference THEN "reference"
                 ELSE IF Visual(m) THEN "metadata" ELSE "idle"

\* add(m) up to its first await.
Add(s, m) ==
  /\ adding[s].stage = "idle"
  /\ Exists(m)
  /\ items' = Inserted(items, m, 0)
  /\ adding' = [adding EXCEPT ![s] = [stage |-> FirstStage(m), item |-> m]]
  /\ disturbed' = disturbed \ {s}
  /\ UNCHANGED resolved
  /\ Settle

WaitsFor(s, r) == adding[s].stage = "reference" /\ adding[s].item = r

\* loadReference() of a reference gives it its target.  An add() may wait for it;
\* others load references too: the preview, applyInitData, the share links.
ReferenceLoads(r) ==
  /\ Exists(r)
  /\ r \notin resolved
  /\ resolved' = resolved \union {r}
  /\ UNCHANGED <<items, adding, disturbed>>
  /\ doubled' = IF \E s \in Slot : WaitsFor(s, r) THEN doubled
                ELSE doubled \union ({TargetOf[r]} \intersect Twice(items)')

\* Mutant: the target is added before the reference is removed.
AddTargetFirst(s) ==
  LET r == adding[s].item IN
  /\ adding[s].stage = "reference"
  /\ r \in resolved
  /\ items' = Removed(Inserted(items, TargetOf[r], 0), r)
  /\ adding' = [adding EXCEPT ![s] = [stage |-> FirstStage(TargetOf[r]), item |-> TargetOf[r]]]
  /\ UNCHANGED <<resolved, disturbed>>
  /\ Settle

\* loadReference() has returned and there is a target: it takes the place of the
\* reference by being added anew.
AddTarget(s) ==
  LET r == adding[s].item IN
  /\ adding[s].stage = "reference"
  /\ r \in resolved
  /\ items' = Inserted(Removed(items, r), TargetOf[r], 0)
  /\ adding' = [adding EXCEPT ![s] = [stage |-> FirstStage(TargetOf[r]), item |-> TargetOf[r]]]
  /\ UNCHANGED <<resolved, disturbed>>
  /\ Settle

\* The last lines of add(): an error takes the item out, a warning leaves it.
Finish(s, severity) ==
  /\ items' = IF severity = "error" THEN Removed(items, adding[s].item) ELSE items
  /\ adding' = [adding EXCEPT ![s].stage = "idle"]
  /\ disturbed' = IF severity = "error" THEN Slot ELSE disturbed
  /\ UNCHANGED resolved
  /\ Settle

\* loadReference() has failed and there is no target.
ReferenceFails(s) ==
  /\ adding[s].stage = "reference"
  /\ adding[s].item \notin resolved
  /\ \E severity \in Severity \ {"none"} : Finish(s, severity)

\* loadMetadata() has returned: a mappable item goes on to its map items.
MetadataReturns(s, severity) ==
  /\ adding[s].stage = "metadata"
  /\ IF severity = "none" /\ adding[s].item \in Mappable
       THEN /\ adding' = [adding EXCEPT ![s].stage = "mapItems"]
            /\ UNCHANGED <<items, resolved, disturbed, doubled>>
       ELSE Finish(s, severity)

MapItemsReturn(s, severity) ==
  /\ adding[s].stage = "mapItems"
  /\ Finish(s, severity)

Remove(m) ==
  /\ items' = Removed(items, m)
  /\ disturbed' = Slot
  /\ UNCHANGED <<resolved, adding>>
  /\ Settle

RemoveAll ==
  /\ items' = << >>
  /\ disturbed' = Slot
  /\ UNCHANGED <<resolved, adding>>
  /\ Settle

\* The sortable list of the workbench gives an item it shows and an index on it.
MoveItemToIndex(m, index) ==
  /\ Contains(items, m)
  /\ items' = Inserted(Removed(items, m), m, index)
  /\ UNCHANGED <<resolved, adding, disturbed>>
  /\ Settle

Continue(s) ==
  \/ AddTarget(s)
  \/ ReferenceFails(s)
  \/ \E severity \in Severity : MetadataReturns(s, severity) \/ MapItemsReturn(s, severity)

Next ==
  \/ \E s \in Slot : Continue(s) \/ \E m \in Model : Add(s, m)
  \/ \E r \in Reference : ReferenceLoads(r)
  \/ \E m \in Model : Remove(m)
  \/ \E from \in 1..Len(items), index \in 0..Len(items) - 1 :
       MoveItemToIndex(Dereferenced(items[from]), index)
  \/ RemoveAll

Spec == Init /\ [][Next]_vars

-----------------------------------------------------------------------------
(* Properties *)

Idle == \A s \in Slot : adding[s].stage = "idle"

\* Where a model belongs: what cannot be reordered first, and of each kind those
\* kept on top first.
Rank(m) == (IF Movable(m) THEN 2 ELSE 0) + (IF OnTop(m) THEN 0 ELSE 1)

Ordered(list) ==
  \A i, j \in 1..Len(list) :
     i < j => Rank(Dereferenced(list[i])) <= Rank(Dereferenced(list[j]))

\* No operation puts an ordered list out of order, wherever the user drops an item
\* and whichever add goes on; only a reference that changes its kind can.
OrderKept == [][Ordered(items) /\ UNCHANGED resolved => Ordered(items')]_vars

\* "Keep reorderable data sources (e.g.: imagery layers) below non-orderable ones
\* (e.g.: GeoJSON)" (Workbench.ts:129): once every add is over, the list is ordered.
OrderedWhenIdle == Idle => Ordered(items)

\* A model is on the list once, whatever mixture of a reference and its target was
\* added, removed and moved.
NoDuplicates == Lists!IsInjective(items)

\* Once every add is over, two entries show the same model only if a load that no
\* add had asked for made them: a weak reference and its target both added before
\* the reference had loaded become one, whichever add goes on first.
ShownOnce == Idle => Twice(items) \subseteq doubled

\* "This method does nothing" for an item that is already present
\* (Workbench.ts:112): no model is shown twice, whoever loads its references.
NeverShownTwice == Idle => Twice(items) = {}

\* Whatever else is added, moved or swapped for its target meanwhile, the item of an
\* add stays on the list until an error or a user takes something out.
AddedStays == \A s \in Slot \ disturbed : Contains(items, adding[s].item)

\* An error takes out what its own add put on the list, and not what another one is still
\* bringing in.
ErrorSparesOthers ==
  [][\A s, t \in Slot :
       /\ s # t /\ adding[t].stage # "idle" /\ UNCHANGED adding[t]
       /\ adding[s].stage # "idle" /\ adding'[s].stage = "idle"
       /\ Contains(items, adding[t].item)
       => Contains(items', adding[t].item)]_vars

\* "Removes a model or its dereferenced equivalent from the workbench"
\* (Workbench.ts:76): the rest of an add() does not bring an item back that was
\* removed while its reference was loading.
RemovedStaysRemoved ==
  [][\A s \in Slot : AddTarget(s) /\ ~Contains(items, adding[s].item) => items' = items]_vars

\* "If, after dereferencing, the item turns out not to be AsyncMappableMixin or
\* ChartableMixin but it is a GroupMixin, it will be removed from the workbench"
\* (Workbench.ts:174-176): no model without anything to visualise stays.
NothingInvisibleStays ==
  Idle => \A i \in 1..Len(items) : Dereferenced(items[i]) \notin Reference
                                     => Visual(Dereferenced(items[i]))

\* "Determines if a given model or its dereferenced equivalent exists in the
\* workbench list" (Workbench.ts:239): it says so of every model on the list.
ContainsItsItems == \A i \in 1..Len(items) : Contains(items, items[i])

=============================================================================
