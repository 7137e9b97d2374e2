-------------------------- MODULE DataSourceSync ---------------------------
(***************************************************************************)
(* observeModelLayer and syncDataSourceCollection of lib/Models/Cesium.ts  *)
(* and lib/Models/Leaflet.ts: how a viewer's collection of data sources    *)
(* follows the map items of the workbench and the base map.  A sync waits  *)
(* for every data source it adds, and the model may change while it waits; *)
(* a reaction starts a sync at each change, and each sync waits for the    *)
(* previous one.  A data source belongs to one map item.  The collection   *)
(* is Cesium's (external): add() appends one microtask later, raiseToTop() *)
(* moves to the end, which is the top.                                     *)
(***************************************************************************)
EXTENDS FiniteSetsExt, ListOps

CONSTANTS
  DataSource,
  Leaflet,    \* BOOLEAN: Leaflet's collection holds shown data sources only
  MaxQueue    \* bound: syncs that wait or run

ASSUME SyncAssumption == IsFiniteSet(DataSource) /\ Leaflet \in BOOLEAN /\ MaxQueue \in Nat \ {0}

VARIABLES
  available,  \* availableDataSources
  shown,      \* the data sources whose show is true
  dataSources,
  syncs       \* the chain of syncDataSourcesPromise

syncVars == <<available, shown, dataSources, syncs>>

Entries == INSTANCE SequencesExt

InjectiveSeqs ==
  {list \in Entries!SeqOf(DataSource, Cardinality(DataSource)) : Entries!IsInjective(list)}

\* at: where the loop over the list goes on; the entry before it is being added.
Queued == [begun |-> FALSE, list |-> << >>, at |-> 1]
Sync ==
  {Queued} \union {s \in [begun : {TRUE}, list : Seq(DataSource), at : Nat] :
                     s.at \in 2..Len(s.list) + 1}

SyncTypeOK ==
  /\ available \in Seq(DataSource)
  /\ shown \subseteq DataSource
  /\ dataSources \in Seq(DataSource)
  /\ syncs \in Seq(Sync) /\ Len(syncs) <= MaxQueue

SyncInit ==
  /\ available \in InjectiveSeqs /\ shown \in SUBSET DataSource
  /\ dataSources = << >>
  /\ syncs = <<Queued>>

In(d, list) == d \in Entries!ToSet(list)

WantedSources == {d \in DataSource : Leaflet => d \in shown}

-----------------------------------------------------------------------------

\* Mutant: nothing is queued while a sync is under way.
ModelChangesUnlessBusy ==
  /\ Len(syncs) < MaxQueue
  /\ available' \in InjectiveSeqs /\ shown' \in SUBSET DataSource
  /\ syncs' = IF syncs = << >> THEN <<Queued>> ELSE syncs
  /\ UNCHANGED dataSources

\* The workbench, the base map or an item's map items change.
ModelChanges ==
  /\ Len(syncs) < MaxQueue
  /\ available' \in InjectiveSeqs /\ shown' \in SUBSET DataSource
  /\ syncs' = Append(syncs, Queued)
  /\ UNCHANGED dataSources

\* Mutant: a sync does not wait for the previous one.
AnyTurn(k) == TRUE

Turn(k) == k = 1

\* Step 1: without those that are gone.
Kept(coll) == Filter(coll, Entries!ToSet(available) \intersect WantedSources)

\* Step 3: the list's data sources are raised one after the other.
Raised(list, coll) ==
  Filter(coll, DataSource \ Entries!ToSet(list)) \o Filter(list, Entries!ToSet(coll))

\* Step 2: the places of the list, from `at` on, that are to be added.
Missing(list, at, coll) ==
  {i \in at..Len(list) : ~In(list[i], coll) /\ list[i] \in WantedSources}

\* The k'th sync goes on until it waits for an addition, or to its end.
Proceed(k, list, at, coll) ==
  IF Missing(list, at, coll) # {}
    THEN /\ dataSources' = coll
         /\ syncs' = [syncs EXCEPT ![k] =
              [begun |-> TRUE, list |-> list, at |-> Min(Missing(list, at, coll)) + 1]]
    ELSE /\ dataSources' = Raised(list, coll)
         /\ syncs' = Entries!RemoveAt(syncs, k)

\* Mutant: what is gone is not removed.
BeginRemovingNothing(k) ==
  /\ Turn(k) /\ ~syncs[k].begun
  /\ Proceed(k, available, 1, dataSources)
  /\ UNCHANGED <<available, shown>>

Begin(k) ==
  /\ Turn(k) /\ ~syncs[k].begun
  /\ Proceed(k, available, 1, Kept(dataSources))
  /\ UNCHANGED <<available, shown>>

\* The addition the sync waits for is made.
Added(k) ==
  LET s == syncs[k] IN
  /\ s.begun
  /\ Proceed(k, s.list, s.at, Append(dataSources, s.list[s.at - 1]))
  /\ UNCHANGED <<available, shown>>

SyncNext == ModelChanges \/ \E k \in 1..Len(syncs) : Begin(k) \/ Added(k)

SyncSpec == SyncInit /\ [][SyncNext]_syncVars

\* Promises that are settled run their continuations.
SyncFairSpec == SyncSpec /\ WF_syncVars(\E k \in 1..Len(syncs) : Begin(k) \/ Added(k))

-----------------------------------------------------------------------------

\* No data source is drawn twice: two syncs never both find it missing.
NoDuplicates == Entries!IsInjective(dataSources)

\* Once no sync is left to run, the collection is what the model last said, in its
\* order, however often it changed while syncs were waiting for their additions.
Settled == syncs = << >> => dataSources = Filter(available, WantedSources)

\* A data source that stays on the map comes to be drawn and stays drawn; one that is
\* gone for good is removed for good, even if the model never stops changing.
Converges ==
  \A d \in DataSource :
    /\ <>[](In(d, available) /\ d \in WantedSources) => <>[]In(d, dataSources)
    /\ <>[](~In(d, available)) => <>[]~In(d, dataSources)

\* "Ensure stacking order matches order in `availableDataSources` - first item appears
\* on top." (Cesium.ts:684)
FirstOnTop ==
  syncs = << >> /\ dataSources # << >> =>
    Entries!Last(dataSources) = Head(Filter(available, WantedSources))
=============================================================================
