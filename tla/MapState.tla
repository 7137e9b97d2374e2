------------------------------ MODULE MapState ------------------------------
(***************************************************************************)
(* lib/Models/Terria.ts: how init sources, stories and the user put items  *)
(* on the workbench and the timeline, and choose the base map.             *)
(*                                                                         *)
(* applyInitData() awaits each model that its workbench names and only     *)
(* then replaces the workbench and the timeline.  Init sources are applied *)
(* one after another; nobody waits for a story, and the user's clicks go   *)
(* on meanwhile.  A base map replaces the other when its map items have    *)
(* loaded.                                                                 *)
(*                                                                         *)
(* Items on the workbench are targets here, all of one kind, so that       *)
(* insertItem puts a new one first; Workbench has references and kinds.    *)
(***************************************************************************)
EXTENDS FiniteSetsExt, ListOps

CONSTANTS
  Item,         \* mappable catalog items
  Reference,
  Group,
  NoModel,
  TargetOf,     \* the item or group behind each reference
  MembersOf,    \* the member models of each group, in order
  TimeVarying,  \* the items for which TimeVarying.is() holds
  Source,       \* init data: the init sources and the stories
  NoSource,
  WorkbenchOf,  \* the known models each init data names for the workbench
  TimelineOf,   \* the time-varying items it names for the timeline
  BaseMap,
  NoBaseMap,
  Broken,       \* the references, groups and base maps that fail to load
  BaseMapOf,    \* settings.baseMapId of each init data, or NoBaseMap
  DefaultBaseMap,
  InitSources,  \* the init sources, in order
  Slot,         \* runs of applyInitData() that are not over
  MaxToggles,   \* bound: toggles of items that are not over
  MaxStack      \* bound: entries of the timeline

Model == Item \union Reference \union Group

Elements(list) == {list[i] : i \in 1..Len(list)}

ASSUME MapAssumption ==
  /\ NoModel \notin Model /\ NoSource \notin Source
  /\ Item \intersect (Reference \union Group \union Broken) = {} /\ Reference \intersect Group = {}
  /\ TargetOf \in [Reference -> Item \union Group]
  /\ MembersOf \in [Group -> Seq(Item \union Reference)]
  /\ \A g \in Group : \A m \in Elements(MembersOf[g]) \intersect Reference : TargetOf[m] \in Item
  /\ Broken \subseteq Reference \union Group \union BaseMap /\ TimeVarying \subseteq Item
  /\ WorkbenchOf \in [Source -> Seq(Model)]
  /\ TimelineOf \in [Source -> SUBSET TimeVarying]
  /\ NoBaseMap \notin BaseMap /\ DefaultBaseMap \in BaseMap
  /\ BaseMapOf \in [Source -> BaseMap \union {NoBaseMap}]
  /\ InitSources \in Seq(Source)
  /\ MaxToggles \in Nat /\ MaxStack \in Nat

VARIABLES
  items,      \* the workbench's items
  timeline,   \* the timeline stack's items
  applying,   \* the runs of applyInitData()
  booted,     \* init sources whose application has begun; one more once the default
              \* base map has been seen to
  toggling,   \* the runs of toggleItemOnMapFromCatalog(): <<item, op>>
  baseMap,
  choosing,   \* the base maps some setBaseMap() waits for
  persisted,  \* the local property "basemap", or NoBaseMap
  due,        \* history: the init data the workbench is due to, NoSource after a click
  stray       \* history: items on the timeline that were attached to it when they had left
              \* the map or were there already, or left the map for good without its being
              \* told

mapItems == <<items, timeline, due, stray>>
baseMaps == <<baseMap, choosing, persisted>>
mapVars  == <<mapItems, applying, booted, toggling, baseMaps>>

Op == {"add", "remove"}

\* A run: the model it waits for, those still to push, what it has pushed, and the
\* references of groups that are on their way.
Run == [source : Source \union {NoSource}, at : Model \union {NoModel}, queue : Seq(Model),
        newItems : Seq(Item), late : SUBSET {r \in Reference : TargetOf[r] \in Item},
        init : BOOLEAN]

MapTypeOK ==
  /\ items \in Seq(Item) /\ timeline \in Seq(TimeVarying)
  /\ applying \in [Slot -> Run]
  /\ booted \in 0..Len(InitSources) + 1
  /\ toggling \subseteq Item \X Op
  /\ baseMap \in BaseMap \union {NoBaseMap} /\ persisted \in BaseMap \union {NoBaseMap}
  /\ choosing \subseteq BaseMap
  /\ due \in Source \union {NoSource} /\ stray \subseteq Item

Lists == INSTANCE SequencesExt

-----------------------------------------------------------------------------
(* applyInitData *)

Idle == [source |-> NoSource, at |-> NoModel, queue |-> << >>, newItems |-> << >>,
         late |-> {}, init |-> FALSE]

\* setBaseMap(): it waits for the map items of the base map.
SetBaseMap(b) == choosing' = choosing \union ({b} \ {NoBaseMap})

\* Mutant: the workbench is emptied at once.
ApplyInitDataEmptying(s, source, init) ==
  /\ applying[s] = Idle
  /\ applying' = [applying EXCEPT ![s] = [Idle EXCEPT !.source = source, !.init = init,
                                                     !.queue = WorkbenchOf[source]]]
  /\ items' = << >>
  /\ SetBaseMap(BaseMapOf[source])
  /\ UNCHANGED <<timeline, due, stray, toggling, baseMap, persisted>>

\* applyInitData() up to its first await, that of the models.
ApplyInitData(s, source, init) ==
  /\ applying[s] = Idle
  /\ applying' = [applying EXCEPT ![s] = [Idle EXCEPT !.source = source, !.init = init,
                                                     !.queue = WorkbenchOf[source]]]
  /\ SetBaseMap(BaseMapOf[source])
  /\ UNCHANGED <<mapItems, toggling, baseMap, persisted>>

\* pushAndLoadMapItems(m) up to its await; only an item is pushed.
Pushed(run, m) ==
  [run EXCEPT !.at = m, !.newItems = IF m \in Item THEN Append(@, m) ELSE @]

\* The end of applyInitData(): the setter of Workbench.items removes duplicates.
Assign(s) ==
  /\ items' = WithoutDuplicates(applying[s].newItems)
  /\ timeline' = Filter(items', TimelineOf[applying[s].source])
  /\ applying' = [applying EXCEPT ![s] = Idle]
  /\ due' = applying[s].source /\ stray' = {}

Quiet == UNCHANGED <<booted, toggling, baseMaps>>

\* The models, or the map items of the one just pushed, have loaded or failed: the next
\* one is pushed, and after the last the workbench is assigned.
Resume(s) ==
  LET run == applying[s] IN
  /\ run.source # NoSource /\ run.at \in Item \union {NoModel}
  /\ IF run.queue = << >> THEN Assign(s)
     ELSE /\ applying' = [applying EXCEPT ![s] =
                            Pushed([run EXCEPT !.queue = Tail(@)], Head(run.queue))]
          /\ UNCHANGED mapItems
  /\ Quiet

\* Mutant: a reference that has no target is waited for.
ReferenceLoadsOnly(s) ==
  LET run == applying[s] IN
  /\ run.at \in Reference \ Broken
  /\ applying' = [applying EXCEPT ![s] = Pushed(run, TargetOf[run.at])]
  /\ UNCHANGED mapItems /\ Quiet

\* loadReference() has returned: its target is pushed in its place, if there is one.
ReferenceLoads(s) ==
  LET run == applying[s] IN
  /\ run.at \in Reference
  /\ applying' = [applying EXCEPT ![s] = IF run.at \in Broken THEN [run EXCEPT !.at = NoModel]
                                         ELSE Pushed(run, TargetOf[run.at])]
  /\ UNCHANGED mapItems /\ Quiet

\* loadMembers() has returned: the items among the members are pushed at once, and
\* nobody waits for the references.
MembersLoad(s) ==
  LET run     == applying[s]
      members == IF run.at \in Broken THEN << >> ELSE MembersOf[run.at]
  IN
  /\ run.at \in Group
  /\ applying' = [applying EXCEPT ![s] =
       [run EXCEPT !.at = NoModel,
                   !.newItems = @ \o Filter(members, Item),
                   !.late = @ \union ((Elements(members) \intersect Reference) \ Broken)]]
  /\ UNCHANGED mapItems /\ Quiet

\* A reference among the members of a group has loaded, before the end of the run.
LateReferenceLoads(s, r) ==
  LET run == applying[s] IN
  /\ r \in run.late
  /\ applying' = [applying EXCEPT ![s] = [run EXCEPT !.late = @ \ {r},
                                                    !.newItems = Append(@, TargetOf[r])]]
  /\ UNCHANGED mapItems /\ Quiet

\* loadInitSources() applies the next init source when the one before it is done.
NextInitSource(s) ==
  /\ booted < Len(InitSources)
  /\ \A t \in Slot : ~applying[t].init
  /\ booted' = booted + 1
  /\ ApplyInitData(s, InitSources[booted'], TRUE)

\* activateStory(): nobody waits for it.
ActivateStory(s, story) ==
  /\ booted > 0
  /\ UNCHANGED booted
  /\ ApplyInitData(s, story, FALSE)

-----------------------------------------------------------------------------
(* Base maps *)

\* The end of loadInitSources(): where no base map is shown yet, the persisted one or
\* the default is loaded.
LoadPersistedOrInitBaseMap ==
  /\ booted = Len(InitSources) /\ \A t \in Slot : ~applying[t].init
  /\ booted' = booted + 1
  /\ IF baseMap = NoBaseMap
       THEN SetBaseMap(IF persisted = NoBaseMap THEN DefaultBaseMap ELSE persisted)
       ELSE UNCHANGED choosing
  /\ UNCHANGED <<mapItems, applying, toggling, baseMap, persisted>>

\* The map items of b have loaded, or failed to.
BaseMapLoads(b) ==
  /\ b \in choosing
  /\ choosing' = choosing \ {b}
  /\ baseMap' = IF b \in Broken THEN baseMap ELSE b
  /\ UNCHANGED <<mapItems, applying, booted, toggling, persisted>>

\* The user chooses a base map.
SelectBaseMap(b) ==
  /\ SetBaseMap(b) /\ persisted' = b
  /\ UNCHANGED <<mapItems, applying, booted, toggling, baseMap>>

-----------------------------------------------------------------------------
(* The user's clicks *)

OnMap(i) == i \in Elements(items)
Without(list, i) == Filter(list, Item \ {i})

Places(list, i) == {n \in 1..Len(list) : list[n] = i}
Twice(list, i)  == \E m, n \in Places(list, i) : m # n

\* timelineStack.addToTop(): of an item that is there, the index is taken before it is
\* inserted once more.
OnTop(i) ==
  IF i \in Elements(timeline) THEN Lists!RemoveAt(<<i>> \o timeline, Min(Places(timeline, i)))
                              ELSE <<i>> \o timeline

\* timelineStack.remove(): an item that is not there has index -1, the last.
TakenOff(i) ==
  IF i \in Elements(timeline) THEN Lists!RemoveAt(timeline, Min(Places(timeline, i)))
  ELSE IF timeline = << >> THEN timeline ELSE Lists!Front(timeline)

\* Those that stray after a step: more of them, as far as they are on the timeline.
Straying(more) == (stray \union more) \intersect Elements(timeline')

\* toggleItemOnMapFromCatalog() up to its await: what is not on the map is put there.
Toggle(i) ==
  LET op == IF OnMap(i) THEN "remove" ELSE "add" IN
  /\ Cardinality(toggling) < MaxToggles /\ <<i, op>> \notin toggling
  /\ toggling' = toggling \union {<<i, op>>}
  /\ items' = IF op = "add" THEN <<i>> \o items ELSE Without(items, i)
  /\ due' = NoSource
  /\ UNCHANGED <<timeline, stray, applying, booted, baseMaps>>

\* Its end: an add that failed takes the item out, and the timeline follows what was
\* decided before the await.
ToggleEnds(i, op, failed) ==
  /\ <<i, op>> \in toggling
  /\ toggling' = toggling \ {<<i, op>>}
  /\ failed => op = "add"
  /\ items' = IF failed THEN Without(items, i) ELSE items
  /\ timeline' = IF i \notin TimeVarying THEN timeline
                 ELSE IF op = "add" THEN OnTop(i) ELSE TakenOff(i)
  /\ Len(timeline') <= MaxStack
  /\ due' = NoSource
  /\ stray' = Straying(IF op = "add" /\ (i \notin Elements(items') \/ Twice(timeline', i))
                         THEN {i} ELSE {})
  /\ UNCHANGED <<applying, booted, baseMaps>>

\* removeFromMap() of an item's menu in the workbench.
RemoveFromMap(i) ==
  /\ OnMap(i)
  /\ items' = Without(items, i)
  /\ timeline' = IF i \in TimeVarying THEN TakenOff(i) ELSE timeline
  /\ due' = NoSource /\ stray' = Straying({})
  /\ UNCHANGED <<applying, booted, toggling, baseMaps>>

\* Others remove an item from the workbench alone, a chart that expands another of its
\* sources or whoever removes a model from Terria.
RemoveFromWorkbench(i) ==
  /\ OnMap(i)
  /\ items' = Without(items, i) /\ UNCHANGED timeline
  /\ due' = NoSource /\ stray' = Straying({i})
  /\ UNCHANGED <<applying, booted, toggling, baseMaps>>

\* onTimelineButtonClicked() of an item in the workbench.
ToggleTimeline(i) ==
  /\ OnMap(i) /\ i \in TimeVarying
  /\ timeline' = IF i \in Elements(timeline) THEN TakenOff(i) ELSE OnTop(i)
  /\ Len(timeline') <= MaxStack
  /\ due' = NoSource /\ stray' = Straying({})
  /\ UNCHANGED <<items, applying, booted, toggling, baseMaps>>

\* Mutant: the timeline is left alone.
RemoveAllItems ==
  /\ items' = << >> /\ due' = NoSource
  /\ UNCHANGED <<timeline, stray, applying, booted, toggling, baseMaps>>

\* removeAll() of the workbench.
RemoveAll ==
  /\ items' = << >> /\ timeline' = << >> /\ due' = NoSource /\ stray' = {}
  /\ UNCHANGED <<applying, booted, toggling, baseMaps>>

-----------------------------------------------------------------------------
(* The specification *)

MapInit ==
  /\ items = << >> /\ timeline = << >>
  /\ applying = [s \in Slot |-> Idle]
  /\ booted = 0 /\ toggling = {}
  /\ baseMap = NoBaseMap /\ choosing = {}
  /\ persisted \in BaseMap \union {NoBaseMap}
  /\ due = NoSource /\ stray = {}

Continue(s) == Resume(s) \/ ReferenceLoads(s) \/ MembersLoad(s)

MapNext ==
  \/ \E s \in Slot :
       \/ Continue(s) \/ NextInitSource(s)
       \/ \E r \in Reference : LateReferenceLoads(s, r)
       \/ \E story \in Source \ Elements(InitSources) : ActivateStory(s, story)
  \/ LoadPersistedOrInitBaseMap
  \/ \E b \in BaseMap : SelectBaseMap(b) \/ BaseMapLoads(b)
  \/ \E i \in Item :
       \/ Toggle(i) \/ ToggleTimeline(i)
       \/ RemoveFromMap(i) \/ RemoveFromWorkbench(i)
       \/ \E op \in Op, failed \in BOOLEAN : ToggleEnds(i, op, failed)
  \/ RemoveAll

MapSpec == MapInit /\ [][MapNext]_mapVars

\* What is loaded settles, and loadInitSources() runs to its end.
MapFairness ==
  /\ \A s \in Slot : WF_mapVars(Continue(s)) /\ WF_mapVars(NextInitSource(s))
  /\ WF_mapVars(LoadPersistedOrInitBaseMap)
  /\ \A b \in BaseMap : WF_mapVars(BaseMapLoads(b))

MapFairSpec == MapSpec /\ MapFairness

-----------------------------------------------------------------------------
(* Properties *)

\* What a model that loads puts on the map.
Promised(m) ==
  IF m \in Broken THEN << >> ELSE
  LET target == IF m \in Reference THEN TargetOf[m] ELSE m IN
  IF target \in Item THEN <<target>>
  ELSE IF target \in Broken THEN << >>
  ELSE LET members == Filter(MembersOf[target], Model \ Broken)
       IN  [i \in 1..Len(members) |->
              IF members[i] \in Reference THEN TargetOf[members[i]] ELSE members[i]]

\* What the first n models of the init data put there, as they come.
PromisedByFirst(source, n) ==
  FirstJoined([i \in 1..Len(WorkbenchOf[source]) |-> Promised(WorkbenchOf[source][i])], n)

PromisedBy(source) == WithoutDuplicates(PromisedByFirst(source, Len(WorkbenchOf[source])))

\* Init data that names no group with references among its members.
StraightModel(m) ==
  LET target == IF m \in Reference THEN TargetOf[m] ELSE m
  IN  target \in Group => Elements(MembersOf[target]) \subseteq Item

Straight(source) == \A m \in Elements(WorkbenchOf[source]) : StraightModel(m)

\* However many stories are loaded at the same time, and whatever the user does
\* meanwhile, the workbench is what one of them names, whole, in its order and each item
\* once, with the layers of that one on the timeline, until the user changes it.
WholeSource ==
  due # NoSource =>
    /\ Straight(due) => items = PromisedBy(due)
    /\ timeline = Filter(items, TimelineOf[due])

\* A layer of the timeline is on the map or about to be taken off, unless it strays: when
\* its add ended after it had left the map; when the add found it on the timeline, not on
\* top, so that addToTop() left it there twice and it was taken off but once; or when it
\* left the workbench by the hand of code that does not tell the timeline.
TimelineOnMap ==
  \A i \in Elements(timeline) : OnMap(i) \/ <<i, "remove">> \in toggling \/ i \in stray

\* Whatever an init source names that cannot be loaded, a base map or a model before it
\* in the order, there is a base map in the end, unless the one the user chose cannot be
\* loaded.
BaseMapComes == DefaultBaseMap \notin Broken => <>(baseMap # NoBaseMap \/ persisted \in Broken)

\* "Maintain the model order in the workbench" (Terria.ts:1858), for groups with
\* references among their members too.
OrderMaintained == due # NoSource => items = PromisedBy(due)

\* "Selected basemap ID. This is used to save basemap for shares/stories"
\* (doc/customizing/initialization-files.md:315): where an init source alone asks for a
\* base map, that one is shown once everything has loaded.
BaseMapOfShare ==
  LET asked == {BaseMapOf[source] : source \in Source} \ {NoBaseMap} IN
  /\ booted > Len(InitSources) /\ choosing = {}
  /\ persisted = NoBaseMap /\ asked # {} /\ asked \intersect Broken = {}
  => baseMap \in asked

\* "Toggle an item on or off the map" (toggleItemOnMapFromCatalog.ts:36): an item that is
\* not on the map is not left on the timeline once its toggles are over.
ToggledOffTimeline == toggling = {} => \A i \in Elements(timeline) : OnMap(i)

=============================================================================
