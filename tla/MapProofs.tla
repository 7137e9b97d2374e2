------------------------------ MODULE MapProofs ------------------------------
(***************************************************************************)
(* What the map shows and the viewer that shows it: the camera of          *)
(* TerriaViewer, the collection of DataSourceSync, and the workbench and   *)
(* the timeline of MapState, for any containers, camera views, data        *)
(* sources, items, groups, references and init data, and numbers of zooms, *)
(* timers, syncs, runs and clicks.  The three are apart but for the lists  *)
(* they speak of.                                                          *)
(***************************************************************************)
EXTENDS TerriaViewer, DataSourceSync, MapState, ListLemmas, FiniteSetTheorems

-----------------------------------------------------------------------------
(* TerriaViewer *)

\* The indicator is that of _currentZoomId, which is the last call of zoomTo() as long as
\* that call is on.
ZoomOwned ==
  /\ isMapZooming <=> zoomId # 0
  /\ zoomId # 0 => zoomId = latest /\ zooms[latest] # NoView
  /\ zoomId = 0 /\ latest # 0 => zooms[latest] = NoView

IInv == TypeOK /\ ZoomOwned

\* The types of what currentViewer does not decide.
SystemTyped ==
  /\ mode \in Mode \union {"none"}
  /\ container \in Container \union {Nowhere}
  /\ code \in [Mode -> {"unasked", "pending", "fulfilled", "rejected"}]
  /\ broken \subseteq Mode
  /\ home \in View

CameraTyped ==
  /\ view \in View /\ isMapZooming \in BOOLEAN
  /\ zoomId \in 0..MaxZooms /\ latest \in 0..MaxZooms
  /\ zooms \in [ZoomId -> View \union {NoView}]

ViewerTyped == viewer \in Mode \union {"none"} /\ live \in BOOLEAN /\ timers \in 0..MaxTimers

LEMMA TypeParts == TypeOK <=> SystemTyped /\ CameraTyped /\ ViewerTyped
BY DEF TypeOK, SystemTyped, CameraTyped, ViewerTyped

LEMMA CameraStays == IInv /\ UNCHANGED camera => CameraTyped' /\ ZoomOwned'
BY TypeParts DEF IInv, CameraTyped, ZoomOwned, camera

-----------------------------------------------------------------------------
(* The camera *)

LEMMA StartsAtKeeps ==
  ASSUME NEW v \in View, StartsAt(v)
  PROVE  CameraTyped' /\ ZoomOwned'
<1>1. 1 \in ZoomId /\ 1 \in 0..MaxZooms /\ v # NoView
  BY ViewerAssumption DEF ZoomId
<1>2. zooms' \in [ZoomId -> View \union {NoView}] /\ zooms'[1] = v
  BY <1>1 DEF StartsAt, NoZooms
<1> QED BY <1>1, <1>2 DEF StartsAt, CameraTyped, ZoomOwned

LEMMA ZoomToKeeps ==
  ASSUME IInv, NEW v \in View, NEW atOnce \in BOOLEAN, ZoomTo(v, atOnce)
  PROVE  CameraTyped' /\ ZoomOwned'
<1>1. PICK id \in ZoomId : /\ zooms' = [zooms EXCEPT ![id] = v]
                           /\ zoomId' = id /\ latest' = id /\ isMapZooming' = TRUE
                           /\ view' = IF atOnce \/ viewer = "none" THEN v ELSE view
  BY DEF ZoomTo
<1>2. v # NoView /\ id \in 0..MaxZooms /\ id # 0
  BY ViewerAssumption DEF ZoomId
<1>3. zooms' \in [ZoomId -> View \union {NoView}] /\ zooms'[id] = v
  BY <1>1, TypeParts DEF IInv, CameraTyped
<1>4. view' \in View
  BY <1>1, TypeParts DEF IInv, CameraTyped
<1> QED BY <1>1, <1>2, <1>3, <1>4 DEF CameraTyped, ZoomOwned

LEMMA ZoomEndsKeeps == ASSUME IInv, NEW id \in ZoomId, ZoomEnds(id) PROVE IInv'
<1>1. /\ zooms' \in [ZoomId -> View \union {NoView}] /\ zooms'[id] = NoView
      /\ \A other \in ZoomId \ {id} : zooms'[other] = zooms[other]
  BY TypeParts DEF IInv, CameraTyped, ZoomEnds
<1>2. view' \in View
  BY TypeParts DEF IInv, CameraTyped, ZoomEnds
<1>3. SystemTyped' /\ ViewerTyped'
  BY TypeParts DEF IInv, SystemTyped, ViewerTyped, ZoomEnds
<1>4. CASE zoomId = id
  <2>1. isMapZooming' = FALSE /\ zoomId' = 0 /\ latest' = latest
    BY <1>4 DEF ZoomEnds
  <2>2. latest = id
    BY <1>4 DEF IInv, ZoomOwned, ZoomId
  <2>3. latest' # 0 => zooms'[latest'] = NoView
    BY <1>1, <2>1, <2>2
  <2>4. ZoomOwned'
    BY <2>1, <2>3 DEF ZoomOwned
  <2>5. CameraTyped'
    <3>1. isMapZooming' \in BOOLEAN
      BY <2>1
    <3>2. zoomId' \in 0..MaxZooms /\ latest' \in 0..MaxZooms
      BY <2>1, TypeParts, ViewerAssumption DEF IInv, CameraTyped
    <3> QED BY <1>1, <1>2, <3>1, <3>2 DEF CameraTyped
  <2>6. TypeOK'
    BY <1>3, <2>5 DEF TypeOK, SystemTyped, CameraTyped, ViewerTyped
  <2> QED BY <2>4, <2>6 DEF IInv
<1>5. CASE zoomId # id
  <2>1. isMapZooming \in BOOLEAN
    BY TypeParts DEF IInv, CameraTyped
  <2>2. isMapZooming' = isMapZooming
    BY <1>5, <2>1 DEF ZoomEnds
  <2>3. zoomId' = zoomId /\ latest' = latest
    BY <1>5 DEF ZoomEnds
  <2>4. zoomId # 0 => latest # id
    BY <1>5 DEF IInv, ZoomOwned
  <2>5. latest # 0 => latest \in ZoomId
    BY TypeParts DEF IInv, CameraTyped, ZoomId
  <2>6. ZoomOwned'
    BY <1>1, <2>2, <2>3, <2>4, <2>5 DEF IInv, ZoomOwned
  <2> QED BY <1>1, <1>2, <1>3, <2>1, <2>2, <2>3, <2>6, TypeParts DEF IInv, CameraTyped, TypeOK,
                SystemTyped, ViewerTyped
<1> QED BY <1>4, <1>5

\* What the viewer that is destroyed shows: where it is, or where it flies to.
LEMMA LastViewsTyped ==
  ASSUME IInv, NEW v \in LastViews
  PROVE  /\ v \in View \union {NoView}
         /\ live => v \in View /\ (v = view \/ (zoomId # 0 /\ v = zooms[zoomId]))
<1>1. view \in View
  BY TypeParts DEF IInv, CameraTyped
<1>2. ASSUME zoomId # 0 PROVE zooms[zoomId] \in View
  BY <1>2, TypeParts DEF IInv, CameraTyped, ZoomOwned, ZoomId
<1>3. live => v \in {view} \union (IF zoomId = 0 THEN {} ELSE {zooms[zoomId]})
  BY DEF LastViews, CameraViews
<1>4. ~live => v = NoView
  BY DEF LastViews
<1>5. ASSUME live PROVE v \in View /\ (v = view \/ (zoomId # 0 /\ v = zooms[zoomId]))
  <2>1. v \in {view} \union (IF zoomId = 0 THEN {} ELSE {zooms[zoomId]})
    BY <1>3, <1>5
  <2>2. CASE zoomId = 0
    BY <1>1, <2>1, <2>2
  <2>3. CASE zoomId # 0
    BY <1>1, <1>2, <2>1, <2>3
  <2> QED BY <2>2, <2>3
<1> QED BY <1>4, <1>5

-----------------------------------------------------------------------------
(* currentViewer *)

\* A viewer is made, and its timer set if its constructor throws.
LEMMA NewViewerKeeps ==
  ASSUME IInv, SystemTyped', NEW v \in View \union {NoView}, NEW fired \in {0, 1},
         NewViewer(v, fired), fired <= timers,
         timers - fired < MaxTimers \/ Wanted' \notin broken
  PROVE  IInv'
<1>1. Wanted' \in Mode \union {"none"}
  BY DEF Wanted, Mode, SystemTyped
<1>2. ViewerTyped'
  BY <1>1, TypeParts, ViewerAssumption DEF NewViewer, ViewerTyped, IInv
<1>3. (IF v = NoView THEN home ELSE v) \in View
  BY TypeParts DEF IInv, SystemTyped
<1>4. CameraTyped' /\ ZoomOwned'
  BY <1>3, StartsAtKeeps DEF NewViewer
<1>5. TypeOK'
  BY <1>2, <1>4 DEF TypeOK, SystemTyped, CameraTyped, ViewerTyped
<1> QED BY <1>4, <1>5 DEF IInv

LEMMA ReactKeeps ==
  ASSUME IInv, SystemTyped', NEW changed \in BOOLEAN, NEW fired \in {0, 1}, React(changed, fired),
         fired <= timers, timers - fired < MaxTimers
  PROVE  IInv'
<1>1. CASE changed
  <2>1. PICK v \in LastViews : NewViewer(v, fired)
    BY <1>1 DEF React
  <2> QED BY <2>1, LastViewsTyped, NewViewerKeeps
<1>2. CASE ~changed
  <2>1. timers' = timers - fired /\ UNCHANGED <<viewer, live, camera>>
    BY <1>2 DEF React
  <2>2. ViewerTyped'
    BY <2>1, TypeParts, ViewerAssumption DEF IInv, ViewerTyped
  <2>3. CameraTyped' /\ ZoomOwned'
    BY <2>1, CameraStays
  <2>4. TypeOK'
    BY <2>2, <2>3 DEF TypeOK, SystemTyped, CameraTyped, ViewerTyped
  <2> QED BY <2>3, <2>4 DEF IInv
<1> QED BY <1>1, <1>2

LEMMA AskedTyped ==
  ASSUME IInv, NEW c, NEW m \in Mode \union {"none"}
  PROVE  Asked(c, m) \in [Mode -> {"unasked", "pending", "fulfilled", "rejected"}]
BY TypeParts DEF IInv, SystemTyped, Asked

LEMMA AttachKeeps == ASSUME IInv, NEW c \in Container, Attach(c) PROVE IInv'
<1>1. SystemTyped'
  BY AskedTyped, TypeParts DEF IInv, SystemTyped, Attach
<1>2. (c # container) \in BOOLEAN
  OBVIOUS
<1>3. 0 <= timers /\ timers - 0 < MaxTimers
  BY TypeParts, ViewerAssumption DEF IInv, ViewerTyped, Attach
<1> QED BY <1>1, <1>2, <1>3, ReactKeeps DEF Attach

LEMMA DetachKeeps == ASSUME IInv, Detach PROVE IInv'
<1>1. SystemTyped' /\ Wanted' = "none" /\ broken' = broken
  BY TypeParts DEF IInv, SystemTyped, Detach, Wanted, Attached
<1>2. timers \in 0..MaxTimers
  BY TypeParts DEF IInv, ViewerTyped
<1>3. CASE Attached
  <2>1. NewViewer(NoView, 0)
    BY <1>3 DEF Detach
  <2>2. Wanted' \notin broken
    BY <1>1, TypeParts DEF IInv, SystemTyped, Mode
  <2> QED BY <1>1, <1>2, <2>1, <2>2, NewViewerKeeps
<1>4. CASE ~Attached
  <2>1. live' = FALSE /\ UNCHANGED <<viewer, timers, camera>>
    BY <1>4 DEF Detach
  <2>2. CameraTyped' /\ ZoomOwned'
    BY <2>1, CameraStays
  <2>3. ViewerTyped'
    BY <2>1, TypeParts DEF IInv, ViewerTyped
  <2>4. TypeOK'
    BY <1>1, <2>2, <2>3 DEF TypeOK, SystemTyped, CameraTyped, ViewerTyped
  <2> QED BY <2>2, <2>4 DEF IInv
<1> QED BY <1>3, <1>4

LEMMA SetModeKeeps ==
  ASSUME IInv, NEW m \in Mode \union {"none"}, NEW fired \in {0, 1}, SetMode(m, fired),
         fired <= timers, timers - fired < MaxTimers
  PROVE  IInv'
<1>1. SystemTyped'
  BY AskedTyped, TypeParts DEF IInv, SystemTyped, SetMode
<1>2. (Attached /\ m # mode) \in BOOLEAN
  OBVIOUS
<1> QED BY <1>1, <1>2, ReactKeeps DEF SetMode

LEMMA ModesKeep ==
  ASSUME IInv, Fallback \/ \E m \in Mode : SetViewerMode(m)
  PROVE  IInv'
<1>1. timers \in 0..MaxTimers
  BY TypeParts DEF IInv, ViewerTyped
<1>2. CASE Fallback
  <2>1. timers - 1 < MaxTimers /\ 1 <= timers
    BY <1>1, <1>2, ViewerAssumption DEF Fallback
  <2>2. (IF mode = "cesium" THEN "leaflet" ELSE "none") \in Mode \union {"none"}
    BY DEF Mode
  <2> QED BY <1>2, <2>1, <2>2, SetModeKeeps DEF Fallback
<1>3. ASSUME NEW m \in Mode, SetViewerMode(m) PROVE IInv'
  <2>1. timers - 0 < MaxTimers /\ 0 <= timers
    BY <1>1, <1>3, ViewerAssumption DEF SetViewerMode
  <2> QED BY <1>3, <2>1, SetModeKeeps DEF SetViewerMode
<1> QED BY <1>2, <1>3

LEMMA CodeArrivesKeeps ==
  ASSUME IInv, NEW m \in Mode, NEW state \in {"fulfilled", "rejected"}, CodeArrives(m, state)
  PROVE  IInv'
<1>1. SystemTyped'
  BY TypeParts DEF IInv, SystemTyped, CodeArrives
<1>2. (Attached /\ mode = m) \in BOOLEAN
  OBVIOUS
<1>3. 0 <= timers /\ timers - 0 < MaxTimers
  BY TypeParts, ViewerAssumption DEF IInv, ViewerTyped, CodeArrives
<1> QED BY <1>1, <1>2, <1>3, ReactKeeps DEF CodeArrives

\* Home cameras, flights and the user's hand write the camera alone.
LEMMA CameraKeeps ==
  ASSUME IInv, NEW v \in View, LoadHomeCamera(v) \/ Fly(v) \/ Move(v)
  PROVE  IInv'
<1>1. SystemTyped' /\ ViewerTyped'
  BY TypeParts DEF IInv, SystemTyped, ViewerTyped, LoadHomeCamera, Fly, Move
<1>2. CASE LoadHomeCamera(v)
  BY <1>1, <1>2, CameraStays, ZoomToKeeps DEF LoadHomeCamera, IInv, TypeOK, SystemTyped,
     CameraTyped, ViewerTyped
<1>3. CASE Fly(v)
  BY <1>1, <1>3, ZoomToKeeps DEF Fly, IInv, TypeOK, SystemTyped, CameraTyped, ViewerTyped
<1>4. CASE Move(v)
  BY <1>1, <1>4 DEF Move, IInv, TypeOK, SystemTyped, CameraTyped, ViewerTyped, ZoomOwned
<1> QED BY <1>2, <1>3, <1>4

-----------------------------------------------------------------------------
(* The invariant *)

LEMMA InitHolds == Init => IInv
<1> SUFFICES ASSUME Init PROVE IInv
  OBVIOUS
<1>1. zooms \in [ZoomId -> View \union {NoView}] /\ view \in View /\ home \in View
  BY ViewerAssumption DEF Init, NoZooms
<1>2. mode \in Mode \union {"none"} /\ viewer \in Mode \union {"none"}
  BY DEF Init, Mode
<1>3. code \in [Mode -> {"unasked", "pending", "fulfilled", "rejected"}] /\ broken \subseteq Mode
  BY DEF Init
<1>4. timers \in 0..MaxTimers /\ zoomId \in 0..MaxZooms /\ latest \in 0..MaxZooms
  BY ViewerAssumption DEF Init
<1>5. TypeOK
  BY <1>1, <1>2, <1>3, <1>4 DEF Init, TypeOK
<1>6. ZoomOwned
  BY DEF Init, ZoomOwned
<1> QED BY <1>5, <1>6 DEF IInv

LEMMA Inductive == IInv /\ [Next]_vars => IInv'
<1> SUFFICES ASSUME IInv, [Next]_vars PROVE IInv'
  OBVIOUS
<1>1. CASE \E c \in Container : Attach(c)
  BY <1>1, AttachKeeps
<1>2. CASE Detach
  BY <1>2, DetachKeeps
<1>3. CASE Fallback \/ \E m \in Mode : SetViewerMode(m)
  BY <1>3, ModesKeep
<1>4. CASE \E m \in Mode, state \in {"fulfilled", "rejected"} : CodeArrives(m, state)
  BY <1>4, CodeArrivesKeeps
<1>5. CASE \E v \in View \ {World} : LoadHomeCamera(v) \/ Fly(v) \/ Move(v)
  BY <1>5, CameraKeeps
<1>6. CASE \E id \in ZoomId : ZoomEnds(id)
  BY <1>6, ZoomEndsKeeps
<1>7. CASE UNCHANGED vars
  BY <1>7 DEF vars, camera, IInv, TypeOK, ZoomOwned
<1> QED BY <1>1, <1>2, <1>3, <1>4, <1>5, <1>6, <1>7 DEF Next

\* The viewer's state has its types: a new viewer always has a view to start from.
THEOREM TypeCorrect == Spec => []TypeOK
<1>1. IInv => TypeOK
  BY DEF IInv
<1> QED BY <1>1, InitHolds, Inductive, PTL DEF Spec

\* The indicator of a zoom is on exactly while the last zoom is on.
THEOREM ZoomIsKnown == Spec => []ZoomingKnown
<1>1. IInv => ZoomingKnown
  <2> SUFFICES ASSUME IInv PROVE ZoomingKnown
    OBVIOUS
  <2>1. zoomId # 0 <=> latest # 0 /\ zooms[latest] # NoView
    BY DEF IInv, ZoomOwned
  <2>2. isMapZooming <=> zoomId # 0
    BY DEF IInv, ZoomOwned
  <2> QED BY <2>1, <2>2 DEF ZoomingKnown
<1> QED BY <1>1, InitHolds, Inductive, PTL DEF Spec

\* A viewer that is made anew does not move the camera, whatever became of the one before.
LEMMA ReactKeepsView ==
  ASSUME IInv, live, NEW changed \in BOOLEAN, NEW fired, React(changed, fired)
  PROVE  view' = view \/ (zoomId # 0 /\ view' = zooms[zoomId])
<1>1. CASE changed
  <2>1. PICK v \in LastViews : NewViewer(v, fired)
    BY <1>1 DEF React
  <2>2. v \in View /\ (v = view \/ (zoomId # 0 /\ v = zooms[zoomId]))
    BY LastViewsTyped
  <2>3. view' = v
    BY <2>1, <2>2, ViewerAssumption DEF NewViewer, StartsAt
  <2> QED BY <2>2, <2>3
<1>2. CASE ~changed
  BY <1>2 DEF React, camera
<1> QED BY <1>1, <1>2

\* The camera stays where the user or a zoom has put it, until a detach().
THEOREM ViewIsKept == Spec => ViewKept
<1> DEFINE Stays == view' # view =>
             \/ Detach \/ ~live
             \/ zoomId # 0 /\ view' = zooms[zoomId]
             \/ \E v \in View : LoadHomeCamera(v) \/ Fly(v) \/ Move(v)
<1>1. IInv /\ [Next]_vars => [Stays]_vars
  <2> SUFFICES ASSUME IInv, Next, live, ~Detach,
                      ~\E v \in View : LoadHomeCamera(v) \/ Fly(v) \/ Move(v)
               PROVE  view' = view \/ (zoomId # 0 /\ view' = zooms[zoomId])
    OBVIOUS
  <2>1. ASSUME NEW c \in Container, Attach(c)
        PROVE  view' = view \/ (zoomId # 0 /\ view' = zooms[zoomId])
    <3>1. (c # container) \in BOOLEAN
      OBVIOUS
    <3> QED BY <2>1, <3>1, ReactKeepsView DEF Attach
  <2>2. ASSUME NEW m, NEW fired, SetMode(m, fired)
        PROVE  view' = view \/ (zoomId # 0 /\ view' = zooms[zoomId])
    <3>1. (Attached /\ m # mode) \in BOOLEAN
      OBVIOUS
    <3> QED BY <2>2, <3>1, ReactKeepsView DEF SetMode
  <2>3. ASSUME NEW m \in Mode, NEW state, CodeArrives(m, state)
        PROVE  view' = view \/ (zoomId # 0 /\ view' = zooms[zoomId])
    <3>1. (Attached /\ mode = m) \in BOOLEAN
      OBVIOUS
    <3> QED BY <2>3, <3>1, ReactKeepsView DEF CodeArrives
  <2>4. ASSUME NEW id \in ZoomId, ZoomEnds(id)
        PROVE  view' = view \/ (zoomId # 0 /\ view' = zooms[zoomId])
    <3>1. zooms[id] # NoView /\ view' = IF id = latest THEN zooms[id] ELSE view
      BY <2>4 DEF ZoomEnds
    <3>2. id = latest => zoomId # 0 /\ zoomId = id
      BY <3>1 DEF IInv, ZoomOwned, ZoomId
    <3> QED BY <3>1, <3>2
  <2>5. \A m \in Mode : SetViewerMode(m) => SetMode(m, 0)
    BY DEF SetViewerMode
  <2>6. Fallback => SetMode(IF mode = "cesium" THEN "leaflet" ELSE "none", 1)
    BY DEF Fallback
  <2> QED BY <2>1, <2>2, <2>3, <2>4, <2>5, <2>6 DEF Next
<1>2. Spec => []IInv
  BY InitHolds, Inductive, PTL DEF Spec
<1> QED BY <1>1, <1>2, PTL DEF Spec, ViewKept

-----------------------------------------------------------------------------
(* DataSourceSync *)

\* What the collection holds is of the list and wanted, and no wanted one before the
\* place is missing.
HasUpTo(coll, list, at) ==
  /\ \A d \in Entries!ToSet(coll) : In(d, list) /\ d \in WantedSources
  /\ \A i \in 1..at - 1 : list[i] \in WantedSources => In(list[i], coll)

\* Only the first sync is under way: its list has no source twice, and the one it waits for
\* is not in the collection.
OneAtATime ==
  \A k \in 1..Len(syncs) : syncs[k].begun =>
    /\ k = 1
    /\ Distinct(syncs[k].list)
    /\ ~In(syncs[k].list[syncs[k].at - 1], dataSources)

\* The last sync follows the model as it is now.
LastIsCurrent ==
  Len(syncs) = 1 /\ syncs[1].begun =>
    /\ syncs[1].list = available
    /\ available[syncs[1].at - 1] \in WantedSources
    /\ HasUpTo(dataSources, available, syncs[1].at - 1)

SyncInv ==
  /\ SyncTypeOK
  /\ Distinct(available) /\ Distinct(dataSources)
  /\ OneAtATime /\ LastIsCurrent
  /\ Settled

LEMMA InjectiveIsDistinct ==
  ASSUME NEW list \in InjectiveSeqs
  PROVE  list \in Seq(DataSource) /\ Distinct(list)
<1>1. Cardinality(DataSource) \in Nat
  BY SyncAssumption, FS_CardinalityType
<1>2. PICK m \in 0..Cardinality(DataSource) : list \in [1..m -> DataSource]
  BY DEF InjectiveSeqs, Entries!SeqOf
<1>3. list \in Seq(DataSource) /\ Len(list) = m
  BY <1>1, <1>2
<1>4. \A i, j \in 1..m : list[i] = list[j] => i = j
  BY <1>2 DEF InjectiveSeqs, Entries!IsInjective
<1> QED BY <1>3, <1>4 DEF Distinct

LEMMA SetOf ==
  ASSUME NEW S, NEW list \in Seq(S)
  PROVE  Entries!ToSet(list) = {list[i] : i \in 1..Len(list)} /\ Entries!ToSet(list) \subseteq S
BY DEF Entries!ToSet

LEMMA FilterIn ==
  ASSUME NEW list \in Seq(DataSource), NEW T
  PROVE  /\ Filter(list, T) \in Seq(DataSource)
         /\ Entries!ToSet(Filter(list, T)) = Entries!ToSet(list) \intersect T
<1> DEFINE new == Filter(list, T)
<1>1. /\ new \in Seq(DataSource) /\ PartOf(new, list)
      /\ \A i \in 1..Len(new) : new[i] \in T
      /\ \A n \in 1..Len(list) : list[n] \in T => \E i \in 1..Len(new) : new[i] = list[n]
  BY FilterElements
<1> HIDE DEF new
<1>2. /\ Entries!ToSet(new) = {new[i] : i \in 1..Len(new)}
      /\ Entries!ToSet(list) = {list[i] : i \in 1..Len(list)}
  BY <1>1, SetOf
<1>3. Entries!ToSet(new) \subseteq Entries!ToSet(list) \intersect T
  <2>1. \A i \in 1..Len(new) : \E n \in 1..Len(list) : list[n] = new[i]
    BY <1>1 DEF PartOf
  <2> QED BY <1>1, <1>2, <2>1
<1>4. Entries!ToSet(list) \intersect T \subseteq Entries!ToSet(new)
  BY <1>1, <1>2
<1> QED BY <1>1, <1>3, <1>4 DEF new

\* Two lists without an element twice, and with none in common.
LEMMA ConcatDistinct ==
  ASSUME NEW s \in Seq(DataSource), NEW t \in Seq(DataSource), Distinct(s), Distinct(t),
         Entries!ToSet(s) \intersect Entries!ToSet(t) = {}
  PROVE  s \o t \in Seq(DataSource) /\ Distinct(s \o t)
<1>1. /\ s \o t \in Seq(DataSource)
      /\ Len(s \o t) = Len(s) + Len(t)
      /\ \A i \in 1..Len(s) + Len(t) : (s \o t)[i] = IF i <= Len(s) THEN s[i] ELSE t[i - Len(s)]
  BY ConcatElements
<1> DEFINE new == s \o t
<1> HIDE DEF new
<1>2. \A i \in 1..Len(s), j \in 1..Len(t) : s[i] # t[j]
  BY SetOf
<1>3. ASSUME NEW i \in 1..Len(new), NEW j \in 1..Len(new), new[i] = new[j]
      PROVE  i = j
  <2>1. CASE i <= Len(s) /\ j <= Len(s)
    BY <1>1, <1>3, <2>1 DEF new, Distinct
  <2>2. CASE i > Len(s) /\ j > Len(s)
    <3>1. i - Len(s) \in 1..Len(t) /\ j - Len(s) \in 1..Len(t)
      BY <1>1, <2>2 DEF new
    <3>2. t[i - Len(s)] = t[j - Len(s)]
      BY <1>1, <1>3, <2>2 DEF new
    <3>3. i - Len(s) = j - Len(s)
      BY <3>1, <3>2 DEF Distinct
    <3> QED BY <3>3
  <2>3. CASE i <= Len(s) /\ j > Len(s)
    <3>1. i \in 1..Len(s) /\ j - Len(s) \in 1..Len(t)
      BY <1>1, <2>3 DEF new
    <3> QED BY <1>1, <1>2, <1>3, <2>3, <3>1 DEF new
  <2>4. CASE i > Len(s) /\ j <= Len(s)
    <3>1. j \in 1..Len(s) /\ i - Len(s) \in 1..Len(t)
      BY <1>1, <2>4 DEF new
    <3> QED BY <1>1, <1>2, <1>3, <2>4, <3>1 DEF new
  <2> QED BY <2>1, <2>2, <2>3, <2>4
<1> QED BY <1>1, <1>3 DEF new, Distinct

\* Raising the list leaves no source twice, and the wanted ones of the list if those are
\* what there is.
LEMMA RaisedKeeps ==
  ASSUME NEW list \in Seq(DataSource), NEW coll \in Seq(DataSource), Distinct(list), Distinct(coll)
  PROVE  /\ Raised(list, coll) \in Seq(DataSource) /\ Distinct(Raised(list, coll))
         /\ HasUpTo(coll, list, Len(list) + 1) => Raised(list, coll) = Filter(list, WantedSources)
<1> DEFINE others == Filter(coll, DataSource \ Entries!ToSet(list))
           raised == Filter(list, Entries!ToSet(coll))
<1>1. /\ others \in Seq(DataSource) /\ raised \in Seq(DataSource)
      /\ Entries!ToSet(others) = Entries!ToSet(coll) \intersect (DataSource \ Entries!ToSet(list))
      /\ Entries!ToSet(raised) = Entries!ToSet(list) \intersect Entries!ToSet(coll)
  BY FilterIn
<1>2. Distinct(others) /\ Distinct(raised)
  <2>1. Distinct(others)
    BY ONLY coll \in Seq(DataSource), Distinct(coll), FilterDistinct
  <2>2. Distinct(raised)
    BY ONLY list \in Seq(DataSource), Distinct(list), FilterDistinct
  <2> QED BY <2>1, <2>2
<1>3. ASSUME HasUpTo(coll, list, Len(list) + 1)
      PROVE  others \o raised = Filter(list, WantedSources)
  <2>1. \A n \in 1..Len(coll) : coll[n] \notin DataSource \ Entries!ToSet(list)
    BY <1>3, SetOf DEF HasUpTo, In
  <2>2. others = << >>
    BY <2>1, FilterEmpty
  <2>3. \A n \in 1..Len(list) : list[n] \in Entries!ToSet(coll) <=> list[n] \in WantedSources
    BY <1>3, SetOf DEF HasUpTo, In
  <2>4. raised = Filter(list, WantedSources)
    BY <2>3, FilterSame
  <2> HIDE DEF others, raised
  <2>5. << >> \o raised = raised
    BY <1>1
  <2> QED BY <2>2, <2>4, <2>5
<1> HIDE DEF others, raised
<1>4. others \o raised \in Seq(DataSource) /\ Distinct(others \o raised)
  BY <1>1, <1>2, ConcatDistinct
<1> QED BY <1>3, <1>4 DEF Raised, others, raised

\* A sync is queued, or it waits for the entry of its list before its place.
LEMMA SyncIs ==
  ASSUME NEW s \in Sync
  PROVE  /\ s.begun \in BOOLEAN
         /\ s.begun => s.list \in Seq(DataSource) /\ s.at \in 2..Len(s.list) + 1
         /\ ~s.begun => s = Queued
<1>1. CASE s = Queued
  BY <1>1 DEF Queued
<1>2. CASE s \in [begun : {TRUE}, list : Seq(DataSource), at : Nat]
           /\ s.at \in 2..Len(s.list) + 1
  BY <1>2
<1> QED BY <1>1, <1>2 DEF Sync

LEMMA SyncMade ==
  ASSUME NEW list \in Seq(DataSource), NEW m \in 1..Len(list)
  PROVE  [begun |-> TRUE, list |-> list, at |-> m + 1] \in Sync
<1>1. m + 1 \in 2..Len(list) + 1 /\ m + 1 \in Nat
  OBVIOUS
<1> QED BY <1>1 DEF Sync

-----------------------------------------------------------------------------

\* A list whose first element is replaced, and one whose first element is taken out.
LEMMA FirstReplaced ==
  ASSUME NEW S, NEW list \in Seq(S), list # << >>, NEW e \in S
  PROVE  LET new == [list EXCEPT ![1] = e] IN
         /\ new \in Seq(S) /\ Len(new) = Len(list) /\ new[1] = e
         /\ \A k \in 2..Len(list) : new[k] = list[k]
OBVIOUS

LEMMA FirstTakenOut ==
  ASSUME NEW S, NEW list \in Seq(S), list # << >>
  PROVE  LET new == Entries!RemoveAt(list, 1) IN
         /\ new \in Seq(S) /\ Len(new) = Len(list) - 1
         /\ \A k \in 1..Len(list) - 1 : new[k] = list[k + 1]
<1> DEFINE new == SubSeq(list, 1, 1 - 1) \o SubSeq(list, 1 + 1, Len(list))
<1>1. 1 \in 1..Len(list)
  OBVIOUS
<1>2. /\ new \in Seq(S) /\ Len(new) = Len(list) - 1
      /\ \A k \in 1..Len(new) : new[k] = IF k < 1 THEN list[k] ELSE list[k + 1]
  BY <1>1, TakenOut
<1>3. Entries!RemoveAt(list, 1) = new
  BY DEF Entries!RemoveAt
<1> HIDE DEF new
<1>4. \A k \in 1..Len(list) - 1 : new[k] = list[k + 1]
  BY <1>2
<1> QED BY <1>2, <1>3, <1>4

\* The first sync goes on: all that it has to know of its list and the collection.
LEMMA ProceedKeeps ==
  ASSUME SyncTypeOK, OneAtATime, Distinct(available), syncs # << >>,
         NEW list \in Seq(DataSource), NEW at \in 1..Len(list) + 1, NEW coll \in Seq(DataSource),
         Distinct(list), Distinct(coll),
         Len(syncs) = 1 => list = available /\ HasUpTo(coll, list, at),
         Proceed(1, list, at, coll), UNCHANGED <<available, shown>>
  PROVE  SyncInv'
<1> DEFINE missing == Missing(list, at, coll)
<1>1. /\ syncs \in Seq(Sync) /\ Len(syncs) <= MaxQueue /\ Len(syncs) \in Nat
      /\ \A k \in 2..Len(syncs) : syncs[k] = Queued
  BY SyncIs DEF SyncTypeOK, OneAtATime
<1>2. /\ available' \in Seq(DataSource) /\ shown' \subseteq DataSource /\ Distinct(available')
      /\ WantedSources' = WantedSources
  BY DEF SyncTypeOK, WantedSources
<1>3. CASE missing # {}
  <2> DEFINE m    == Min(missing)
             sync == [begun |-> TRUE, list |-> list, at |-> m + 1]
  <2>1. m \in missing /\ \A i \in missing : m <= i
    <3>1. missing \in SUBSET Nat
      BY DEF Missing
    <3> QED BY <1>3, <3>1, LeastElement
  <2>2. /\ m \in at..Len(list) /\ m \in Nat /\ ~In(list[m], coll) /\ list[m] \in WantedSources
        /\ \A i \in at..m - 1 : list[i] \in WantedSources => In(list[i], coll)
    <3> HIDE DEF m
    <3>1. m \in at..Len(list) /\ m \in Nat /\ ~In(list[m], coll) /\ list[m] \in WantedSources
      BY <2>1 DEF Missing
    <3>2. ASSUME NEW i \in at..m - 1
          PROVE  i \in at..Len(list) /\ i \notin missing
      BY <2>1, <3>1
    <3> QED BY <3>1, <3>2 DEF Missing
  <2>3. dataSources' = coll /\ syncs' = [syncs EXCEPT ![1] = sync]
    BY <1>3 DEF Proceed
  <2> HIDE DEF m, missing
  <2>4. sync \in Sync
    BY <2>2, SyncMade
  <2>5. /\ syncs' \in Seq(Sync) /\ Len(syncs') = Len(syncs) /\ syncs'[1] = sync
        /\ \A k \in 2..Len(syncs) : syncs'[k] = syncs[k]
    BY <1>1, <2>3, <2>4, FirstReplaced
  <2>6. SyncTypeOK'
    BY <1>1, <1>2, <2>3, <2>5 DEF SyncTypeOK
  <2>7. OneAtATime'
    BY <1>1, <2>2, <2>3, <2>5 DEF OneAtATime, Queued, In
  <2>8. LastIsCurrent'
    <3> SUFFICES ASSUME Len(syncs) = 1
                 PROVE  /\ list = available /\ available[m] \in WantedSources
                        /\ HasUpTo(coll, available, m)
      BY <1>2, <2>2, <2>3, <2>5 DEF LastIsCurrent, HasUpTo, In
    <3>1. list = available /\ HasUpTo(coll, list, at)
      OBVIOUS
    <3>2. \A i \in 1..m - 1 : i \in 1..at - 1 \/ i \in at..m - 1
      BY <2>2
    <3> QED BY <2>2, <3>1, <3>2 DEF HasUpTo
  <2>9. Settled'
    BY <1>1, <2>5 DEF Settled
  <2> QED BY <1>2, <2>3, <2>6, <2>7, <2>8, <2>9 DEF SyncInv
<1>4. CASE missing = {}
  <2>1. dataSources' = Raised(list, coll) /\ syncs' = Entries!RemoveAt(syncs, 1)
    BY <1>4 DEF Proceed
  <2>2. /\ syncs' \in Seq(Sync) /\ Len(syncs') = Len(syncs) - 1
        /\ \A k \in 1..Len(syncs) - 1 : syncs'[k] = syncs[k + 1]
    BY <1>1, <2>1, FirstTakenOut
  <2>3. \A k \in 1..Len(syncs') : syncs'[k] = Queued
    BY <1>1, <2>2
  <2>4. dataSources' \in Seq(DataSource) /\ Distinct(dataSources')
    BY <2>1, RaisedKeeps
  <2>5. SyncTypeOK'
    BY <1>1, <1>2, <2>2, <2>4, SyncAssumption DEF SyncTypeOK
  <2>6. OneAtATime' /\ LastIsCurrent'
    BY <1>1, <2>2, <2>3 DEF OneAtATime, LastIsCurrent, Queued
  <2>7. Settled'
    <3> SUFFICES ASSUME Len(syncs) = 1 PROVE Raised(list, coll) = Filter(available, WantedSources)
      BY <1>1, <1>2, <2>1, <2>2 DEF Settled
    <3>1. list = available /\ HasUpTo(coll, list, at)
      OBVIOUS
    <3>2. HasUpTo(coll, list, Len(list) + 1)
      <4>1. \A i \in 1..Len(list) : i \in 1..at - 1 \/ i \in at..Len(list)
        OBVIOUS
      <4> QED BY <1>4, <3>1, <4>1 DEF HasUpTo, Missing
    <3> QED BY <3>1, <3>2, RaisedKeeps
  <2> QED BY <1>2, <2>4, <2>5, <2>6, <2>7 DEF SyncInv
<1> QED BY <1>3, <1>4

LEMMA BeginKeeps ==
  ASSUME SyncInv, NEW k \in 1..Len(syncs), Begin(k)
  PROVE  SyncInv'
<1> DEFINE kept == Kept(dataSources)
<1>1. /\ k = 1 /\ syncs # << >> /\ UNCHANGED <<available, shown>>
      /\ Proceed(1, available, 1, kept)
  BY DEF Begin, Turn
<1>2. available \in Seq(DataSource) /\ dataSources \in Seq(DataSource)
  BY DEF SyncInv, SyncTypeOK
<1>3. /\ kept \in Seq(DataSource)
      /\ Entries!ToSet(kept) =
           Entries!ToSet(dataSources) \intersect (Entries!ToSet(available) \intersect WantedSources)
  BY <1>2, FilterIn DEF Kept
<1>4. Distinct(kept)
  BY <1>2, FilterDistinct DEF SyncInv, Kept
<1> HIDE DEF kept
<1>5. HasUpTo(kept, available, 1)
  BY <1>3 DEF HasUpTo, In
<1>6. 1 \in 1..Len(available) + 1
  BY <1>2
<1> QED BY <1>1, <1>2, <1>3, <1>4, <1>5, <1>6, ProceedKeeps DEF SyncInv

LEMMA AddedKeeps ==
  ASSUME SyncInv, NEW k \in 1..Len(syncs), Added(k)
  PROVE  SyncInv'
<1> DEFINE list == syncs[1].list
           at   == syncs[1].at
           d    == list[at - 1]
           coll == Append(dataSources, d)
<1>1. /\ k = 1 /\ syncs # << >> /\ UNCHANGED <<available, shown>> /\ syncs[1].begun
      /\ Proceed(1, list, at, coll)
  BY DEF Added, SyncInv, OneAtATime
<1>2. /\ syncs[1] \in Sync /\ dataSources \in Seq(DataSource)
      /\ list \in Seq(DataSource) /\ at \in 2..Len(list) + 1
  BY <1>1, SyncIs DEF SyncInv, SyncTypeOK
<1>3. Distinct(list) /\ Distinct(dataSources) /\ ~In(d, dataSources)
  BY <1>1 DEF SyncInv, OneAtATime
<1>4. Len(syncs) = 1 =>
        /\ list = available /\ d \in WantedSources
        /\ HasUpTo(dataSources, list, at - 1)
  BY <1>1 DEF SyncInv, LastIsCurrent
<1> HIDE DEF list, at
<1>5. d \in DataSource /\ at - 1 \in 1..Len(list) /\ at \in Nat
  BY <1>2
<1>6. coll \in Seq(DataSource) /\ Distinct(coll)
  <2>1. \A i \in 1..Len(dataSources) : dataSources[i] # d
    BY <1>2, <1>3, SetOf DEF In
  <2> HIDE DEF d
  <2> QED BY <1>2, <1>3, <1>5, <2>1 DEF Distinct
<1>7. /\ \A e \in Entries!ToSet(coll) : e \in Entries!ToSet(dataSources) \/ e = d
      /\ Entries!ToSet(dataSources) \subseteq Entries!ToSet(coll) /\ d \in Entries!ToSet(coll)
  <2>1. /\ Entries!ToSet(coll) = {coll[i] : i \in 1..Len(dataSources) + 1}
        /\ Entries!ToSet(dataSources) = {dataSources[i] : i \in 1..Len(dataSources)}
    <3>1. Len(coll) = Len(dataSources) + 1
      BY <1>2, <1>5
    <3> HIDE DEF coll
    <3> QED BY <1>2, <1>6, <3>1, SetOf
  <2>2. /\ \A i \in 1..Len(dataSources) : coll[i] = dataSources[i] /\ i \in 1..Len(dataSources) + 1
        /\ coll[Len(dataSources) + 1] = d /\ Len(dataSources) + 1 \in 1..Len(dataSources) + 1
        /\ \A i \in 1..Len(dataSources) + 1 : i \in 1..Len(dataSources) \/ i = Len(dataSources) + 1
    BY <1>2, <1>5
  <2> HIDE DEF coll, d
  <2> QED BY <2>1, <2>2
<1>8. In(d, list)
  BY <1>2, <1>5, SetOf DEF In
<1>9. Len(syncs) = 1 => list = available /\ HasUpTo(coll, list, at)
  <2>1. \A i \in 1..at - 1 : i \in 1..(at - 1) - 1 \/ i = at - 1
    BY <1>5
  <2>2. d = list[at - 1]
    OBVIOUS
  <2> HIDE DEF coll, d
  <2> QED BY <1>4, <1>7, <1>8, <2>1, <2>2 DEF HasUpTo, In
<1>10. at \in 1..Len(list) + 1
  BY <1>2
<1> HIDE DEF coll, d
<1> QED BY <1>1, <1>2, <1>3, <1>6, <1>9, <1>10, ProceedKeeps DEF SyncInv

LEMMA ModelChangesKeeps ==
  ASSUME SyncInv, ModelChanges
  PROVE  SyncInv'
<1>1. /\ syncs \in Seq(Sync) /\ Len(syncs) \in Nat /\ Len(syncs) < MaxQueue /\ Queued \in Sync
  BY DEF SyncInv, SyncTypeOK, ModelChanges, Sync
<1>2. /\ syncs' \in Seq(Sync) /\ Len(syncs') = Len(syncs) + 1 /\ syncs'[Len(syncs) + 1] = Queued
      /\ \A k \in 1..Len(syncs) : syncs'[k] = syncs[k]
  <2>1. syncs' = Append(syncs, Queued)
    BY DEF ModelChanges
  <2> QED BY <1>1, <2>1
<1>3. \A k \in 1..Len(syncs) + 1 : k \in 1..Len(syncs) \/ syncs'[k] = Queued
  BY <1>1, <1>2
<1>4. available' \in Seq(DataSource) /\ Distinct(available')
  BY InjectiveIsDistinct DEF ModelChanges
<1>5. shown' \subseteq DataSource /\ UNCHANGED dataSources
  BY DEF ModelChanges
<1>6. SyncTypeOK'
  <2>1. Len(syncs) + 1 <= MaxQueue
    BY <1>1, SyncAssumption
  <2> QED BY <1>2, <1>4, <1>5, <2>1 DEF SyncInv, SyncTypeOK
<1>7. ~Queued.begun
  BY DEF Queued
<1>8. OneAtATime'
  BY <1>2, <1>3, <1>5, <1>7 DEF SyncInv, OneAtATime
<1>9. LastIsCurrent' /\ Settled'
  BY <1>1, <1>2, <1>7 DEF LastIsCurrent, Settled
<1> QED BY <1>4, <1>5, <1>6, <1>8, <1>9 DEF SyncInv

\* In every state: one sync at a time, the last of the queue with the list of the model as
\* it is, and no data source twice (Leaflet.ts and Cesium.ts, syncDataSourceCollection).
THEOREM SyncInvariant == SyncSpec => []SyncInv
<1>1. SyncInit => SyncInv
  <2> SUFFICES ASSUME SyncInit PROVE SyncInv
    OBVIOUS
  <2>1. available \in Seq(DataSource) /\ Distinct(available)
    BY InjectiveIsDistinct DEF SyncInit
  <2>2. SyncTypeOK
    <3>1. Queued \in Sync
      BY DEF Sync
    <3>2. syncs \in Seq(Sync) /\ Len(syncs) = 1
      BY <3>1 DEF SyncInit
    <3> QED BY <2>1, <3>2, SyncAssumption DEF SyncInit, SyncTypeOK
  <2>3. OneAtATime /\ LastIsCurrent /\ Settled /\ Distinct(dataSources)
    BY DEF SyncInit, OneAtATime, LastIsCurrent, Settled, Distinct, Queued
  <2> QED BY <2>1, <2>2, <2>3 DEF SyncInv
<1>2. SyncInv /\ [SyncNext]_syncVars => SyncInv'
  <2> SUFFICES ASSUME SyncInv, [SyncNext]_syncVars PROVE SyncInv'
    OBVIOUS
  <2>1. CASE ModelChanges
    BY <2>1, ModelChangesKeeps
  <2>2. CASE \E k \in 1..Len(syncs) : Begin(k) \/ Added(k)
    BY <2>2, BeginKeeps, AddedKeeps
  <2>3. CASE UNCHANGED syncVars
    BY <2>3 DEF syncVars, SyncInv, SyncTypeOK, OneAtATime, LastIsCurrent, HasUpTo, Settled,
                WantedSources, In, Distinct
  <2> QED BY <2>1, <2>2, <2>3 DEF SyncNext
<1> QED BY <1>1, <1>2, PTL DEF SyncSpec

\* The types of the collection and of the queue of syncs.
THEOREM SyncTypeCorrect == SyncSpec => []SyncTypeOK
<1>1. SyncInv => SyncTypeOK
  BY DEF SyncInv
<1> QED BY <1>1, SyncInvariant, PTL

\* No data source is drawn twice, however many syncs are queued while the model changes.
THEOREM DrawnOnce == SyncSpec => []NoDuplicates
<1>1. SyncInv => NoDuplicates
  BY DEF SyncInv, SyncTypeOK, NoDuplicates, Entries!IsInjective, Distinct
<1> QED BY <1>1, SyncInvariant, PTL

\* When no sync is left to run, the collection is what the model last said, in its order.
THEOREM SettledIsModel == SyncSpec => []Settled
<1>1. SyncInv => Settled
  BY DEF SyncInv
<1> QED BY <1>1, SyncInvariant, PTL

-----------------------------------------------------------------------------
(* MapState: types *)

LEMMA RunPushed ==
  ASSUME NEW run \in Run, NEW m \in Model
  PROVE  /\ Pushed(run, m) \in Run
         /\ Pushed(run, m).source = run.source /\ Pushed(run, m).at = m
         /\ Pushed(run, m).queue = run.queue /\ Pushed(run, m).late = run.late
         /\ Pushed(run, m).newItems = IF m \in Item THEN Append(run.newItems, m) ELSE run.newItems
<1>1. CASE m \in Item
  <2>1. Append(run.newItems, m) \in Seq(Item)
    BY <1>1 DEF Run
  <2> QED BY <1>1, <2>1 DEF Run, Pushed
<1>2. CASE m \notin Item
  BY <1>2 DEF Run, Pushed
<1> QED BY <1>1, <1>2

\* What each action makes of the run of s.
LEMMA RunStarts ==
  ASSUME MapTypeOK, NEW s \in Slot, NEW source \in Source, NEW init \in BOOLEAN,
         ApplyInitData(s, source, init)
  PROVE  \E run \in Run :
           /\ applying' = [applying EXCEPT ![s] = run]
           /\ run.source = source /\ run.at = NoModel /\ run.queue = WorkbenchOf[source]
           /\ run.newItems = << >> /\ run.late = {}
<1> DEFINE run == [Idle EXCEPT !.source = source, !.init = init, !.queue = WorkbenchOf[source]]
<1>1. WorkbenchOf[source] \in Seq(Model)
  BY MapAssumption
<1>2. Idle \in Run /\ Idle.at = NoModel /\ Idle.newItems = << >> /\ Idle.late = {}
  BY DEF Idle, Run
<1>3. /\ run \in Run /\ run.source = source /\ run.at = NoModel /\ run.queue = WorkbenchOf[source]
      /\ run.newItems = << >> /\ run.late = {}
  BY <1>1, <1>2 DEF Run
<1>4. applying' = [applying EXCEPT ![s] = run]
  BY DEF ApplyInitData
<1> HIDE DEF run
<1> QED BY <1>3, <1>4

LEMMA RunResumes ==
  ASSUME MapTypeOK, NEW s \in Slot, Resume(s), applying[s].queue # << >>
  PROVE  \E run \in Run :
           /\ applying' = [applying EXCEPT ![s] = Pushed(run, Head(applying[s].queue))]
           /\ run.source = applying[s].source /\ run.queue = Tail(applying[s].queue)
           /\ run.newItems = applying[s].newItems /\ run.late = applying[s].late
           /\ Head(applying[s].queue) \in Model
<1> DEFINE old == applying[s]
           run == [old EXCEPT !.queue = Tail(@)]
<1>1. old \in Run
  BY DEF MapTypeOK
<1>2. applying' = [applying EXCEPT ![s] = Pushed(run, Head(old.queue))]
  BY DEF Resume
<1>3. old.queue \in Seq(Model) /\ Tail(old.queue) \in Seq(Model) /\ Head(old.queue) \in Model
  <2>1. old.queue \in Seq(Model) /\ old.queue # << >>
    BY <1>1 DEF Run
  <2> HIDE DEF old
  <2> QED BY <2>1
<1> HIDE DEF old
<1>4. /\ run \in Run /\ run.source = old.source /\ run.queue = Tail(old.queue)
      /\ run.newItems = old.newItems /\ run.late = old.late
  BY <1>1, <1>3 DEF Run
<1> QED BY <1>2, <1>3, <1>4 DEF old

LEMMA RunAssigns ==
  ASSUME MapTypeOK, NEW s \in Slot, Resume(s), applying[s].queue = << >>
  PROVE  /\ applying[s] \in Run /\ applying[s].source \in Source /\ Assign(s)
         /\ applying' \in [Slot -> Run]
         /\ items' \in Seq(Item) /\ Distinct(items')
         /\ timeline' \in Seq(TimeVarying) /\ Distinct(timeline')
         /\ \A i \in 1..Len(timeline') : \E n \in 1..Len(items') : items'[n] = timeline'[i]
         /\ due' \in Source /\ stray' = {}
<1>1. applying[s] \in Run /\ applying[s].source \in Source /\ Assign(s)
  BY DEF MapTypeOK, Run, Resume
<1>2. applying[s].newItems \in Seq(Item) /\ TimelineOf[applying[s].source] \subseteq TimeVarying
  BY <1>1, MapAssumption DEF Run
<1>3. items' \in Seq(Item) /\ Distinct(items')
  BY <1>1, <1>2, WithoutDuplicatesElements DEF Assign
<1>4. /\ timeline' \in Seq(Item) /\ PartOf(timeline', items')
      /\ \A i \in 1..Len(timeline') : timeline'[i] \in TimelineOf[applying[s].source]
  BY <1>1, <1>3, FilterElements DEF Assign
<1>5. timeline' \in Seq(TimeVarying)
  BY <1>2, <1>4
<1>6. Distinct(timeline')
  BY <1>3, <1>4, PartDistinct
<1>7. \A i \in 1..Len(timeline') : \E n \in 1..Len(items') : items'[n] = timeline'[i]
  BY <1>4 DEF PartOf
<1>8. Idle \in Run
  BY DEF Idle, Run
<1>9. applying' \in [Slot -> Run] /\ due' \in Source /\ stray' = {}
  BY <1>1, <1>8 DEF MapTypeOK, Assign
<1> QED BY <1>1, <1>3, <1>5, <1>6, <1>7, <1>9

LEMMA RunReferenceLoads ==
  ASSUME MapTypeOK, NEW s \in Slot, ReferenceLoads(s)
  PROVE  LET old == applying[s] IN
         \/ /\ old.at \in Broken
            /\ \E run \in Run :
                 /\ applying' = [applying EXCEPT ![s] = run]
                 /\ run.source = old.source /\ run.queue = old.queue /\ run.at = NoModel
                 /\ run.newItems = old.newItems /\ run.late = old.late
         \/ /\ old.at \notin Broken /\ TargetOf[old.at] \in Item \union Group
            /\ applying' = [applying EXCEPT ![s] = Pushed(old, TargetOf[old.at])]
<1> DEFINE old == applying[s]
           run == [old EXCEPT !.at = NoModel]
<1>1. old \in Run /\ old.at \in Reference
  BY DEF MapTypeOK, ReferenceLoads
<1>2. CASE old.at \in Broken
  <2>1. applying' = [applying EXCEPT ![s] = run]
    BY <1>2 DEF ReferenceLoads
  <2> HIDE DEF old
  <2>2. /\ run \in Run /\ run.source = old.source /\ run.queue = old.queue /\ run.at = NoModel
        /\ run.newItems = old.newItems /\ run.late = old.late
    BY <1>1 DEF Run
  <2> HIDE DEF run
  <2> QED BY <1>2, <2>1, <2>2 DEF old
<1>3. CASE old.at \notin Broken
  <2>1. applying' = [applying EXCEPT ![s] = Pushed(old, TargetOf[old.at])]
    BY <1>3 DEF ReferenceLoads
  <2>2. TargetOf[old.at] \in Item \union Group
    BY <1>1, MapAssumption
  <2> QED BY <1>3, <2>1, <2>2
<1> QED BY <1>2, <1>3

LEMMA RunMembersLoad ==
  ASSUME MapTypeOK, NEW s \in Slot, MembersLoad(s)
  PROVE  LET old     == applying[s]
             members == IF old.at \in Broken THEN << >> ELSE MembersOf[old.at]
         IN  /\ old.at \in Group /\ members \in Seq(Item \union Reference)
             /\ \E run \in Run :
                  /\ applying' = [applying EXCEPT ![s] = run]
                  /\ run.source = old.source /\ run.queue = old.queue /\ run.at = NoModel
                  /\ run.newItems = old.newItems \o Filter(members, Item)
                  /\ run.late = old.late \union ((Elements(members) \intersect Reference) \ Broken)
<1> DEFINE old     == applying[s]
           members == IF old.at \in Broken THEN << >> ELSE MembersOf[old.at]
           late    == old.late \union ((Elements(members) \intersect Reference) \ Broken)
           run     == [old EXCEPT !.at = NoModel, !.newItems = @ \o Filter(members, Item),
                                  !.late = late]
<1>1. old \in Run /\ old.at \in Group
  BY DEF MapTypeOK, MembersLoad
<1>2. applying' = [applying EXCEPT ![s] = run]
  BY DEF MembersLoad
<1>3. members \in Seq(Item \union Reference)
  BY <1>1, MapAssumption
<1>4. \A m \in Elements(members) \intersect Reference : TargetOf[m] \in Item
  <2>1. CASE old.at \in Broken
    BY <2>1 DEF Elements
  <2>2. CASE old.at \notin Broken
    BY <1>1, <2>2, MapAssumption
  <2> QED BY <2>1, <2>2
<1> HIDE DEF members, old
<1>5. Filter(members, Item) \in Seq(Item)
  <2> DEFINE items0 == Filter(members, Item)
  <2>1. items0 \in Seq(Item \union Reference) /\ \A i \in 1..Len(items0) : items0[i] \in Item
    BY <1>3, FilterElements
  <2> HIDE DEF items0
  <2>2. items0 \in Seq(Item)
    BY <2>1
  <2> QED BY <2>2 DEF items0
<1>6. late \in SUBSET {r \in Reference : TargetOf[r] \in Item}
  BY <1>1, <1>4 DEF Run
<1> HIDE DEF late
<1>7. old.newItems \o Filter(members, Item) \in Seq(Item)
  BY <1>1, <1>5 DEF Run
<1>8. /\ run \in Run /\ run.source = old.source /\ run.queue = old.queue /\ run.at = NoModel
      /\ run.newItems = old.newItems \o Filter(members, Item) /\ run.late = late
  BY <1>1, <1>6, <1>7 DEF Run
<1> HIDE DEF run
<1> QED BY <1>1, <1>2, <1>3, <1>8 DEF late, members, old

LEMMA RunLateReferenceLoads ==
  ASSUME MapTypeOK, NEW s \in Slot, NEW r \in Reference, LateReferenceLoads(s, r)
  PROVE  /\ r \in applying[s].late
         /\ \E run \in Run : applying' = [applying EXCEPT ![s] = run] /\ run.source = applying[s].source
<1> DEFINE old == applying[s]
           run == [old EXCEPT !.late = @ \ {r}, !.newItems = Append(@, TargetOf[r])]
<1>1. old \in Run /\ r \in old.late
  BY DEF MapTypeOK, LateReferenceLoads
<1>2. applying' = [applying EXCEPT ![s] = run]
  BY DEF LateReferenceLoads
<1> HIDE DEF old
<1>3. Append(old.newItems, TargetOf[r]) \in Seq(Item)
  BY <1>1 DEF Run
<1>4. run \in Run /\ run.source = old.source
  BY <1>1, <1>3 DEF Run
<1> HIDE DEF run
<1> QED BY <1>1, <1>2, <1>4 DEF old

-----------------------------------------------------------------------------
(* MapState: the timeline *)

\* A layer that is on the timeline twice strays.
TwiceStrays == \A i \in Item : Twice(timeline, i) => i \in stray

TimelineInv == MapTypeOK /\ TwiceStrays /\ TimelineOnMap

\* What the actions on items write apart from the items and the timeline.
OthersTyped ==
  /\ applying \in [Slot -> Run]
  /\ booted \in 0..Len(InitSources) + 1
  /\ toggling \subseteq Item \X Op
  /\ baseMap \in BaseMap \union {NoBaseMap} /\ persisted \in BaseMap \union {NoBaseMap}
  /\ choosing \subseteq BaseMap
  /\ due \in Source \union {NoSource} /\ stray \subseteq Item

LEMMA MapTypeParts ==
  MapTypeOK <=> items \in Seq(Item) /\ timeline \in Seq(TimeVarying) /\ OthersTyped
BY DEF MapTypeOK, OthersTyped

\* The items and the timeline stay, and what strays.
LEMMA MapItemsStay ==
  ASSUME TimelineInv, OthersTyped', UNCHANGED <<items, timeline, stray>>,
         \A i \in Item : <<i, "remove">> \in toggling => <<i, "remove">> \in toggling'
  PROVE  TimelineInv'
<1>1. MapTypeOK'
  BY DEF TimelineInv, MapTypeOK, OthersTyped
<1>2. TwiceStrays'
  BY DEF TimelineInv, TwiceStrays, Twice, Places
<1>3. \A i \in Elements(timeline) : i \in Item
  BY MapAssumption DEF TimelineInv, MapTypeOK, Elements
<1>4. TimelineOnMap'
  BY <1>3 DEF TimelineInv, TimelineOnMap, OnMap
<1> QED BY <1>1, <1>2, <1>4 DEF TimelineInv

\* One element less: those that are there are still there, except maybe this one, unless
\* it was there twice.
LEMMA OnePlaceLess ==
  ASSUME NEW S, NEW list \in Seq(S), NEW p \in 1..Len(list)
  PROVE  LET new == Lists!RemoveAt(list, p) IN
         /\ new \in Seq(S) /\ Elements(new) \subseteq Elements(list)
         /\ \A i : Twice(new, i) => Twice(list, i)
         /\ list[p] \in Elements(new) => Twice(list, list[p])
<1> DEFINE new == SubSeq(list, 1, p - 1) \o SubSeq(list, p + 1, Len(list))
           at(i) == IF i < p THEN i ELSE i + 1
<1>1. /\ new \in Seq(S) /\ Len(new) = Len(list) - 1
      /\ \A i \in 1..Len(new) : new[i] = IF i < p THEN list[i] ELSE list[i + 1]
  BY TakenOut
<1>2. Lists!RemoveAt(list, p) = new
  BY DEF Lists!RemoveAt
<1> HIDE DEF new
<1>3. \A i \in 1..Len(new) : at(i) \in 1..Len(list) /\ at(i) # p /\ new[i] = list[at(i)]
  BY <1>1
<1>4. \A i, j \in 1..Len(new) : i # j => at(i) # at(j)
  BY <1>1
<1> HIDE DEF at
<1>5. Elements(new) \subseteq Elements(list)
  BY <1>3 DEF Elements
<1>6. \A i : Twice(new, i) => Twice(list, i)
  BY <1>3, <1>4 DEF Twice, Places
<1>7. list[p] \in Elements(new) => Twice(list, list[p])
  BY <1>3 DEF Elements, Twice, Places
<1> QED BY <1>1, <1>2, <1>5, <1>6, <1>7

LEMMA FirstPlace ==
  ASSUME NEW S, NEW list \in Seq(S), NEW i \in Elements(list)
  PROVE  Min(Places(list, i)) \in 1..Len(list) /\ list[Min(Places(list, i))] = i
<1>1. Places(list, i) \in SUBSET Nat /\ Places(list, i) # {}
  BY DEF Places, Elements
<1>2. Min(Places(list, i)) \in Places(list, i)
  BY <1>1, LeastElement
<1> QED BY <1>2 DEF Places

\* A list with one element put first.
LEMMA PutFirst ==
  ASSUME NEW S, NEW list \in Seq(S), NEW i \in S
  PROVE  LET new == <<i>> \o list IN
         /\ new \in Seq(S) /\ Elements(new) = Elements(list) \union {i}
         /\ \A j : j # i /\ Twice(new, j) => Twice(list, j)
<1> DEFINE new == <<i>> \o list
<1>1. /\ new \in Seq(S) /\ Len(new) = Len(list) + 1 /\ new[1] = i
      /\ \A n \in 1..Len(list) : new[n + 1] = list[n]
      /\ \A n \in 2..Len(list) + 1 : new[n] = list[n - 1]
  OBVIOUS
<1> HIDE DEF new
<1>2. /\ \A n \in 1..Len(new) : n = 1 \/ (n - 1 \in 1..Len(list) /\ new[n] = list[n - 1])
      /\ 1 \in 1..Len(new) /\ \A n \in 1..Len(list) : n + 1 \in 1..Len(new)
  BY <1>1
<1>3. Elements(new) = Elements(list) \union {i}
  <2>1. ASSUME NEW n \in 1..Len(new) PROVE new[n] \in Elements(list) \union {i}
    BY <1>1, <1>2 DEF Elements
  <2>2. Elements(list) \union {i} \subseteq Elements(new)
    BY <1>1, <1>2 DEF Elements
  <2> QED BY <2>1, <2>2 DEF Elements
<1>4. ASSUME NEW j, j # i, Twice(new, j) PROVE Twice(list, j)
  <2>1. PICK m \in 1..Len(new), n \in 1..Len(new) : new[m] = j /\ new[n] = j /\ m # n
    BY <1>4 DEF Twice, Places
  <2>2. m - 1 \in 1..Len(list) /\ n - 1 \in 1..Len(list) /\ list[m - 1] = j /\ list[n - 1] = j
    BY <1>1, <1>2, <1>4, <2>1
  <2>3. m - 1 # n - 1
    BY <1>1, <2>1
  <2> QED BY <2>2, <2>3 DEF Twice, Places
<1> QED BY <1>1, <1>3, <1>4 DEF new

\* An element that was not in the list is in it once.
LEMMA PutFirstOnce ==
  ASSUME NEW S, NEW list \in Seq(S), NEW i \in S, i \notin Elements(list)
  PROVE  ~Twice(<<i>> \o list, i)
<1> DEFINE new == <<i>> \o list
<1>1. /\ new \in Seq(S) /\ Len(new) = Len(list) + 1
      /\ \A n \in 2..Len(list) + 1 : new[n] = list[n - 1]
  OBVIOUS
<1> HIDE DEF new
<1>2. \A n \in 1..Len(list) : list[n] # i
  BY DEF Elements
<1>3. \A n \in 1..Len(new) : n # 1 => n \in 2..Len(list) + 1 /\ n - 1 \in 1..Len(list)
  BY <1>1
<1>4. \A n \in 1..Len(new) : new[n] = i => n = 1
  BY <1>1, <1>2, <1>3
<1> QED BY <1>4 DEF Twice, Places, new

LEMMA OnTopIs ==
  ASSUME TimelineInv, NEW i \in TimeVarying
  PROVE  LET new == OnTop(i) IN
         /\ new \in Seq(TimeVarying) /\ Elements(new) \subseteq Elements(timeline) \union {i}
         /\ \A j : j # i /\ Twice(new, j) => Twice(timeline, j)
<1> DEFINE put == <<i>> \o timeline
           p   == Min(Places(timeline, i))
<1>1. timeline \in Seq(TimeVarying)
  BY DEF TimelineInv, MapTypeOK
<1>2. /\ put \in Seq(TimeVarying) /\ Elements(put) = Elements(timeline) \union {i}
      /\ Len(put) = Len(timeline) + 1
      /\ \A j : j # i /\ Twice(put, j) => Twice(timeline, j)
  BY <1>1, PutFirst
<1> HIDE DEF put
<1>3. CASE i \in Elements(timeline)
  <2>1. p \in 1..Len(put)
    BY <1>1, <1>2, <1>3, FirstPlace
  <2>2. OnTop(i) = Lists!RemoveAt(put, p)
    BY <1>3 DEF OnTop, put
  <2> HIDE DEF p
  <2> QED BY <1>2, <2>1, <2>2, OnePlaceLess
<1>4. CASE i \notin Elements(timeline)
  <2>1. OnTop(i) = put
    BY <1>4 DEF OnTop, put
  <2> QED BY <1>2, <2>1
<1> QED BY <1>3, <1>4

LEMMA TakenOffIs ==
  ASSUME TimelineInv, NEW i \in TimeVarying
  PROVE  LET new == TakenOff(i) IN
         /\ new \in Seq(TimeVarying) /\ Elements(new) \subseteq Elements(timeline)
         /\ \A j : Twice(new, j) => Twice(timeline, j)
         /\ i \in Elements(new) => Twice(timeline, i)
<1> DEFINE p == Min(Places(timeline, i))
<1>1. timeline \in Seq(TimeVarying)
  BY DEF TimelineInv, MapTypeOK
<1>2. CASE i \in Elements(timeline)
  <2>1. p \in 1..Len(timeline) /\ timeline[p] = i
    BY <1>1, <1>2, FirstPlace
  <2>2. TakenOff(i) = Lists!RemoveAt(timeline, p)
    BY <1>2 DEF TakenOff
  <2> HIDE DEF p
  <2> QED BY <1>1, <2>1, <2>2, OnePlaceLess
<1>3. CASE i \notin Elements(timeline) /\ timeline = << >>
  <2>1. TakenOff(i) = timeline
    BY <1>3 DEF TakenOff
  <2> QED BY <1>1, <1>3, <2>1
<1>4. CASE i \notin Elements(timeline) /\ timeline # << >>
  <2> DEFINE new == Lists!Front(timeline)
  <2>1. TakenOff(i) = new
    BY <1>4 DEF TakenOff
  <2>2. /\ new \in Seq(TimeVarying) /\ Len(new) = Len(timeline) - 1
        /\ \A n \in 1..Len(timeline) - 1 : new[n] = timeline[n]
    <3>1. new = SubSeq(timeline, 1, Len(timeline) - 1)
      BY DEF Lists!Front
    <3>2. Len(timeline) \in 1..Len(timeline)
      BY <1>1, <1>4
    <3> HIDE DEF new
    <3> QED BY <1>1, <3>1, <3>2, Before
  <2> HIDE DEF new
  <2>3. \A n \in 1..Len(new) : n \in 1..Len(timeline) /\ new[n] = timeline[n]
    BY <1>1, <2>2
  <2>4. Elements(new) \subseteq Elements(timeline) /\ \A j : Twice(new, j) => Twice(timeline, j)
    BY <2>3 DEF Elements, Twice, Places
  <2> QED BY <1>4, <2>1, <2>2, <2>4
<1> QED BY <1>2, <1>3, <1>4

\* An element that is in a list twice is in it.
LEMMA TwiceIsIn == \A list, i : Twice(list, i) => i \in Elements(list)
BY DEF Twice, Places, Elements

\* What strayed and is still on the timeline strays, and so does what a step adds.
LEMMA StillStray ==
  ASSUME NEW more, stray' = Straying(more)
  PROVE  \A j \in Elements(timeline') : j \in stray' <=> j \in stray \union more
BY DEF Straying

LEMMA WithoutIs ==
  ASSUME NEW list \in Seq(Item), NEW i
  PROVE  Without(list, i) \in Seq(Item) /\ Elements(Without(list, i)) = Elements(list) \ {i}
<1> DEFINE new == Filter(list, Item \ {i})
<1>1. /\ new \in Seq(Item) /\ PartOf(new, list)
      /\ \A n \in 1..Len(new) : new[n] \in Item \ {i}
      /\ \A n \in 1..Len(list) : list[n] \in Item \ {i} => \E m \in 1..Len(new) : new[m] = list[n]
  BY FilterElements
<1>2. Without(list, i) = new
  BY DEF Without
<1> HIDE DEF new
<1>3. \A n \in 1..Len(new) : \E m \in 1..Len(list) : list[m] = new[n]
  BY <1>1 DEF PartOf
<1>4. \A n \in 1..Len(list) : list[n] \in Item
  OBVIOUS
<1>5. Elements(new) \subseteq Elements(list) \ {i}
  BY <1>1, <1>3 DEF Elements
<1>6. Elements(list) \ {i} \subseteq Elements(new)
  BY <1>1, <1>4 DEF Elements
<1> QED BY <1>1, <1>2, <1>5, <1>6

LEMMA AssignKeeps ==
  ASSUME MapTypeOK, NEW s \in Slot, Resume(s), applying[s].queue = << >>
  PROVE  TimelineInv'
<1>1. /\ applying' \in [Slot -> Run]
      /\ items' \in Seq(Item) /\ timeline' \in Seq(TimeVarying) /\ Distinct(timeline')
      /\ \A i \in 1..Len(timeline') : \E n \in 1..Len(items') : items'[n] = timeline'[i]
      /\ due' \in Source /\ stray' = {}
  BY RunAssigns
<1>2. MapTypeOK'
  BY <1>1 DEF MapTypeOK, Resume, Quiet, baseMaps
<1>3. TwiceStrays'
  BY <1>1 DEF TwiceStrays, Twice, Places, Distinct
<1>4. TimelineOnMap'
  BY <1>1 DEF TimelineOnMap, OnMap, Elements
<1> QED BY <1>2, <1>3, <1>4 DEF TimelineInv

\* The steps of a run before its end leave the map as it is.
LEMMA RunKeepsTimeline ==
  ASSUME TimelineInv, NEW run \in Run, NEW s \in Slot, applying' = [applying EXCEPT ![s] = run],
         UNCHANGED mapItems, Quiet
  PROVE  TimelineInv'
<1>1. OthersTyped'
  BY MapTypeParts DEF TimelineInv, OthersTyped, Quiet, baseMaps, mapItems
<1> QED BY <1>1, MapItemsStay DEF mapItems, Quiet

LEMMA ContinueKeepsTimeline ==
  ASSUME TimelineInv, NEW s \in Slot,
         Continue(s) \/ \E r \in Reference : LateReferenceLoads(s, r)
  PROVE  TimelineInv'
<1>1. MapTypeOK /\ applying[s] \in Run
  BY DEF TimelineInv, MapTypeOK
<1>2. CASE Resume(s) /\ applying[s].queue = << >>
  BY <1>1, <1>2, AssignKeeps
<1>3. CASE Resume(s) /\ applying[s].queue # << >>
  <2>1. PICK run \in Run :
           /\ applying' = [applying EXCEPT ![s] = Pushed(run, Head(applying[s].queue))]
           /\ Head(applying[s].queue) \in Model
    BY <1>1, <1>3, RunResumes
  <2>2. Pushed(run, Head(applying[s].queue)) \in Run
    BY <2>1, RunPushed
  <2>3. UNCHANGED mapItems /\ Quiet
    BY <1>3 DEF Resume
  <2> QED BY <2>1, <2>2, <2>3, RunKeepsTimeline
<1>4. CASE ReferenceLoads(s)
  <2>1. \E run \in Run : applying' = [applying EXCEPT ![s] = run]
    <3>1. TargetOf[applying[s].at] \in Item \union Group => Pushed(applying[s], TargetOf[applying[s].at]) \in Run
      BY <1>1, RunPushed DEF Model
    <3> QED BY <1>1, <1>4, <3>1, RunReferenceLoads
  <2>2. UNCHANGED mapItems /\ Quiet
    BY <1>4 DEF ReferenceLoads
  <2> QED BY <2>1, <2>2, RunKeepsTimeline
<1>5. CASE MembersLoad(s)
  <2>1. \E run \in Run : applying' = [applying EXCEPT ![s] = run]
    BY <1>1, <1>5, RunMembersLoad
  <2>2. UNCHANGED mapItems /\ Quiet
    BY <1>5 DEF MembersLoad
  <2> QED BY <2>1, <2>2, RunKeepsTimeline
<1>6. ASSUME NEW r \in Reference, LateReferenceLoads(s, r) PROVE TimelineInv'
  <2>1. \E run \in Run : applying' = [applying EXCEPT ![s] = run]
    BY <1>1, <1>6, RunLateReferenceLoads
  <2>2. UNCHANGED mapItems /\ Quiet
    BY <1>6 DEF LateReferenceLoads
  <2> QED BY <2>1, <2>2, RunKeepsTimeline
<1> QED BY <1>2, <1>3, <1>4, <1>5, <1>6 DEF Continue

LEMMA StartKeepsTimeline ==
  ASSUME TimelineInv, NEW s \in Slot,
         NextInitSource(s) \/ \E story \in Source : ActivateStory(s, story)
  PROVE  TimelineInv'
<1>1. MapTypeOK
  BY DEF TimelineInv
<1>2. ASSUME NEW source \in Source, NEW init \in BOOLEAN, ApplyInitData(s, source, init),
             booted' \in 0..Len(InitSources) + 1
      PROVE  TimelineInv'
  <2>1. \E run \in Run : applying' = [applying EXCEPT ![s] = run]
    BY <1>1, <1>2, RunStarts
  <2>2. BaseMapOf[source] \in BaseMap \union {NoBaseMap}
    BY MapAssumption
  <2>3. choosing' \subseteq BaseMap
    BY <1>1, <1>2, <2>2 DEF MapTypeOK, ApplyInitData, SetBaseMap
  <2>4. OthersTyped'
    BY <1>1, <1>2, <2>1, <2>3 DEF MapTypeOK, OthersTyped, ApplyInitData, mapItems
  <2> QED BY <1>2, <2>4, MapItemsStay DEF ApplyInitData, mapItems
<1>3. ASSUME NextInitSource(s) PROVE TimelineInv'
  <2>1. booted \in Nat /\ Len(InitSources) \in Nat /\ InitSources \in Seq(Source)
    BY <1>1, MapAssumption DEF MapTypeOK
  <2>2. booted' \in 1..Len(InitSources) /\ booted' \in 0..Len(InitSources) + 1
    BY <1>3, <2>1 DEF NextInitSource
  <2>3. InitSources[booted'] \in Source
    BY <2>1, <2>2
  <2> QED BY <1>2, <1>3, <2>2, <2>3 DEF NextInitSource
<1>4. ASSUME NEW story \in Source, ActivateStory(s, story) PROVE TimelineInv'
  BY <1>1, <1>2, <1>4 DEF ActivateStory, MapTypeOK
<1> QED BY <1>3, <1>4

LEMMA BaseMapsKeepTimeline ==
  ASSUME TimelineInv,
         LoadPersistedOrInitBaseMap \/ \E b \in BaseMap : SelectBaseMap(b) \/ BaseMapLoads(b)
  PROVE  TimelineInv'
<1>1. OthersTyped
  BY MapTypeParts DEF TimelineInv
<1>2. CASE LoadPersistedOrInitBaseMap
  <2>1. Len(InitSources) \in Nat /\ DefaultBaseMap \in BaseMap
    BY MapAssumption
  <2>2. choosing' \subseteq BaseMap
    BY <1>1, <1>2, <2>1 DEF OthersTyped, LoadPersistedOrInitBaseMap, SetBaseMap
  <2>3. booted' \in 0..Len(InitSources) + 1
    BY <1>2, <2>1 DEF LoadPersistedOrInitBaseMap
  <2>4. OthersTyped'
    BY <1>1, <1>2, <2>2, <2>3 DEF OthersTyped, LoadPersistedOrInitBaseMap, mapItems
  <2> QED BY <1>2, <2>4, MapItemsStay DEF LoadPersistedOrInitBaseMap, mapItems
<1>3. ASSUME NEW b \in BaseMap, SelectBaseMap(b) PROVE TimelineInv'
  <2>1. OthersTyped'
    BY <1>1, <1>3 DEF OthersTyped, SelectBaseMap, SetBaseMap, mapItems
  <2> QED BY <1>3, <2>1, MapItemsStay DEF SelectBaseMap, mapItems
<1>4. ASSUME NEW b \in BaseMap, BaseMapLoads(b) PROVE TimelineInv'
  <2>1. OthersTyped'
    BY <1>1, <1>4 DEF OthersTyped, BaseMapLoads, mapItems
  <2> QED BY <1>4, <2>1, MapItemsStay DEF BaseMapLoads, mapItems
<1> QED BY <1>2, <1>3, <1>4

LEMMA ToggleKeepsTimeline ==
  ASSUME TimelineInv, NEW i \in Item, Toggle(i)
  PROVE  TimelineInv'
<1>1. OthersTyped /\ items \in Seq(Item) /\ timeline \in Seq(TimeVarying) /\ TimelineOnMap
  BY MapTypeParts DEF TimelineInv
<1>2. OthersTyped'
  BY <1>1 DEF OthersTyped, Toggle, baseMaps, Op
<1>3. UNCHANGED <<timeline, stray>> /\ toggling \subseteq toggling'
  BY DEF Toggle
<1>4. items' \in Seq(Item) /\ Elements(items) \ Elements(items') \subseteq {i}
  <2>1. CASE OnMap(i)
    BY <1>1, <2>1, WithoutIs DEF Toggle
  <2>2. CASE ~OnMap(i)
    BY <1>1, <2>2, PutFirst DEF Toggle
  <2> QED BY <2>1, <2>2
<1>5. OnMap(i) => <<i, "remove">> \in toggling'
  BY DEF Toggle
<1>6. TimelineOnMap'
  BY <1>1, <1>3, <1>4, <1>5 DEF TimelineOnMap, OnMap
<1>7. TwiceStrays'
  BY <1>3 DEF TimelineInv, TwiceStrays, Twice, Places
<1>8. MapTypeOK'
  BY <1>1, <1>2, <1>3, <1>4 DEF MapTypeOK, OthersTyped
<1> QED BY <1>6, <1>7, <1>8 DEF TimelineInv

LEMMA ToggleEndsKeepsTimeline ==
  ASSUME TimelineInv, NEW i \in Item, NEW op \in Op, NEW failed \in BOOLEAN,
         ToggleEnds(i, op, failed)
  PROVE  TimelineInv'
<1> DEFINE more == IF op = "add" /\ (i \notin Elements(items') \/ Twice(timeline', i))
                     THEN {i} ELSE {}
<1>1. /\ OthersTyped /\ items \in Seq(Item) /\ timeline \in Seq(TimeVarying)
      /\ TimelineOnMap /\ TwiceStrays
  BY MapTypeParts DEF TimelineInv
<1>2. OthersTyped'
  BY <1>1 DEF OthersTyped, ToggleEnds, Straying, baseMaps
<1>3. items' \in Seq(Item) /\ Elements(items) \ Elements(items') \subseteq {i}
  BY <1>1, WithoutIs DEF ToggleEnds
<1>4. /\ \A j \in Elements(timeline') : j \in stray' <=> j \in stray \union more
      /\ \A j \in Item \ {i} : <<j, "remove">> \in toggling => <<j, "remove">> \in toggling'
  <2>1. stray' = Straying(more)
    BY DEF ToggleEnds
  <2> HIDE DEF more
  <2> QED BY <2>1, StillStray DEF ToggleEnds
<1>5. ASSUME op = "add" /\ i \in TimeVarying
      PROVE  /\ timeline' \in Seq(TimeVarying)
             /\ Elements(timeline') \subseteq Elements(timeline) \union {i}
             /\ \A j : j # i /\ Twice(timeline', j) => Twice(timeline, j)
             /\ Twice(timeline', i) => i \in stray'
             /\ i \in Elements(timeline') => i \in Elements(items') \/ i \in stray'
  <2>1. timeline' = OnTop(i)
    BY <1>5 DEF ToggleEnds
  <2>2. Twice(timeline', i) => i \in Elements(timeline')
    BY TwiceIsIn
  <2> QED BY <1>4, <1>5, <2>1, <2>2, OnTopIs
<1>6. ASSUME op # "add" /\ i \in TimeVarying
      PROVE  /\ timeline' \in Seq(TimeVarying) /\ Elements(timeline') \subseteq Elements(timeline)
             /\ \A j : Twice(timeline', j) => Twice(timeline, j)
             /\ i \in Elements(timeline') => Twice(timeline, i)
  BY <1>6, TakenOffIs DEF ToggleEnds
<1>7. ASSUME i \notin TimeVarying
      PROVE  timeline' = timeline /\ i \notin Elements(timeline)
  BY <1>1, <1>7 DEF ToggleEnds, Elements
<1>8. /\ timeline' \in Seq(TimeVarying)
      /\ Elements(timeline') \subseteq Elements(timeline) \union {i}
      /\ \A j : j # i /\ Twice(timeline', j) => Twice(timeline, j)
      /\ Twice(timeline', i) => i \in stray'
      /\ i \in Elements(timeline') => i \in Elements(items') \/ i \in stray'
  <2>1. CASE op = "add" /\ i \in TimeVarying
    BY <1>5, <2>1
  <2>2. CASE op # "add" /\ i \in TimeVarying
    <3>1. i \in Elements(timeline') => i \in stray'
      BY <1>1, <1>4, <1>6, <2>2 DEF TwiceStrays
    <3>2. Twice(timeline', i) => i \in Elements(timeline')
      BY TwiceIsIn
    <3> QED BY <1>6, <2>2, <3>1, <3>2
  <2>3. CASE i \notin TimeVarying
    <3>1. Twice(timeline', i) => i \in Elements(timeline')
      BY TwiceIsIn
    <3> QED BY <1>1, <1>7, <2>3, <3>1
  <2> QED BY <2>1, <2>2, <2>3
<1>9. TimelineOnMap'
  <2>1. ASSUME NEW j \in Elements(timeline'), j # i
        PROVE  j \in Elements(items') \/ <<j, "remove">> \in toggling' \/ j \in stray'
    <3>1. j \in Elements(timeline) /\ j \in Item
      <4>1. j \in Elements(timeline)
        BY <1>8, <2>1
      <4>2. Elements(timeline) \subseteq TimeVarying
        BY <1>1 DEF Elements
      <4> QED BY <4>1, <4>2, MapAssumption
    <3>2. j \in Elements(items) \/ <<j, "remove">> \in toggling \/ j \in stray
      BY <1>1, <3>1 DEF TimelineOnMap, OnMap
    <3> QED BY <1>3, <1>4, <2>1, <3>1, <3>2
  <2> QED BY <1>8, <2>1 DEF TimelineOnMap, OnMap
<1>10. TwiceStrays'
  <2>1. ASSUME NEW j \in Item, j # i, Twice(timeline', j) PROVE j \in stray'
    BY <1>1, <1>4, <1>8, <2>1, TwiceIsIn DEF TwiceStrays
  <2> QED BY <1>8, <2>1 DEF TwiceStrays
<1>11. MapTypeOK'
  BY <1>2, <1>3, <1>8 DEF MapTypeOK, OthersTyped
<1> QED BY <1>9, <1>10, <1>11 DEF TimelineInv

\* An item is taken out of the workbench, or none, and off the timeline, or put on top of it,
\* or is left where it is: if it stays or comes there, it is on the map or strays.
LEMMA TimelineChangeKeeps ==
  ASSUME TimelineInv, NEW i \in Item, NEW more, OthersTyped', UNCHANGED toggling,
         stray' = Straying(more), items' \in Seq(Item), timeline' \in Seq(TimeVarying),
         Elements(items) \ Elements(items') \subseteq {i},
         Elements(timeline') \subseteq Elements(timeline) \union {i},
         \A j \in Item : Twice(timeline', j) => Twice(timeline, j),
         i \in Elements(timeline') =>
           Twice(timeline, i) \/ i \in Elements(items') \/ i \in more
  PROVE  TimelineInv'
<1>1. TimelineOnMap /\ TwiceStrays
  BY DEF TimelineInv
<1>2. \A j \in Elements(timeline') : j \in stray' <=> j \in stray \union more
  BY StillStray
<1>3. TimelineOnMap'
  <2>1. ASSUME NEW j \in Elements(timeline'), j # i
        PROVE  j \in Elements(items') \/ <<j, "remove">> \in toggling' \/ j \in stray'
    <3>1. j \in Elements(items) \/ <<j, "remove">> \in toggling \/ j \in stray
      BY <1>1, <2>1 DEF TimelineOnMap, OnMap
    <3> QED BY <1>2, <2>1, <3>1
  <2>2. i \in Elements(timeline') => i \in Elements(items') \/ i \in stray'
    BY <1>1, <1>2 DEF TwiceStrays
  <2> QED BY <2>1, <2>2 DEF TimelineOnMap, OnMap
<1>4. TwiceStrays'
  <2>1. ASSUME NEW j \in Item, Twice(timeline', j) PROVE j \in stray'
    BY <1>1, <1>2, <2>1, TwiceIsIn DEF TwiceStrays
  <2> QED BY <2>1 DEF TwiceStrays
<1>5. MapTypeOK'
  BY DEF MapTypeOK, OthersTyped
<1> QED BY <1>3, <1>4, <1>5 DEF TimelineInv

LEMMA RemoveFromMapKeepsTimeline ==
  ASSUME TimelineInv, NEW i \in Item, RemoveFromMap(i)
  PROVE  TimelineInv'
<1>1. OthersTyped /\ items \in Seq(Item) /\ timeline \in Seq(TimeVarying)
  BY MapTypeParts DEF TimelineInv
<1>2. OthersTyped' /\ UNCHANGED toggling /\ stray' = Straying({})
  BY <1>1 DEF OthersTyped, RemoveFromMap, Straying, baseMaps
<1>3. items' \in Seq(Item) /\ Elements(items) \ Elements(items') \subseteq {i}
  BY <1>1, WithoutIs DEF RemoveFromMap
<1>4. /\ timeline' \in Seq(TimeVarying) /\ Elements(timeline') \subseteq Elements(timeline)
      /\ \A j : Twice(timeline', j) => Twice(timeline, j)
      /\ i \in Elements(timeline') => Twice(timeline, i)
  <2>1. CASE i \in TimeVarying
    BY <2>1, TakenOffIs DEF RemoveFromMap
  <2>2. CASE i \notin TimeVarying
    <3>1. timeline' = timeline /\ i \notin Elements(timeline)
      BY <1>1, <2>2 DEF RemoveFromMap, Elements
    <3> QED BY <1>1, <3>1
  <2> QED BY <2>1, <2>2
<1> QED BY <1>2, <1>3, <1>4, TimelineChangeKeeps

LEMMA RemoveFromWorkbenchKeepsTimeline ==
  ASSUME TimelineInv, NEW i \in Item, RemoveFromWorkbench(i)
  PROVE  TimelineInv'
<1>1. OthersTyped /\ items \in Seq(Item) /\ timeline \in Seq(TimeVarying)
  BY MapTypeParts DEF TimelineInv
<1>2. OthersTyped' /\ UNCHANGED <<toggling, timeline>> /\ stray' = Straying({i})
  BY <1>1 DEF OthersTyped, RemoveFromWorkbench, Straying, baseMaps
<1>3. items' \in Seq(Item) /\ Elements(items) \ Elements(items') \subseteq {i}
  BY <1>1, WithoutIs DEF RemoveFromWorkbench
<1>4. \A j : Twice(timeline', j) => Twice(timeline, j)
  BY <1>2 DEF Twice, Places
<1>5. Elements(timeline') \subseteq Elements(timeline) \union {i}
  BY <1>2 DEF Elements
<1>6. timeline' \in Seq(TimeVarying)
  BY <1>1, <1>2
<1> QED BY <1>2, <1>3, <1>4, <1>5, <1>6, TimelineChangeKeeps

LEMMA ToggleTimelineKeepsTimeline ==
  ASSUME TimelineInv, NEW i \in Item, ToggleTimeline(i)
  PROVE  TimelineInv'
<1>1. /\ OthersTyped /\ items \in Seq(Item) /\ timeline \in Seq(TimeVarying)
      /\ i \in TimeVarying
  BY MapTypeParts DEF TimelineInv, ToggleTimeline
<1>2. OthersTyped' /\ UNCHANGED <<toggling, items>> /\ stray' = Straying({})
  BY <1>1 DEF OthersTyped, ToggleTimeline, Straying, baseMaps
<1>3. /\ items' \in Seq(Item) /\ Elements(items) \ Elements(items') \subseteq {i}
      /\ i \in Elements(items')
  BY <1>1, <1>2 DEF ToggleTimeline, OnMap, Elements
<1>4. /\ timeline' \in Seq(TimeVarying)
      /\ Elements(timeline') \subseteq Elements(timeline) \union {i}
      /\ \A j \in Item : Twice(timeline', j) => Twice(timeline, j)
  <2>1. CASE i \in Elements(timeline)
    <3>1. timeline' = TakenOff(i)
      BY <2>1 DEF ToggleTimeline
    <3> QED BY <1>1, <3>1, TakenOffIs
  <2>2. CASE i \notin Elements(timeline)
    <3>1. timeline' = <<i>> \o timeline
      BY <2>2 DEF ToggleTimeline, OnTop
    <3>2. ~Twice(timeline', i)
      BY <1>1, <2>2, <3>1, PutFirstOnce
    <3> QED BY <1>1, <3>1, <3>2, PutFirst
  <2> QED BY <2>1, <2>2
<1> QED BY <1>2, <1>3, <1>4, TimelineChangeKeeps

\* In every state: the types of MapState, what may be twice on the timeline has strayed, and
\* the rest of the timeline is on the map or about to be taken off.
THEOREM TimelineInvariant == MapSpec => []TimelineInv
<1>1. MapInit => TimelineInv
  <2> SUFFICES ASSUME MapInit PROVE TimelineInv
    OBVIOUS
  <2>1. Idle \in Run /\ 0 \in 0..Len(InitSources) + 1
    BY MapAssumption DEF Idle, Run
  <2>2. MapTypeOK
    BY <2>1 DEF MapInit, MapTypeOK
  <2> QED BY <2>2 DEF MapInit, TimelineInv, TwiceStrays, Twice, Places, TimelineOnMap, Elements
<1>2. TimelineInv /\ [MapNext]_mapVars => TimelineInv'
  <2> SUFFICES ASSUME TimelineInv, [MapNext]_mapVars PROVE TimelineInv'
    OBVIOUS
  <2>1. CASE \E s \in Slot : Continue(s) \/ \E r \in Reference : LateReferenceLoads(s, r)
    BY <2>1, ContinueKeepsTimeline
  <2>2. CASE \E s \in Slot : \/ NextInitSource(s)
                            \/ \E story \in Source \ Elements(InitSources) : ActivateStory(s, story)
    BY <2>2, StartKeepsTimeline
  <2>3. CASE LoadPersistedOrInitBaseMap \/ \E b \in BaseMap : SelectBaseMap(b) \/ BaseMapLoads(b)
    BY <2>3, BaseMapsKeepTimeline
  <2>4. CASE \E i \in Item : \/ Toggle(i) \/ ToggleTimeline(i)
                            \/ RemoveFromMap(i) \/ RemoveFromWorkbench(i)
    BY <2>4, ToggleKeepsTimeline, ToggleTimelineKeepsTimeline, RemoveFromMapKeepsTimeline,
       RemoveFromWorkbenchKeepsTimeline
  <2>5. CASE \E i \in Item, op \in Op, failed \in BOOLEAN : ToggleEnds(i, op, failed)
    BY <2>5, ToggleEndsKeepsTimeline
  <2>6. CASE RemoveAll
    BY <2>6, MapTypeParts DEF RemoveAll, TimelineInv, MapTypeOK, OthersTyped, TwiceStrays, Twice,
       Places, TimelineOnMap, Elements, baseMaps
  <2>7. CASE UNCHANGED mapVars
    <3>1. OthersTyped'
      BY <2>7, MapTypeParts DEF TimelineInv, OthersTyped, mapVars, mapItems, baseMaps
    <3> QED BY <2>7, <3>1, MapItemsStay DEF mapVars, mapItems
  <2> QED BY <2>1, <2>2, <2>3, <2>4, <2>5, <2>6, <2>7 DEF MapNext
<1> QED BY <1>1, <1>2, PTL DEF MapSpec

-----------------------------------------------------------------------------
(* MapState: init data *)

\* What a run has still to push of the model it waits for.
Awaited(at) == IF at \in Reference \union Group THEN Promised(at) ELSE << >>

\* A run has seen to the first n of its models.
SeenTo(run, n) ==
  LET named == WorkbenchOf[run.source] IN
  /\ Len(run.queue) = Len(named) - n
  /\ \A k \in 1..Len(named) - n : run.queue[k] = named[n + k]
  /\ run.newItems \o Awaited(run.at) = PromisedByFirst(run.source, n)

OnTrack(run) ==
  run.source # NoSource /\ Straight(run.source) =>
    /\ run.late = {}
    /\ run.at # NoModel => StraightModel(run.at)
    /\ \E n \in 0..Len(WorkbenchOf[run.source]) : SeenTo(run, n)

AllOnTrack == WholeSource /\ \A s \in Slot : OnTrack(applying[s])

LEMMA PromisedFirst ==
  ASSUME NEW source \in Source
  PROVE  /\ PromisedByFirst(source, 0) = << >>
         /\ \A n \in 1..Len(WorkbenchOf[source]) :
              PromisedByFirst(source, n) =
                PromisedByFirst(source, n - 1) \o Promised(WorkbenchOf[source][n])
<1> DEFINE named == WorkbenchOf[source]
           lists == [i \in 1..Len(named) |-> Promised(named[i])]
           all   == {Promised(m) : m \in Model}
<1>1. named \in Seq(Model) /\ Len(named) \in Nat
  BY MapAssumption
<1> HIDE DEF named
<1>2. \A i \in 1..Len(named) : Promised(named[i]) \in all
  BY <1>1
<1> HIDE DEF all
<1>3. lists \in Seq(all) /\ Len(lists) = Len(named)
  BY <1>1, <1>2
<1>4. \A n \in 1..Len(named) : lists[n] = Promised(named[n])
  OBVIOUS
<1>5. \A n : PromisedByFirst(source, n) = FirstJoined(lists, n)
  BY DEF PromisedByFirst, named
<1> HIDE DEF lists
<1>6. FirstJoined(lists, 0) = << >>
  BY <1>3, JoinedOneMore
<1>7. ASSUME NEW n \in 1..Len(named)
      PROVE  PromisedByFirst(source, n) = PromisedByFirst(source, n - 1) \o Promised(named[n])
  <2>1. FirstJoined(lists, n) = FirstJoined(lists, n - 1) \o lists[n]
    BY <1>3, JoinedOneMore
  <2> QED BY <1>4, <1>5, <2>1
<1> QED BY <1>5, <1>6, <1>7 DEF named

LEMMA AppendIsJoin ==
  ASSUME NEW S, NEW list \in Seq(S), NEW e \in S
  PROVE  Append(list, e) \o << >> = list \o <<e>> /\ list \o << >> = list
OBVIOUS

\* What an item, a reference and a group put on the map.
LEMMA ItemPromises ==
  ASSUME NEW i \in Item
  PROVE  Promised(i) = <<i>> /\ Awaited(i) = << >>
BY MapAssumption DEF Promised, Awaited

LEMMA ReferencePromises ==
  ASSUME NEW r \in Reference
  PROVE  /\ Awaited(r) = Promised(r)
         /\ r \in Broken => Promised(r) = << >>
         /\ r \notin Broken /\ TargetOf[r] \in Item => Promised(r) = <<TargetOf[r]>>
         /\ r \notin Broken /\ TargetOf[r] \in Group =>
              Promised(r) = Promised(TargetOf[r]) /\ Awaited(TargetOf[r]) = Promised(r)
<1>1. Awaited(r) = Promised(r) /\ (r \in Broken => Promised(r) = << >>)
  BY DEF Awaited, Promised
<1>2. ASSUME r \notin Broken, TargetOf[r] \in Item PROVE Promised(r) = <<TargetOf[r]>>
  BY <1>2 DEF Promised
<1>3. ASSUME r \notin Broken, TargetOf[r] \in Group
      PROVE  Promised(r) = Promised(TargetOf[r]) /\ Awaited(TargetOf[r]) = Promised(r)
  <2>1. TargetOf[r] \notin Item /\ TargetOf[r] \notin Reference
    BY <1>3, MapAssumption
  <2>2. CASE TargetOf[r] \in Broken
    <3>1. Promised(r) = << >>
      BY <1>3, <2>1, <2>2 DEF Promised
    <3>2. Promised(TargetOf[r]) = << >>
      BY <2>2 DEF Promised
    <3> QED BY <1>3, <3>1, <3>2 DEF Awaited
  <2>3. CASE TargetOf[r] \notin Broken
    <3>1. Promised(r) = Promised(TargetOf[r])
      BY <1>3, <2>1, <2>3, Zenon DEF Promised
    <3> QED BY <1>3, <3>1 DEF Awaited
  <2> QED BY <2>2, <2>3
<1> QED BY <1>1, <1>2, <1>3

\* A group without references among its members puts its items there.
LEMMA GroupPromises ==
  ASSUME NEW g \in Group, StraightModel(g)
  PROVE  /\ Awaited(g) = Promised(g)
         /\ Promised(g) = IF g \in Broken THEN << >> ELSE Filter(MembersOf[g], Item)
         /\ Elements(MembersOf[g]) \intersect Reference = {}
<1>1. g \notin Reference /\ g \notin Item /\ Item \intersect Broken = {} /\ Item \subseteq Model
  BY MapAssumption DEF Model
<1>2. Elements(MembersOf[g]) \subseteq Item
  BY <1>1 DEF StraightModel
<1>3. Elements(MembersOf[g]) \intersect Reference = {}
  BY <1>2, MapAssumption
<1>4. Awaited(g) = Promised(g)
  BY DEF Awaited
<1>5. CASE g \in Broken
  BY <1>3, <1>4, <1>5 DEF Promised
<1>6. CASE g \notin Broken
  <2> DEFINE all == MembersOf[g]
             kept == Filter(all, Model \ Broken)
             new == [i \in 1..Len(kept) |->
                       IF kept[i] \in Reference THEN TargetOf[kept[i]] ELSE kept[i]]
  <2>1. \A n \in 1..Len(all) : all[n] \in Model \ Broken <=> all[n] \in Item
    BY <1>1, <1>2 DEF Elements
  <2>2. kept = Filter(all, Item)
    BY <2>1, FilterSame
  <2>3. all \in Seq(Item)
    <3>1. all \in Seq(Item \union Reference)
      BY MapAssumption
    <3>2. \A n \in 1..Len(all) : all[n] \in Item
      BY <1>2 DEF Elements
    <3> HIDE DEF all
    <3> QED BY <3>1, <3>2
  <2>4. Promised(g) = new
    BY <1>1, <1>6 DEF Promised
  <2> HIDE DEF all
  <2>5. Filter(all, Item) \in Seq(Item)
    BY <2>3, FilterElements
  <2>6. kept \in Seq(Item)
    BY <2>2, <2>5
  <2> HIDE DEF kept
  <2>7. \A i \in 1..Len(kept) : kept[i] \notin Reference
    BY <2>6, MapAssumption
  <2>8. new = kept
    <3>1. new = [i \in 1..Len(kept) |-> kept[i]]
      BY <2>7
    <3>2. kept = [i \in 1..Len(kept) |-> kept[i]]
      BY <2>6
    <3> QED BY <3>1, <3>2
  <2> QED BY <1>3, <1>4, <1>6, <2>2, <2>4, <2>8 DEF all
<1> QED BY <1>5, <1>6

\* A run that goes on leaves the workbench alone.
LEMMA OneRunOnTrack ==
  ASSUME MapTypeOK, AllOnTrack, NEW s \in Slot, NEW run \in Run, OnTrack(run),
         applying' = [applying EXCEPT ![s] = run], UNCHANGED mapItems
  PROVE  AllOnTrack'
<1>1. WholeSource'
  BY DEF AllOnTrack, WholeSource, mapItems
<1>2. \A t \in Slot : applying'[t] = IF t = s THEN run ELSE applying[t]
  BY DEF MapTypeOK
<1> QED BY <1>1, <1>2 DEF AllOnTrack

\* Its steps, as far as they go.
LEMMA NothingSeenYet ==
  ASSUME NEW source \in Source, NEW run \in Run, run.source = source, run.at = NoModel,
         run.queue = WorkbenchOf[source], run.newItems = << >>, run.late = {}
  PROVE  OnTrack(run)
<1>1. Len(WorkbenchOf[source]) \in Nat
  BY MapAssumption
<1>2. Awaited(run.at) = << >>
  BY MapAssumption DEF Awaited, Model
<1>3. PromisedByFirst(source, 0) = << >>
  BY PromisedFirst
<1>4. << >> \o << >> = << >>
  OBVIOUS
<1>5. SeenTo(run, 0)
  BY <1>1, <1>2, <1>3, <1>4 DEF SeenTo
<1> QED BY <1>1, <1>5 DEF OnTrack

\* The next model is pushed.
LEMMA OneMoreSeen ==
  ASSUME NEW old \in Run, OnTrack(old), old.source # NoSource, old.at \in Item \union {NoModel},
         old.queue # << >>, NEW run \in Run, run.source = old.source, run.queue = Tail(old.queue),
         run.newItems = old.newItems, run.late = old.late, Head(old.queue) \in Model
  PROVE  OnTrack(Pushed(run, Head(old.queue)))
<1> DEFINE named == WorkbenchOf[old.source]
           m     == Head(old.queue)
           new   == Pushed(run, m)
<1>1. /\ new \in Run /\ new.source = old.source /\ new.at = m /\ new.queue = Tail(old.queue)
      /\ new.late = old.late
      /\ new.newItems = IF m \in Item THEN Append(old.newItems, m) ELSE old.newItems
  BY RunPushed
<1> SUFFICES ASSUME Straight(old.source)
             PROVE  /\ new.late = {} /\ StraightModel(m)
                    /\ \E n \in 0..Len(named) : SeenTo(new, n)
  BY <1>1 DEF OnTrack
<1>2. PICK n \in 0..Len(named) : SeenTo(old, n)
  BY DEF OnTrack
<1>3. /\ old.source \in Source /\ named \in Seq(Model) /\ Len(named) \in Nat
      /\ old.queue \in Seq(Model) /\ old.newItems \in Seq(Item)
  BY MapAssumption DEF Run
<1>4. /\ Len(old.queue) = Len(named) - n
      /\ \A k \in 1..Len(named) - n : old.queue[k] = named[n + k]
      /\ old.newItems \o Awaited(old.at) = PromisedByFirst(old.source, n)
  BY <1>2 DEF SeenTo
<1>5. Len(old.queue) # 0 /\ m = old.queue[1]
  BY <1>3
<1>6. n + 1 \in 1..Len(named) /\ m = named[n + 1]
  BY <1>3, <1>4, <1>5
<1>7. new.late = {} /\ StraightModel(m)
  BY <1>1, <1>6 DEF OnTrack, Straight, Elements
<1>8. Len(new.queue) = Len(named) - (n + 1)
  <2>1. \A q \in Seq(Model) : Len(q) # 0 => Len(Tail(q)) = Len(q) - 1
    OBVIOUS
  <2>2. Len(new.queue) = Len(old.queue) - 1
    BY <1>1, <1>3, <1>5, <2>1
  <2> QED BY <1>3, <1>4, <2>2
<1>9. \A k \in 1..Len(named) - (n + 1) : new.queue[k] = named[(n + 1) + k]
  <2>1. \A k \in 1..Len(named) - (n + 1) : Tail(old.queue)[k] = old.queue[k + 1]
    BY <1>3, <1>4, <1>5
  <2>2. \A k \in 1..Len(named) - (n + 1) : old.queue[k + 1] = named[n + (k + 1)]
    BY <1>3, <1>4
  <2>3. \A k \in 1..Len(named) - (n + 1) : n + (k + 1) = (n + 1) + k
    BY <1>3
  <2> QED BY <1>1, <2>1, <2>2, <2>3
<1>10. PromisedByFirst(old.source, n) = old.newItems
  <2>1. Awaited(old.at) = << >>
    BY ItemPromises, MapAssumption DEF Awaited, Model
  <2> QED BY <1>3, <1>4, <2>1
<1>11. PromisedByFirst(old.source, n + 1) = old.newItems \o Promised(m)
  <2>1. (n + 1) - 1 = n
    BY <1>3
  <2>2. PromisedByFirst(old.source, n + 1) =
          PromisedByFirst(old.source, (n + 1) - 1) \o Promised(named[n + 1])
    BY <1>3, <1>6, PromisedFirst
  <2> QED BY <1>6, <1>10, <2>1, <2>2
<1> HIDE DEF m, new
<1>12. new.newItems \o Awaited(m) = old.newItems \o Promised(m)
  <2>1. CASE m \in Item
    <3>1. new.newItems = Append(old.newItems, m) /\ Awaited(m) = << >> /\ Promised(m) = <<m>>
      BY <1>1, <2>1, ItemPromises
    <3> QED BY <1>3, <2>1, <3>1, AppendIsJoin
  <2>2. CASE m \notin Item
    <3>1. m \in Reference \union Group
      BY <1>6, <1>3, <2>2 DEF Model
    <3> QED BY <1>1, <2>2, <3>1 DEF Awaited
  <2> QED BY <2>1, <2>2
<1>13. SeenTo(new, n + 1)
  BY <1>1, <1>8, <1>9, <1>11, <1>12 DEF SeenTo
<1> QED BY <1>6, <1>7, <1>13

\* What a run waited for has come, and takes its place.
LEMMA SeenStill ==
  ASSUME NEW old \in Run, NEW new \in Run, old.source # NoSource, OnTrack(old),
         new.source = old.source, new.queue = old.queue,
         Straight(old.source) =>
           /\ new.late = {}
           /\ new.at # NoModel => StraightModel(new.at)
           /\ new.newItems \o Awaited(new.at) = old.newItems \o Awaited(old.at)
  PROVE  OnTrack(new)
BY DEF OnTrack, SeenTo

LEMMA ReferenceOnTrack ==
  ASSUME MapTypeOK, AllOnTrack, NEW s \in Slot, ReferenceLoads(s)
  PROVE  AllOnTrack'
<1> DEFINE old == applying[s]
<1>1. /\ old \in Run /\ OnTrack(old) /\ old.at \in Reference /\ old.at # NoModel
      /\ UNCHANGED mapItems
  BY MapAssumption DEF MapTypeOK, AllOnTrack, ReferenceLoads, Model
<1>2. old.newItems \in Seq(Item)
  BY <1>1 DEF Run
<1>3. CASE old.source = NoSource
  <2>1. PICK run \in Run : applying' = [applying EXCEPT ![s] = run] /\ run.source = NoSource
    BY <1>1, <1>3, RunReferenceLoads, RunPushed DEF Model
  <2> QED BY <1>1, <2>1, OneRunOnTrack DEF OnTrack
<1>4. CASE old.source # NoSource /\ old.at \in Broken
  <2>1. PICK run \in Run :
          /\ applying' = [applying EXCEPT ![s] = run]
          /\ run.source = old.source /\ run.queue = old.queue /\ run.at = NoModel
          /\ run.newItems = old.newItems /\ run.late = old.late
    BY <1>4, RunReferenceLoads
  <2>2. Awaited(old.at) = << >> /\ Awaited(run.at) = << >>
    BY <1>1, <1>4, <2>1, ReferencePromises, MapAssumption DEF Awaited, Model
  <2> HIDE DEF old
  <2>3. OnTrack(run)
    BY <1>1, <1>4, <2>1, <2>2, SeenStill DEF OnTrack
  <2> QED BY <1>1, <2>1, <2>3, OneRunOnTrack
<1>5. CASE old.source # NoSource /\ old.at \notin Broken
  <2> DEFINE target == TargetOf[old.at]
             run    == Pushed(old, target)
  <2>1. target \in Item \union Group /\ applying' = [applying EXCEPT ![s] = run]
    BY <1>5, RunReferenceLoads
  <2>2. /\ run \in Run /\ run.source = old.source /\ run.at = target /\ run.queue = old.queue
        /\ run.late = old.late
        /\ run.newItems = IF target \in Item THEN Append(old.newItems, target) ELSE old.newItems
    BY <1>1, <2>1, RunPushed DEF Model
  <2>3. run.newItems \o Awaited(target) = old.newItems \o Awaited(old.at)
    <3>1. CASE target \in Item
      <4>1. Awaited(target) = << >> /\ Awaited(old.at) = <<target>>
        BY <1>1, <1>5, <3>1, ReferencePromises, ItemPromises
      <4>2. Append(old.newItems, target) \o << >> = old.newItems \o <<target>>
        BY <1>2, <3>1, AppendIsJoin
      <4>3. run.newItems = Append(old.newItems, target)
        BY <2>2, <3>1
      <4> QED BY <4>1, <4>2, <4>3
    <3>2. CASE target \in Group
      <4>1. Awaited(target) = Awaited(old.at) /\ target \notin Item
        BY <1>1, <1>5, <3>2, ReferencePromises, MapAssumption
      <4> QED BY <2>2, <4>1
    <3> QED BY <2>1, <3>1, <3>2
  <2>4. StraightModel(old.at) => StraightModel(target)
    BY <1>1, <2>1, MapAssumption DEF StraightModel
  <2> HIDE DEF old, run, target
  <2>5. OnTrack(run)
    BY <1>1, <1>5, <2>2, <2>3, <2>4, SeenStill DEF OnTrack
  <2> QED BY <1>1, <2>1, <2>2, <2>5, OneRunOnTrack
<1> QED BY <1>3, <1>4, <1>5

LEMMA MembersOnTrack ==
  ASSUME MapTypeOK, AllOnTrack, NEW s \in Slot, MembersLoad(s)
  PROVE  AllOnTrack'
<1> DEFINE old     == applying[s]
           members == IF old.at \in Broken THEN << >> ELSE MembersOf[old.at]
<1>1. old \in Run /\ OnTrack(old) /\ old.at \in Group /\ old.at # NoModel /\ UNCHANGED mapItems
  BY MapAssumption DEF MapTypeOK, AllOnTrack, MembersLoad, Model
<1>2. PICK run \in Run :
        /\ applying' = [applying EXCEPT ![s] = run]
        /\ run.source = old.source /\ run.queue = old.queue /\ run.at = NoModel
        /\ run.newItems = old.newItems \o Filter(members, Item)
        /\ run.late = old.late \union ((Elements(members) \intersect Reference) \ Broken)
  BY RunMembersLoad
<1>3. Awaited(NoModel) = << >>
  BY MapAssumption DEF Awaited, Model
<1>4. ASSUME StraightModel(old.at)
      PROVE  /\ Elements(members) \intersect Reference = {}
             /\ (old.newItems \o Filter(members, Item)) \o << >> = old.newItems \o Awaited(old.at)
  <2>1. /\ Elements(MembersOf[old.at]) \intersect Reference = {}
        /\ Awaited(old.at) = IF old.at \in Broken THEN << >> ELSE Filter(MembersOf[old.at], Item)
    BY <1>1, <1>4, GroupPromises
  <2>2. Filter(<< >>, Item) = << >>
    <3>1. << >> \in Seq(Item) /\ \A n \in 1..Len(<< >>) : << >>[n] \notin Item
      OBVIOUS
    <3> QED BY <3>1, FilterEmpty
  <2>3. Elements(members) \intersect Reference = {}
    BY <2>1 DEF Elements
  <2>4. Filter(members, Item) = Awaited(old.at)
    BY <2>1, <2>2
  <2>5. run.newItems \in Seq(Item)
    BY DEF Run
  <2> HIDE DEF members, old
  <2>6. run.newItems \o << >> = run.newItems
    BY <2>5
  <2> QED BY <1>2, <2>3, <2>4, <2>6
<1> HIDE DEF members, old
<1>5. OnTrack(run)
  <2>1. CASE old.source = NoSource
    BY <1>2, <2>1 DEF OnTrack
  <2>2. CASE old.source # NoSource
    <3>1. Straight(old.source) => old.late = {} /\ StraightModel(old.at)
      BY <1>1, <2>2 DEF OnTrack
    <3> QED BY <1>1, <1>2, <1>3, <1>4, <2>2, <3>1, SeenStill
  <2> QED BY <2>1, <2>2
<1> QED BY <1>1, <1>2, <1>5, OneRunOnTrack

LEMMA LateReferenceOnTrack ==
  ASSUME MapTypeOK, AllOnTrack, NEW s \in Slot, NEW r \in Reference, LateReferenceLoads(s, r)
  PROVE  AllOnTrack'
<1>1. applying[s] \in Run /\ OnTrack(applying[s]) /\ UNCHANGED mapItems
  BY DEF MapTypeOK, AllOnTrack, LateReferenceLoads
<1>2. PICK run \in Run : applying' = [applying EXCEPT ![s] = run] /\ run.source = applying[s].source
  BY RunLateReferenceLoads
<1>3. r \in applying[s].late
  BY RunLateReferenceLoads
<1>4. OnTrack(run)
  BY <1>1, <1>2, <1>3 DEF OnTrack
<1> QED BY <1>1, <1>2, <1>4, OneRunOnTrack

\* At the end of a run, the workbench is what its init data promised.
LEMMA AssignOnTrack ==
  ASSUME MapTypeOK, AllOnTrack, NEW s \in Slot, Resume(s), applying[s].queue = << >>
  PROVE  AllOnTrack'
<1> DEFINE old == applying[s]
<1>1. old \in Run /\ OnTrack(old) /\ Assign(s) /\ old.source \in Source
  BY RunAssigns DEF AllOnTrack
<1>2. OnTrack(Idle)
  BY DEF OnTrack, Idle
<1>3. \A t \in Slot : applying'[t] = IF t = s THEN Idle ELSE applying[t]
  BY <1>1 DEF MapTypeOK, Assign
<1>4. ASSUME Straight(old.source)
      PROVE  old.newItems = PromisedByFirst(old.source, Len(WorkbenchOf[old.source]))
  <2>1. old.source # NoSource
    BY <1>1, MapAssumption
  <2>2. PICK n \in 0..Len(WorkbenchOf[old.source]) : SeenTo(old, n)
    BY <1>1, <1>4, <2>1 DEF OnTrack
  <2>3. Len(WorkbenchOf[old.source]) \in Nat
    BY <1>1, MapAssumption
  <2>4. n = Len(WorkbenchOf[old.source])
    BY <2>2, <2>3 DEF SeenTo
  <2>5. Awaited(old.at) = << >>
    BY ItemPromises, MapAssumption DEF Awaited, Model, Resume
  <2>6. old.newItems \in Seq(Item)
    BY <1>1 DEF Run
  <2> HIDE DEF old
  <2>7. old.newItems \o << >> = old.newItems
    BY <2>6
  <2> QED BY <2>2, <2>4, <2>5, <2>7 DEF SeenTo
<1>5. WholeSource'
  BY <1>1, <1>4 DEF WholeSource, Assign, PromisedBy
<1> QED BY <1>2, <1>3, <1>5 DEF AllOnTrack

LEMMA ContinueOnTrack ==
  ASSUME MapTypeOK, AllOnTrack, NEW s \in Slot,
         Continue(s) \/ \E r \in Reference : LateReferenceLoads(s, r)
  PROVE  AllOnTrack'
<1>1. CASE Resume(s) /\ applying[s].queue # << >>
  <2> DEFINE old == applying[s]
             m   == Head(old.queue)
  <2>1. /\ old \in Run /\ OnTrack(old) /\ old.source # NoSource
        /\ old.at \in Item \union {NoModel} /\ UNCHANGED mapItems
    BY <1>1 DEF MapTypeOK, AllOnTrack, Resume
  <2>2. PICK run \in Run :
          /\ applying' = [applying EXCEPT ![s] = Pushed(run, m)]
          /\ run.source = old.source /\ run.queue = Tail(old.queue)
          /\ run.newItems = old.newItems /\ run.late = old.late
          /\ m \in Model
    BY <1>1, RunResumes
  <2>3. Pushed(run, m) \in Run
    BY <2>2, RunPushed
  <2>4. OnTrack(Pushed(run, m))
    BY <1>1, <2>1, <2>2, OneMoreSeen
  <2> HIDE DEF m, old
  <2> QED BY <2>1, <2>2, <2>3, <2>4, OneRunOnTrack
<1> QED BY <1>1, AssignOnTrack, ReferenceOnTrack, MembersOnTrack, LateReferenceOnTrack DEF Continue

\* A run begins; and everything else either lets the workbench alone or is a click.
LEMMA StartOnTrack ==
  ASSUME MapTypeOK, AllOnTrack, NEW s \in Slot, NEW source \in Source, NEW init \in BOOLEAN,
         ApplyInitData(s, source, init)
  PROVE  AllOnTrack'
<1>1. PICK run \in Run :
        /\ applying' = [applying EXCEPT ![s] = run]
        /\ run.source = source /\ run.at = NoModel /\ run.queue = WorkbenchOf[source]
        /\ run.newItems = << >> /\ run.late = {}
  BY RunStarts
<1>2. OnTrack(run)
  BY <1>1, NothingSeenYet
<1> QED BY <1>1, <1>2, OneRunOnTrack DEF ApplyInitData

LEMMA OthersOnTrack ==
  ASSUME AllOnTrack, UNCHANGED applying, UNCHANGED mapItems \/ due' = NoSource
  PROVE  AllOnTrack'
<1>1. WholeSource'
  BY DEF AllOnTrack, WholeSource, mapItems
<1> QED BY <1>1 DEF AllOnTrack

\* In every state: a workbench that nobody but the last init data has touched has all of it,
\* and each run of applyInitData that could become the last one is on the way there.
THEOREM TrackInvariant == MapSpec => []AllOnTrack
<1>1. MapInit => AllOnTrack
  <2> SUFFICES ASSUME MapInit PROVE AllOnTrack
    OBVIOUS
  <2>1. \A s \in Slot : applying[s] = Idle
    BY DEF MapInit
  <2> QED BY <2>1 DEF MapInit, AllOnTrack, WholeSource, OnTrack, Idle
<1>2. MapTypeOK /\ AllOnTrack /\ [MapNext]_mapVars => AllOnTrack'
  <2> SUFFICES ASSUME MapTypeOK, AllOnTrack, [MapNext]_mapVars PROVE AllOnTrack'
    OBVIOUS
  <2>1. CASE \E s \in Slot : Continue(s) \/ \E r \in Reference : LateReferenceLoads(s, r)
    BY <2>1, ContinueOnTrack
  <2>2. CASE \E s \in Slot : NextInitSource(s)
    <3>1. PICK s \in Slot : NextInitSource(s)
      BY <2>2
    <3>2. InitSources[booted'] \in Source
      <4>1. booted \in Nat /\ InitSources \in Seq(Source) /\ booted' \in 1..Len(InitSources)
        BY <3>1, MapAssumption DEF MapTypeOK, NextInitSource
      <4> QED BY <4>1
    <3> QED BY <3>1, <3>2, StartOnTrack DEF NextInitSource
  <2>3. CASE \E s \in Slot, story \in Source : ActivateStory(s, story)
    BY <2>3, StartOnTrack DEF ActivateStory
  <2>4. CASE LoadPersistedOrInitBaseMap \/ \E b \in BaseMap : SelectBaseMap(b) \/ BaseMapLoads(b)
    BY <2>4, OthersOnTrack DEF LoadPersistedOrInitBaseMap, SelectBaseMap, BaseMapLoads
  <2>5. CASE \E i \in Item : \/ Toggle(i) \/ ToggleTimeline(i)
                            \/ RemoveFromMap(i) \/ RemoveFromWorkbench(i)
                            \/ \E op \in Op, failed \in BOOLEAN : ToggleEnds(i, op, failed)
    BY <2>5, OthersOnTrack
       DEF Toggle, ToggleTimeline, RemoveFromMap, RemoveFromWorkbench, ToggleEnds
  <2>6. CASE RemoveAll
    BY <2>6, OthersOnTrack DEF RemoveAll
  <2>7. CASE UNCHANGED mapVars
    BY <2>7, OthersOnTrack DEF mapVars
  <2> QED BY <2>1, <2>2, <2>3, <2>4, <2>5, <2>6, <2>7 DEF MapNext
<1>3. TimelineInv => MapTypeOK
  BY DEF TimelineInv
<1> QED BY <1>1, <1>2, <1>3, TimelineInvariant, PTL DEF MapSpec

\* The types of workbench, timeline, base map and of the runs of applyInitData.
THEOREM MapTypeCorrect == MapSpec => []MapTypeOK
<1>1. TimelineInv => MapTypeOK
  BY DEF TimelineInv
<1> QED BY <1>1, TimelineInvariant, PTL

\* A layer of the timeline is on the map, about to be taken off, or has strayed: its add
\* ended after it had left the map, it was put on the timeline twice, or somebody took it out
\* of the workbench alone.
THEOREM TimelineIsOnMap == MapSpec => []TimelineOnMap
<1>1. TimelineInv => TimelineOnMap
  BY DEF TimelineInv
<1> QED BY <1>1, TimelineInvariant, PTL

\* A workbench that nobody but the last init data has touched is what that names, whole and
\* in its order if no group has a reference among its members; the timeline follows.
THEOREM WorkbenchIsWhole == MapSpec => []WholeSource
<1>1. AllOnTrack => WholeSource
  BY DEF AllOnTrack
<1> QED BY <1>1, TrackInvariant, PTL

=============================================================================
