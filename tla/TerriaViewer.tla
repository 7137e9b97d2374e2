---------------------------- MODULE TerriaViewer ----------------------------
(***************************************************************************)
(* lib/ViewModels/TerriaViewer.ts with zoomTo of lib/Models/GlobeOrMap.ts: *)
(* the map that is created, destroyed and replaced as the mode and the     *)
(* container change and as the code of a map arrives.                      *)
(*                                                                         *)
(* currentViewer is a computed that a reaction keeps up to date: it is     *)
(* made anew at the end of the action that changes what it depends on.     *)
(* Making it destroys the last viewer and hands its camera view to the new *)
(* one.  A NoViewer stands in while there is no container or no code, and  *)
(* when a constructor throws; a timer then changes the mode.  A camera     *)
(* view is a value; a flight shows one of its ends.                        *)
(***************************************************************************)
EXTENDS Integers

CONSTANTS
  Container,   \* DOM elements a viewer is attached to
  Nowhere,     \* mapContainer is undefined
  View,        \* camera views
  World,       \* the view a home camera starts with, Rectangle.MAX_VALUE
  NoView,      \* undefined
  MaxZooms,    \* bound: calls of zoomTo() that one viewer has not finished
  MaxTimers    \* bound: constructors that threw before the first timer fires

ASSUME ViewerAssumption ==
  /\ Nowhere \notin Container
  /\ World \in View /\ NoView \notin View
  /\ MaxZooms \in Nat \ {0} /\ MaxTimers \in Nat

VARIABLES
  mode,       \* viewerMode, "none" for undefined
  container,  \* mapContainer
  code,       \* per mode: the promise of its import()
  broken,     \* the modes this system cannot run: their constructors throw
  viewer,     \* the kind of currentViewer, "none" for a NoViewer
  live,       \* _lastViewer is defined
  view,       \* the camera view of currentViewer
  home,       \* _homeCamera
  timers,     \* the timers of constructors that threw
  zoomId,     \* _currentZoomId of currentViewer, 0 for undefined
  isMapZooming,
  zooms,      \* the unfinished calls of its zoomTo(): where each goes
  latest      \* history: the last of them

camera == <<view, zoomId, isMapZooming, zooms, latest>>
vars == <<mode, container, code, broken, viewer, live, home, timers, camera>>

Mode   == {"cesium", "leaflet"}
ZoomId == 1..MaxZooms

TypeOK ==
  /\ mode \in Mode \union {"none"} /\ viewer \in Mode \union {"none"}
  /\ container \in Container \union {Nowhere}
  /\ code \in [Mode -> {"unasked", "pending", "fulfilled", "rejected"}]
  /\ broken \subseteq Mode
  /\ live \in BOOLEAN /\ isMapZooming \in BOOLEAN
  /\ view \in View /\ home \in View
  /\ timers \in 0..MaxTimers
  /\ zoomId \in 0..MaxZooms /\ latest \in 0..MaxZooms
  /\ zooms \in [ZoomId -> View \union {NoView}]

-----------------------------------------------------------------------------
(* The camera *)

NoZooms == [id \in ZoomId |-> NoView]

\* A viewer that has just been made and sent to v: zoomTo(v, 0.0).
StartsAt(v) ==
  /\ view' = v
  /\ zooms' = [NoZooms EXCEPT ![1] = v]
  /\ zoomId' = 1 /\ latest' = 1 /\ isMapZooming' = TRUE

\* zoomTo(): every call has an id of its own.  A NoViewer is there at once, a map when
\* its flight ends.
ZoomTo(v, atOnce) ==
  \E id \in ZoomId :
    /\ zooms[id] = NoView
    /\ zooms' = [zooms EXCEPT ![id] = v]
    /\ zoomId' = id /\ latest' = id /\ isMapZooming' = TRUE
    /\ view' = IF atOnce \/ viewer = "none" THEN v ELSE view

\* Mutant: the end of any zoom clears the indicator.
ZoomEndsAny(id) ==
  /\ zooms[id] # NoView
  /\ zooms' = [zooms EXCEPT ![id] = NoView]
  /\ view' = IF id = latest THEN zooms[id] ELSE view
  /\ isMapZooming' = FALSE /\ zoomId' = 0
  /\ UNCHANGED <<mode, container, code, broken, viewer, live, home, timers, latest>>

\* The promise of a zoom is settled: the target is reached unless a later call gave the
\* map another one, and the indicator goes off unless that call is still on.
ZoomEnds(id) ==
  /\ zooms[id] # NoView
  /\ zooms' = [zooms EXCEPT ![id] = NoView]
  /\ view' = IF id = latest THEN zooms[id] ELSE view
  /\ isMapZooming' = (isMapZooming /\ zoomId # id)
  /\ zoomId' = IF zoomId = id THEN 0 ELSE zoomId
  /\ UNCHANGED <<mode, container, code, broken, viewer, live, home, timers, latest>>

\* What getCurrentCameraView() may answer: a map in flight is at either end of it.
CameraViews == {view} \union (IF zoomId = 0 THEN {} ELSE {zooms[zoomId]})

\* destroyCurrentViewer(): the view of the viewer it destroys.
LastViews == IF live THEN CameraViews ELSE {NoView}

-----------------------------------------------------------------------------
(* currentViewer *)

Attached == container # Nowhere

\* The import() of the current mode's code begins when it is first asked for.
Asked(c, m) == IF c # Nowhere /\ m # "none" /\ code[m] = "unasked"
                 THEN [code EXCEPT ![m] = "pending"] ELSE code

\* The viewer to construct, "none" for a NoViewer.
Wanted == IF Attached /\ mode # "none" /\ code[mode] = "fulfilled" THEN mode ELSE "none"

\* Mutant: the NoViewer that stands in forgets the view it is given.
NewViewerForgetting(currentView, fired) ==
  /\ viewer' = IF Wanted' \in broken THEN "none" ELSE Wanted'
  /\ timers' = timers - fired + (IF Wanted' \in broken THEN 1 ELSE 0)
  /\ live' = TRUE
  /\ StartsAt(IF currentView = NoView \/ viewer' = "none" THEN home ELSE currentView)

\* currentViewer is made anew, given the view of the viewer before it; if the
\* constructor throws, a NoViewer takes its place and a timer is set.
NewViewer(currentView, fired) ==
  /\ viewer' = IF Wanted' \in broken THEN "none" ELSE Wanted'
  /\ timers' = timers - fired + (IF Wanted' \in broken THEN 1 ELSE 0)
  /\ live' = TRUE
  /\ StartsAt(IF currentView = NoView THEN home ELSE currentView)

\* Mutant: a viewer is made anew for another mode or container, not for its code.
ReactNotToCode(changed, fired) ==
  IF changed /\ code' \in {code, Asked(container', mode')}
    THEN \E v \in LastViews : NewViewer(v, fired)
    ELSE timers' = timers - fired /\ UNCHANGED <<viewer, live, camera>>

\* The end of an action: a new viewer if what it depends on has changed.
React(changed, fired) ==
  IF changed THEN \E v \in LastViews : NewViewer(v, fired)
             ELSE timers' = timers - fired /\ UNCHANGED <<viewer, live, camera>>

-----------------------------------------------------------------------------
(* Operations *)

Init ==
  /\ mode = "cesium" /\ container = Nowhere
  /\ code = [m \in Mode |-> "unasked"]
  /\ broken \in SUBSET Mode
  /\ viewer = "none" /\ live = TRUE /\ timers = 0
  /\ home = World /\ view = World
  /\ zooms = NoZooms /\ zoomId = 0 /\ latest = 0 /\ isMapZooming = FALSE

Attach(c) ==
  /\ timers < MaxTimers
  /\ container' = c
  /\ code' = Asked(c, mode)
  /\ UNCHANGED <<mode, broken, home>>
  /\ React(c # container, 0)

\* The viewer is destroyed before the end of the action, and its view is not kept.
Detach ==
  /\ container' = Nowhere
  /\ UNCHANGED <<mode, code, broken, home>>
  /\ IF Attached THEN NewViewer(NoView, 0)
                 ELSE live' = FALSE /\ UNCHANGED <<viewer, timers, camera>>

\* viewerMode is set; it matters to an attached viewer only.
SetMode(m, fired) ==
  /\ mode' = m
  /\ code' = Asked(container, m)
  /\ UNCHANGED <<container, broken, home>>
  /\ React(Attached /\ m # mode, fired)

SetViewerMode(m) == timers < MaxTimers /\ SetMode(m, 0)

\* The timer of a constructor that threw: Cesium's mode becomes Leaflet's, any other one
\* undefined.
Fallback == timers > 0 /\ SetMode(IF mode = "cesium" THEN "leaflet" ELSE "none", 1)

\* The import() of a mode's code is settled.
CodeArrives(m, state) ==
  /\ timers < MaxTimers
  /\ code[m] = "pending"
  /\ code' = [code EXCEPT ![m] = state]
  /\ UNCHANGED <<mode, container, broken, home>>
  /\ React(Attached /\ mode = m, 0)

\* The first home camera that is set is shown at once.
LoadHomeCamera(v) ==
  /\ home' = v
  /\ IF home = World THEN ZoomTo(v, TRUE) ELSE UNCHANGED camera
  /\ UNCHANGED <<mode, container, code, broken, viewer, live, timers>>

Fly(v) ==
  /\ ZoomTo(v, FALSE)
  /\ UNCHANGED <<mode, container, code, broken, viewer, live, home, timers>>

\* The user moves the camera of a map.
Move(v) ==
  /\ viewer # "none" /\ zoomId = 0
  /\ view' = v
  /\ UNCHANGED <<mode, container, code, broken, viewer, live, home, timers, zoomId,
                 isMapZooming, zooms, latest>>

Next ==
  \/ Detach \/ Fallback
  \/ \E c \in Container : Attach(c)
  \/ \E m \in Mode : \/ SetViewerMode(m)
                    \/ \E state \in {"fulfilled", "rejected"} : CodeArrives(m, state)
  \/ \E v \in View \ {World} : LoadHomeCamera(v) \/ Fly(v) \/ Move(v)
  \/ \E id \in ZoomId : ZoomEnds(id)

Spec == Init /\ [][Next]_vars

\* The browser runs its timers, and a download succeeds or fails.
Fairness ==
  /\ WF_vars(Fallback)
  /\ \A m \in Mode : WF_vars(\E state \in {"fulfilled", "rejected"} : CodeArrives(m, state))

FairSpec == Spec /\ Fairness

-----------------------------------------------------------------------------
(* Properties *)

\* The indicator of a zoom is on exactly while the last zoom of the viewer is on, in
\* whichever order the zooms that it superseded end ("there was another call to zoomTo
\* which could still be in progress and it will handle unsetting isMapZooming").
ZoomingKnown == isMapZooming <=> latest # 0 /\ zooms[latest] # NoView

\* However many viewers are made and destroyed, fail or wait for their code, the camera
\* stays where the user or a zoom has put it, until a detach().
ViewKept ==
  [][view' # view =>
       \/ Detach \/ ~live
       \/ zoomId # 0 /\ view' = zooms[zoomId]
       \/ \E v \in View : LoadHomeCamera(v) \/ Fly(v) \/ Move(v)]_vars

\* Nor does a detach() move it: the map that is taken off the page and put back on it shows
\* what it has shown.
ViewSurvivesDetach ==
  [][view' # view =>
       \/ ~live
       \/ zoomId # 0 /\ view' = zooms[zoomId]
       \/ \E v \in View : LoadHomeCamera(v) \/ Fly(v) \/ Move(v)]_vars

\* A viewer that stays attached, in one mode, shows that mode in the end, unless its code
\* could not be downloaded; a mode that the system cannot run does not stay.
MapAppears ==
  \A m \in Mode : <>[](Attached /\ mode = m) => <>[](viewer = m \/ code[m] = "rejected")

\* "It gracefully falls back to 2D with Leaflet on systems that can't run Cesium"
\* (README.md:7): where Leaflet runs, the viewer does not end without a mode.
FallsBackToLeaflet == "leaflet" \notin broken => mode # "none"

=============================================================================
