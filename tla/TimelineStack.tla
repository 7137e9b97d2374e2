--------------------------- MODULE TimelineStack ---------------------------
(***************************************************************************)
(* lib/Models/TimelineStack.ts: the time-varying layers attached to the    *)
(* timeline, and the clock they share.                                     *)
(*                                                                         *)
(* Two writers meet on the clock.  A MobX autorun copies the topmost dated *)
(* layer to the clock whenever that layer, or what it shows, changes; it   *)
(* runs before the action that caused it returns.  A tick of the clock     *)
(* (the viewer ticks it on every frame) copies the clock to the layers.    *)
(* The timeline's controls write the clock, the workbench's write a layer. *)
(* Dates are members of Time; the start and stop of a layer are one value, *)
(* named by the layer they belong to.                                      *)
(* Dates are objects: after "go to start" the clock's current time and its *)
(* start are one JulianDate, which the autorun then writes into twice.     *)
(***************************************************************************)
EXTENDS Integers, Sequences, FiniteSetsExt

CONSTANTS
  Layer,     \* time-varying catalog items
  Default,   \* the DefaultTimelineModel
  NoLayer,   \* undefined
  Time,      \* dates
  Start,     \* the date each layer starts at
  MaxItems   \* bound: entries of the stack

ASSUME StackAssumption ==
  /\ Default \notin Layer
  /\ NoLayer \notin Layer \union {Default}
  /\ Time # {}
  /\ Start \in [Layer \union {Default} -> Time]
  /\ MaxItems \in Nat

VARIABLES
  items,        \* the stack, its top first
  showDefault,  \* defaultTimeVarying is defined
  dated,        \* the layers whose current, start and stop times are known
  time,         \* the trait currentTime of each layer
  paused,       \* its trait isPaused
  bounds,       \* its traits startTime and stopTime: whose they are
  clock,        \* the Cesium clock
  shared,       \* clock.currentTime and clock.startTime are the same object
  active,       \* the autorun is installed
  ticking,      \* _disposeTickSubscription is defined
  ahead,        \* history: the controls have set the clock since it was last copied
  fresh         \* history: the layers set apart from the clock since the last copy

stack  == <<items, showDefault, dated>>
traits == <<time, paused, bounds>>
vars   == <<stack, traits, clock, shared, active, ticking, ahead, fresh>>

Shown == Layer \union {Default}

TypeOK ==
  /\ items \in Seq(Layer) /\ Len(items) <= MaxItems
  /\ showDefault \in BOOLEAN
  /\ dated \subseteq Layer
  /\ time \in [Shown -> Time]
  /\ paused \in [Shown -> BOOLEAN]
  /\ bounds \in [Shown -> Shown \union {NoLayer}]
  /\ clock \in [currentTime : Time, shouldAnimate : BOOLEAN, bounds : Shown \union {NoLayer}]
  /\ shared \in BOOLEAN /\ active \in BOOLEAN /\ ticking \in BOOLEAN /\ ahead \in BOOLEAN
  /\ fresh \subseteq Shown

Lists == INSTANCE SequencesExt

-----------------------------------------------------------------------------
(* The stack *)

Attached(l) == l \in Lists!ToSet(items)

Places(l) == {i \in 1..Len(items) : items[i] = l}

Top ==
  LET datedPlaces == {i \in 1..Len(items) : items[i] \in dated}
  IN  IF datedPlaces # {} THEN items[Min(datedPlaces)]
      ELSE IF showDefault THEN Default ELSE NoLayer

\* Mutant: the place is counted from the wrong end of the unshift.
PutOnTopOffByOne(l) ==
  LET longer == <<l>> \o items
  IN  IF Attached(l) THEN Lists!RemoveAt(longer, Max({1, Min(Places(l)) - 1})) ELSE longer

\* addToTop: unshift, then splice at the place the item had before the unshift.
PutOnTop(l) ==
  LET longer == <<l>> \o items
  IN  IF Attached(l) THEN Lists!RemoveAt(longer, Min(Places(l))) ELSE longer

\* promoteToTop
Promoted(l) == IF Attached(l) THEN PutOnTop(l) ELSE items

\* remove: splice(-1, 1), for an item that is not there, takes the last one.
Without(l) ==
  IF Attached(l) THEN Lists!RemoveAt(items, Min(Places(l)))
  ELSE IF items = << >> THEN items ELSE Lists!Front(items)

-----------------------------------------------------------------------------
(* The autorun *)

\* What the autorun reads of the top layer.
TopShows == [currentTime |-> time[Top], shouldAnimate |-> ~paused[Top], bounds |-> bounds[Top]]

\* What is in the clock after the autorun has cloned the current time into the one
\* object and then the start into the other: the start, when they are the same.
Copied == [TopShows EXCEPT !.currentTime = IF shared THEN Start[bounds[Top]] ELSE @]

\* The autorun runs when it is installed and when something it reads has changed:
\* which layer is on top, or what that layer shows.
Reacts ==
  active' /\ (~active \/ Top' # Top \/ (Top # NoLayer /\ TopShows' # TopShows))

\* The first run that finds a layer to show subscribes to the ticks.
Subscription == ticking' = (active' /\ (ticking \/ (Reacts /\ Top' # NoLayer)))

\* Mutant: the clock follows the top only when another layer takes its place.
ReactionToAnother(c) ==
  /\ clock' = IF ~(active' /\ (~active \/ Top' # Top)) THEN c
              ELSE IF Top' = NoLayer THEN [c EXCEPT !.shouldAnimate = FALSE] ELSE Copied'
  /\ Subscription

\* The end of an action that has left the clock at c: the autorun copies the top layer to
\* it, and stops it if there is none.
Reaction(c) ==
  /\ clock' = IF ~Reacts THEN c
              ELSE IF Top' = NoLayer THEN [c EXCEPT !.shouldAnimate = FALSE] ELSE Copied'
  /\ Subscription

-----------------------------------------------------------------------------
(* Operations of the stack *)

Init ==
  /\ items = << >> /\ showDefault = FALSE
  /\ dated \in SUBSET Layer
  /\ time \in [Shown -> Time]
  /\ paused \in [Shown -> BOOLEAN]
  /\ bounds = [l \in Shown |-> l]
  /\ \E t \in Time : clock = [currentTime |-> t, shouldAnimate |-> FALSE, bounds |-> NoLayer]
  /\ shared = FALSE /\ active = FALSE /\ ticking = FALSE /\ ahead = FALSE
  /\ fresh = Shown

\* An action on the stack or on one layer's traits, and the reaction to it; touched
\* are the layers that need no longer show what the clock shows.
StackStep(touched) ==
  /\ UNCHANGED shared
  /\ Reaction(clock)
  /\ ahead' = (ahead /\ ~Reacts)
  /\ fresh' = fresh \union touched

Activate ==
  /\ ~active /\ active' = TRUE
  /\ UNCHANGED <<stack, traits>>
  /\ StackStep(Shown)

\* The autorun and the tick subscription are disposed.
Deactivate ==
  /\ active' = FALSE
  /\ UNCHANGED <<stack, traits>>
  /\ StackStep({})

SetItems(list, touched) ==
  /\ items' = list
  /\ UNCHANGED <<showDefault, dated, traits, active>>
  /\ StackStep(touched)

AddToTop(l) ==
  /\ Len(items) < MaxItems
  /\ SetItems(PutOnTop(l), {l})

Remove(l) == SetItems(Without(l), {})

RemoveAll == SetItems(<< >>, {})

PromoteToTop(l) == SetItems(Promoted(l), {})

\* A new default model starts paused at the present time.
SetAlwaysShowTimeline(show) ==
  /\ showDefault' = show
  /\ \E now \in Time :
       /\ time' = IF show THEN [time EXCEPT ![Default] = now] ELSE time
       /\ paused' = IF show THEN [paused EXCEPT ![Default] = TRUE] ELSE paused
       /\ bounds' = IF show THEN [bounds EXCEPT ![Default] = Default] ELSE bounds
  /\ UNCHANGED <<items, dated, active>>
  /\ StackStep({Default})

\* A layer loads, and has times from now on.
LayerLoads(l) ==
  /\ l \notin dated /\ dated' = dated \union {l}
  /\ UNCHANGED <<items, showDefault, traits, active>>
  /\ StackStep({})

-----------------------------------------------------------------------------
(* The clock and the controls *)

\* Mutant: only the top layer and the default are told what the clock shows.
SyncTopOnly(c) ==
  LET told == {Top, IF showDefault THEN Default ELSE Top}
  IN  /\ time' = [l \in Shown |-> IF l \in told THEN c.currentTime ELSE time[l]]
      /\ paused' = [l \in Shown |-> IF l \in told THEN ~c.shouldAnimate ELSE paused[l]]
      /\ bounds' = IF Top = NoLayer THEN bounds ELSE [bounds EXCEPT ![Top] = c.bounds]

\* Mutant: every layer is told the bounds too.
SyncBounds(c) ==
  LET told == Lists!ToSet(items) \union (IF showDefault THEN {Default} ELSE {})
  IN  /\ time' = [l \in Shown |-> IF l \in told THEN c.currentTime ELSE time[l]]
      /\ paused' = [l \in Shown |-> IF l \in told THEN ~c.shouldAnimate ELSE paused[l]]
      /\ bounds' = [l \in Shown |-> IF l \in told THEN c.bounds ELSE bounds[l]]

\* Mutant: the layers are not told whether the clock runs.
SyncTimeOnly(c) ==
  LET told == Lists!ToSet(items) \union (IF showDefault THEN {Default} ELSE {})
  IN  /\ time' = [l \in Shown |-> IF l \in told THEN c.currentTime ELSE time[l]]
      /\ bounds' = IF Top = NoLayer THEN bounds ELSE [bounds EXCEPT ![Top] = c.bounds]
      /\ UNCHANGED paused

\* syncToClock: the top takes the clock's bounds, every layer its time and pause.
SyncToClock(c) ==
  LET told == Lists!ToSet(items) \union (IF showDefault THEN {Default} ELSE {})
  IN  /\ time' = [l \in Shown |-> IF l \in told THEN c.currentTime ELSE time[l]]
      /\ paused' = [l \in Shown |-> IF l \in told THEN ~c.shouldAnimate ELSE paused[l]]
      /\ bounds' = IF Top = NoLayer THEN bounds ELSE [bounds EXCEPT ![Top] = c.bounds]

\* clock.currentTime = t: the setter leaves the object alone when it shows that date.
Assign(t) == shared' = (shared /\ t = clock.currentTime)

\* clock.tick(), which moves an animated clock, up to the end of its listeners.
TickTo(t) ==
  LET c == IF clock.shouldAnimate THEN [clock EXCEPT !.currentTime = t] ELSE clock
  IN  /\ UNCHANGED <<stack, active>>
      /\ IF ticking THEN SyncToClock(c) /\ fresh' = {} ELSE UNCHANGED <<traits, fresh>>
      /\ Assign(c.currentTime)
      /\ Reaction(c)

Tick ==
  /\ \E t \in Time : TickTo(t)
  /\ ahead' = (ahead /\ ~ticking)

\* The timeline, with its controls, is there when a layer is on top.
Visible == active /\ Top # NoLayer

\* togglePlay: a tick, and then the clock stops or starts.
TogglePlay ==
  /\ Visible
  /\ LET c(t) == [clock EXCEPT !.currentTime = t]
         moved == IF clock.shouldAnimate THEN Time ELSE {clock.currentTime}
     IN  \E t \in moved :
           /\ Assign(t)
           /\ SyncToClock(c(t))
           /\ clock' = [c(t) EXCEPT !.shouldAnimate = ~clock.shouldAnimate]
  /\ ahead' = TRUE /\ fresh' = {}
  /\ UNCHANGED <<stack, active, ticking>>

\* gotoStart assigns the object of the start, unless the clock shows that date already;
\* the layers hear of it at the next tick.
GotoStart ==
  LET start == Start[clock.bounds] IN
  /\ Visible
  /\ clock' = [clock EXCEPT !.currentTime = start]
  /\ shared' = (shared \/ clock.currentTime # start)
  /\ ahead' = TRUE
  /\ UNCHANGED <<stack, traits, active, ticking, fresh>>

\* The user drags the needle of the timeline to a date, which stops the clock, or picks
\* one in the timeline's calendar, which does not.
SetTime(t, runs) ==
  LET c == [clock EXCEPT !.currentTime = t, !.shouldAnimate = runs] IN
  /\ Visible
  /\ SyncToClock(c)
  /\ UNCHANGED <<stack, active>>
  /\ Assign(t)
  /\ Reaction(c)
  /\ ahead' = FALSE /\ fresh' = {}

\* The user picks a date of one layer in the workbench: the layer goes to the top of
\* the stack, if it is on it, and its time is set.
ChangeDateTime(l, t) ==
  /\ l \in dated
  /\ items' = Promoted(l)
  /\ time' = [time EXCEPT ![l] = t]
  /\ UNCHANGED <<showDefault, dated, paused, bounds, active>>
  /\ StackStep({l})

Next ==
  \/ Activate \/ Deactivate \/ RemoveAll \/ Tick \/ TogglePlay \/ GotoStart
  \/ \E l \in Layer : AddToTop(l) \/ Remove(l) \/ PromoteToTop(l) \/ LayerLoads(l)
  \/ \E show \in BOOLEAN : SetAlwaysShowTimeline(show)
  \/ \E t \in Time, runs \in {FALSE, clock.shouldAnimate} : SetTime(t, runs)
  \/ \E l \in Layer, t \in Time : ChangeDateTime(l, t)

Spec == Init /\ [][Next]_vars

-----------------------------------------------------------------------------
(* Properties *)

\* "Keep the Cesium clock in sync with the top layer's clock" (TimelineStack.ts:48):
\* whoever wrote last, the clock shows what the top layer shows, but for what the
\* controls have just set and the next tick will tell the layers, and for the start that
\* stands in the place of the current time as long as they are one object.
FollowsTop == active /\ ~ahead /\ Top # NoLayer => clock = Copied

\* Without a layer to show, an active clock does not run.
StoppedWhenEmpty == active /\ Top = NoLayer => ~clock.shouldAnimate

\* Both, whoever wrote last and whoever took the last layer out.
InSync == FollowsTop /\ StoppedWhenEmpty

\* The layers on the stack show one time and one state of the animation, all but those
\* that joined or were set since the clock last told them.
LayersTogether ==
  active => \A l, m \in Lists!ToSet(items) \ fresh :
              time[l] = time[m] /\ paused[l] = paused[m]

\* No layer is ever given the start and stop of another one, although the clock
\* carries them from the top layer it was copied from to the one it is told to.
OwnBounds == \A l \in Shown : bounds[l] = l

\* Whatever the controls have set and whichever object the clock's dates share, clock
\* and top layer agree after a tick that is listened to.
TickAgrees == [][ticking /\ Top # NoLayer /\ Tick => clock' = TopShows']_vars

\* "Promotes the supplied {@link CatalogItem} to the top of the stack if it is already in
\* the stack" (TimelineStack.ts:174): whichever layers are above, the date the user picks
\* for a layer of the stack is what the clock shows, unless a control has set the clock
\* meanwhile and the layers have not been told, or has left it sharing its start.
PickedDateIsShown ==
  [][\A l \in Layer, t \in Time :
       Attached(l) /\ active /\ ~ahead /\ ~shared /\ ChangeDateTime(l, t)
         => clock'.currentTime = t]_vars

\* "Set the time on the item, set it to use its own clock, update the imagery and repaint"
\* (DateTimeSelectorSection.tsx:54): once the layers have been told, also after go to
\* start.
PickedDateAlwaysShown ==
  [][\A l \in Layer, t \in Time :
       Attached(l) /\ active /\ ~ahead /\ ChangeDateTime(l, t) => clock'.currentTime = t]_vars

\* "If the item is already in the stack, it will be moved rather than added twice"
\* (TimelineStack.ts:139-140).
MovedToTop ==
  [][\A l \in Layer : AddToTop(l) /\ Attached(l) =>
       Lists!ToSet(items') = Lists!ToSet(items) /\ Len(items') = Len(items)]_vars

\* "Removes a layer from the stack, no matter what its location"
\* (TimelineStack.ts:154): that layer, and no other one.
RemovesThatLayer ==
  [][\A l, m \in Layer : Remove(l) /\ m # l /\ Attached(m) => m \in Lists!ToSet(items')]_vars

=============================================================================
