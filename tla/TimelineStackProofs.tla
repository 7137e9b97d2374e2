------------------------ MODULE TimelineStackProofs ------------------------
(***************************************************************************)
(* The clock and the layers of TimelineStack, for every set of layers and  *)
(* of dates and every length of the stack.                                 *)
(***************************************************************************)
EXTENDS TimelineStack, ListLemmas, TLAPS

\* The types the argument needs; the length of the stack is not bounded here.
Typed ==
  /\ items \in Seq(Layer)
  /\ showDefault \in BOOLEAN
  /\ time \in [Shown -> Time]
  /\ paused \in [Shown -> BOOLEAN]
  /\ bounds \in [Shown -> Shown \union {NoLayer}]
  /\ clock \in [currentTime : Time, shouldAnimate : BOOLEAN, bounds : Shown \union {NoLayer}]
  /\ active \in BOOLEAN /\ ticking \in BOOLEAN /\ ahead \in BOOLEAN /\ shared \in BOOLEAN

\* The clock follows the top layer; whoever has a layer to follow hears the ticks, so
\* that no tick moves the clock without the layers.
Followed ==
  /\ ticking => active
  /\ active /\ Top # NoLayer => ticking /\ clock.bounds = bounds[Top]
  /\ FollowsTop
  /\ StoppedWhenEmpty

\* A clock whose dates are one object shows the start of the layer it has the bounds of.
OneDate == shared => clock.bounds \in Shown /\ clock.currentTime = Start[clock.bounds]

IInv == Typed /\ OwnBounds /\ Followed /\ OneDate

-----------------------------------------------------------------------------

\* Taking one element out of a list of layers leaves a list of layers.
LEMMA RemoveAtTyped ==
  ASSUME NEW S, NEW s \in Seq(S), NEW i \in 1..Len(s)
  PROVE  Lists!RemoveAt(s, i) \in Seq(S)
BY DEF Lists!RemoveAt

LEMMA FirstPlace ==
  ASSUME items \in Seq(Layer), NEW l, Attached(l)
  PROVE  Min(Places(l)) \in 1..Len(items)
<1>1. Places(l) \in SUBSET Nat /\ Places(l) # {}
  BY DEF Places, Attached, Lists!ToSet
<1>2. Min(Places(l)) \in Places(l)
  BY <1>1, LeastElement
<1> QED BY <1>2 DEF Places

\* The operations on the stack leave a list of layers.
LEMMA StackTyped ==
  ASSUME items \in Seq(Layer), NEW l \in Layer
  PROVE  PutOnTop(l) \in Seq(Layer) /\ Promoted(l) \in Seq(Layer) /\ Without(l) \in Seq(Layer)
<1>1. PutOnTop(l) \in Seq(Layer)
  <2> DEFINE longer == <<l>> \o items
  <2>1. longer \in Seq(Layer) /\ Len(longer) = Len(items) + 1
    OBVIOUS
  <2>2. CASE Attached(l)
    <3>1. Min(Places(l)) \in 1..Len(longer)
      BY <2>1, <2>2, FirstPlace
    <3> HIDE DEF longer
    <3>2. Lists!RemoveAt(longer, Min(Places(l))) \in Seq(Layer)
      BY <2>1, <3>1, RemoveAtTyped
    <3> QED BY <2>2, <3>2 DEF PutOnTop, longer
  <2>3. CASE ~Attached(l)
    BY <2>1, <2>3 DEF PutOnTop
  <2> QED BY <2>2, <2>3
<1>2. Promoted(l) \in Seq(Layer)
  BY <1>1 DEF Promoted
<1>3. Without(l) \in Seq(Layer)
  <2>1. CASE Attached(l)
    BY <2>1, FirstPlace, RemoveAtTyped DEF Without
  <2>2. CASE ~Attached(l)
    BY <2>2 DEF Without, Lists!Front
  <2> QED BY <2>1, <2>2
<1> QED BY <1>1, <1>2, <1>3

\* The top of the stack is a layer, the default or none.
LEMMA TopTyped == items \in Seq(Layer) => Top \in Shown \union {NoLayer}
<1> SUFFICES ASSUME items \in Seq(Layer) PROVE Top \in Shown \union {NoLayer}
  OBVIOUS
<1> DEFINE dp == {i \in 1..Len(items) : items[i] \in dated}
<1>1. CASE dp # {}
  <2>1. dp \in SUBSET Nat
    OBVIOUS
  <2> HIDE DEF dp
  <2>2. Min(dp) \in dp
    BY <1>1, <2>1, LeastElement
  <2> QED BY <1>1, <2>2 DEF Top, Shown, dp
<1>2. CASE dp = {}
  BY <1>2 DEF Top, Shown
<1> QED BY <1>1, <1>2

-----------------------------------------------------------------------------
(* The reaction keeps the clock on the top layer *)

\* Copying a layer to the clock keeps the clock's type.
LEMMA TopShowsTyped ==
  ASSUME Typed, Top # NoLayer
  PROVE  TopShows \in [currentTime : Time, shouldAnimate : BOOLEAN,
                       bounds : Shown \union {NoLayer}]
<1>1. Top \in Shown
  BY TopTyped DEF Typed
<1>2. paused[Top] \in BOOLEAN
  BY <1>1 DEF Typed
<1>3. (~paused[Top]) \in BOOLEAN
  BY <1>2
<1>4. time[Top] \in Time /\ bounds[Top] \in Shown \union {NoLayer}
  BY <1>1 DEF Typed
<1> QED BY <1>3, <1>4 DEF TopShows

ClockType == [currentTime : Time, shouldAnimate : BOOLEAN, bounds : Shown \union {NoLayer}]

\* Everything but what a reaction decides.
TypedBefore ==
  /\ items' \in Seq(Layer)
  /\ showDefault' \in BOOLEAN
  /\ time' \in [Shown -> Time]
  /\ paused' \in [Shown -> BOOLEAN]
  /\ bounds' \in [Shown -> Shown \union {NoLayer}]
  /\ active' \in BOOLEAN /\ ahead' \in BOOLEAN /\ shared' \in BOOLEAN

\* The reaction leaves the clock on the top layer, if the action that caused it left
\* the clock there whenever it did not touch what the autorun reads.
LEMMA ReactionFollows ==
  ASSUME IInv, TypedBefore, OwnBounds', NEW c \in ClockType, Reaction(c),
         active' /\ ~Reacts /\ Top # NoLayer => c.bounds = bounds[Top],
         active' /\ ~Reacts /\ Top # NoLayer /\ ~ahead' => c = Copied',
         active' /\ ~Reacts /\ Top = NoLayer => ~c.shouldAnimate,
         shared' => c.bounds \in Shown /\ c.currentTime = Start[c.bounds]
  PROVE  clock' \in ClockType /\ ticking' \in BOOLEAN /\ Followed' /\ OneDate'
<1> USE DEF IInv
<1>1. ticking' \in BOOLEAN
  <2>1. ticking \in BOOLEAN /\ active' \in BOOLEAN
    BY DEF Typed, TypedBefore
  <2> QED BY <2>1, Zenon DEF Reaction, Subscription, Reacts
<1>2. ticking' => active'
  BY DEF Reaction, Subscription
<1>3. CASE ~active'
  BY <1>1, <1>2, <1>3
     DEF Reaction, Reacts, Followed, FollowsTop, StoppedWhenEmpty, ClockType, OneDate
<1>4. CASE active' /\ Reacts /\ Top' = NoLayer
  <2>1. clock' = [c EXCEPT !.shouldAnimate = FALSE]
    BY <1>4 DEF Reaction
  <2>2. /\ clock' \in ClockType /\ clock'.shouldAnimate = FALSE
        /\ clock'.bounds = c.bounds /\ clock'.currentTime = c.currentTime
    BY <2>1 DEF ClockType
  <2> QED BY <1>1, <1>2, <1>4, <2>2 DEF Followed, FollowsTop, StoppedWhenEmpty, OneDate
<1>5. CASE active' /\ Reacts /\ Top' # NoLayer
  <2>1. clock' = Copied' /\ ticking'
    BY <1>5 DEF Reaction, Subscription
  <2>2. Top' \in Shown
    <3>1. (items \in Seq(Layer) => Top \in Shown \union {NoLayer})'
      BY TopTyped, PTL
    <3> QED BY <1>5, <3>1 DEF TypedBefore, Shown
  <2>3. (~paused'[Top']) \in BOOLEAN
    <3>1. paused'[Top'] \in BOOLEAN
      BY <2>2 DEF TypedBefore
    <3> QED BY <3>1
  <2>4. bounds'[Top'] = Top'
    BY <2>2 DEF OwnBounds
  <2>5. Start[Top'] \in Time
    BY <2>2, StackAssumption DEF StackAssumption, Shown
  <2>6. TopShows' \in ClockType /\ TopShows'.bounds = Top'
    BY <2>2, <2>3, <2>4 DEF TypedBefore, TopShows, ClockType
  <2>7. clock' = [TopShows' EXCEPT !.currentTime = IF shared' THEN Start[Top'] ELSE @]
    BY <2>1, <2>4 DEF Copied
  <2> HIDE DEF TopShows
  <2>8. /\ clock' \in ClockType /\ clock'.bounds = Top'
        /\ shared' => clock'.currentTime = Start[Top']
    BY <2>5, <2>6, <2>7 DEF ClockType
  <2> QED BY <1>1, <1>2, <1>5, <2>1, <2>2, <2>4, <2>8
          DEF Followed, FollowsTop, StoppedWhenEmpty, OneDate
<1>6. CASE active' /\ ~Reacts
  <2>1. active /\ Top' = Top /\ (Top # NoLayer => TopShows' = TopShows) /\ clock' = c
    BY <1>6 DEF Reacts, Reaction
  <2>2. Top # NoLayer => ticking'
    BY <1>6, <2>1 DEF Followed, Reaction, Subscription
  <2>3. Top # NoLayer => bounds'[Top'] = bounds[Top]
    BY <2>1 DEF TopShows
  <2> QED BY <1>1, <1>2, <1>6, <2>1, <2>2, <2>3
          DEF Followed, FollowsTop, StoppedWhenEmpty, OneDate
<1> QED BY <1>3, <1>4, <1>5, <1>6

\* An action on the stack or on the traits of layers, which leaves the clock to the
\* autorun.
LEMMA StackStepKeeps ==
  ASSUME IInv, TypedBefore, OwnBounds', NEW touched, StackStep(touched)
  PROVE  IInv'
<1>1. clock \in ClockType
  BY DEF IInv, Typed, ClockType
<1>2. Reaction(clock) /\ (~Reacts => ahead' = ahead)
  <2>1. ahead \in BOOLEAN
    BY DEF IInv, Typed
  <2> QED BY <2>1 DEF StackStep
<1>3. /\ ~Reacts /\ active' => active /\ ahead' = ahead /\ Top' = Top
      /\ ~Reacts /\ active' /\ Top # NoLayer => TopShows' = TopShows
      /\ shared' = shared
  BY <1>2 DEF Reacts, StackStep
<1>4. clock' \in ClockType /\ ticking' \in BOOLEAN /\ Followed' /\ OneDate'
  <2>1. active' /\ ~Reacts /\ Top # NoLayer => clock.bounds = bounds[Top]
    BY <1>3 DEF IInv, Followed
  <2>2. active' /\ ~Reacts /\ Top # NoLayer /\ ~ahead' => clock = Copied'
    <3> SUFFICES ASSUME active', ~Reacts, Top # NoLayer, ~ahead' PROVE clock = Copied'
      OBVIOUS
    <3>1. clock = Copied
      BY <1>3 DEF IInv, Followed, FollowsTop
    <3>2. bounds'[Top'] = bounds[Top]
      BY <1>3 DEF TopShows
    <3> QED BY <1>3, <3>1, <3>2 DEF Copied
  <2>3. active' /\ ~Reacts /\ Top = NoLayer => ~clock.shouldAnimate
    BY <1>3 DEF IInv, Followed, StoppedWhenEmpty
  <2>4. shared' => clock.bounds \in Shown /\ clock.currentTime = Start[clock.bounds]
    BY <1>3 DEF IInv, OneDate
  <2> QED BY <1>1, <1>2, <2>1, <2>2, <2>3, <2>4, ReactionFollows
<1> QED BY <1>4 DEF IInv, Typed, TypedBefore, ClockType

-----------------------------------------------------------------------------
(* The clock tells the layers *)

\* A copy of the clock to the layers, made while the clock holds the bounds of the top
\* layer, leaves the top layer showing what the clock shows.
LEMMA SyncShows ==
  ASSUME IInv, NEW c \in ClockType, SyncToClock(c), UNCHANGED stack,
         Top # NoLayer => c.bounds = bounds[Top]
  PROVE  /\ items' \in Seq(Layer) /\ showDefault' \in BOOLEAN
         /\ time' \in [Shown -> Time]
         /\ paused' \in [Shown -> BOOLEAN]
         /\ bounds' = bounds
         /\ Top' = Top
         /\ Top # NoLayer => TopShows' = c
<1> DEFINE told == Lists!ToSet(items) \union (IF showDefault THEN {Default} ELSE {})
<1>1. Top' = Top /\ items' = items /\ showDefault' = showDefault
  BY DEF stack, Top
<1>2. (~c.shouldAnimate) \in BOOLEAN
  <2>1. c.shouldAnimate \in BOOLEAN
    BY DEF ClockType
  <2> QED BY <2>1
<1>3. /\ time' = [l \in Shown |-> IF l \in told THEN c.currentTime ELSE time[l]]
      /\ paused' = [l \in Shown |-> IF l \in told THEN ~c.shouldAnimate ELSE paused[l]]
  BY DEF SyncToClock
<1>4. time' \in [Shown -> Time]
  BY <1>3 DEF IInv, Typed, ClockType
<1>5. paused' \in [Shown -> BOOLEAN]
  <2>1. \A l \in Shown : paused[l] \in BOOLEAN
    BY DEF IInv, Typed
  <2> HIDE DEF told
  <2>2. ASSUME NEW l \in Shown
        PROVE  (IF l \in told THEN ~c.shouldAnimate ELSE paused[l]) \in BOOLEAN
    BY <1>2, <2>1
  <2> QED BY <1>3, <2>2
<1>6. bounds' = bounds
  BY TopTyped DEF IInv, Typed, SyncToClock
<1>7. ASSUME Top # NoLayer PROVE TopShows' = c
  <2>1. Top \in told /\ Top \in Shown
    <3> DEFINE dp == {i \in 1..Len(items) : items[i] \in dated}
    <3>1. CASE dp # {}
      <4>1. dp \in SUBSET Nat
        OBVIOUS
      <4> HIDE DEF dp
      <4>2. Min(dp) \in dp
        BY <3>1, <4>1, LeastElement
      <4>3. Top = items[Min(dp)]
        BY <3>1 DEF Top, dp
      <4>4. Min(dp) \in 1..Len(items)
        BY <4>2 DEF dp
      <4>5. items[Min(dp)] \in Layer /\ items[Min(dp)] \in Lists!ToSet(items)
        BY <4>4 DEF Lists!ToSet, IInv, Typed
      <4> QED BY <4>3, <4>5 DEF Shown
    <3>2. CASE dp = {}
      BY <3>2, <1>7 DEF Top, Shown
    <3> QED BY <3>1, <3>2
  <2> HIDE DEF told
  <2>2. time'[Top] = c.currentTime /\ paused'[Top] = ~c.shouldAnimate
    BY <1>3, <2>1
  <2>3. (~paused'[Top]) = c.shouldAnimate
    <3>1. c.shouldAnimate \in BOOLEAN
      BY DEF ClockType
    <3> QED BY <2>2, <3>1
  <2>4. c = [currentTime |-> c.currentTime, shouldAnimate |-> c.shouldAnimate, bounds |-> c.bounds]
    BY DEF ClockType
  <2> QED BY <1>1, <1>6, <1>7, <2>2, <2>3, <2>4 DEF TopShows
<1> QED BY <1>1, <1>4, <1>5, <1>6, <1>7 DEF IInv, Typed

\* The clock, or the clock moved to another date, still carries the top's bounds.
LEMMA MovedClock ==
  ASSUME IInv, NEW t \in Time, NEW a \in BOOLEAN
  PROVE  /\ [clock EXCEPT !.currentTime = t, !.shouldAnimate = a] \in ClockType
         /\ [clock EXCEPT !.currentTime = t] \in ClockType
         /\ [clock EXCEPT !.currentTime = t, !.shouldAnimate = a].bounds = clock.bounds
         /\ [clock EXCEPT !.currentTime = t].bounds = clock.bounds
BY DEF IInv, Typed, ClockType

\* The setter of the clock's time leaves one date only where nothing changes.
LEMMA AssignKeeps ==
  ASSUME IInv, NEW c \in ClockType, c.bounds = clock.bounds, Assign(c.currentTime)
  PROVE  /\ shared' \in BOOLEAN
         /\ shared' => c.bounds \in Shown /\ c.currentTime = Start[c.bounds]
<1>1. shared \in BOOLEAN
  BY DEF IInv, Typed
<1> QED BY <1>1 DEF Assign, IInv, OneDate

\* A top layer that shows what a clock shows would be copied to the clock as it is.
LEMMA CopiedIs ==
  ASSUME NEW c \in ClockType, TopShows' = c, shared' => c.currentTime = Start[c.bounds]
  PROVE  Copied' = c
<1>1. bounds'[Top'] = c.bounds
  BY DEF TopShows
<1>2. Copied' = [c EXCEPT !.currentTime = IF shared' THEN Start[c.bounds] ELSE @]
  BY <1>1 DEF Copied
<1> QED BY <1>2 DEF ClockType

LEMMA TickKeeps == ASSUME IInv, Tick PROVE IInv'
<1>1. PICK t \in Time : TickTo(t)
  BY DEF Tick
<1> DEFINE c == IF clock.shouldAnimate THEN [clock EXCEPT !.currentTime = t] ELSE clock
<1>2. c \in ClockType /\ c.bounds = clock.bounds
  BY MovedClock DEF IInv, Typed, ClockType
<1>3. Reaction(c) /\ UNCHANGED stack /\ active' = active
  BY <1>1 DEF TickTo
<1>4. Top' = Top
  BY <1>3 DEF Top, stack
<1>5. ahead' \in BOOLEAN
  <2>1. ahead \in BOOLEAN
    BY DEF IInv, Typed
  <2> QED BY <2>1, Zenon DEF Tick
<1>8. /\ shared' \in BOOLEAN
      /\ shared' => c.bounds \in Shown /\ c.currentTime = Start[c.bounds]
  <2>1. Assign(c.currentTime)
    BY <1>1 DEF TickTo
  <2> QED BY <1>2, <2>1, AssignKeeps
<1>6. CASE ticking
  <2>1. SyncToClock(c)
    BY <1>1, <1>6 DEF TickTo
  <2>2. active
    BY <1>6 DEF IInv, Followed
  <2>3. Top # NoLayer => c.bounds = bounds[Top]
    BY <1>2, <2>2 DEF IInv, Followed
  <2>4. Top = NoLayer => ~c.shouldAnimate
    BY <2>2 DEF IInv, Followed, StoppedWhenEmpty
  <2> HIDE DEF c
  <2>5. /\ items' \in Seq(Layer) /\ showDefault' \in BOOLEAN
        /\ time' \in [Shown -> Time] /\ paused' \in [Shown -> BOOLEAN]
        /\ bounds' = bounds /\ (Top # NoLayer => TopShows' = c)
    BY <1>2, <1>3, <2>1, <2>3, SyncShows
  <2>6. TypedBefore /\ OwnBounds'
    BY <1>3, <1>5, <1>8, <2>5 DEF TypedBefore, IInv, Typed, OwnBounds
  <2>7. Top # NoLayer => c = Copied'
    BY <1>2, <1>8, <2>5, CopiedIs
  <2>8. clock' \in ClockType /\ ticking' \in BOOLEAN /\ Followed' /\ OneDate'
    BY <1>2, <1>3, <1>8, <2>3, <2>4, <2>6, <2>7, ReactionFollows
  <2> QED BY <2>6, <2>8 DEF IInv, Typed, TypedBefore, ClockType
<1>7. CASE ~ticking
  <2>1. UNCHANGED traits
    BY <1>1, <1>7 DEF TickTo
  <2>2. TypedBefore /\ OwnBounds'
    BY <1>3, <1>5, <1>8, <2>1 DEF TypedBefore, IInv, Typed, OwnBounds, stack, traits
  <2>3. active => Top = NoLayer /\ ~clock.shouldAnimate
    BY <1>7 DEF IInv, Followed, StoppedWhenEmpty
  <2>4. active => ~c.shouldAnimate
    BY <2>3
  <2> HIDE DEF c
  <2>5. clock' \in ClockType /\ ticking' \in BOOLEAN /\ Followed' /\ OneDate'
    BY <1>2, <1>3, <1>8, <2>2, <2>3, <2>4, ReactionFollows
  <2> QED BY <2>2, <2>5 DEF IInv, Typed, TypedBefore, ClockType
<1> QED BY <1>6, <1>7

LEMMA SetTimeKeeps ==
  ASSUME IInv, NEW t \in Time, NEW runs \in BOOLEAN, SetTime(t, runs)
  PROVE  IInv'
<1> DEFINE c == [clock EXCEPT !.currentTime = t, !.shouldAnimate = runs]
<1>1. c \in ClockType /\ c.bounds = clock.bounds /\ c.currentTime = t
  BY MovedClock DEF IInv, Typed
<1>2. /\ Reaction(c) /\ SyncToClock(c) /\ UNCHANGED stack /\ active' = active
      /\ ahead' = FALSE /\ Assign(t)
  BY DEF SetTime
<1> HIDE DEF c
<1>3. active /\ Top # NoLayer
  BY DEF SetTime, Visible
<1>4. c.bounds = bounds[Top]
  BY <1>1, <1>3 DEF IInv, Followed
<1>5. /\ items' \in Seq(Layer) /\ showDefault' \in BOOLEAN
      /\ time' \in [Shown -> Time] /\ paused' \in [Shown -> BOOLEAN]
      /\ bounds' = bounds /\ Top' = Top /\ TopShows' = c
  BY <1>1, <1>2, <1>3, <1>4, SyncShows
<1>6. /\ shared' \in BOOLEAN
      /\ shared' => c.bounds \in Shown /\ c.currentTime = Start[c.bounds]
  BY <1>1, <1>2, AssignKeeps
<1>7. TypedBefore /\ OwnBounds'
  BY <1>2, <1>5, <1>6 DEF TypedBefore, IInv, Typed, OwnBounds
<1>8. c = Copied'
  BY <1>1, <1>5, <1>6, CopiedIs
<1>9. clock' \in ClockType /\ ticking' \in BOOLEAN /\ Followed' /\ OneDate'
  BY <1>1, <1>2, <1>3, <1>4, <1>6, <1>7, <1>8, ReactionFollows
<1> QED BY <1>7, <1>9 DEF IInv, Typed, TypedBefore, ClockType

LEMMA TogglePlayKeeps == ASSUME IInv, TogglePlay PROVE IInv'
<1>0. \A t \in IF clock.shouldAnimate THEN Time ELSE {clock.currentTime} : t \in Time
  BY DEF IInv, Typed
<1>1. PICK t \in Time :
        /\ Assign(t)
        /\ SyncToClock([clock EXCEPT !.currentTime = t])
        /\ clock' = [[clock EXCEPT !.currentTime = t] EXCEPT !.shouldAnimate = ~clock.shouldAnimate]
  BY <1>0 DEF TogglePlay
<1> DEFINE c == [clock EXCEPT !.currentTime = t]
<1>2. c \in ClockType /\ c.bounds = clock.bounds /\ c.currentTime = t
  BY MovedClock DEF IInv, Typed
<1>3. (~clock.shouldAnimate) \in BOOLEAN
  <2>1. clock.shouldAnimate \in BOOLEAN
    BY DEF IInv, Typed
  <2> QED BY <2>1
<1>4. clock' \in ClockType /\ clock'.bounds = clock.bounds /\ clock'.currentTime = t
  BY <1>1, <1>2, <1>3 DEF ClockType
<1>5. active /\ Top # NoLayer /\ UNCHANGED <<stack, active, ticking>> /\ ahead' = TRUE
  BY DEF TogglePlay, Visible
<1>6. c.bounds = bounds[Top]
  BY <1>2, <1>5 DEF IInv, Followed
<1> HIDE DEF c
<1>7. /\ items' \in Seq(Layer) /\ showDefault' \in BOOLEAN
      /\ time' \in [Shown -> Time] /\ paused' \in [Shown -> BOOLEAN]
      /\ bounds' = bounds /\ Top' = Top
  BY <1>1, <1>2, <1>5, <1>6, SyncShows DEF c
<1>8. Followed'
  BY <1>4, <1>5, <1>7 DEF IInv, Followed, FollowsTop, StoppedWhenEmpty
<1>9. /\ shared' \in BOOLEAN
      /\ shared' => c.bounds \in Shown /\ c.currentTime = Start[c.bounds]
  BY <1>1, <1>2, AssignKeeps
<1>10. OneDate'
  BY <1>2, <1>4, <1>9 DEF OneDate
<1> QED BY <1>4, <1>5, <1>7, <1>8, <1>9, <1>10 DEF IInv, Typed, ClockType, OwnBounds

LEMMA GotoStartKeeps == ASSUME IInv, GotoStart PROVE IInv'
<1>1. active /\ Top # NoLayer /\ ahead' = TRUE /\ UNCHANGED <<stack, traits, active, ticking>>
  BY DEF GotoStart, Visible
<1>2. Top \in Shown
  BY <1>1, TopTyped DEF IInv, Typed, Shown
<1>3. clock.bounds = Top
  BY <1>1, <1>2 DEF IInv, Followed, OwnBounds
<1>4. Start[Top] \in Time
  BY <1>2, StackAssumption DEF StackAssumption, Shown
<1>5. clock' = [clock EXCEPT !.currentTime = Start[Top]] /\ clock \in ClockType
  BY <1>3 DEF GotoStart, IInv, Typed, ClockType
<1>6. clock' \in ClockType /\ clock'.bounds = Top /\ clock'.currentTime = Start[Top]
  BY <1>3, <1>4, <1>5 DEF ClockType
<1>7. shared' \in BOOLEAN
  <2>1. shared \in BOOLEAN
    BY DEF IInv, Typed
  <2> QED BY <2>1, Zenon DEF GotoStart
<1>8. Top' = Top
  BY <1>1 DEF stack, Top
<1>9. Followed'
  BY <1>1, <1>3, <1>6, <1>8 DEF IInv, Followed, FollowsTop, StoppedWhenEmpty, traits
<1>10. OneDate'
  BY <1>2, <1>6 DEF OneDate
<1> QED BY <1>1, <1>6, <1>7, <1>9, <1>10 DEF IInv, Typed, ClockType, OwnBounds, stack, traits

-----------------------------------------------------------------------------
(* The invariant *)

LEMMA InitKeeps == Init => IInv
<1> SUFFICES ASSUME Init PROVE IInv
  OBVIOUS
<1>1. clock \in ClockType /\ clock.shouldAnimate = FALSE
  BY DEF Init, ClockType
<1>2. items \in Seq(Layer) /\ showDefault \in BOOLEAN
  <2>1. << >> \in Seq(Layer)
    OBVIOUS
  <2>2. items = << >> /\ showDefault = FALSE
    BY DEF Init
  <2> QED BY <2>1, <2>2
<1>3. bounds \in [Shown -> Shown \union {NoLayer}] /\ OwnBounds
  BY DEF Init, OwnBounds
<1>4. active = FALSE /\ ticking = FALSE /\ ahead = FALSE /\ shared = FALSE
  BY DEF Init
<1>5. time \in [Shown -> Time] /\ paused \in [Shown -> BOOLEAN]
  BY DEF Init
<1>6. Followed
  BY <1>4 DEF Followed, FollowsTop, StoppedWhenEmpty
<1> QED BY <1>1, <1>2, <1>3, <1>4, <1>5, <1>6 DEF IInv, Typed, ClockType, OneDate

\* The actions on the stack and on the traits of single layers.
LEMMA StackActionsKeep ==
  ASSUME IInv,
         \/ Activate \/ Deactivate \/ RemoveAll
         \/ \E l \in Layer : AddToTop(l) \/ Remove(l) \/ PromoteToTop(l) \/ LayerLoads(l)
         \/ \E show \in BOOLEAN : SetAlwaysShowTimeline(show)
         \/ \E l \in Layer, t \in Time : ChangeDateTime(l, t)
  PROVE  IInv'
<1> USE DEF IInv
<1>0. ASSUME NEW touched, StackStep(touched) PROVE ahead' \in BOOLEAN /\ shared' \in BOOLEAN
  <2>1. ahead \in BOOLEAN /\ shared \in BOOLEAN
    BY DEF Typed
  <2> QED BY <2>1, <1>0, Zenon DEF StackStep
<1>1. CASE Activate
  <2>1. StackStep(Shown) /\ ahead' \in BOOLEAN /\ shared' \in BOOLEAN
    BY <1>0, <1>1 DEF Activate
  <2>2. TypedBefore /\ OwnBounds'
    BY <1>1, <2>1 DEF Activate, TypedBefore, Typed, OwnBounds, stack, traits
  <2> QED BY <2>1, <2>2, StackStepKeeps
<1>2. CASE Deactivate
  <2>1. StackStep({}) /\ ahead' \in BOOLEAN /\ shared' \in BOOLEAN
    BY <1>0, <1>2 DEF Deactivate
  <2>2. TypedBefore /\ OwnBounds'
    BY <1>2, <2>1 DEF Deactivate, TypedBefore, Typed, OwnBounds, stack, traits
  <2> QED BY <2>1, <2>2, StackStepKeeps
<1>3. ASSUME NEW list \in Seq(Layer), NEW touched, SetItems(list, touched)
      PROVE  IInv'
  <2>1. StackStep(touched) /\ ahead' \in BOOLEAN /\ shared' \in BOOLEAN
    BY <1>0, <1>3 DEF SetItems
  <2>2. TypedBefore /\ OwnBounds'
    BY <1>3, <2>1 DEF SetItems, TypedBefore, Typed, OwnBounds, traits
  <2> QED BY <2>1, <2>2, StackStepKeeps
<1>4. CASE RemoveAll
  <2>1. << >> \in Seq(Layer)
    OBVIOUS
  <2> QED BY <1>3, <1>4, <2>1 DEF RemoveAll
<1>5. ASSUME NEW l \in Layer, AddToTop(l) \/ Remove(l) \/ PromoteToTop(l) PROVE IInv'
  <2>1. PutOnTop(l) \in Seq(Layer) /\ Promoted(l) \in Seq(Layer) /\ Without(l) \in Seq(Layer)
    BY StackTyped DEF Typed
  <2> QED BY <1>3, <1>5, <2>1 DEF AddToTop, Remove, PromoteToTop
<1>6. ASSUME NEW l \in Layer, LayerLoads(l) PROVE IInv'
  <2>1. StackStep({}) /\ ahead' \in BOOLEAN /\ shared' \in BOOLEAN
    BY <1>0, <1>6 DEF LayerLoads
  <2>2. TypedBefore /\ OwnBounds'
    BY <1>6, <2>1 DEF LayerLoads, TypedBefore, Typed, OwnBounds, traits
  <2> QED BY <2>1, <2>2, StackStepKeeps
<1>7. ASSUME NEW show \in BOOLEAN, SetAlwaysShowTimeline(show) PROVE IInv'
  <2>1. StackStep({Default}) /\ ahead' \in BOOLEAN /\ shared' \in BOOLEAN
    BY <1>0, <1>7 DEF SetAlwaysShowTimeline
  <2>2. PICK now \in Time :
          /\ time' = IF show THEN [time EXCEPT ![Default] = now] ELSE time
          /\ paused' = IF show THEN [paused EXCEPT ![Default] = TRUE] ELSE paused
          /\ bounds' = IF show THEN [bounds EXCEPT ![Default] = Default] ELSE bounds
    BY <1>7 DEF SetAlwaysShowTimeline
  <2>3. time' \in [Shown -> Time] /\ bounds' \in [Shown -> Shown \union {NoLayer}] /\ OwnBounds'
    BY <2>2 DEF Typed, OwnBounds, Shown
  <2>4. paused' \in [Shown -> BOOLEAN]
    BY <2>2 DEF Typed
  <2>5. TypedBefore
    BY <1>7, <2>1, <2>3, <2>4 DEF SetAlwaysShowTimeline, TypedBefore, Typed
  <2> QED BY <2>1, <2>3, <2>5, StackStepKeeps
<1>8. ASSUME NEW l \in Layer, NEW t \in Time, ChangeDateTime(l, t) PROVE IInv'
  <2>1. StackStep({l}) /\ ahead' \in BOOLEAN /\ shared' \in BOOLEAN
    BY <1>0, <1>8 DEF ChangeDateTime
  <2>2. items' \in Seq(Layer)
    BY <1>8, StackTyped DEF ChangeDateTime, Typed
  <2>3. TypedBefore /\ OwnBounds'
    BY <1>8, <2>1, <2>2 DEF ChangeDateTime, TypedBefore, Typed, OwnBounds
  <2> QED BY <2>1, <2>3, StackStepKeeps
<1> QED BY <1>1, <1>2, <1>4, <1>5, <1>6, <1>7, <1>8

LEMMA StutterKeeps == ASSUME IInv, UNCHANGED vars PROVE IInv'
<1>1. Top' = Top /\ (Top # NoLayer => TopShows' = TopShows)
  BY DEF vars, stack, traits, Top, TopShows
<1>2. Top # NoLayer => Copied' = Copied
  BY <1>1 DEF Copied, vars, traits
<1> QED BY <1>1, <1>2
        DEF vars, stack, traits, IInv, Typed, OwnBounds, Followed, FollowsTop,
            StoppedWhenEmpty, OneDate

\* The clock and the layer on top of the stack agree whoever wrote last, the clock
\* stops with nothing to show, and no layer gets the bounds of another one.
THEOREM ClockFollowsTop == Spec => []IInv
<1>1. IInv /\ [Next]_vars => IInv'
  <2> SUFFICES ASSUME IInv, [Next]_vars PROVE IInv'
    OBVIOUS
  <2>1. ASSUME NEW t \in Time, NEW runs \in {FALSE, clock.shouldAnimate}, SetTime(t, runs)
        PROVE  IInv'
    <3>1. runs \in BOOLEAN
      BY DEF IInv, Typed
    <3> QED BY <2>1, <3>1, SetTimeKeeps
  <2> QED BY <2>1, StackActionsKeep, TickKeeps, TogglePlayKeeps, GotoStartKeeps, StutterKeeps DEF Next
<1> QED BY <1>1, InitKeeps, PTL DEF Spec

\* Whoever wrote last, clock and top layer agree (TimelineStack.ts:48), and without a
\* layer to show an active clock does not run (TimelineStack.ts:51-54).
THEOREM ClockInSync == Spec => []InSync
<1>1. IInv => InSync
  BY DEF IInv, Followed, InSync
<1> QED BY <1>1, ClockFollowsTop, PTL

\* No layer is given the start and stop of another one (TimelineStack.ts:202-214).
THEOREM BoundsStayOwn == Spec => []OwnBounds
<1>1. IInv => OwnBounds
  BY DEF IInv
<1> QED BY <1>1, ClockFollowsTop, PTL

\* Whatever a control has set and whichever dates the clock shares, the tick after it
\* leaves clock and top layer in agreement (TimelineStack.ts:83-87, 187-226).
THEOREM TicksAgree == Spec => TickAgrees
<1>1. ASSUME IInv, ticking, Top # NoLayer, Tick PROVE clock' = TopShows'
  <2>1. active /\ clock.bounds = bounds[Top]
    BY <1>1 DEF IInv, Followed
  <2>2. PICK t \in Time : TickTo(t)
    BY <1>1 DEF Tick
  <2> DEFINE c == IF clock.shouldAnimate THEN [clock EXCEPT !.currentTime = t] ELSE clock
  <2>3. c \in ClockType /\ c.bounds = clock.bounds
    BY <1>1, MovedClock DEF IInv, Typed, ClockType
  <2>4. /\ Reaction(c) /\ SyncToClock(c) /\ UNCHANGED stack /\ active' = active
        /\ Assign(c.currentTime)
    BY <1>1, <2>2 DEF TickTo
  <2> HIDE DEF c
  <2>5. Top' = Top /\ TopShows' = c
    BY <1>1, <2>1, <2>3, <2>4, SyncShows
  <2>6. shared' => c.currentTime = Start[c.bounds]
    BY <1>1, <2>3, <2>4, AssignKeeps
  <2>7. Copied' = c
    BY <2>3, <2>5, <2>6, CopiedIs
  <2> QED BY <1>1, <2>4, <2>5, <2>7 DEF Reaction
<1>2. IInv => [ticking /\ Top # NoLayer /\ Tick => clock' = TopShows']_vars
  BY <1>1
<1> QED BY <1>2, ClockFollowsTop, PTL DEF TickAgrees

-----------------------------------------------------------------------------
(* The layers among themselves *)

\* What is on the stack after an operation was there before, but for the item added; and
\* the item put on top is its first entry.
LEMMA StackElements ==
  ASSUME items \in Seq(Layer), NEW l \in Layer
  PROVE  /\ Lists!ToSet(PutOnTop(l)) \subseteq Lists!ToSet(items) \union {l}
         /\ Lists!ToSet(Promoted(l)) \subseteq Lists!ToSet(items)
         /\ Lists!ToSet(Without(l)) \subseteq Lists!ToSet(items)
         /\ Len(PutOnTop(l)) >= 1 /\ PutOnTop(l)[1] = l
<1> DEFINE longer == <<l>> \o items
<1>1. /\ longer \in Seq(Layer) /\ Len(longer) = Len(items) + 1 /\ longer[1] = l
      /\ \A i \in 1..Len(items) : longer[i + 1] = items[i]
  OBVIOUS
<1> HIDE DEF longer
<1>2. \A i \in 1..Len(longer) : longer[i] = l \/ longer[i] \in Lists!ToSet(items)
  <2>1. ASSUME NEW i \in 1..Len(longer), i # 1 PROVE longer[i] \in Lists!ToSet(items)
    <3>1. i - 1 \in 1..Len(items) /\ longer[(i - 1) + 1] = items[i - 1]
      BY <1>1, <2>1
    <3> QED BY <2>1, <3>1 DEF Lists!ToSet
  <2> QED BY <1>1, <2>1
<1>3. /\ Lists!ToSet(PutOnTop(l)) \subseteq Lists!ToSet(items) \union {l}
      /\ Len(PutOnTop(l)) >= 1 /\ PutOnTop(l)[1] = l
  <2>1. CASE Attached(l)
    <3> DEFINE p == Min(Places(l))
               new == SubSeq(longer, 1, p - 1) \o SubSeq(longer, p + 1, Len(longer))
    <3>1. p \in 1..Len(items) /\ items[p] = l
      <4>1. Places(l) \in SUBSET Nat /\ Places(l) # {}
        BY <2>1 DEF Places, Attached, Lists!ToSet
      <4>2. p \in Places(l)
        BY <4>1, LeastElement
      <4> QED BY <4>2 DEF Places
    <3>2. PutOnTop(l) = new
      BY <2>1 DEF PutOnTop, longer, Lists!RemoveAt
    <3> HIDE DEF p
    <3>3. p \in 1..Len(longer)
      BY <1>1, <3>1
    <3>4. /\ new \in Seq(Layer) /\ Len(new) = Len(items)
          /\ \A i \in 1..Len(new) : new[i] = IF i < p THEN longer[i] ELSE longer[i + 1]
      <4>1. Len(longer) - 1 = Len(items)
        BY <1>1
      <4>2. /\ new \in Seq(Layer) /\ Len(new) = Len(longer) - 1
            /\ \A i \in 1..Len(new) : new[i] = IF i < p THEN longer[i] ELSE longer[i + 1]
        <5> HIDE DEF new
        <5> QED BY <1>1, <3>3, TakenOut DEF new
      <4> QED BY <4>1, <4>2
    <3> HIDE DEF new
    <3>5. new[1] = l
      <4>1. CASE p = 1
        BY <1>1, <3>1, <3>4, <4>1
      <4>2. CASE p # 1
        BY <1>1, <3>1, <3>4, <4>2
      <4> QED BY <4>1, <4>2
    <3>6. \A i \in 1..Len(new) : \E j \in 1..Len(longer) : new[i] = longer[j]
      <4>1. ASSUME NEW i \in 1..Len(new) PROVE \E j \in 1..Len(longer) : new[i] = longer[j]
        <5>1. i \in 1..Len(longer) /\ i + 1 \in 1..Len(longer)
          BY <1>1, <3>4
        <5> QED BY <3>4, <5>1
      <4> QED BY <4>1
    <3>7. Lists!ToSet(new) \subseteq Lists!ToSet(items) \union {l}
      <4> SUFFICES ASSUME NEW i \in 1..Len(new) PROVE new[i] = l \/ new[i] \in Lists!ToSet(items)
        BY DEF Lists!ToSet
      <4> QED BY <1>2, <3>6
    <3> QED BY <3>1, <3>2, <3>4, <3>5, <3>7
  <2>2. CASE ~Attached(l)
    <3>1. PutOnTop(l) = longer
      BY <2>2 DEF PutOnTop, longer
    <3>2. Lists!ToSet(longer) \subseteq Lists!ToSet(items) \union {l}
      <4> SUFFICES ASSUME NEW i \in 1..Len(longer) PROVE longer[i] = l \/ longer[i] \in Lists!ToSet(items)
        BY DEF Lists!ToSet
      <4> QED BY <1>2
    <3> QED BY <1>1, <3>1, <3>2
  <2> QED BY <2>1, <2>2
<1>4. Lists!ToSet(Promoted(l)) \subseteq Lists!ToSet(items)
  BY <1>3 DEF Promoted, Attached
<1>5. Lists!ToSet(Without(l)) \subseteq Lists!ToSet(items)
  <2>1. CASE Attached(l)
    <3> DEFINE p == Min(Places(l))
               new == SubSeq(items, 1, p - 1) \o SubSeq(items, p + 1, Len(items))
    <3>1. p \in 1..Len(items) /\ Without(l) = new
      BY <2>1, FirstPlace DEF Without, Lists!RemoveAt
    <3> HIDE DEF p
    <3>2. /\ Len(new) = Len(items) - 1 /\ new \in Seq(Layer)
          /\ \A i \in 1..Len(new) : new[i] = IF i < p THEN items[i] ELSE items[i + 1]
      BY <3>1, TakenOut
    <3> HIDE DEF new
    <3>3. ASSUME NEW i \in 1..Len(new) PROVE new[i] \in Lists!ToSet(items)
      <4>1. i \in 1..Len(items) /\ i + 1 \in 1..Len(items)
        BY <3>2
      <4> QED BY <3>2, <4>1 DEF Lists!ToSet
    <3>4. Lists!ToSet(new) \subseteq Lists!ToSet(items)
      <4> SUFFICES ASSUME NEW i \in 1..Len(new) PROVE new[i] \in Lists!ToSet(items)
        BY DEF Lists!ToSet
      <4> QED BY <3>3
    <3> QED BY <3>1, <3>4
  <2>2. CASE ~Attached(l) /\ items # << >>
    <3> DEFINE new == SubSeq(items, 1, Len(items) - 1)
    <3>1. Without(l) = new
      BY <2>2 DEF Without, Lists!Front
    <3>2. /\ Len(new) = Len(items) - 1
          /\ \A i \in 1..Len(items) - 1 : new[i] = items[i]
      <4> DEFINE n == Len(items) - 1
      <4>1. n \in Nat /\ n <= Len(items)
        <5>1. Len(items) \in Nat /\ Len(items) # 0
          BY <2>2
        <5> QED BY <5>1
      <4> HIDE DEF n
      <4>2. Len(SubSeq(items, 1, n)) = n /\ \A i \in 1..n : SubSeq(items, 1, n)[i] = items[i]
        BY <4>1
      <4> QED BY <4>2 DEF n
    <3> HIDE DEF new
    <3>3. Lists!ToSet(new) \subseteq Lists!ToSet(items)
      <4> SUFFICES ASSUME NEW i \in 1..Len(new) PROVE new[i] \in Lists!ToSet(items)
        BY DEF Lists!ToSet
      <4> QED BY <3>2 DEF Lists!ToSet
    <3> QED BY <3>1, <3>3
  <2>3. CASE ~Attached(l) /\ items = << >>
    BY <2>3 DEF Without
  <2> QED BY <2>1, <2>2, <2>3
<1> QED BY <1>3, <1>4, <1>5

\* A step that only takes layers off, or adds those it makes fresh.
LEMMA FreshOrOld ==
  ASSUME LayersTogether, active' => active,
         Lists!ToSet(items') \ fresh' \subseteq Lists!ToSet(items) \ fresh,
         \A l \in Lists!ToSet(items') \ fresh' : time'[l] = time[l] /\ paused'[l] = paused[l]
  PROVE  LayersTogether'
BY DEF LayersTogether

LEMMA SyncTogether ==
  ASSUME items \in Seq(Layer), NEW c, SyncToClock(c), UNCHANGED items
  PROVE  LayersTogether'
<1>1. \A l \in Lists!ToSet(items) : l \in Shown
  BY DEF Lists!ToSet, Shown
<1>2. \A l \in Lists!ToSet(items) : time'[l] = c.currentTime /\ paused'[l] = ~c.shouldAnimate
  BY <1>1 DEF SyncToClock
<1> QED BY <1>2 DEF LayersTogether

LEMMA TogetherKept == ASSUME IInv, LayersTogether, [Next]_vars PROVE LayersTogether'
<1>0. items \in Seq(Layer) /\ Lists!ToSet(items) \subseteq Layer
  BY DEF IInv, Typed, Lists!ToSet
<1>1. CASE Activate
  <2>1. fresh' = fresh \union Shown /\ items' = items
    BY <1>1 DEF Activate, StackStep, stack
  <2> QED BY <1>0, <2>1 DEF LayersTogether, Shown
<1>2. CASE Deactivate
  BY <1>2 DEF Deactivate, LayersTogether
<1>3. ASSUME NEW list, NEW touched, SetItems(list, touched),
             Lists!ToSet(list) \subseteq Lists!ToSet(items) \union touched
      PROVE  LayersTogether'
  BY <1>3, FreshOrOld DEF SetItems, StackStep, traits
<1>4. CASE RemoveAll
  <2>1. Lists!ToSet(<< >>) \subseteq Lists!ToSet(items) \union {}
    BY DEF Lists!ToSet
  <2> QED BY <1>3, <1>4, <2>1 DEF RemoveAll
<1>5. ASSUME NEW l \in Layer, AddToTop(l) \/ Remove(l) \/ PromoteToTop(l) PROVE LayersTogether'
  <2>1. CASE AddToTop(l)
    BY <1>0, <1>3, <2>1, StackElements DEF AddToTop
  <2>2. CASE Remove(l) \/ PromoteToTop(l)
    BY <1>0, <1>3, <2>2, StackElements DEF Remove, PromoteToTop
  <2> QED BY <1>5, <2>1, <2>2
<1>6. ASSUME NEW l \in Layer, LayerLoads(l) PROVE LayersTogether'
  BY <1>6, FreshOrOld DEF LayerLoads, StackStep, traits
<1>7. ASSUME NEW show \in BOOLEAN, SetAlwaysShowTimeline(show) PROVE LayersTogether'
  <2>1. Default \notin Lists!ToSet(items)
    BY <1>0, StackAssumption DEF StackAssumption
  <2>2. time \in [Shown -> Time] /\ paused \in [Shown -> BOOLEAN]
    BY DEF IInv, Typed
  <2>3. /\ UNCHANGED <<items, active>> /\ fresh' = fresh \union {Default}
        /\ \A l \in Lists!ToSet(items) : time'[l] = time[l] /\ paused'[l] = paused[l]
    BY <1>0, <1>7, <2>1, <2>2 DEF SetAlwaysShowTimeline, StackStep, Shown
  <2> QED BY <2>3, FreshOrOld
<1>8. ASSUME NEW l \in Layer, NEW t \in Time, ChangeDateTime(l, t) PROVE LayersTogether'
  <2>1. time \in [Shown -> Time]
    BY DEF IInv, Typed
  <2>2. /\ items' = Promoted(l) /\ UNCHANGED <<paused, active>> /\ fresh' = fresh \union {l}
        /\ \A m \in Layer \ {l} : time'[m] = time[m]
    BY <1>8, <2>1 DEF ChangeDateTime, StackStep, Shown
  <2>3. Lists!ToSet(items') \subseteq Lists!ToSet(items)
    BY <1>0, <2>2, StackElements
  <2> QED BY <1>0, <2>2, <2>3, FreshOrOld
<1>9. CASE Tick
  <2>1. PICK t \in Time : TickTo(t)
    BY <1>9 DEF Tick
  <2> DEFINE c == IF clock.shouldAnimate THEN [clock EXCEPT !.currentTime = t] ELSE clock
  <2>2. (SyncToClock(c) \/ UNCHANGED <<traits, fresh>>) /\ UNCHANGED <<stack, active>>
    BY <2>1 DEF TickTo
  <2> HIDE DEF c
  <2>3. CASE SyncToClock(c)
    BY <1>0, <2>2, <2>3, SyncTogether DEF stack
  <2>4. CASE UNCHANGED <<traits, fresh>>
    BY <2>2, <2>4 DEF stack, traits, LayersTogether
  <2> QED BY <2>2, <2>3, <2>4
<1>10. ASSUME NEW t \in Time, NEW runs, SetTime(t, runs) PROVE LayersTogether'
  BY <1>0, <1>10, SyncTogether DEF SetTime, stack
<1>11. CASE TogglePlay
  BY <1>0, <1>11, SyncTogether DEF TogglePlay, stack
<1>12. CASE GotoStart \/ UNCHANGED vars
  BY <1>12 DEF GotoStart, vars, stack, traits, LayersTogether
<1> QED BY <1>1, <1>2, <1>4, <1>5, <1>6, <1>7, <1>8, <1>9, <1>10, <1>11, <1>12 DEF Next

\* syncToClock tells all layers at once, and what is not told is fresh: the layers on the
\* stack show one time and are paused together (TimelineStack.ts:186-215).
THEOREM LayersMoveTogether == Spec => []LayersTogether
<1>1. Init => LayersTogether
  BY DEF Init, LayersTogether, Lists!ToSet
<1>2. IInv /\ LayersTogether /\ [Next]_vars => LayersTogether'
  BY TogetherKept
<1> QED BY <1>1, <1>2, ClockFollowsTop, PTL DEF Spec

\* The date picked for a layer of the stack is shown: the layer is promoted above all
\* others, and the autorun copies it to the clock unless the clock has it already.
THEOREM PickedDateShows == Spec => PickedDateIsShown
<1>1. ASSUME IInv, NEW l \in Layer, NEW t \in Time, ChangeDateTime(l, t), Attached(l), active,
             ~ahead, ~shared
      PROVE  clock'.currentTime = t
  <2>0. items \in Seq(Layer) /\ time \in [Shown -> Time] /\ l \in Shown
    BY <1>1 DEF IInv, Typed, Shown
  <2>1. /\ items' = PutOnTop(l) /\ l \in dated' /\ active' = active
        /\ time'[l] = t /\ Reaction(clock) /\ shared' = shared
    BY <1>1, <2>0 DEF ChangeDateTime, Promoted, StackStep
  <2>2. Len(items') >= 1 /\ items'[1] = l /\ items' \in Seq(Layer)
    BY <2>0, <2>1, StackElements, StackTyped
  <2>3. Top' = l
    <3> DEFINE dp == {i \in 1..Len(items') : items'[i] \in dated'}
    <3>1. dp \in SUBSET Nat /\ 1 \in dp /\ \A i \in dp : i >= 1
      BY <2>1, <2>2
    <3>2. Top' = items'[Min(dp)]
      BY <3>1 DEF Top
    <3> HIDE DEF dp
    <3>3. Min(dp) \in dp /\ Min(dp) <= 1
      BY <3>1, LeastElement
    <3>4. Min(dp) = 1
      <4>1. Min(dp) \in Nat /\ Min(dp) >= 1
        BY <3>1, <3>3
      <4> QED BY <3>3, <4>1
    <3> QED BY <2>2, <3>2, <3>4
  <2>4. l # NoLayer
    BY StackAssumption DEF StackAssumption
  <2>5. TopShows'.currentTime = t /\ Copied'.currentTime = t
    BY <1>1, <2>1, <2>3 DEF TopShows, Copied
  <2>6. CASE Reacts
    BY <2>1, <2>3, <2>4, <2>5, <2>6 DEF Reaction
  <2>7. CASE ~Reacts
    <3>1. Top = l /\ TopShows' = TopShows /\ clock' = clock
      BY <1>1, <2>1, <2>3, <2>4, <2>7 DEF Reaction, Reacts
    <3>2. clock.currentTime = TopShows.currentTime
      BY <1>1, <2>4, <3>1 DEF IInv, Followed, FollowsTop, Copied, TopShows
    <3> QED BY <2>5, <3>1, <3>2
  <2> QED BY <2>6, <2>7
<1>2. IInv => [\A l \in Layer, t \in Time :
                 Attached(l) /\ active /\ ~ahead /\ ~shared /\ ChangeDateTime(l, t)
                   => clock'.currentTime = t]_vars
  BY <1>1
<1> QED BY <1>2, ClockFollowsTop, PTL DEF PickedDateIsShown

=============================================================================
