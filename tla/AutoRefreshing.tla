--------------------------- MODULE AutoRefreshing ---------------------------
(***************************************************************************)
(* lib/ModelMixins/AutoRefreshingMixin.ts: a model that is refreshed on a  *)
(* timer while something observes its map items and its trait              *)
(* refreshEnabled is true.  Two MobX reactions do it: one follows          *)
(* refreshEnabled, the other one the timer.                                *)
(***************************************************************************)

VARIABLES
  refreshEnabled,  \* the trait
  observed,        \* mapItems has observers
  enabling,        \* autorunRefreshEnableDisposer is defined
  timer            \* autoRefreshDisposer is defined

vars == <<refreshEnabled, observed, enabling, timer>>

TypeOK ==
  refreshEnabled \in BOOLEAN /\ observed \in BOOLEAN /\ enabling \in BOOLEAN /\ timer \in BOOLEAN

Init ==
  /\ refreshEnabled \in BOOLEAN
  /\ observed = FALSE /\ enabling = FALSE /\ timer = FALSE

\* startAutoRefresh and stopAutoRefresh, once refreshEnabled has its new value.
StartAutoRefresh == enabling' = TRUE /\ timer' = (timer \/ refreshEnabled')
StopAutoRefresh  == enabling' = FALSE /\ timer' = FALSE

BecomeObserved ==
  /\ ~observed /\ observed' = TRUE
  /\ UNCHANGED refreshEnabled
  /\ StartAutoRefresh

BecomeUnobserved ==
  /\ observed /\ observed' = FALSE
  /\ UNCHANGED refreshEnabled
  /\ StopAutoRefresh

\* The trait is set; if the first reaction is there and sees a change, it starts or
\* stops both.
SetRefreshEnabled(value) ==
  /\ refreshEnabled' = value
  /\ UNCHANGED observed
  /\ IF ~enabling \/ value = refreshEnabled THEN UNCHANGED <<enabling, timer>>
     ELSE IF value THEN StartAutoRefresh ELSE StopAutoRefresh

Next ==
  BecomeObserved \/ BecomeUnobserved \/ \E value \in BOOLEAN : SetRefreshEnabled(value)

Spec == Init /\ [][Next]_vars

-----------------------------------------------------------------------------

\* "We should only poll when our map items have consumers"
\* (AutoRefreshingMixin.ts:33), and only while the trait allows it.
PollsOnlyWhenObserved == timer => observed /\ refreshEnabled

\* "Toggle autorefresh when `refreshEnabled` trait changes"
\* (AutoRefreshingMixin.ts:40): an observed model polls whenever the trait is true.
PollsWhenEnabled == observed /\ refreshEnabled => timer

=============================================================================
