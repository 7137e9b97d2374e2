------------------------- MODULE TileErrorHandler --------------------------
(***************************************************************************)
(* lib/ModelMixins/TileErrorHandlerMixin.ts: what a raster layer does when *)
(* the map cannot load one of its tiles.  The handler fetches the tile     *)
(* again to learn more, backs off while the server has trouble, tells the  *)
(* map to try once more when the fetch succeeds, and hides the layer after *)
(* too many failures.  The counts are those of the layer: the errors of    *)
(* all its tiles, handled side by side, share them.                        *)
(* The map is external.  It draws the layer from one or several sources:   *)
(* the imagery layers of Cesium, or the tile layers of Leaflet, made for   *)
(* the parts of the item and made anew when a part changes.  Each source   *)
(* has a TileProviderError of its own for the errors of all its tiles; its *)
(* timesRetried is 0 at the first error, and at the first after a success. *)
(***************************************************************************)
EXTENDS Naturals, FiniteSets

CONSTANTS
  Source,               \* all that ever draw the layer
  Tile,                 \* what the sources request, each a tile of one source
  SourceOf,
  Key,                  \* level, coordinates and time, which tiles of two sources may share
  KeyOf,
  Inside,               \* the tiles that overlap the layer's extent
  Globe,                \* BOOLEAN: Cesium draws the layer, else Leaflet does
  Threshold,            \* thresholdBeforeDisablingItem, 5 in the code
  MaxRetriesByMap,      \* 5 in the code
  Backoffs              \* tileRetryOptions.retries, 8 in the code

ASSUME TileAssumption ==
  /\ IsFiniteSet(Source)
  /\ SourceOf \in [Tile -> Source]
  /\ KeyOf \in [Tile -> Key]
  /\ Inside \subseteq Tile
  /\ Globe \in BOOLEAN
  /\ Threshold \in Nat /\ MaxRetriesByMap \in Nat /\ Backoffs \in Nat

VARIABLES
  show,                 \* the trait show
  tileFailures,
  tileRetriesByMap,
  succeeded,            \* of each source: its next error will have timesRetried = 0
  phase,                \* of each tile
  attempt,              \* of the operation that handles the tile's error
  raised,               \* history: errors raised since the layer was shown
  failed,               \* history: tiles given up since one loaded or the layer was shown
  pressed,              \* history: retries by the map since the tile was asked for
  helped                \* history: a tile has loaded since the tile was asked for

counts == <<tileFailures, tileRetriesByMap>>
vars   == <<show, counts, succeeded, phase, attempt, raised, failed, pressed, helped>>

\* requested: by the map; checking: an attempt awaits its fetch; waiting: for the
\* next attempt; idle: loaded, given up, or not asked for.
Phase == {"idle", "requested", "checking", "waiting"}

\* The counts matter up to the first value above their limit.
UpTo(n, limit) == IF n > limit THEN n ELSE n + 1

TypeOK ==
  /\ show \in BOOLEAN
  /\ tileFailures \in 0 .. Threshold + 1
  /\ tileRetriesByMap \in [Key -> 0 .. MaxRetriesByMap + 1]
  /\ succeeded \in [Source -> BOOLEAN]
  /\ phase \in [Tile -> Phase]
  /\ attempt \in [Tile -> 1 .. Backoffs + 1]
  /\ raised \in Nat
  /\ failed \in Nat
  /\ pressed \in [Tile -> Nat]
  /\ helped \in [Tile -> BOOLEAN]

Init ==
  /\ show = TRUE
  /\ tileFailures = 0 /\ tileRetriesByMap = [k \in Key |-> 0]
  /\ succeeded = [s \in Source |-> TRUE]
  /\ phase = [t \in Tile |-> "idle"]
  /\ attempt = [t \in Tile |-> 1]
  /\ raised = 0 /\ failed = 0
  /\ pressed = [t \in Tile |-> 0] /\ helped = [t \in Tile |-> FALSE]

Becomes(t, p) == phase' = [phase EXCEPT ![t] = p]

-----------------------------------------------------------------------------
\* The map (external).

RequestTile(t) ==
  /\ show /\ phase[t] = "idle" /\ Becomes(t, "requested")
  /\ pressed' = [pressed EXCEPT ![t] = 0]
  /\ helped' = [helped EXCEPT ![t] = FALSE]
  /\ UNCHANGED <<show, counts, succeeded, attempt, raised, failed>>

\* Cesium reports the success to the source's error; the Leaflet layer does not.
TileLoads(t) ==
  /\ phase[t] = "requested" /\ Becomes(t, "idle")
  /\ succeeded' = [succeeded EXCEPT ![SourceOf[t]] = @ \/ Globe]
  /\ failed' = 0
  /\ helped' = [u \in Tile |-> TRUE]
  /\ UNCHANGED <<show, counts, attempt, raised, pressed>>

-----------------------------------------------------------------------------
\* onTileLoadError and its helpers.

Restart == tileFailures' = 0 /\ tileRetriesByMap' = [k \in Key |-> 0]

\* Mutant: the counts are restarted at every error.
RestartAlways(s) == Restart

\* The first error of a source, and its first one after a success.
RestartCounts(s) == IF succeeded[s] THEN Restart ELSE UNCHANGED counts

\* The first attempt is made in the same call.
OnTileLoadError(t) ==
  /\ phase[t] = "requested"
  /\ succeeded' = [succeeded EXCEPT ![SourceOf[t]] = FALSE]
  /\ attempt' = [attempt EXCEPT ![t] = 1]
  /\ \/ t \notin Inside /\ UNCHANGED counts /\ Becomes(t, "idle")
     \/ t \in Inside /\ RestartCounts(SourceOf[t])
        /\ Becomes(t, IF show THEN "checking" ELSE "idle")
  /\ UNCHANGED <<show, raised, failed, pressed, helped>>

\* Mutant: the layer's show is not asked for.
FailTileShownOrNot(t) ==
  /\ tileFailures' = UpTo(tileFailures, Threshold)
  /\ IF tileFailures + 1 > Threshold
       THEN show' = FALSE /\ raised' = raised + 1
       ELSE UNCHANGED <<show, raised>>
  /\ failed' = IF show' THEN failed + 1 ELSE 0
  /\ Becomes(t, "idle")

\* Too many failures: the user is told and the layer is hidden.
FailTile(t) ==
  /\ tileFailures' = UpTo(tileFailures, Threshold)
  /\ IF tileFailures + 1 > Threshold /\ show
       THEN show' = FALSE /\ raised' = raised + 1
       ELSE UNCHANGED <<show, raised>>
  /\ failed' = IF show' THEN failed + 1 ELSE 0
  /\ Becomes(t, "idle")

\* Attempt 1 looks at the map's own error, every later one fetches the tile.
\* A 4xx, an image that cannot be decoded, an unknown error:
CheckFails(t) ==
  /\ phase[t] = "checking" /\ FailTile(t)
  /\ UNCHANGED <<tileRetriesByMap, succeeded, attempt, pressed, helped>>

\* One that the traits say to ignore:
CheckIsIgnored(t) ==
  /\ phase[t] = "checking" /\ Becomes(t, "idle")
  /\ UNCHANGED <<show, counts, succeeded, attempt, raised, failed, pressed, helped>>

\* A 5xx: retryWithBackoff.
ServerError(t) ==
  /\ phase[t] = "checking"
  /\ IF attempt[t] <= Backoffs
       THEN Becomes(t, "waiting") /\ UNCHANGED <<show, tileFailures, raised, failed>>
       ELSE FailTile(t)
  /\ UNCHANGED <<tileRetriesByMap, succeeded, attempt, pressed, helped>>

\* The map may try once more; the Leaflet layer does not listen.
TellMapToRetry(t) ==
  /\ Becomes(t, IF Globe THEN "requested" ELSE "idle")
  /\ pressed' = [pressed EXCEPT ![t] = UpTo(@, MaxRetriesByMap * Cardinality(Source))]
  /\ UNCHANGED <<show, tileFailures, raised, failed>>

\* Mutant: the map may retry once more than it should.
CheckSucceedsOnceMore(t) ==
  /\ phase[t] = "checking" /\ attempt[t] > 1
  /\ tileRetriesByMap' = [tileRetriesByMap EXCEPT ![KeyOf[t]] = UpTo(@, MaxRetriesByMap)]
  /\ IF tileRetriesByMap[KeyOf[t]] > MaxRetriesByMap
       THEN FailTile(t) /\ UNCHANGED pressed
       ELSE TellMapToRetry(t)
  /\ UNCHANGED <<succeeded, attempt, helped>>

\* The fetch worked although the map's request did not.
CheckSucceeds(t) ==
  /\ phase[t] = "checking" /\ attempt[t] > 1
  /\ tileRetriesByMap' = [tileRetriesByMap EXCEPT ![KeyOf[t]] = UpTo(@, MaxRetriesByMap)]
  /\ IF tileRetriesByMap'[KeyOf[t]] > MaxRetriesByMap
       THEN FailTile(t) /\ UNCHANGED pressed
       ELSE TellMapToRetry(t)
  /\ UNCHANGED <<succeeded, attempt, helped>>

\* Mutant: every attempt is the first of a new operation.
NextAttemptAnew(t) ==
  /\ phase[t] = "waiting"
  /\ IF show THEN Becomes(t, "checking") ELSE Becomes(t, "idle")
  /\ UNCHANGED <<show, counts, succeeded, attempt, raised, failed, pressed, helped>>

\* The backoff is over: the next attempt, unless the layer has been hidden.
NextAttempt(t) ==
  /\ phase[t] = "waiting"
  /\ IF show THEN /\ Becomes(t, "checking")
                  /\ attempt' = [attempt EXCEPT ![t] = @ + 1]
             ELSE Becomes(t, "idle") /\ UNCHANGED attempt
  /\ UNCHANGED <<show, counts, succeeded, raised, failed, pressed, helped>>

\* The user hides the layer or shows it again.
ToggleShow ==
  /\ show' = ~show
  /\ raised' = IF show THEN raised ELSE 0
  /\ failed' = 0
  /\ UNCHANGED <<counts, succeeded, phase, attempt, pressed, helped>>

-----------------------------------------------------------------------------

Check(t) == CheckFails(t) \/ CheckIsIgnored(t) \/ ServerError(t) \/ CheckSucceeds(t)

Next ==
  \/ \E t \in Tile : RequestTile(t) \/ TileLoads(t) \/ OnTileLoadError(t)
  \/ \E t \in Tile : CheckFails(t) \/ CheckIsIgnored(t) \/ ServerError(t)
  \/ \E t \in Tile : CheckSucceeds(t) \/ NextAttempt(t)
  \/ ToggleShow

Spec == Init /\ [][Next]_vars

\* A fetch settles and a timer goes off; the map and the user owe nothing.
FairSpec == Spec /\ \A t \in Tile : WF_vars(Check(t)) /\ WF_vars(NextAttempt(t))

-----------------------------------------------------------------------------

\* However many of the layer's tiles fail at once, and whenever their checks come
\* back, the user is told once, until the layer is shown again; and a layer that
\* the user has been told of is hidden.
ToldOnce == raised <= 1 /\ (raised = 1 => ~show)

\* A tile that the map cannot load though the fetch can is given up after MaxRetriesByMap
\* retries for each source the layer is drawn from, if no tile loads meanwhile: every
\* other source may clear the counts once, at its first error.
GivesUp ==
  \A t \in Tile : ~helped[t] => pressed[t] <= MaxRetriesByMap * Cardinality(Source)

\* An outage hides the layer: while no tile loads, the layer endures Threshold failures
\* for each source, whose first error may clear the count, and those counted before.
OutageHides == failed <= Threshold * (Cardinality(Source) + 1)

\* Every error of a tile is settled in the end: the promise that the map was given
\* as retry is resolved or rejected, after a bounded number of attempts.
ErrorsSettle ==
  \A t \in Tile : phase[t] \in {"checking", "waiting"} ~> phase[t] \in {"idle", "requested"}

\* "We must not get stuck repeating the request forever in that scenario. Instead,
\* we should give up after a few attempts." (TileErrorHandlerMixin.ts:250-252)  The
\* counts of all tiles are cleared when any tile loads, and when another source meets its
\* first error.
GivesUpAnyway == \A t \in Tile : pressed[t] < MaxRetriesByMap + 1

\* "We're only concerned about failures for tiles that actually overlap this item's
\* extent." (TileErrorHandlerMixin.ts:105)  The error of a tile outside is none the less
\* the first one after a success of its source, so that the one that follows, inside, does
\* not restart the counts.
OutsideIsIgnored ==
  [][\A t \in Tile \ Inside : OnTileLoadError(t) => UNCHANGED succeeded]_vars

\* "raising an error event that optionally returns a promise and retries after the
\* promise resolves" (ImageryProviderLeafletTileLayer.ts:158-160): a tile whose error
\* was settled in favour of a retry is requested again.
RetriesAfterPromise ==
  [][\A t \in Tile : pressed'[t] > pressed[t] => phase'[t] = "requested"]_vars
=============================================================================
