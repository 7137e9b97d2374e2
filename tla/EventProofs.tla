---------------------------- MODULE EventProofs ----------------------------
(***************************************************************************)
(* What the model layer does when the map tells it something, in handlers  *)
(* that overlap.                                                           *)
(*                                                                         *)
(* The counts of TileErrorHandler, proved for any number of tiles and of   *)
(* sources and any limits: the user is told once, a tile that no load      *)
(* helps is given up, and an outage hides the layer.                       *)
(*                                                                         *)
(* The calls of FeatureHighlight, proved for any number of features, of    *)
(* calls that overlap and of viewers: what is selected is highlighted when *)
(* all have ended.                                                         *)
(***************************************************************************)
EXTENDS TileErrorHandler, FeatureHighlight, ListLemmas, TLAPS

-----------------------------------------------------------------------------
(* TileErrorHandler *)

\* The sources that have met an error since a tile of theirs loaded: no other error of
\* theirs clears the counts.
Failing == {s \in Source : ~succeeded[s]}

\* The retries of a tile that are still counted.
Retries(t) ==
  IF tileRetriesByMap[KeyOf[t]] > MaxRetriesByMap THEN MaxRetriesByMap
  ELSE tileRetriesByMap[KeyOf[t]]

\* From the first error of a tile that no load helps, its source is failing; and the
\* retries that were counted no more were so once for each of the other failing sources.
SourceFails ==
  \A t \in Tile : ~helped[t] /\ (pressed[t] > 0 \/ phase[t] \in {"checking", "waiting"})
                    => SourceOf[t] \in Failing

Counted ==
  \A t \in Tile : ~helped[t] /\ pressed[t] > 0 =>
    pressed[t] + MaxRetriesByMap <= Retries(t) + MaxRetriesByMap * Cardinality(Failing)

\* The same of the failures that the layer has endured.
Endured ==
  failed > 0 =>
    tileFailures <= Threshold /\ failed <= tileFailures + Threshold * Cardinality(Failing)

\* A backoff is only begun while retries are left.
RetriesLeft == \A t \in Tile : phase[t] = "waiting" => attempt[t] <= Backoffs

IInv == TypeOK /\ ToldOnce /\ SourceFails /\ Counted /\ Endured /\ RetriesLeft

LEMMA InitIInv == Init => IInv
BY TileAssumption
   DEF Init, IInv, TypeOK, ToldOnce, SourceFails, Counted, Endured, RetriesLeft, Phase

LEMMA UpToBound ==
  ASSUME NEW limit \in Nat, NEW n \in 0 .. limit + 1
  PROVE  /\ UpTo(n, limit) \in 0 .. limit + 1
         /\ n <= UpTo(n, limit)
         /\ n <= limit => UpTo(n, limit) = n + 1
BY DEF UpTo

LEMMA Times ==
  ASSUME NEW a \in Nat, NEW n \in Nat
  PROVE  a * n \in Nat /\ a * (n + 1) = a * n + a
OBVIOUS

LEMMA TimesMonotone ==
  ASSUME NEW a \in Nat, NEW m \in Nat, NEW n \in Nat, m <= n
  PROVE  a * m <= a * n
OBVIOUS

\* There are finitely many failing sources, at least one when a source is.
LEMMA FailingFinite ==
  /\ IsFiniteSet(Failing) /\ Cardinality(Failing) \in Nat
  /\ Cardinality(Source) \in Nat /\ Cardinality(Failing) <= Cardinality(Source)
  /\ \A s \in Failing : Cardinality(Failing) >= 1
<1>1. IsFiniteSet(Source) /\ Failing \in SUBSET Source
  BY TileAssumption DEF TileAssumption, Failing
<1> HIDE DEF Failing
<1>2. IsFiniteSet(Failing) /\ Cardinality(Failing) <= Cardinality(Source)
  BY <1>1, FS_Subset
<1>3. Cardinality(Failing) \in Nat /\ Cardinality(Source) \in Nat
  BY <1>1, <1>2, FS_CardinalityType
<1>4. ASSUME NEW s \in Failing PROVE Cardinality(Failing) # 0
  BY <1>2, FS_EmptySet
<1> QED BY <1>2, <1>3, <1>4

\* The error of a source that was not failing makes one more that is.
LEMMA FailingGrows ==
  ASSUME NEW s \in Source, succeeded \in [Source -> BOOLEAN],
         succeeded' = [succeeded EXCEPT ![s] = FALSE]
  PROVE  /\ s \in Failing'
         /\ Failing \subseteq Failing'
         /\ succeeded[s] => Cardinality(Failing') = Cardinality(Failing) + 1
         /\ Cardinality(Failing') >= Cardinality(Failing)
<1>1. Failing' = Failing \union {s}
  BY DEF Failing
<1>2. succeeded[s] => s \notin Failing
  BY DEF Failing
<1>3. IsFiniteSet(Failing) /\ Cardinality(Failing) \in Nat
  BY FailingFinite
<1> HIDE DEF Failing
<1> DEFINE more == Failing \union {s}
<1>4. Cardinality(more) = IF s \in Failing THEN Cardinality(Failing) ELSE Cardinality(Failing) + 1
  BY <1>3, FS_AddElement
<1>5. Failing' = more
  BY <1>1
<1> HIDE DEF more
<1>6. Cardinality(Failing') = Cardinality(more)
  BY <1>5
<1>7. s \in Failing' /\ Failing \subseteq Failing'
  BY <1>1
<1> QED BY <1>2, <1>3, <1>4, <1>6, <1>7

\* What is counted and bounded holds of tiles, tile by tile.
LEMMA RetriesTyped ==
  ASSUME TypeOK, NEW t \in Tile
  PROVE  Retries(t) \in 0 .. MaxRetriesByMap /\ KeyOf[t] \in Key /\ SourceOf[t] \in Source
BY TileAssumption DEF TypeOK, Retries, TileAssumption

\* A step that changes neither the counts nor what has failed.
LEMMA CountsKept ==
  ASSUME IInv, UNCHANGED <<counts, succeeded, failed, helped>>,
         \A t \in Tile : pressed'[t] = pressed[t] \/ pressed'[t] = 0
  PROVE  Counted' /\ Endured'
<1>1. Failing' = Failing
  BY DEF Failing
<1>2. ASSUME NEW t \in Tile PROVE Retries(t)' = Retries(t)
  BY DEF Retries, counts
<1>3. Counted'
  BY <1>1, <1>2 DEF IInv, Counted
<1> QED BY <1>1, <1>3 DEF IInv, Endured, counts

-----------------------------------------------------------------------------
\* The map.

LEMMA RequestTileKeeps == ASSUME NEW t \in Tile PROVE IInv /\ RequestTile(t) => IInv'
<1> SUFFICES ASSUME IInv, RequestTile(t) PROVE IInv'
  OBVIOUS
<1> USE DEF RequestTile, Becomes
<1>1. TypeOK'
  BY DEF IInv, TypeOK, Phase, counts
<1>2. ToldOnce'
  BY DEF IInv, ToldOnce
<1>3. SourceFails' /\ RetriesLeft'
  BY DEF IInv, SourceFails, RetriesLeft, TypeOK, Failing
<1>4. Counted'
  <2>1. Failing' = Failing
    BY DEF Failing
  <2>2. ASSUME NEW u \in Tile PROVE Retries(u)' = Retries(u)
    BY DEF Retries, counts
  <2>3. \A u \in Tile : u # t => pressed'[u] = pressed[u] /\ helped'[u] = helped[u]
    BY DEF IInv, TypeOK
  <2>4. pressed'[t] = 0
    BY DEF IInv, TypeOK
  <2> QED BY <2>1, <2>2, <2>3, <2>4 DEF IInv, Counted
<1>5. Endured'
  BY DEF IInv, Endured, counts, Failing
<1> QED BY <1>1, <1>2, <1>3, <1>4, <1>5 DEF IInv

LEMMA TileLoadsKeeps == ASSUME NEW t \in Tile PROVE IInv /\ TileLoads(t) => IInv'
<1> SUFFICES ASSUME IInv, TileLoads(t) PROVE IInv'
  OBVIOUS
<1> USE DEF TileLoads, Becomes
<1>1. TypeOK'
  <2>1. (succeeded[SourceOf[t]] \/ Globe) \in BOOLEAN
    OBVIOUS
  <2>2. succeeded' \in [Source -> BOOLEAN]
    BY <2>1 DEF IInv, TypeOK
  <2> QED BY <2>2 DEF IInv, TypeOK, Phase, counts
<1>2. ToldOnce'
  BY DEF IInv, ToldOnce
<1>3. SourceFails' /\ Counted' /\ Endured'
  BY DEF SourceFails, Counted, Endured
<1>4. RetriesLeft'
  BY DEF IInv, RetriesLeft, TypeOK
<1> QED BY <1>1, <1>2, <1>3, <1>4 DEF IInv

-----------------------------------------------------------------------------
\* The handler.

\* An error that restarts the counts is the first of its source: the counts it forgets
\* are those of one source more.
LEMMA RestartKeeps ==
  ASSUME IInv, NEW s \in Source, succeeded[s], Restart,
         succeeded' = [succeeded EXCEPT ![s] = FALSE], UNCHANGED <<failed, pressed, helped>>
  PROVE  Counted' /\ Endured'
<1> DEFINE n == Cardinality(Failing)
<1>1. succeeded \in [Source -> BOOLEAN]
  BY DEF IInv, TypeOK
<1>2. n \in Nat
  BY FailingFinite
<1>3. Cardinality(Failing') = n + 1
  BY <1>1, FailingGrows
<1>4. MaxRetriesByMap \in Nat /\ Threshold \in Nat
  BY TileAssumption DEF TileAssumption
<1> HIDE DEF n
<1>5. /\ MaxRetriesByMap * n \in Nat
      /\ MaxRetriesByMap * (n + 1) = MaxRetriesByMap * n + MaxRetriesByMap
      /\ Threshold * n \in Nat /\ Threshold * (n + 1) = Threshold * n + Threshold
  BY <1>2, <1>4, Times
<1>6. Counted'
  <2> SUFFICES ASSUME NEW t \in Tile, ~helped'[t], pressed'[t] > 0
               PROVE  pressed'[t] + MaxRetriesByMap
                        <= Retries(t)' + MaxRetriesByMap * Cardinality(Failing')
    BY DEF Counted
  <2>1. pressed[t] + MaxRetriesByMap <= Retries(t) + MaxRetriesByMap * n
    BY DEF IInv, Counted, n
  <2>2. Retries(t) \in 0 .. MaxRetriesByMap /\ KeyOf[t] \in Key
    BY RetriesTyped DEF IInv
  <2>3. Retries(t)' = 0
    <3>1. tileRetriesByMap'[KeyOf[t]] = 0
      BY <2>2 DEF Restart
    <3> QED BY <1>4, <3>1 DEF Retries
  <2>4. pressed'[t] = pressed[t] /\ pressed[t] \in Nat
    BY DEF IInv, TypeOK
  <2> HIDE DEF Retries
  <2>5. pressed[t] + MaxRetriesByMap <= MaxRetriesByMap * n + MaxRetriesByMap
    BY <1>4, <1>5, <2>1, <2>2, <2>4
  <2>6. MaxRetriesByMap * Cardinality(Failing') = MaxRetriesByMap * n + MaxRetriesByMap
    BY <1>3, <1>5
  <2>7. pressed'[t] + MaxRetriesByMap <= 0 + (MaxRetriesByMap * n + MaxRetriesByMap)
    BY <1>4, <1>5, <2>4, <2>5
  <2> QED BY <2>3, <2>6, <2>7
<1>7. Endured'
  <2> SUFFICES ASSUME failed' > 0
               PROVE  /\ tileFailures' <= Threshold
                      /\ failed' <= tileFailures' + Threshold * Cardinality(Failing')
    BY DEF Endured
  <2>1. tileFailures <= Threshold /\ failed <= tileFailures + Threshold * n
    BY DEF IInv, Endured, n
  <2>2. tileFailures' = 0 /\ failed' = failed
    BY DEF Restart
  <2>3. failed \in Nat /\ tileFailures \in Nat
    BY DEF IInv, TypeOK
  <2>4. failed <= Threshold * n + Threshold
    BY <1>4, <1>5, <2>1, <2>3
  <2> QED BY <1>3, <1>4, <1>5, <2>2, <2>3, <2>4
<1> QED BY <1>6, <1>7

\* An error that restarts nothing leaves all counted.
LEMMA NoRestartKeeps ==
  ASSUME IInv, NEW s \in Source, UNCHANGED counts,
         succeeded' = [succeeded EXCEPT ![s] = FALSE], UNCHANGED <<failed, pressed, helped>>
  PROVE  Counted' /\ Endured'
<1> DEFINE n == Cardinality(Failing)
           m == Cardinality(Failing')
<1>1. succeeded \in [Source -> BOOLEAN]
  BY DEF IInv, TypeOK
<1>2. n \in Nat /\ m >= n /\ (succeeded[s] => m = n + 1) /\ (~succeeded[s] => m = n)
  <2>1. n \in Nat /\ m >= n /\ (succeeded[s] => m = n + 1)
    BY <1>1, FailingFinite, FailingGrows
  <2>2. ~succeeded[s] => Failing' = Failing
    BY <1>1 DEF Failing
  <2> QED BY <2>1, <2>2
<1>3. m \in Nat
  BY <1>2
<1>4. MaxRetriesByMap \in Nat /\ Threshold \in Nat
  BY TileAssumption DEF TileAssumption
<1> HIDE DEF n, m
<1>5. /\ MaxRetriesByMap * n \in Nat /\ MaxRetriesByMap * m \in Nat
      /\ MaxRetriesByMap * n <= MaxRetriesByMap * m
      /\ Threshold * n \in Nat /\ Threshold * m \in Nat /\ Threshold * n <= Threshold * m
  BY <1>2, <1>3, <1>4, Times, TimesMonotone
<1>6. Counted'
  <2> SUFFICES ASSUME NEW t \in Tile, ~helped'[t], pressed'[t] > 0
               PROVE  pressed'[t] + MaxRetriesByMap <= Retries(t)' + MaxRetriesByMap * m
    BY DEF Counted, m
  <2>1. pressed[t] + MaxRetriesByMap <= Retries(t) + MaxRetriesByMap * n
    BY DEF IInv, Counted, n
  <2>2. Retries(t) \in Nat
    BY RetriesTyped, <1>4 DEF IInv
  <2>3. Retries(t)' = Retries(t)
    BY DEF Retries, counts
  <2>4. pressed'[t] = pressed[t] /\ pressed[t] \in Nat
    BY DEF IInv, TypeOK
  <2> HIDE DEF Retries
  <2> QED BY <1>4, <1>5, <2>1, <2>2, <2>3, <2>4
<1>7. Endured'
  <2>1. failed \in Nat /\ tileFailures \in Nat
    BY DEF IInv, TypeOK
  <2> QED BY <1>4, <1>5, <2>1 DEF IInv, Endured, counts, n, m
<1> QED BY <1>6, <1>7

LEMMA OnTileLoadErrorKeeps == ASSUME NEW t \in Tile PROVE IInv /\ OnTileLoadError(t) => IInv'
<1> SUFFICES ASSUME IInv, OnTileLoadError(t) PROVE IInv'
  OBVIOUS
<1> DEFINE s == SourceOf[t]
<1>1. s \in Source /\ succeeded' = [succeeded EXCEPT ![s] = FALSE]
  BY RetriesTyped DEF IInv, OnTileLoadError
<1>2. \E p \in Phase : phase' = [phase EXCEPT ![t] = p] /\ p # "waiting"
  BY DEF OnTileLoadError, Becomes, Phase
<1>3. UNCHANGED counts \/ (succeeded[s] /\ Restart)
  BY DEF OnTileLoadError, RestartCounts
<1>4. UNCHANGED <<show, raised, failed, pressed, helped>>
  BY DEF OnTileLoadError
<1>5. TypeOK'
  <2>1. tileFailures' \in 0 .. Threshold + 1
    BY <1>3, TileAssumption DEF IInv, TypeOK, counts, Restart, TileAssumption
  <2>2. tileRetriesByMap' \in [Key -> 0 .. MaxRetriesByMap + 1]
    BY <1>3, TileAssumption DEF IInv, TypeOK, counts, Restart, TileAssumption
  <2>3. attempt' \in [Tile -> 1 .. Backoffs + 1]
    BY TileAssumption DEF OnTileLoadError, IInv, TypeOK, TileAssumption
  <2>4. phase' \in [Tile -> Phase]
    BY <1>2 DEF IInv, TypeOK
  <2>5. succeeded' \in [Source -> BOOLEAN]
    BY <1>1 DEF IInv, TypeOK
  <2> QED
    BY <1>4, <2>1, <2>2, <2>3, <2>4, <2>5 DEF IInv, TypeOK
<1>6. ToldOnce'
  BY <1>4 DEF IInv, ToldOnce
<1>7. SourceFails'
  <2>1. s \in Failing' /\ Failing \subseteq Failing'
    BY <1>1, FailingGrows DEF IInv, TypeOK
  <2>2. \A u \in Tile : u # t => phase'[u] = phase[u]
    BY <1>2 DEF IInv, TypeOK
  <2> HIDE DEF Failing
  <2> QED BY <1>4, <2>1, <2>2 DEF IInv, SourceFails
<1>8. Counted' /\ Endured'
  BY <1>1, <1>3, <1>4, RestartKeeps, NoRestartKeeps
<1>9. RetriesLeft'
  <2> SUFFICES ASSUME NEW u \in Tile, phase'[u] = "waiting" PROVE attempt'[u] <= Backoffs
    BY DEF RetriesLeft
  <2>1. u # t /\ phase[u] = "waiting" /\ attempt'[u] = attempt[u]
    BY <1>2 DEF OnTileLoadError, IInv, TypeOK
  <2> QED BY <2>1 DEF IInv, RetriesLeft
<1> QED
  BY <1>5, <1>6, <1>7, <1>8, <1>9 DEF IInv

\* A tile that is given up is counted, and the layer hidden before it endures too much.
LEMMA FailTileEndured ==
  ASSUME IInv, NEW t \in Tile, FailTile(t), UNCHANGED succeeded
  PROVE  Endured'
<1> DEFINE n == Threshold * Cardinality(Failing)
<1>1. Failing' = Failing
  BY DEF Failing
<1>2. n \in Nat /\ Threshold \in Nat
  BY FailingFinite, Times, TileAssumption DEF TileAssumption
<1>3. tileFailures \in 0 .. Threshold + 1 /\ failed \in Nat
  BY DEF IInv, TypeOK
<1>4. failed > 0 => failed <= tileFailures + n
  BY DEF IInv, Endured
<1> HIDE DEF n
<1>5. ASSUME failed' > 0
      PROVE  tileFailures' <= Threshold /\ failed' <= tileFailures' + n
  <2>1. show' /\ failed' = failed + 1
    BY <1>5 DEF FailTile
  <2>2. tileFailures + 1 <= Threshold
    <3>1. ~(tileFailures + 1 > Threshold /\ show)
      BY <2>1 DEF FailTile
    <3>2. show
      BY <2>1, <3>1 DEF FailTile
    <3> QED BY <1>2, <1>3, <3>1, <3>2
  <2>3. tileFailures' = tileFailures + 1
    BY <1>2, <1>3, <2>2, UpToBound DEF FailTile
  <2> QED BY <1>2, <1>3, <1>4, <2>1, <2>2, <2>3
<1> QED BY <1>1, <1>5 DEF Endured, n

\* What failTile does for the conjuncts that the other variables do not touch.
LEMMA FailTileKeeps ==
  ASSUME NEW t \in Tile, IInv, FailTile(t),
         UNCHANGED <<succeeded, attempt, pressed, helped>>,
         tileRetriesByMap' \in [Key -> 0 .. MaxRetriesByMap + 1],
         \A k \in Key : tileRetriesByMap'[k] >= tileRetriesByMap[k]
  PROVE  IInv'
<1>0. Threshold \in Nat /\ MaxRetriesByMap \in Nat
  BY TileAssumption DEF TileAssumption
<1>1. TypeOK'
  <2>1. tileFailures' \in 0 .. Threshold + 1
    BY <1>0, UpToBound DEF IInv, TypeOK, FailTile
  <2>2. show' \in BOOLEAN
    BY DEF IInv, TypeOK, FailTile
  <2>3. raised' \in Nat /\ failed' \in Nat
    BY DEF IInv, TypeOK, FailTile
  <2>4. phase' \in [Tile -> Phase]
    BY DEF IInv, TypeOK, FailTile, Becomes, Phase
  <2> QED
    BY <2>1, <2>2, <2>3, <2>4 DEF IInv, TypeOK
<1>2. ToldOnce'
  BY DEF IInv, ToldOnce, FailTile, TypeOK
<1>3. phase' = [phase EXCEPT ![t] = "idle"]
  BY DEF FailTile, Becomes
<1>4. SourceFails'
  BY <1>3 DEF IInv, SourceFails, TypeOK, Failing
<1>5. Counted'
  <2> DEFINE n == MaxRetriesByMap * Cardinality(Failing)
  <2>1. Failing' = Failing
    BY DEF Failing
  <2>2. n \in Nat
    BY <1>0, FailingFinite, Times
  <2>3. ASSUME NEW u \in Tile, ~helped[u], pressed[u] > 0
        PROVE  pressed[u] + MaxRetriesByMap <= Retries(u)' + n
    <3>1. pressed[u] + MaxRetriesByMap <= Retries(u) + n
      BY <2>3 DEF IInv, Counted
    <3>2. Retries(u) \in Nat /\ pressed[u] \in Nat /\ KeyOf[u] \in Key
      BY <1>0, RetriesTyped DEF IInv, TypeOK
    <3>3. /\ tileRetriesByMap'[KeyOf[u]] >= tileRetriesByMap[KeyOf[u]]
          /\ tileRetriesByMap'[KeyOf[u]] \in Nat /\ tileRetriesByMap[KeyOf[u]] \in Nat
      BY <3>2 DEF IInv, TypeOK
    <3>4. Retries(u)' \in Nat /\ Retries(u)' >= Retries(u)
      BY <1>0, <3>3 DEF Retries
    <3> HIDE DEF Retries, n
    <3> QED BY <1>0, <2>2, <3>1, <3>2, <3>4
  <2> QED BY <2>1, <2>3 DEF Counted
<1>6. Endured'
  BY FailTileEndured
<1>7. RetriesLeft'
  BY <1>3 DEF IInv, RetriesLeft, TypeOK
<1> QED
  BY <1>1, <1>2, <1>4, <1>5, <1>6, <1>7 DEF IInv

LEMMA CheckFailsKeeps == ASSUME NEW t \in Tile PROVE IInv /\ CheckFails(t) => IInv'
<1> SUFFICES ASSUME IInv, CheckFails(t) PROVE IInv'
  OBVIOUS
<1>1. tileRetriesByMap' \in [Key -> 0 .. MaxRetriesByMap + 1]
  BY DEF CheckFails, IInv, TypeOK
<1>2. \A k \in Key : tileRetriesByMap'[k] >= tileRetriesByMap[k]
  BY TileAssumption DEF CheckFails, IInv, TypeOK
<1> QED
  BY <1>1, <1>2, FailTileKeeps DEF CheckFails

LEMMA CheckIsIgnoredKeeps == ASSUME NEW t \in Tile PROVE IInv /\ CheckIsIgnored(t) => IInv'
<1> SUFFICES ASSUME IInv, CheckIsIgnored(t) PROVE IInv'
  OBVIOUS
<1> USE DEF CheckIsIgnored, Becomes
<1>1. TypeOK'
  BY DEF IInv, TypeOK, Phase, counts
<1>2. ToldOnce' /\ Counted' /\ Endured'
  BY CountsKept DEF IInv, ToldOnce
<1>3. SourceFails' /\ RetriesLeft'
  BY DEF IInv, SourceFails, RetriesLeft, TypeOK, Failing
<1> QED
  BY <1>1, <1>2, <1>3 DEF IInv

LEMMA ServerErrorKeeps == ASSUME NEW t \in Tile PROVE IInv /\ ServerError(t) => IInv'
<1> SUFFICES ASSUME IInv, ServerError(t) PROVE IInv'
  OBVIOUS
<1>1. CASE attempt[t] <= Backoffs
  <2> USE <1>1 DEF ServerError, Becomes
  <2>1. TypeOK'
    BY DEF IInv, TypeOK, Phase
  <2>2. ToldOnce' /\ Counted' /\ Endured'
    BY CountsKept DEF IInv, ToldOnce, counts
  <2>3. SourceFails' /\ RetriesLeft'
    BY DEF IInv, SourceFails, RetriesLeft, TypeOK, Failing
  <2> QED
    BY <2>1, <2>2, <2>3 DEF IInv
<1>2. CASE ~(attempt[t] <= Backoffs)
  <2>1. tileRetriesByMap' \in [Key -> 0 .. MaxRetriesByMap + 1]
    BY DEF ServerError, IInv, TypeOK
  <2>2. \A k \in Key : tileRetriesByMap'[k] >= tileRetriesByMap[k]
    BY TileAssumption DEF ServerError, IInv, TypeOK
  <2> QED
    BY <1>2, <2>1, <2>2, FailTileKeeps DEF ServerError
<1> QED
  BY <1>1, <1>2

\* The tile that is retried has one retry more, and so has its key.
LEMMA TellMapToRetryKeeps ==
  ASSUME NEW t \in Tile, IInv, phase[t] = "checking",
         tileRetriesByMap' = [tileRetriesByMap EXCEPT ![KeyOf[t]] = @ + 1],
         tileRetriesByMap[KeyOf[t]] + 1 <= MaxRetriesByMap,
         TellMapToRetry(t), UNCHANGED <<succeeded, attempt, helped>>
  PROVE  IInv'
<1> DEFINE c == Cardinality(Failing)
           n == MaxRetriesByMap * c
           k == KeyOf[t]
<1>0. /\ MaxRetriesByMap \in Nat /\ n \in Nat /\ c \in Nat
      /\ k \in Key /\ tileRetriesByMap[k] \in Nat
  BY FailingFinite, Times, RetriesTyped, TileAssumption DEF TileAssumption, IInv, TypeOK
<1>1. Failing' = Failing
  BY DEF Failing
<1>2. \A u \in Tile : u # t => pressed'[u] = pressed[u] /\ phase'[u] = phase[u]
  BY DEF TellMapToRetry, Becomes, IInv, TypeOK
<1>3. pressed[t] \in Nat /\ pressed'[t] \in Nat /\ pressed'[t] <= pressed[t] + 1
  BY DEF TellMapToRetry, UpTo, IInv, TypeOK
<1>4. phase' \in [Tile -> Phase] /\ phase'[t] \in {"requested", "idle"}
  BY DEF TellMapToRetry, Becomes, IInv, TypeOK, Phase
<1>5. TypeOK'
  <2>1. pressed' \in [Tile -> Nat]
    BY <1>3 DEF TellMapToRetry, UpTo, IInv, TypeOK
  <2>2. tileRetriesByMap' \in [Key -> 0 .. MaxRetriesByMap + 1]
    BY <1>0 DEF IInv, TypeOK
  <2> QED BY <1>4, <2>1, <2>2 DEF TellMapToRetry, IInv, TypeOK
<1>6. ToldOnce'
  BY DEF TellMapToRetry, IInv, ToldOnce
<1>7. ~helped[t] => SourceOf[t] \in Failing
  BY DEF IInv, SourceFails
<1>8. SourceFails'
  BY <1>1, <1>2, <1>4, <1>7 DEF IInv, SourceFails
<1>9. \A u \in Tile : Retries(u)' \in Nat /\ Retries(u) \in Nat /\ Retries(u)' >= Retries(u)
  <2> SUFFICES ASSUME NEW u \in Tile
               PROVE  Retries(u)' \in Nat /\ Retries(u) \in Nat /\ Retries(u)' >= Retries(u)
    OBVIOUS
  <2>1. /\ tileRetriesByMap'[KeyOf[u]] >= tileRetriesByMap[KeyOf[u]]
        /\ tileRetriesByMap'[KeyOf[u]] \in Nat /\ tileRetriesByMap[KeyOf[u]] \in Nat
    BY <1>0, RetriesTyped DEF IInv, TypeOK
  <2> QED BY <1>0, <2>1 DEF Retries
<1>10. Retries(t)' = Retries(t) + 1
  <2>1. tileRetriesByMap'[k] = tileRetriesByMap[k] + 1
    BY <1>0 DEF IInv, TypeOK
  <2> QED BY <1>0, <2>1 DEF Retries
<1> HIDE DEF Retries
<1>11. ASSUME NEW u \in Tile, ~helped[u], pressed'[u] > 0
       PROVE  pressed'[u] + MaxRetriesByMap <= Retries(u)' + n
  <2>1. pressed[u] > 0 => pressed[u] + MaxRetriesByMap <= Retries(u) + n
    BY <1>11 DEF IInv, Counted
  <2>2. pressed[u] \in Nat
    BY DEF IInv, TypeOK
  <2>3. CASE u # t
    BY <1>0, <1>2, <1>9, <1>11, <2>1, <2>2, <2>3
  <2>4. CASE u = t /\ pressed[t] > 0
    BY <1>0, <1>3, <1>9, <1>10, <2>1, <2>4
  <2>5. CASE u = t /\ pressed[t] = 0
    <3>1. c >= 1
      BY <1>7, <1>11, <2>5, FailingFinite
    <3>2. MaxRetriesByMap * 1 <= n
      BY <1>0, <3>1, TimesMonotone
    <3>3. MaxRetriesByMap <= n
      BY <1>0, <3>2
    <3> QED BY <1>0, <1>3, <1>9, <1>10, <2>5, <3>3
  <2> QED BY <2>2, <2>3, <2>4, <2>5
<1>12. Counted'
  BY <1>1, <1>11 DEF Counted
<1>13. Endured' /\ RetriesLeft'
  BY <1>1, <1>2, <1>4 DEF TellMapToRetry, IInv, Endured, RetriesLeft
<1> QED BY <1>5, <1>6, <1>8, <1>12, <1>13 DEF IInv

LEMMA CheckSucceedsKeeps == ASSUME NEW t \in Tile PROVE IInv /\ CheckSucceeds(t) => IInv'
<1> SUFFICES ASSUME IInv, CheckSucceeds(t) PROVE IInv'
  OBVIOUS
<1> DEFINE k == KeyOf[t]
           r == UpTo(tileRetriesByMap[k], MaxRetriesByMap)
<1>1. MaxRetriesByMap \in Nat /\ k \in Key /\ tileRetriesByMap[k] \in 0 .. MaxRetriesByMap + 1
  BY RetriesTyped, TileAssumption DEF IInv, TypeOK, TileAssumption
<1>2. /\ r \in 0 .. MaxRetriesByMap + 1 /\ r >= tileRetriesByMap[k]
      /\ r <= MaxRetriesByMap => r = tileRetriesByMap[k] + 1
  BY <1>1, UpToBound DEF UpTo
<1>3. tileRetriesByMap' = [tileRetriesByMap EXCEPT ![k] = r]
  BY DEF CheckSucceeds
<1> HIDE DEF r
<1>4. tileRetriesByMap' \in [Key -> 0 .. MaxRetriesByMap + 1] /\ tileRetriesByMap'[k] = r
  BY <1>1, <1>2, <1>3 DEF IInv, TypeOK
<1>5. CASE r > MaxRetriesByMap
  <2>1. \A l \in Key : tileRetriesByMap'[l] >= tileRetriesByMap[l]
    BY <1>1, <1>2, <1>3 DEF IInv, TypeOK
  <2> QED BY <1>4, <1>5, <2>1, FailTileKeeps DEF CheckSucceeds
<1>6. CASE ~(r > MaxRetriesByMap)
  <2>1. TellMapToRetry(t)
    BY <1>4, <1>6 DEF CheckSucceeds
  <2>2. tileRetriesByMap[k] + 1 <= MaxRetriesByMap /\ r = tileRetriesByMap[k] + 1
    BY <1>1, <1>2, <1>6
  <2>3. tileRetriesByMap' = [tileRetriesByMap EXCEPT ![k] = @ + 1]
    BY <1>3, <2>2
  <2> QED BY <2>1, <2>2, <2>3, TellMapToRetryKeeps DEF CheckSucceeds
<1> QED BY <1>5, <1>6

LEMMA NextAttemptKeeps == ASSUME NEW t \in Tile PROVE IInv /\ NextAttempt(t) => IInv'
<1> SUFFICES ASSUME IInv, NextAttempt(t) PROVE IInv'
  OBVIOUS
<1> USE DEF NextAttempt, Becomes
<1>1. TypeOK'
  <2>1. attempt[t] + 1 \in 1 .. Backoffs + 1
    BY TileAssumption DEF IInv, TypeOK, RetriesLeft, TileAssumption
  <2>2. attempt' \in [Tile -> 1 .. Backoffs + 1]
    BY <2>1 DEF IInv, TypeOK
  <2>3. phase' \in [Tile -> Phase]
    BY DEF IInv, TypeOK, Phase
  <2> QED
    BY <2>2, <2>3 DEF IInv, TypeOK, counts
<1>2. ToldOnce' /\ Counted' /\ Endured'
  BY CountsKept DEF IInv, ToldOnce
<1>3. SourceFails'
  BY DEF IInv, SourceFails, TypeOK, Failing
<1>4. RetriesLeft'
  BY DEF IInv, RetriesLeft, TypeOK
<1> QED
  BY <1>1, <1>2, <1>3, <1>4 DEF IInv

LEMMA ToggleShowKeeps == IInv /\ ToggleShow => IInv'
<1> SUFFICES ASSUME IInv, ToggleShow PROVE IInv'
  OBVIOUS
<1> USE DEF ToggleShow, counts
<1>1. TypeOK'
  <2>1. show' \in BOOLEAN
    BY DEF IInv, TypeOK
  <2>2. raised' \in Nat
    BY DEF IInv, TypeOK
  <2> QED
    BY <2>1, <2>2 DEF IInv, TypeOK
<1>2. ToldOnce'
  BY DEF IInv, ToldOnce, TypeOK
<1>3. SourceFails' /\ RetriesLeft'
  BY DEF IInv, SourceFails, RetriesLeft, Failing
<1>4. Counted' /\ Endured'
  BY DEF IInv, Counted, Endured, Failing, Retries
<1> QED
  BY <1>1, <1>2, <1>3, <1>4 DEF IInv

-----------------------------------------------------------------------------

\* IInv is inductive.
LEMMA NextKeeps == IInv /\ [Next]_vars => IInv'
<1> SUFFICES ASSUME IInv, [Next]_vars PROVE IInv'
  OBVIOUS
<1>1. ASSUME NEW t \in Tile, RequestTile(t) \/ TileLoads(t) \/ OnTileLoadError(t) PROVE IInv'
  BY <1>1, RequestTileKeeps, TileLoadsKeeps, OnTileLoadErrorKeeps
<1>2. ASSUME NEW t \in Tile, CheckFails(t) \/ CheckIsIgnored(t) \/ ServerError(t) PROVE IInv'
  BY <1>2, CheckFailsKeeps, CheckIsIgnoredKeeps, ServerErrorKeeps
<1>3. ASSUME NEW t \in Tile, CheckSucceeds(t) \/ NextAttempt(t) PROVE IInv'
  BY <1>3, CheckSucceedsKeeps, NextAttemptKeeps
<1>4. CASE ToggleShow
  BY <1>4, ToggleShowKeeps
<1>5. CASE UNCHANGED vars
  <2>1. UNCHANGED vars
    BY <1>5
  <2>2. Counted' /\ Endured'
    BY <2>1, CountsKept DEF vars, counts
  <2> QED
    BY <2>1, <2>2 DEF vars, counts, IInv, TypeOK, ToldOnce, SourceFails, Failing, RetriesLeft
<1> QED
  BY <1>1, <1>2, <1>3, <1>4, <1>5 DEF Next

\* The layer's counts have their types, and no operation of the retry library is
\* asked for more retries than tileRetryOptions allows.
THEOREM TypeCorrect == Spec => [](TypeOK /\ RetriesLeft)
<1>1. Spec => []IInv
  BY InitIInv, NextKeeps, PTL DEF Spec
<1>2. IInv => TypeOK /\ RetriesLeft
  BY DEF IInv
<1> QED
  BY <1>1, <1>2, PTL

\* failTile tells the user once, however many tiles fail together.
THEOREM UserToldOnce == Spec => []ToldOnce
<1>1. Spec => []IInv
  BY InitIInv, NextKeeps, PTL DEF Spec
<1>2. IInv => ToldOnce
  BY DEF IInv
<1> QED
  BY <1>1, <1>2, PTL

\* A tile that no load helps is retried by the map at most MaxRetriesByMap times for each
\* source of the layer: its own first error comes before its first retry, and each other
\* source clears the counts once (TileErrorHandlerMixin.ts:210-214, 243-252).
THEOREM TileIsGivenUp == Spec => []GivesUp
<1>1. Spec => []IInv
  BY InitIInv, NextKeeps, PTL DEF Spec
<1>2. ASSUME IInv PROVE GivesUp
  <2> SUFFICES ASSUME NEW t \in Tile, ~helped[t]
               PROVE  pressed[t] <= MaxRetriesByMap * Cardinality(Source)
    BY DEF GivesUp
  <2> DEFINE n == MaxRetriesByMap * Cardinality(Failing)
             m == MaxRetriesByMap * Cardinality(Source)
  <2>1. MaxRetriesByMap \in Nat /\ pressed[t] \in Nat /\ Retries(t) \in 0 .. MaxRetriesByMap
    BY <1>2, RetriesTyped, TileAssumption DEF TileAssumption, IInv, TypeOK
  <2>2. n \in Nat /\ m \in Nat /\ n <= m
    BY <2>1, FailingFinite, Times, TimesMonotone
  <2>3. pressed[t] > 0 => pressed[t] + MaxRetriesByMap <= Retries(t) + n
    BY <1>2 DEF IInv, Counted
  <2> HIDE DEF n, m, Retries
  <2>4. pressed[t] <= m
    BY <2>1, <2>2, <2>3
  <2> QED BY <2>4 DEF m
<1> QED
  BY <1>1, <1>2, PTL

\* While no tile loads, the failures of the layer are forgotten once for each source that
\* draws it, so that an outage hides the layer, however many tiles fail side by side
\* (TileErrorHandlerMixin.ts:119-163, 210-214).
THEOREM OutageIsCounted == Spec => []OutageHides
<1>1. Spec => []IInv
  BY InitIInv, NextKeeps, PTL DEF Spec
<1>2. ASSUME IInv PROVE OutageHides
  <2> DEFINE n == Threshold * Cardinality(Failing)
             m == Threshold * Cardinality(Source)
  <2>1. Threshold \in Nat /\ failed \in Nat /\ tileFailures \in Nat
    BY <1>2, TileAssumption DEF TileAssumption, IInv, TypeOK
  <2>2. n \in Nat /\ m \in Nat /\ n <= m /\ Threshold * (Cardinality(Source) + 1) = m + Threshold
    BY <2>1, FailingFinite, Times, TimesMonotone
  <2>3. failed > 0 => tileFailures <= Threshold /\ failed <= tileFailures + n
    BY <1>2 DEF IInv, Endured
  <2> HIDE DEF n, m
  <2>4. failed <= m + Threshold
    BY <2>1, <2>2, <2>3
  <2> QED BY <2>2, <2>4 DEF OutageHides
<1> QED
  BY <1>1, <1>2, PTL

-----------------------------------------------------------------------------
(* FeatureHighlight *)

\* A call that has yet to remove the highlight before.
Removing(c) == c.stage \in {"waiting", "clearing"}

\* Only a call that loads the item has an id, and only one that waits an id it waits for;
\* no viewer that is to come has anything.
Placed ==
  /\ \A i \in 1..Len(calls) : LET c == calls[i] IN
       /\ c.viewer <= viewer
       /\ c.id # 0 <=> c.stage \in {"loading", "loaded"}
       /\ c.id # 0 => c.feature \in Region
       /\ c.waits # 0 => c.stage = "waiting"
  /\ \A v \in Viewer : v > viewer => callback[v] = NoCallback

\* Nothing is left to remove or to draw.
NoneLeft == \A j \in 1..Len(calls) : ~Pending(calls[j]) /\ ~Removing(calls[j])

\* Call p has what is selected yet to draw, after all that is left to remove or to draw.
LastIs(p) ==
  /\ Pending(calls[p]) /\ calls[p].feature = selected /\ calls[p].viewer = viewer
  /\ \A j \in 1..Len(calls) : j > p => ~Pending(calls[j]) /\ ~Removing(calls[j])

\* What is selected is drawn, or loads.
Shown ==
  /\ selected \in Styled => selected \in highlighted
  /\ selected \in Region =>
       /\ item.feature = selected
       /\ \E id \in LoadId :
            /\ callback[viewer] = [kind |-> "item", id |-> id]
            /\ item.show \/ \E i \in 1..Len(calls) : calls[i].viewer = viewer /\ calls[i].id = id

Comes ==
  past # "late" /\ selected \in Drawn =>
    (\E p \in 1..Len(calls) : LastIs(p)) \/ (NoneLeft /\ Shown)

\* If calls never overlap but for those that draw nothing, one has something to draw.
OneDrawn ==
  \A i \in 1..Len(calls) : calls[i].feature \in Drawn =>
    /\ calls[i].feature = selected /\ calls[i].viewer = viewer
    /\ \A j \in 1..Len(calls) : calls[j].feature \in Drawn => i = j

\* What is highlighted is selected, and its callback will restore its own style.
OneHighlighted ==
  /\ highlighted # {} =>
       /\ NoneLeft /\ highlighted = {selected}
       /\ callback[viewer] = [kind |-> "style", feature |-> selected, was |-> FALSE]
  /\ callback[viewer].kind = "style" => ~callback[viewer].was

\* The region that is visible is selected, or a call waits to hide it.
OneVisible ==
  Visible =>
    \/ NoneLeft /\ selected \in Region /\ item.feature = selected
    \/ \E i \in 1..Len(calls) : /\ calls[i].viewer = viewer /\ calls[i].stage = "waiting"
                                /\ callback[viewer] = [kind |-> "item", id |-> calls[i].waits]

NothingElse == past = "orderly" => OneDrawn /\ OneHighlighted /\ OneVisible

HighlightInv == HighlightTypeOK /\ Placed /\ Comes /\ NothingElse

LEMMA InitHighlightInv == HighlightInit => HighlightInv
<1> SUFFICES ASSUME HighlightInit PROVE HighlightInv
  OBVIOUS
<1>1. Len(calls) = 0 /\ calls \in Seq(Call) /\ 1..Len(calls) = {}
  BY DEF HighlightInit
<1>2. 1 \in Viewer
  BY HighlightAssumption DEF Viewer
<1>3. HighlightTypeOK
  BY <1>1, <1>2, HighlightAssumption DEF HighlightInit, HighlightTypeOK, Feature, Callback
<1>4. Placed
  BY <1>1, <1>2 DEF HighlightInit, Placed
<1>5. Comes
  BY HighlightAssumption DEF HighlightInit, Comes, Drawn
<1>6. NothingElse
  BY <1>1, <1>2 DEF HighlightInit, NothingElse, OneDrawn, OneHighlighted, OneVisible, Visible,
                    NoCallback
<1> QED BY <1>3, <1>4, <1>5, <1>6 DEF HighlightInv

\* The calls as they are without call i.
LEMMA CallEnded ==
  ASSUME HighlightTypeOK, NEW i \in 1..Len(calls)
  PROVE  LET others == Lists!RemoveAt(calls, i) IN
         /\ others \in Seq(Call) /\ Len(others) = Len(calls) - 1
         /\ \A k \in 1..Len(others) : others[k] = IF k < i THEN calls[k] ELSE calls[k + 1]
<1>1. calls \in Seq(Call)
  BY DEF HighlightTypeOK
<1> QED BY <1>1, TakenOut DEF Lists!RemoveAt

LEMMA CallIs ==
  ASSUME HighlightTypeOK, NEW i \in 1..Len(calls)
  PROVE  /\ calls[i] \in Call /\ calls[i].id \in LoadId \union {0}
         /\ calls[i].viewer \in Viewer /\ calls[i].feature \in Feature
         /\ calls[i].waits \in LoadId \union {0}
         /\ calls[i].stage \in {"waiting", "clearing", "importing", "loading", "loaded"}
<1>1. calls[i] \in Call
  BY DEF HighlightTypeOK
<1> QED BY <1>1 DEF Call

\* What a call says that has just begun.
LEMMA CallBegins ==
  ASSUME HighlightTypeOK, NEW f \in Feature, Called(viewer, f)
  PROVE  \E c \in Call :
           /\ calls' = Append(calls, c)
           /\ c.viewer = viewer /\ c.feature = f /\ c.id = 0
           /\ c.stage \in {"waiting", "clearing", "importing"}
           /\ c.waits # 0 => c.stage = "waiting"
           /\ callback[viewer].kind = "item" => c.stage = "waiting" /\ c.waits = callback[viewer].id
<1> DEFINE call(waits, stage) == [id |-> 0, viewer |-> viewer, feature |-> f, waits |-> waits,
                                  stage |-> stage]
<1>1. viewer \in Viewer /\ callback[viewer] \in Callback
  BY DEF HighlightTypeOK
<1>2. CASE callback[viewer] = NoCallback
  <2>1. calls' = Append(calls, call(0, "importing"))
    BY <1>2 DEF Called, NoCallback
  <2>2. call(0, "importing") \in Call
    BY <1>1 DEF Call
  <2> QED BY <1>2, <2>1, <2>2 DEF NoCallback
<1>3. CASE callback[viewer] \in [kind : {"item"}, id : LoadId]
  <2>1. calls' = Append(calls, call(callback[viewer].id, "waiting"))
    BY <1>3 DEF Called
  <2>2. call(callback[viewer].id, "waiting") \in Call
    BY <1>1, <1>3 DEF Call
  <2> QED BY <2>1, <2>2
<1>4. CASE callback[viewer] \in [kind : {"style"}, feature : Styled, was : BOOLEAN]
  <2>1. calls' = Append(calls, call(0, "clearing"))
    BY <1>4 DEF Called
  <2>2. call(0, "clearing") \in Call
    BY <1>1 DEF Call
  <2> QED BY <1>4, <2>1, <2>2
<1> QED BY <1>1, <1>2, <1>3, <1>4 DEF Callback

\* A call that begins last has to draw what is selected.
LEMMA BeginningKeeps ==
  ASSUME HighlightInv, viewer' \in Viewer, viewer <= viewer', NEW c \in Call,
         calls' = Append(calls, c),
         c.viewer = viewer', c.feature = selected', c.id = 0,
         c.stage \in {"waiting", "clearing", "importing"},
         c.waits # 0 => c.stage = "waiting",
         \A v \in Viewer : v > viewer' => callback'[v] = NoCallback
  PROVE  /\ Placed'
         /\ Comes'
         /\ calls' \in Seq(Call) /\ Len(calls') = Len(calls) + 1
         /\ \A i \in 1..Len(calls) : calls'[i] = calls[i]
         /\ calls'[Len(calls) + 1] = c
<1>1. calls \in Seq(Call) /\ Len(calls) \in Nat
  BY DEF HighlightInv, HighlightTypeOK
<1>2. /\ calls' \in Seq(Call) /\ Len(calls') = Len(calls) + 1
      /\ \A i \in 1..Len(calls) : calls'[i] = calls[i]
      /\ calls'[Len(calls) + 1] = c
  BY <1>1
<1>3. Placed'
  <2> SUFFICES ASSUME NEW i \in 1..Len(calls') PROVE LET d == calls'[i] IN
                 /\ d.viewer <= viewer'
                 /\ d.id # 0 <=> d.stage \in {"loading", "loaded"}
                 /\ d.id # 0 => d.feature \in Region
                 /\ d.waits # 0 => d.stage = "waiting"
    BY DEF Placed
  <2>1. CASE i \in 1..Len(calls)
    <3>1. calls[i].viewer \in Viewer /\ viewer \in Viewer
      BY <2>1, CallIs DEF HighlightInv, HighlightTypeOK
    <3> QED BY <1>2, <2>1, <3>1 DEF HighlightInv, Placed, Viewer
  <2>2. CASE i = Len(calls) + 1
    BY <1>2, <2>2 DEF Viewer
  <2> QED BY <1>1, <1>2, <2>1, <2>2
<1>4. ASSUME selected' \in Drawn, NEW p \in 1..Len(calls'), p = Len(calls) + 1 PROVE LastIs(p)'
  BY <1>1, <1>2, <1>4 DEF LastIs, Pending, Drawn
<1>5. Comes'
  <2>1. Len(calls) + 1 \in 1..Len(calls')
    BY <1>1, <1>2
  <2> QED BY <1>4, <2>1 DEF Comes
<1> QED BY <1>2, <1>3, <1>5

LEMMA SelectKeeps ==
  ASSUME HighlightInv, NEW f \in Feature, Select(f)
  PROVE  HighlightInv'
<1>1. PICK c \in Call :
        /\ calls' = Append(calls, c)
        /\ c.viewer = viewer /\ c.feature = f /\ c.id = 0
        /\ c.stage \in {"waiting", "clearing", "importing"}
        /\ c.waits # 0 => c.stage = "waiting"
        /\ callback[viewer].kind = "item" => c.stage = "waiting" /\ c.waits = callback[viewer].id
  BY CallBegins DEF HighlightInv, Select
<1>2. viewer' = viewer /\ selected' = f /\ callback' = callback /\ item' = item
  BY DEF Select
<1>3. /\ viewer \in Viewer /\ viewer \in Nat
      /\ \A v \in Viewer : v > viewer => callback[v] = NoCallback
  BY DEF HighlightInv, HighlightTypeOK, Viewer, Placed
<1>4. /\ Placed'
      /\ Comes'
      /\ calls' \in Seq(Call) /\ Len(calls') = Len(calls) + 1
      /\ \A i \in 1..Len(calls) : calls'[i] = calls[i]
      /\ calls'[Len(calls) + 1] = c
  BY <1>1, <1>2, <1>3, BeginningKeeps
<1>5. Len(calls) \in Nat
  BY DEF HighlightInv, HighlightTypeOK
<1>6. HighlightTypeOK'
  <2>1. highlighted' \subseteq Styled
    <3>1. highlighted' = Restored(viewer) /\ highlighted \subseteq Styled
      BY DEF Select, Called, HighlightInv, HighlightTypeOK
    <3>2. callback[viewer].kind = "style" => callback[viewer].feature \in Styled
      BY <1>3 DEF HighlightInv, HighlightTypeOK, NoCallback, Callback
    <3> QED BY <3>1, <3>2 DEF Restored
  <2>2. past' \in {"orderly", "overtaken", "late"}
    BY DEF HighlightInv, HighlightTypeOK, Select
  <2>3. Len(calls') <= MaxCalls
    BY <1>4, <1>5, HighlightAssumption DEF Select
  <2> QED BY <1>2, <1>4, <2>1, <2>2, <2>3 DEF HighlightInv, HighlightTypeOK
<1>7. ASSUME past' = "orderly" PROVE OneDrawn' /\ OneHighlighted' /\ OneVisible'
  <2>1. /\ past = "orderly"
        /\ \A i \in 1..Len(calls) : calls[i].feature \notin Drawn
    BY <1>7 DEF Select, Overtaken, Calls
  <2>2. OneHighlighted /\ OneVisible
    BY <2>1 DEF HighlightInv, NothingElse
  <2>3. OneDrawn'
    BY <1>1, <1>2, <1>4, <1>5, <2>1 DEF OneDrawn
  <2>4. highlighted' = {}
    BY <1>3, <2>2 DEF Select, Called, Restored, OneHighlighted
  <2>5. OneHighlighted'
    BY <1>2, <2>2, <2>4 DEF OneHighlighted
  <2>6. OneVisible'
    <3> SUFFICES ASSUME Visible
                 PROVE  \E i \in 1..Len(calls') :
                          /\ calls'[i].viewer = viewer /\ calls'[i].stage = "waiting"
                          /\ callback[viewer] = [kind |-> "item", id |-> calls'[i].waits]
      BY <1>2 DEF OneVisible, Visible
    <3>1. CASE NoneLeft /\ selected \in Region /\ item.feature = selected
      <4>1. Shown
        BY <2>1, <3>1 DEF HighlightInv, Comes, NoneLeft, LastIs, Drawn
      <4>2. PICK id \in LoadId : callback[viewer] = [kind |-> "item", id |-> id]
        BY <3>1, <4>1 DEF Shown
      <4>3. c.stage = "waiting" /\ c.waits = id
        BY <1>1, <4>2
      <4> QED BY <1>1, <1>4, <1>5, <4>2, <4>3
    <3>2. CASE \E i \in 1..Len(calls) :
                 /\ calls[i].viewer = viewer /\ calls[i].stage = "waiting"
                 /\ callback[viewer] = [kind |-> "item", id |-> calls[i].waits]
      BY <1>4, <1>5, <3>2
    <3> QED BY <2>2, <3>1, <3>2 DEF OneVisible
  <2> QED BY <2>3, <2>5, <2>6
<1> QED BY <1>4, <1>6, <1>7 DEF HighlightInv, NothingElse

LEMMA SwitchViewerKeeps ==
  ASSUME HighlightInv, NEW v \in Viewer, SwitchViewer(v)
  PROVE  HighlightInv'
<1> DEFINE c == [id |-> 0, viewer |-> v, feature |-> selected, waits |-> 0, stage |-> "importing"]
<1>1. calls' = Append(calls, c) /\ viewer' = v /\ v = viewer + 1 /\ viewer \in Nat
  BY DEF SwitchViewer, HighlightInv, HighlightTypeOK, Viewer
<1>2. selected' = selected /\ item' = item /\ highlighted' = highlighted
  BY DEF SwitchViewer
<1>3. c \in Call
  BY DEF Call, HighlightInv, HighlightTypeOK
<1>4. /\ callback' \in [Viewer -> {callback[u] : u \in Viewer} \union {NoCallback}]
      /\ \A u \in Viewer : u >= v => callback'[u] = NoCallback
  BY <1>1 DEF SwitchViewer, InUse, HighlightInv, Placed, Viewer
<1>5. /\ Placed'
      /\ Comes'
      /\ calls' \in Seq(Call) /\ Len(calls') = Len(calls) + 1
      /\ \A i \in 1..Len(calls) : calls'[i] = calls[i]
      /\ calls'[Len(calls) + 1] = c
  BY <1>1, <1>2, <1>3, <1>4, BeginningKeeps DEF Viewer
<1>6. Len(calls) \in Nat
  BY DEF HighlightInv, HighlightTypeOK
<1>7. HighlightTypeOK'
  <2>1. callback' \in [Viewer -> Callback]
    BY <1>4 DEF HighlightInv, HighlightTypeOK, Callback
  <2>2. past' \in {"orderly", "overtaken", "late"}
    BY DEF HighlightInv, HighlightTypeOK, SwitchViewer
  <2>3. Len(calls') <= MaxCalls
    BY <1>5, <1>6, HighlightAssumption DEF SwitchViewer
  <2> QED BY <1>1, <1>2, <1>5, <2>1, <2>2, <2>3 DEF HighlightInv, HighlightTypeOK
<1>8. ASSUME past' = "orderly" PROVE OneDrawn' /\ OneHighlighted' /\ OneVisible'
  <2>1. /\ past = "orderly" /\ highlighted = {} /\ ~Visible
        /\ \A i \in 1..Len(calls) : calls[i].feature \notin Drawn
    BY <1>8 DEF SwitchViewer, Overtaken, Calls
  <2>2. OneDrawn'
    BY <1>1, <1>2, <1>5, <1>6, <2>1 DEF OneDrawn
  <2>3. OneHighlighted' /\ OneVisible'
    BY <1>1, <1>2, <1>4, <2>1 DEF OneHighlighted, OneVisible, Visible, NoCallback, Viewer
  <2> QED BY <2>2, <2>3
<1> QED BY <1>5, <1>7, <1>8 DEF HighlightInv, NothingElse

LEMMA HideKeeps ==
  ASSUME HighlightInv, NEW v \in Viewer, NEW id \in LoadId, Hide(v, id)
  PROVE  HighlightInv'
<1> DEFINE W == WaitingFor(v, id)
<1>1. calls \in Seq(Call) /\ Len(calls) \in Nat /\ DOMAIN calls = 1..Len(calls)
  BY DEF HighlightInv, HighlightTypeOK
<1>2. PICK w \in 1..Len(calls) : w \in W
  BY <1>1 DEF Hide, WaitingFor
<1>3. \A i \in 1..Len(calls) : i \in W <=>
        calls[i].viewer = v /\ calls[i].stage = "waiting" /\ calls[i].waits = id
  BY <1>1 DEF WaitingFor
<1> HIDE DEF W
<1>4. calls' = [i \in 1..Len(calls) |-> IF i \in W
                  THEN [calls[i] EXCEPT !.stage = "clearing", !.waits = 0] ELSE calls[i]]
  BY <1>1, Zenon DEF Hide, W
<1>5. ASSUME NEW i \in 1..Len(calls)
      PROVE  /\ calls'[i] \in Call
             /\ calls'[i].viewer = calls[i].viewer /\ calls'[i].feature = calls[i].feature
             /\ calls'[i].id = calls[i].id
             /\ i \notin W => calls'[i] = calls[i]
             /\ i \in W => calls[i].stage = "waiting" /\ calls'[i].stage = "clearing"
                           /\ calls'[i].waits = 0
  <2>1. calls[i] \in Call
    BY <1>1
  <2>2. calls'[i] = IF i \in W THEN [calls[i] EXCEPT !.stage = "clearing", !.waits = 0]
                               ELSE calls[i]
    BY <1>4
  <2> QED BY <1>3, <2>1, <2>2 DEF Call
<1>6. calls' \in Seq(Call) /\ Len(calls') = Len(calls)
  <2> DEFINE new(i) == IF i \in W THEN [calls[i] EXCEPT !.stage = "clearing", !.waits = 0]
                                  ELSE calls[i]
  <2> HIDE DEF new
  <2>1. calls' = [i \in 1..Len(calls) |-> new(i)]
    BY <1>4 DEF new
  <2>2. \A i \in 1..Len(calls) : new(i) \in Call
    BY <1>5, <2>1
  <2> QED BY <1>1, <2>1, <2>2
<1>7. \A i \in 1..Len(calls) : /\ Pending(calls'[i]) <=> Pending(calls[i])
                               /\ Removing(calls'[i]) <=> Removing(calls[i])
  BY <1>5 DEF Pending, Removing
<1>8. viewer' = viewer /\ selected' = selected /\ callback' = callback
      /\ highlighted' = highlighted /\ past' = past
  BY DEF Hide
<1>9. /\ item' = item \/ item'.show = FALSE
      /\ item' \in [feature : Region \union {Nothing}, show : BOOLEAN]
  BY DEF Hide, HighlightInv, HighlightTypeOK
<1>10. HighlightTypeOK'
  BY <1>6, <1>8, <1>9 DEF HighlightInv, HighlightTypeOK
<1>11. Placed'
  BY <1>5, <1>6, <1>8 DEF HighlightInv, Placed
<1>12. ~NoneLeft
  BY <1>2, <1>3 DEF NoneLeft, Removing
<1>13. Comes'
  <2>1. ASSUME NEW p \in 1..Len(calls), LastIs(p) PROVE LastIs(p)'
    BY <1>5, <1>6, <1>7, <1>8, <2>1 DEF LastIs
  <2> QED BY <1>6, <1>8, <1>12, <2>1 DEF HighlightInv, Comes
<1>14. ASSUME past = "orderly" PROVE OneDrawn' /\ OneHighlighted' /\ OneVisible'
  <2>1. OneDrawn /\ OneHighlighted /\ OneVisible
    BY <1>14 DEF HighlightInv, NothingElse
  <2>2. OneDrawn'
    BY <1>5, <1>6, <1>8, <2>1 DEF OneDrawn
  <2>3. OneHighlighted'
    BY <1>8, <1>12, <2>1 DEF OneHighlighted
  <2>4. OneVisible'
    <3> SUFFICES ASSUME Visible' PROVE \E i \in 1..Len(calls') :
                   /\ calls'[i].viewer = viewer' /\ calls'[i].stage = "waiting"
                   /\ callback'[viewer'] = [kind |-> "item", id |-> calls'[i].waits]
      BY DEF OneVisible
    <3>1. callback[v] # [kind |-> "item", id |-> id] /\ Visible
      BY DEF Hide, Visible, HighlightInv, HighlightTypeOK
    <3>2. PICK i \in 1..Len(calls) :
            /\ calls[i].viewer = viewer /\ calls[i].stage = "waiting"
            /\ callback[viewer] = [kind |-> "item", id |-> calls[i].waits]
      BY <1>12, <2>1, <3>1 DEF OneVisible
    <3>3. i \notin W
      BY <1>3, <3>1, <3>2
    <3> QED BY <1>5, <1>6, <1>8, <3>2, <3>3
  <2> QED BY <2>2, <2>3, <2>4
<1> QED BY <1>8, <1>10, <1>11, <1>13, <1>14 DEF HighlightInv, NothingElse

\* Nothing is left but call i.
NoneLeftBut(i) ==
  \A j \in 1..Len(calls) : j # i => ~Pending(calls[j]) /\ ~Removing(calls[j])

\* A call that is about to draw, while none waits, has what is selected after it or is
\* the last that has something to do.
LEMMA DrawingNext ==
  ASSUME HighlightInv, NEW i \in 1..Len(calls), IsFirst(i, "importing"),
         calls[i].feature \in Drawn, PastWaiting # "late"
  PROVE  /\ past # "late" /\ PastWaiting = past /\ ~NoneLeft
         /\ \A j \in 1..Len(calls) : calls[j].stage # "waiting"
         /\ LastIs(i) => NoneLeftBut(i)
         /\ selected \in Drawn => \E p \in 1..Len(calls) : p >= i /\ LastIs(p)
<1>1. calls \in Seq(Call) /\ Len(calls) \in Nat /\ DOMAIN calls = 1..Len(calls)
  BY DEF HighlightInv, HighlightTypeOK
<1>2. past # "late" /\ PastWaiting = past /\ \A j \in 1..Len(calls) : calls[j].stage # "waiting"
  BY <1>1 DEF PastWaiting, Calls
<1>3. calls[i].stage = "importing" /\ Pending(calls[i])
  BY DEF IsFirst, Pending
<1>4. ~NoneLeft
  BY <1>3 DEF NoneLeft
<1>5. ASSUME LastIs(i), NEW j \in 1..Len(calls), j # i
      PROVE  ~Pending(calls[j]) /\ ~Removing(calls[j])
  <2>1. CASE j > i
    BY <1>5, <2>1 DEF LastIs
  <2>2. CASE j < i
    <3>1. j \in 1..(i - 1)
      BY <1>1, <2>2
    <3>2. calls[j].stage # "importing" /\ calls[j].stage # "clearing"
      BY <3>1 DEF IsFirst, Returning
    <3> QED BY <1>2, <3>2 DEF Pending, Removing
  <2> QED BY <1>1, <1>5, <2>1, <2>2
<1>6. ASSUME selected \in Drawn
      PROVE  \E p \in 1..Len(calls) : p >= i /\ LastIs(p)
  <2>1. PICK p \in 1..Len(calls) : LastIs(p)
    BY <1>2, <1>4, <1>6 DEF HighlightInv, Comes
  <2>2. ~(i > p)
    BY <1>3, <2>1 DEF LastIs
  <2> QED BY <1>1, <2>1, <2>2
<1> QED BY <1>2, <1>4, <1>5, <1>6 DEF NoneLeftBut

\* If no call overtook another, it draws what is selected, where nothing is drawn.
LEMMA DrawingAlone ==
  ASSUME HighlightInv, NEW i \in 1..Len(calls), IsFirst(i, "importing"),
         calls[i].feature \in Drawn, PastWaiting = "orderly"
  PROVE  /\ calls[i].feature = selected /\ calls[i].viewer = viewer
         /\ \A j \in 1..Len(calls) : j # i => calls[j].feature \notin Drawn
         /\ NoneLeftBut(i)
         /\ highlighted = {} /\ ~Visible
<1>1. /\ past = "orderly" /\ ~NoneLeft
      /\ \A j \in 1..Len(calls) : calls[j].stage # "waiting"
      /\ LastIs(i) => NoneLeftBut(i)
      /\ selected \in Drawn => \E p \in 1..Len(calls) : p >= i /\ LastIs(p)
  BY DrawingNext
<1>2. OneDrawn /\ OneHighlighted /\ OneVisible
  BY <1>1 DEF HighlightInv, NothingElse
<1>3. /\ calls[i].feature = selected /\ calls[i].viewer = viewer
      /\ \A j \in 1..Len(calls) : j # i => calls[j].feature \notin Drawn
  BY <1>2 DEF OneDrawn
<1>4. LastIs(i)
  BY <1>1, <1>3 DEF LastIs, Pending
<1>5. highlighted = {} /\ ~Visible
  BY <1>1, <1>2 DEF OneHighlighted, OneVisible
<1> QED BY <1>1, <1>3, <1>4, <1>5

\* What an action has to keep when call i ends.
LEMMA EndsKeeps ==
  ASSUME HighlightInv, NEW i \in 1..Len(calls), NEW callbacks, Ends(i, callbacks),
         callbacks \in [Viewer -> Callback],
         viewer' = viewer
  PROVE  /\ calls' \in Seq(Call) /\ Len(calls') = Len(calls) - 1
         /\ \A k \in 1..Len(calls') : calls'[k] = IF k < i THEN calls[k] ELSE calls[k + 1]
         /\ callback' \in [Viewer -> Callback]
         /\ callback'[viewer] = callbacks[viewer]
         /\ Placed'
<1> DEFINE others == Lists!RemoveAt(calls, i)
<1>1. /\ others \in Seq(Call) /\ Len(others) = Len(calls) - 1
      /\ \A k \in 1..Len(others) : others[k] = IF k < i THEN calls[k] ELSE calls[k + 1]
  BY CallEnded DEF HighlightInv
<1>2. calls' = others /\ callback' = InUse(callbacks, others, viewer)
  BY DEF Ends
<1> HIDE DEF others
<1>3. viewer \in Viewer /\ Len(calls) \in Nat /\ calls \in Seq(Call)
  BY DEF HighlightInv, HighlightTypeOK
<1>4. DOMAIN others = 1..Len(others)
  BY <1>1
<1>5. ASSUME NEW k \in 1..Len(others)
      PROVE  \E j \in 1..Len(calls) : others[k] = calls[j]
  <2>1. k \in 1..Len(calls) /\ k + 1 \in 1..Len(calls)
    BY <1>1, <1>3
  <2> QED BY <1>1, <2>1
<1>6. /\ callback'[viewer] = callbacks[viewer]
      /\ callback' \in [Viewer -> Callback]
  BY <1>2, <1>3 DEF InUse, Callback
<1>7. ASSUME NEW v \in Viewer, v > viewer PROVE callback'[v] = NoCallback
  <2>1. \A j \in 1..Len(calls) : calls[j].viewer \in Viewer /\ calls[j].viewer <= viewer
    BY CallIs DEF HighlightInv, Placed
  <2>2. \A k \in 1..Len(others) : others[k].viewer # v
    BY <1>3, <1>5, <1>7, <2>1 DEF Viewer
  <2>3. v # viewer
    BY <1>3, <1>7 DEF Viewer
  <2> QED BY <1>2, <1>4, <2>2, <2>3 DEF InUse
<1>8. Placed'
  BY <1>2, <1>5, <1>7 DEF HighlightInv, Placed
<1> QED BY <1>1, <1>2, <1>6, <1>8

\* The calls that are left when call i ends, and none that is not.
LEMMA OthersStay ==
  ASSUME HighlightTypeOK, NEW i \in 1..Len(calls), Len(calls') = Len(calls) - 1,
         \A k \in 1..Len(calls') : calls'[k] = IF k < i THEN calls[k] ELSE calls[k + 1],
         viewer' = viewer, selected' = selected
  PROVE  /\ \A j \in 1..Len(calls) : j # i => \E k \in 1..Len(calls') : calls'[k] = calls[j]
         /\ \A k \in 1..Len(calls') : \E j \in 1..Len(calls) : j # i /\ calls'[k] = calls[j]
         /\ \A p \in 1..Len(calls) : p # i /\ LastIs(p) => \E q \in 1..Len(calls') : LastIs(q)'
         /\ NoneLeftBut(i) => NoneLeft'
         /\ OneDrawn => OneDrawn'
<1> DEFINE new(j) == IF j < i THEN j ELSE j - 1
           old(k) == IF k < i THEN k ELSE k + 1
<1>1. Len(calls) \in Nat /\ i \in Nat
  BY DEF HighlightTypeOK
<1>2. ASSUME NEW k \in 1..Len(calls')
      PROVE  /\ old(k) \in 1..Len(calls) /\ old(k) # i /\ calls'[k] = calls[old(k)]
             /\ new(old(k)) = k
  BY <1>1
<1>3. ASSUME NEW j \in 1..Len(calls), j # i
      PROVE  /\ new(j) \in 1..Len(calls') /\ calls'[new(j)] = calls[j] /\ old(new(j)) = j
  <2>1. new(j) \in 1..Len(calls') /\ old(new(j)) = j
    BY <1>1, <1>3
  <2> QED BY <1>2, <2>1
<1>4. \A k, l \in 1..Len(calls') : k > l => old(k) > old(l)
  BY <1>1
<1> HIDE DEF new, old
<1>5. ASSUME NEW p \in 1..Len(calls), p # i, LastIs(p)
      PROVE  \E q \in 1..Len(calls') : LastIs(q)'
  <2>1. PICK q \in 1..Len(calls') : q = new(p) /\ calls'[q] = calls[p] /\ old(q) = p
    BY <1>3, <1>5
  <2>2. ASSUME NEW k \in 1..Len(calls'), k > q
        PROVE  ~Pending(calls'[k]) /\ ~Removing(calls'[k])
    BY <1>2, <1>4, <1>5, <2>1, <2>2 DEF LastIs
  <2>3. Pending(calls'[q]) /\ calls'[q].feature = selected /\ calls'[q].viewer = viewer
    BY <1>5, <2>1 DEF LastIs
  <2>4. LastIs(q)'
    BY <2>2, <2>3 DEF LastIs
  <2> QED BY <2>4
<1>6. NoneLeftBut(i) => NoneLeft'
  BY <1>2 DEF NoneLeftBut, NoneLeft
<1>7. OneDrawn => OneDrawn'
  <2> SUFFICES ASSUME OneDrawn, NEW k \in 1..Len(calls'), calls'[k].feature \in Drawn
               PROVE  /\ calls'[k].feature = selected /\ calls'[k].viewer = viewer
                      /\ \A l \in 1..Len(calls') : calls'[l].feature \in Drawn => k = l
    BY DEF OneDrawn
  <2>1. /\ calls[old(k)].feature = selected /\ calls[old(k)].viewer = viewer
        /\ \A j \in 1..Len(calls) : calls[j].feature \in Drawn => old(k) = j
    BY <1>2 DEF OneDrawn
  <2>2. ASSUME NEW l \in 1..Len(calls'), calls'[l].feature \in Drawn PROVE k = l
    <3>1. old(k) = old(l)
      BY <1>2, <2>1, <2>2
    <3> QED BY <1>2, <3>1
  <2> QED BY <1>2, <2>1, <2>2
<1> QED BY <1>2, <1>3, <1>5, <1>6, <1>7

\* What of the invariant is about calls that draw nothing, and stays when call i ends.
LEMMA NoneLeftStays ==
  ASSUME NoneLeft, NEW i \in 1..Len(calls) PROVE NoneLeftBut(i)
BY DEF NoneLeft, NoneLeftBut

LEMMA DrawStyledKeeps ==
  ASSUME HighlightInv, NEW i \in 1..Len(calls), DrawStyled(i)
  PROVE  HighlightInv'
<1> DEFINE style     == [kind |-> "style", feature |-> calls[i].feature,
                         was |-> calls[i].feature \in highlighted]
           callbacks == [callback EXCEPT ![calls[i].viewer] = style]
<1>1. /\ calls[i].viewer \in Viewer /\ calls[i].feature \in Styled
      /\ calls[i].feature \in Drawn /\ IsFirst(i, "importing")
  BY CallIs DEF HighlightInv, DrawStyled, Drawn
<1>2. style \in [kind : {"style"}, feature : Styled, was : BOOLEAN]
  BY <1>1
<1> HIDE DEF style
<1>3. callbacks \in [Viewer -> Callback]
  BY <1>2 DEF HighlightInv, HighlightTypeOK, Callback
<1>4. callbacks[calls[i].viewer] = style
  BY <1>1 DEF HighlightInv, HighlightTypeOK
<1>5. Ends(i, callbacks)
  BY DEF DrawStyled, style
<1> HIDE DEF callbacks
<1>6. /\ viewer' = viewer /\ selected' = selected /\ item' = item /\ past' = PastWaiting
      /\ highlighted' = highlighted \union {calls[i].feature}
  BY DEF DrawStyled
<1>7. /\ calls' \in Seq(Call) /\ Len(calls') = Len(calls) - 1
      /\ \A k \in 1..Len(calls') : calls'[k] = IF k < i THEN calls[k] ELSE calls[k + 1]
      /\ callback' \in [Viewer -> Callback]
      /\ callback'[viewer] = callbacks[viewer]
      /\ Placed'
  BY <1>3, <1>5, <1>6, EndsKeeps
<1>8. /\ \A k \in 1..Len(calls') : \E j \in 1..Len(calls) : j # i /\ calls'[k] = calls[j]
      /\ \A p \in 1..Len(calls) : p # i /\ LastIs(p) => \E q \in 1..Len(calls') : LastIs(q)'
      /\ NoneLeftBut(i) => NoneLeft'
  BY <1>6, <1>7, OthersStay DEF HighlightInv
<1>9. HighlightTypeOK'
  <2>1. Len(calls) \in Nat /\ Len(calls) - 1 <= MaxCalls
    BY HighlightAssumption DEF HighlightInv, HighlightTypeOK
  <2>2. past' \in {"orderly", "overtaken", "late"}
    BY <1>6 DEF PastWaiting, HighlightInv, HighlightTypeOK
  <2> QED BY <1>1, <1>6, <1>7, <2>1, <2>2 DEF HighlightInv, HighlightTypeOK
<1>10. Comes'
  <2> SUFFICES ASSUME PastWaiting # "late", selected \in Drawn
               PROVE  (\E q \in 1..Len(calls') : LastIs(q)') \/ (NoneLeft' /\ Shown')
    BY <1>6 DEF Comes
  <2>1. /\ LastIs(i) => NoneLeftBut(i)
        /\ \E p \in 1..Len(calls) : p >= i /\ LastIs(p)
    BY <1>1, DrawingNext
  <2>2. CASE LastIs(i)
    <3>1. calls[i].feature = selected
      BY <2>2 DEF LastIs
    <3>2. Shown'
      BY <1>1, <1>6, <3>1, HighlightAssumption DEF Shown
    <3> QED BY <1>8, <2>1, <2>2, <3>2
  <2> QED BY <1>8, <2>1, <2>2
<1>11. ASSUME past' = "orderly" PROVE OneDrawn' /\ OneHighlighted' /\ OneVisible'
  <2>1. /\ calls[i].feature = selected /\ calls[i].viewer = viewer
        /\ \A j \in 1..Len(calls) : j # i => calls[j].feature \notin Drawn
        /\ NoneLeftBut(i)
        /\ highlighted = {} /\ ~Visible
    BY <1>1, <1>6, <1>11, DrawingAlone
  <2>2. OneDrawn'
    BY <1>8, <2>1 DEF OneDrawn
  <2>3. callback'[viewer'] = style /\ highlighted' = {selected} /\ NoneLeft'
    BY <1>4, <1>6, <1>7, <1>8, <2>1
  <2>4. OneHighlighted'
    <3>1. style = [kind |-> "style", feature |-> selected, was |-> FALSE]
      <4>1. (calls[i].feature \in highlighted) = FALSE
        BY <2>1
      <4> QED BY <2>1, <4>1, Zenon DEF style
    <3> QED BY <1>6, <2>3, <3>1 DEF OneHighlighted
  <2>5. OneVisible'
    BY <1>6, <2>1 DEF OneVisible, Visible
  <2> QED BY <2>2, <2>4, <2>5
<1> QED BY <1>7, <1>9, <1>10, <1>11 DEF HighlightInv, NothingElse

LEMMA DrawNothingKeeps ==
  ASSUME HighlightInv, NEW i \in 1..Len(calls), DrawNothing(i)
  PROVE  HighlightInv'
<1>1. /\ calls[i].feature \notin Drawn /\ calls[i].stage = "importing" /\ Ends(i, callback)
      /\ viewer' = viewer /\ selected' = selected /\ item' = item /\ past' = past
      /\ highlighted' = highlighted
  BY DEF DrawNothing, IsFirst
<1>2. /\ calls' \in Seq(Call) /\ Len(calls') = Len(calls) - 1
      /\ \A k \in 1..Len(calls') : calls'[k] = IF k < i THEN calls[k] ELSE calls[k + 1]
      /\ callback' \in [Viewer -> Callback]
      /\ callback'[viewer] = callback[viewer]
      /\ Placed'
  BY <1>1, EndsKeeps DEF HighlightInv, HighlightTypeOK
<1>3. /\ \A j \in 1..Len(calls) : j # i => \E k \in 1..Len(calls') : calls'[k] = calls[j]
      /\ \A p \in 1..Len(calls) : p # i /\ LastIs(p) => \E q \in 1..Len(calls') : LastIs(q)'
      /\ NoneLeftBut(i) => NoneLeft'
      /\ OneDrawn => OneDrawn'
  BY <1>1, <1>2, OthersStay DEF HighlightInv
<1>4. HighlightTypeOK'
  <2>1. Len(calls) \in Nat /\ Len(calls) - 1 <= MaxCalls
    BY HighlightAssumption DEF HighlightInv, HighlightTypeOK
  <2> QED BY <1>1, <1>2, <2>1 DEF HighlightInv, HighlightTypeOK
<1>5. NoneLeft => NoneLeft'
  BY <1>3, NoneLeftStays
<1>6. Comes'
  <2> SUFFICES ASSUME past # "late", selected \in Drawn
               PROVE  (\E q \in 1..Len(calls') : LastIs(q)') \/ (NoneLeft' /\ Shown')
    BY <1>1 DEF Comes
  <2>1. CASE \E p \in 1..Len(calls) : LastIs(p)
    BY <1>1, <1>3, <2>1 DEF LastIs, Pending
  <2>2. CASE NoneLeft /\ Shown
    <3>1. calls[i].id = 0
      BY <1>1 DEF HighlightInv, Placed
    <3>2. ASSUME NEW id \in LoadId, NEW j \in 1..Len(calls),
                 calls[j].viewer = viewer, calls[j].id = id
          PROVE  \E k \in 1..Len(calls') : calls'[k].viewer = viewer /\ calls'[k].id = id
      BY <1>3, <3>1, <3>2 DEF LoadId
    <3>3. Shown'
      BY <1>1, <1>2, <2>2, <3>2 DEF Shown
    <3> QED BY <1>5, <2>2, <3>3
  <2> QED BY <2>1, <2>2 DEF HighlightInv, Comes
<1>7. ASSUME past = "orderly" PROVE OneDrawn' /\ OneHighlighted' /\ OneVisible'
  <2>1. OneDrawn /\ OneHighlighted /\ OneVisible
    BY <1>7 DEF HighlightInv, NothingElse
  <2>2. OneHighlighted'
    BY <1>1, <1>2, <1>5, <2>1 DEF OneHighlighted
  <2>3. ASSUME NEW j \in 1..Len(calls), calls[j].viewer = viewer, calls[j].stage = "waiting",
               callback[viewer] = [kind |-> "item", id |-> calls[j].waits]
        PROVE  \E k \in 1..Len(calls') :
                 /\ calls'[k].viewer = viewer /\ calls'[k].stage = "waiting"
                 /\ callback[viewer] = [kind |-> "item", id |-> calls'[k].waits]
    BY <1>1, <1>3, <2>3
  <2>4. OneVisible'
    BY <1>1, <1>2, <1>5, <2>1, <2>3 DEF OneVisible, Visible
  <2> QED BY <1>3, <2>1, <2>2, <2>4
<1> QED BY <1>1, <1>2, <1>4, <1>6, <1>7 DEF HighlightInv, NothingElse

LEMMA ShowKeeps ==
  ASSUME HighlightInv, NEW i \in 1..Len(calls), Show(i)
  PROVE  HighlightInv'
<1> DEFINE own == [kind |-> "item", id |-> calls[i].id]
<1>1. /\ calls[i].stage = "loaded" /\ Ends(i, callback)
      /\ viewer' = viewer /\ selected' = selected /\ past' = past
      /\ highlighted' = highlighted
      /\ item' = IF callback[calls[i].viewer] = own THEN [item EXCEPT !.show = TRUE] ELSE item
  BY DEF Show, IsFirst
<1>2. /\ item' \in [feature : Region \union {Nothing}, show : BOOLEAN]
      /\ item'.feature = item.feature /\ item.show => item'.show
      /\ item' = item \/ (callback[calls[i].viewer] = own /\ item'.show)
      /\ callback[calls[i].viewer] = own => item'.show
  BY <1>1 DEF HighlightInv, HighlightTypeOK
<1>3. /\ calls' \in Seq(Call) /\ Len(calls') = Len(calls) - 1
      /\ \A k \in 1..Len(calls') : calls'[k] = IF k < i THEN calls[k] ELSE calls[k + 1]
      /\ callback' \in [Viewer -> Callback]
      /\ callback'[viewer] = callback[viewer]
      /\ Placed'
  BY <1>1, EndsKeeps DEF HighlightInv, HighlightTypeOK
<1>4. /\ \A j \in 1..Len(calls) : j # i => \E k \in 1..Len(calls') : calls'[k] = calls[j]
      /\ \A p \in 1..Len(calls) : p # i /\ LastIs(p) => \E q \in 1..Len(calls') : LastIs(q)'
      /\ NoneLeftBut(i) => NoneLeft'
      /\ OneDrawn => OneDrawn'
  BY <1>1, <1>3, OthersStay DEF HighlightInv
<1>5. HighlightTypeOK'
  <2>1. Len(calls) \in Nat /\ Len(calls) - 1 <= MaxCalls
    BY HighlightAssumption DEF HighlightInv, HighlightTypeOK
  <2> QED BY <1>1, <1>2, <1>3, <2>1 DEF HighlightInv, HighlightTypeOK
<1>6. NoneLeft => NoneLeft'
  BY <1>4, NoneLeftStays
<1>7. Comes'
  <2> SUFFICES ASSUME past # "late", selected \in Drawn
               PROVE  (\E q \in 1..Len(calls') : LastIs(q)') \/ (NoneLeft' /\ Shown')
    BY <1>1 DEF Comes
  <2>1. CASE \E p \in 1..Len(calls) : LastIs(p)
    BY <1>1, <1>4, <2>1 DEF LastIs, Pending
  <2>2. CASE NoneLeft /\ Shown
    <3>1. ASSUME NEW id \in LoadId, NEW j \in 1..Len(calls),
                 calls[j].viewer = viewer, calls[j].id = id,
                 callback[viewer] = [kind |-> "item", id |-> id]
          PROVE  \/ item'.show
                 \/ \E k \in 1..Len(calls') : calls'[k].viewer = viewer /\ calls'[k].id = id
      BY <1>2, <1>4, <3>1
    <3>2. Shown'
      BY <1>1, <1>2, <1>3, <2>2, <3>1 DEF Shown
    <3> QED BY <1>6, <2>2, <3>2
  <2> QED BY <2>1, <2>2 DEF HighlightInv, Comes
<1>8. ASSUME past = "orderly" PROVE OneDrawn' /\ OneHighlighted' /\ OneVisible'
  <2>1. OneDrawn /\ OneHighlighted /\ OneVisible
    BY <1>8 DEF HighlightInv, NothingElse
  <2>2. OneHighlighted'
    BY <1>1, <1>3, <1>6, <2>1 DEF OneHighlighted
  <2>3. CASE item' = item
    <3>1. ASSUME NEW j \in 1..Len(calls), calls[j].viewer = viewer, calls[j].stage = "waiting",
                 callback[viewer] = [kind |-> "item", id |-> calls[j].waits]
          PROVE  \E k \in 1..Len(calls') :
                   /\ calls'[k].viewer = viewer /\ calls'[k].stage = "waiting"
                   /\ callback[viewer] = [kind |-> "item", id |-> calls'[k].waits]
      BY <1>1, <1>4, <3>1
    <3>2. OneVisible'
      BY <1>1, <1>3, <1>6, <2>1, <2>3, <3>1 DEF OneVisible, Visible
    <3> QED BY <1>4, <2>1, <2>2, <3>2
  <2>4. CASE callback[calls[i].viewer] = own
    <3>1. calls[i].feature \in Region /\ calls[i].feature \in Drawn
      BY <1>1 DEF HighlightInv, Placed, Drawn
    <3>2. selected \in Region /\ selected \in Drawn
      BY <2>1, <3>1 DEF OneDrawn
    <3>3. ~ \E p \in 1..Len(calls) : LastIs(p)
      BY <1>1, <2>1, <3>1 DEF OneDrawn, LastIs, Pending
    <3>4. NoneLeft /\ Shown
      BY <1>8, <3>2, <3>3 DEF HighlightInv, Comes
    <3>5. OneVisible'
      BY <1>1, <1>2, <1>6, <3>2, <3>4 DEF OneVisible, Shown
    <3> QED BY <1>4, <2>1, <2>2, <3>5
  <2> QED BY <1>2, <2>3, <2>4
<1> QED BY <1>1, <1>3, <1>5, <1>7, <1>8 DEF HighlightInv, NothingElse

LEMMA LoadEndsKeeps ==
  ASSUME HighlightInv, NEW i \in 1..Len(calls), LoadEnds(i)
  PROVE  HighlightInv'
<1>1. calls \in Seq(Call) /\ Len(calls) \in Nat /\ calls[i] \in Call
  BY DEF HighlightInv, HighlightTypeOK
<1>2. /\ calls[i].stage = "loading" /\ calls' = [calls EXCEPT ![i].stage = "loaded"]
      /\ UNCHANGED <<viewer, selected, callback, highlighted, item, past>>
  BY DEF LoadEnds, IsFirst
<1>3. /\ calls' \in Seq(Call) /\ Len(calls') = Len(calls)
      /\ \A j \in 1..Len(calls) : j # i => calls'[j] = calls[j]
      /\ calls'[i].viewer = calls[i].viewer /\ calls'[i].feature = calls[i].feature
      /\ calls'[i].id = calls[i].id /\ calls'[i].waits = calls[i].waits
      /\ calls'[i].stage = "loaded"
  <2>1. [calls[i] EXCEPT !.stage = "loaded"] \in Call
    BY <1>1 DEF Call
  <2>2. calls' = [calls EXCEPT ![i] = [calls[i] EXCEPT !.stage = "loaded"]]
    BY <1>2
  <2> QED BY <1>1, <2>1, <2>2 DEF Call
<1>4. \A j \in 1..Len(calls) :
        /\ calls'[j].viewer = calls[j].viewer /\ calls'[j].feature = calls[j].feature
        /\ calls'[j].id = calls[j].id /\ calls'[j].waits = calls[j].waits
        /\ calls'[j].stage = "waiting" <=> calls[j].stage = "waiting"
        /\ calls'[j].stage \in {"loading", "loaded"} <=> calls[j].stage \in {"loading", "loaded"}
        /\ Pending(calls'[j]) <=> Pending(calls[j])
        /\ Removing(calls'[j]) <=> Removing(calls[j])
  BY <1>2, <1>3 DEF Pending, Removing
<1>5. HighlightTypeOK'
  BY <1>2, <1>3 DEF HighlightInv, HighlightTypeOK
<1>6. Placed'
  BY <1>2, <1>3, <1>4 DEF HighlightInv, Placed
<1>7. \A p \in 1..Len(calls) : LastIs(p) => LastIs(p)'
  BY <1>2, <1>3, <1>4 DEF LastIs
<1>8. (NoneLeft => NoneLeft') /\ (Shown => Shown')
  <2>1. NoneLeft => NoneLeft'
    BY <1>3, <1>4 DEF NoneLeft
  <2>2. ASSUME NEW id \in LoadId, NEW j \in 1..Len(calls),
               calls[j].viewer = viewer, calls[j].id = id
        PROVE  calls'[j].viewer = viewer /\ calls'[j].id = id
    BY <1>4, <2>2
  <2>3. ASSUME Shown PROVE Shown'
    <3>1. selected' \in Styled => selected' \in highlighted'
      BY <1>2, <2>3 DEF Shown
    <3>2. ASSUME selected \in Region
          PROVE  /\ item'.feature = selected'
                 /\ \E id \in LoadId :
                      /\ callback'[viewer'] = [kind |-> "item", id |-> id]
                      /\ item'.show \/ \E j \in 1..Len(calls') :
                                        calls'[j].viewer = viewer' /\ calls'[j].id = id
      <4>1. PICK id \in LoadId :
              /\ callback[viewer] = [kind |-> "item", id |-> id]
              /\ item.show \/ \E j \in 1..Len(calls) : calls[j].viewer = viewer /\ calls[j].id = id
        BY <2>3, <3>2 DEF Shown
      <4>2. item.feature = selected
        BY <2>3, <3>2 DEF Shown
      <4> QED BY <1>2, <1>3, <2>2, <4>1, <4>2
    <3> QED BY <1>2, <3>1, <3>2 DEF Shown
  <2> QED BY <2>1, <2>3
<1>9. Comes'
  BY <1>2, <1>3, <1>7, <1>8 DEF HighlightInv, Comes
<1>10. (OneDrawn => OneDrawn') /\ (OneHighlighted => OneHighlighted')
  BY <1>2, <1>3, <1>4, <1>8 DEF OneDrawn, OneHighlighted
<1>11. OneVisible => OneVisible'
  BY <1>2, <1>3, <1>4, <1>8 DEF OneVisible, Visible
<1> QED BY <1>2, <1>5, <1>6, <1>9, <1>10, <1>11 DEF HighlightInv, NothingElse

\* There is an id for one more load: each call but the one that draws has or waits for at
\* most one, and each viewer has at most one, so that one of the ids is left over.
LEMMA IdUnused ==
  ASSUME HighlightInv, NEW i \in 1..Len(calls), calls[i].stage = "importing"
  PROVE  UnusedIds # {}
<1> DEFINE N       == MaxCalls + MaxViewers
           used(c) == IF c.id # 0 THEN c.id ELSE c.waits
           f       == [k \in 1..N |->
                         IF k <= MaxCalls
                           THEN IF k <= Len(calls) THEN used(calls[k]) ELSE 0
                           ELSE IF callback[k - MaxCalls].kind = "item"
                                  THEN callback[k - MaxCalls].id ELSE 0]
<1> SUFFICES ASSUME UnusedIds = {} PROVE FALSE
  OBVIOUS
<1>1. /\ Len(calls) \in Nat /\ MaxCalls \in Nat /\ MaxViewers \in Nat /\ Len(calls) <= MaxCalls
      /\ N \in Nat /\ LoadId = 1..N
  BY HighlightAssumption DEF HighlightInv, HighlightTypeOK, LoadId
<1>2. ASSUME NEW k \in 1..Len(calls)
      PROVE  /\ used(calls[k]) \in 0..N
             /\ calls[k].id # 0 => used(calls[k]) = calls[k].id
             /\ calls[k].waits # 0 => used(calls[k]) = calls[k].waits
  <2>1. calls[k].id \in LoadId \union {0} /\ calls[k].waits \in LoadId \union {0}
    BY CallIs DEF HighlightInv
  <2>2. calls[k].waits # 0 => calls[k].id = 0
    BY DEF HighlightInv, Placed
  <2> QED BY <1>1, <2>1, <2>2
<1>3. ASSUME NEW v \in Viewer, callback[v].kind = "item" PROVE callback[v].id \in 1..N
  <2>1. callback[v] \in Callback
    BY DEF HighlightInv, HighlightTypeOK
  <2> QED BY <1>1, <1>3, <2>1 DEF NoCallback, Callback
<1>4. used(calls[i]) = 0
  BY DEF HighlightInv, Placed
<1> HIDE DEF used, N
<1>5. f \in [1..N -> 0..N]
  <2>1. ASSUME NEW k \in 1..N PROVE f[k] \in 0..N
    <3>1. CASE k <= MaxCalls
      BY <1>1, <1>2, <3>1
    <3>2. CASE ~(k <= MaxCalls)
      <4>1. k - MaxCalls \in Viewer
        BY <1>1, <3>2 DEF Viewer, N
      <4> QED BY <1>1, <1>3, <3>2, <4>1
    <3> QED BY <3>1, <3>2
  <2> QED BY <2>1
<1>6. ASSUME NEW id \in 0..N PROVE \E k \in 1..N : f[k] = id
  <2>1. CASE id = 0
    <3>1. i \in 1..N /\ i <= MaxCalls
      BY <1>1 DEF N
    <3> QED BY <1>4, <2>1, <3>1
  <2>2. CASE id \in LoadId
    <3>1. id \notin UnusedIds /\ id # 0
      BY <2>2 DEF LoadId
    <3>2. CASE \E c \in Calls : id \in {c.id, c.waits}
      <4>1. PICK k \in 1..Len(calls) : id \in {calls[k].id, calls[k].waits}
        <5>1. DOMAIN calls = 1..Len(calls)
          BY DEF HighlightInv, HighlightTypeOK
        <5> QED BY <3>2, <5>1 DEF Calls
      <4>2. k \in 1..N /\ k <= MaxCalls
        BY <1>1 DEF N
      <4>3. used(calls[k]) = id
        BY <1>2, <3>1, <4>1
      <4> QED BY <4>2, <4>3
    <3>3. CASE \E v \in Viewer : callback[v].kind = "item" /\ callback[v].id = id
      <4>1. PICK v \in Viewer : callback[v].kind = "item" /\ callback[v].id = id
        BY <3>3
      <4>2. /\ v + MaxCalls \in 1..N /\ ~(v + MaxCalls <= MaxCalls)
            /\ (v + MaxCalls) - MaxCalls = v
        BY <1>1 DEF Viewer, N
      <4> QED BY <4>1, <4>2
    <3> QED BY <2>2, <3>1, <3>2, <3>3 DEF UnusedIds
  <2> QED BY <1>1, <2>1, <2>2
<1> HIDE DEF f
<1>7. f \in Surjection(1..N, 0..N)
  BY <1>5, <1>6 DEF Surjection
<1>8. IsFiniteSet(1..N) /\ Cardinality(1..N) = N /\ Cardinality(0..N) = N + 1
  <2>1. IsFiniteSet(1..N) /\ Cardinality(1..N) = IF 1 > N THEN 0 ELSE N - 1 + 1
    BY <1>1, FS_Interval
  <2>2. Cardinality(0..N) = IF 0 > N THEN 0 ELSE N - 0 + 1
    BY <1>1, FS_Interval
  <2>3. (1 > N => N = 0) /\ N - 1 + 1 = N /\ ~(0 > N) /\ N - 0 + 1 = N + 1
    BY <1>1
  <2> QED BY <2>1, <2>2, <2>3
<1>9. N + 1 <= N
  BY <1>7, <1>8, FS_Surjection
<1> QED BY <1>1, <1>9

LEMMA DrawRegionKeeps ==
  ASSUME HighlightInv, NEW i \in 1..Len(calls), DrawRegion(i)
  PROVE  HighlightInv'
<1> DEFINE new    == CHOOSE id \in UnusedIds : TRUE
           own    == [kind |-> "item", id |-> new]
           others == Lists!RemoveAt(calls, i)
           drawn  == [calls[i] EXCEPT !.id = new, !.stage = "loading"]
<1>1. /\ calls[i] \in Call /\ calls[i].viewer \in Viewer /\ calls[i].feature \in Region
      /\ calls[i].feature \in Drawn /\ IsFirst(i, "importing") /\ calls[i].stage = "importing"
  BY CallIs DEF HighlightInv, DrawRegion, Drawn, IsFirst
<1>2. new \in LoadId
  BY <1>1, IdUnused DEF UnusedIds
<1>3. /\ viewer' = viewer /\ selected' = selected /\ highlighted' = highlighted
      /\ past' = PastWaiting
      /\ item' = [item EXCEPT !.feature = calls[i].feature]
      /\ callback' = [callback EXCEPT ![calls[i].viewer] = own]
      /\ calls' = Append(others, drawn)
  BY DEF DrawRegion
<1> HIDE DEF new
<1>4. /\ others \in Seq(Call) /\ Len(others) = Len(calls) - 1
      /\ \A k \in 1..Len(others) : others[k] = IF k < i THEN calls[k] ELSE calls[k + 1]
  BY CallEnded DEF HighlightInv
<1> HIDE DEF others
<1>5. /\ drawn \in Call /\ drawn.viewer = calls[i].viewer /\ drawn.feature = calls[i].feature
      /\ drawn.id = new /\ drawn.waits = calls[i].waits /\ drawn.stage = "loading"
  BY <1>1, <1>2 DEF Call
<1> HIDE DEF drawn
<1>6. Len(calls) \in Nat /\ i \in Nat /\ viewer \in Viewer
  BY DEF HighlightInv, HighlightTypeOK
<1>7. /\ calls' \in Seq(Call) /\ Len(calls') = Len(calls)
      /\ \A k \in 1..Len(calls) - 1 : calls'[k] = IF k < i THEN calls[k] ELSE calls[k + 1]
      /\ calls'[Len(calls)] = drawn
  BY <1>3, <1>4, <1>5, <1>6
<1>8. Len(calls) \in 1..Len(calls)
  BY <1>6
<1>9. ASSUME NEW k \in 1..Len(calls), k # Len(calls)
      PROVE  \E j \in 1..Len(calls) : /\ j # i /\ calls'[k] = calls[j]
                                      /\ j = IF k < i THEN k ELSE k + 1
  BY <1>6, <1>7, <1>9
<1>10. /\ item' \in [feature : Region \union {Nothing}, show : BOOLEAN]
       /\ item'.feature = calls[i].feature
       /\ callback' \in [Viewer -> Callback]
       /\ callback'[calls[i].viewer] = own
       /\ \A v \in Viewer : v # calls[i].viewer => callback'[v] = callback[v]
  <2>1. own \in [kind : {"item"}, id : LoadId]
    BY <1>2
  <2> HIDE DEF own
  <2> QED BY <1>1, <1>3, <2>1 DEF HighlightInv, HighlightTypeOK, Callback
<1>11. HighlightTypeOK'
  <2>1. past' \in {"orderly", "overtaken", "late"}
    BY <1>3 DEF PastWaiting, HighlightInv, HighlightTypeOK
  <2> QED BY <1>3, <1>7, <1>10, <2>1 DEF HighlightInv, HighlightTypeOK
<1>12. Placed'
  <2>1. ASSUME NEW k \in 1..Len(calls')
        PROVE  /\ calls'[k].viewer <= viewer
               /\ calls'[k].id # 0 <=> calls'[k].stage \in {"loading", "loaded"}
               /\ calls'[k].id # 0 => calls'[k].feature \in Region
               /\ calls'[k].waits # 0 => calls'[k].stage = "waiting"
    <3>1. CASE k = Len(calls)
      BY <1>1, <1>2, <1>5, <1>7, <3>1 DEF HighlightInv, Placed, LoadId
    <3>2. CASE k # Len(calls)
      BY <1>7, <1>9, <3>2 DEF HighlightInv, Placed
    <3> QED BY <3>1, <3>2
  <2>2. ASSUME NEW v \in Viewer, v > viewer PROVE callback'[v] = NoCallback
    <3>1. calls[i].viewer <= viewer
      BY DEF HighlightInv, Placed
    <3>2. v # calls[i].viewer
      BY <1>1, <1>6, <2>2, <3>1 DEF Viewer
    <3> QED BY <1>10, <2>2, <3>2 DEF HighlightInv, Placed
  <2> QED BY <1>3, <2>1, <2>2 DEF Placed
<1>13. ~Pending(drawn) /\ ~Removing(drawn)
  BY <1>5 DEF Pending, Removing
<1>14. NoneLeftBut(i) => NoneLeft'
  BY <1>7, <1>9, <1>13 DEF NoneLeftBut, NoneLeft
<1>15. Comes'
  <2> SUFFICES ASSUME PastWaiting # "late", selected \in Drawn
               PROVE  (\E q \in 1..Len(calls') : LastIs(q)') \/ (NoneLeft' /\ Shown')
    BY <1>3 DEF Comes
  <2>1. /\ LastIs(i) => NoneLeftBut(i)
        /\ \E p \in 1..Len(calls) : p >= i /\ LastIs(p)
    BY <1>1, DrawingNext
  <2>2. CASE LastIs(i)
    <3>1. calls[i].feature = selected /\ calls[i].viewer = viewer
      BY <2>2 DEF LastIs
    <3>2. calls'[Len(calls)].viewer = viewer /\ calls'[Len(calls)].id = new
      BY <1>5, <1>7, <3>1
    <3>3. callback'[viewer'] = [kind |-> "item", id |-> new] /\ item'.feature = selected
      BY <1>3, <1>10, <3>1
    <3>4. selected \notin Styled
      BY <1>1, <3>1, HighlightAssumption
    <3>5. Shown'
      BY <1>2, <1>3, <1>7, <1>8, <3>2, <3>3, <3>4 DEF Shown
    <3> QED BY <1>14, <2>1, <2>2, <3>5
  <2>3. ASSUME NEW p \in 1..Len(calls), p > i, LastIs(p)
        PROVE  \E q \in 1..Len(calls') : LastIs(q)'
    <3>1. PICK q \in 1..Len(calls) : q + 1 = p /\ q # Len(calls) /\ ~(q < i) /\ calls'[q] = calls[p]
      <4>1. p - 1 \in 1..Len(calls) - 1 /\ ~(p - 1 < i) /\ (p - 1) + 1 = p
            /\ p - 1 \in 1..Len(calls) /\ p - 1 # Len(calls)
        BY <1>6, <2>3
      <4> QED BY <1>7, <4>1
    <3>2. ASSUME NEW k \in 1..Len(calls'), k > q
          PROVE  ~Pending(calls'[k]) /\ ~Removing(calls'[k])
      <4>1. CASE k = Len(calls)
        BY <1>7, <1>13, <4>1
      <4>2. CASE k # Len(calls)
        <5>1. PICK j \in 1..Len(calls) : /\ calls'[k] = calls[j]
                                         /\ j = IF k < i THEN k ELSE k + 1
          BY <1>7, <1>9, <4>2
        <5>2. j > p
          BY <1>6, <1>7, <3>1, <3>2, <5>1
        <5> QED BY <2>3, <5>1, <5>2 DEF LastIs
      <4> QED BY <4>1, <4>2
    <3>3. Pending(calls'[q]) /\ calls'[q].feature = selected /\ calls'[q].viewer = viewer
      BY <2>3, <3>1 DEF LastIs
    <3>4. LastIs(q)'
      BY <1>3, <3>2, <3>3 DEF LastIs
    <3> QED BY <1>7, <3>4
  <2> QED BY <1>6, <2>1, <2>2, <2>3
<1>16. ASSUME past' = "orderly" PROVE OneDrawn' /\ OneHighlighted' /\ OneVisible'
  <2>1. /\ calls[i].feature = selected /\ calls[i].viewer = viewer
        /\ \A j \in 1..Len(calls) : j # i => calls[j].feature \notin Drawn
        /\ NoneLeftBut(i)
        /\ highlighted = {} /\ ~Visible
    BY <1>1, <1>3, <1>16, DrawingAlone
  <2>2. \A k \in 1..Len(calls) : calls'[k].feature \in Drawn => k = Len(calls)
    BY <1>9, <2>1
  <2>3. OneDrawn'
    BY <1>3, <1>5, <1>7, <2>1, <2>2 DEF OneDrawn
  <2>4. OneHighlighted'
    BY <1>3, <1>10, <2>1 DEF OneHighlighted
  <2>5. OneVisible'
    BY <1>1, <1>3, <1>10, <1>14, <2>1 DEF OneVisible
  <2> QED BY <2>3, <2>4, <2>5
<1> QED BY <1>11, <1>12, <1>15, <1>16 DEF HighlightInv, NothingElse

LEMMA ClearKeeps ==
  ASSUME HighlightInv, NEW v \in Viewer, Clear(v)
  PROVE  HighlightInv'
<1> DEFINE cleared   == {c \in Calls : c.viewer = v /\ c.stage = "clearing"}
           before    == Filter(calls, Calls \ cleared)
           importing == Filter(calls, cleared)
           now       == [k \in DOMAIN importing |-> [importing[k] EXCEPT !.stage = "importing"]]
<1>1. calls \in Seq(Call) /\ Len(calls) \in Nat /\ DOMAIN calls = 1..Len(calls)
  BY DEF HighlightInv, HighlightTypeOK
<1>2. /\ cleared # {} /\ calls' = before \o now
      /\ callback' = [callback EXCEPT ![v] = NoCallback]
      /\ past' = IF FallsBehind(cleared) THEN "late" ELSE PastWaiting
      /\ viewer' = viewer /\ selected' = selected /\ item' = item /\ highlighted' = highlighted
  BY DEF Clear
<1>3. \A n \in 1..Len(calls) : /\ calls[n] \in Calls
                               /\ calls[n] \in cleared <=>
                                    calls[n].viewer = v /\ calls[n].stage = "clearing"
                               /\ calls[n] \in Calls \ cleared <=> calls[n] \notin cleared
  BY <1>1 DEF Calls
<1>4. \E n \in 1..Len(calls) : calls[n].stage = "clearing"
  BY <1>1, <1>2 DEF Calls
<1> HIDE DEF cleared
<1>5. /\ before \in Seq(Call) /\ \A k \in 1..Len(before) : before[k] \in Calls \ cleared
      /\ importing \in Seq(Call) /\ \A k \in 1..Len(importing) : importing[k] \in cleared
      /\ Len(before) + Len(importing) = Len(calls)
      /\ \E g : Parts(g, calls, before, importing)
  BY <1>1, <1>3, Parted
<1>6. PICK g : Parts(g, calls, before, importing)
  BY <1>5
<1> HIDE DEF before, importing
<1>7. now \in Seq(Call) /\ Len(now) = Len(importing)
  <2>1. ASSUME NEW k \in 1..Len(importing)
        PROVE  [importing[k] EXCEPT !.stage = "importing"] \in Call
    <3>1. importing[k] \in Call
      BY <1>5
    <3> QED BY <3>1 DEF Call
  <2>2. DOMAIN importing = 1..Len(importing) /\ Len(importing) \in Nat
    BY <1>5
  <2> QED BY <2>1, <2>2
<1>8. \A k \in 1..Len(importing) : now[k] = [importing[k] EXCEPT !.stage = "importing"]
  BY <1>5
<1> HIDE DEF now
<1> DEFINE m == Len(before)
<1>9. m \in Nat /\ m <= Len(calls) /\ Len(importing) = Len(calls) - m
  <2>1. Len(before) \in Nat /\ Len(importing) \in Nat /\ Len(before) + Len(importing) = Len(calls)
    BY <1>5
  <2>2. \A a, b, c \in Nat : a + b = c => a <= c /\ b = c - a
    OBVIOUS
  <2> QED BY <1>1, <2>1, <2>2, Zenon
<1>10. /\ calls' \in Seq(Call) /\ Len(calls') = Len(calls)
       /\ \A k \in 1..Len(calls) : calls'[k] = IF k <= m THEN before[k] ELSE now[k - m]
  <2>1. before \in Seq(Call) /\ now \in Seq(Call)
    BY <1>5, <1>7
  <2>2. /\ before \o now \in Seq(Call)
        /\ Len(before \o now) = Len(before) + Len(now)
        /\ \A k \in 1..Len(before) + Len(now) :
             (before \o now)[k] = IF k <= Len(before) THEN before[k] ELSE now[k - Len(before)]
    BY <2>1, ConcatElements
  <2>3. Len(before) + Len(now) = Len(calls)
    BY <1>5, <1>7
  <2> QED BY <1>2, <2>2, <2>3
<1> HIDE DEF m
<1>11. /\ \A k \in 1..Len(calls) : g[k] \in 1..Len(calls)
       /\ \A k, l \in 1..Len(calls) : g[k] = g[l] => k = l
       /\ \A n \in 1..Len(calls) : \E k \in 1..Len(calls) : g[k] = n
       /\ \A k, l \in 1..Len(calls) : k < l /\ (l <= m \/ k > m) => g[k] < g[l]
  BY <1>6 DEF Parts, m
<1>12. ASSUME NEW k \in 1..Len(calls), k <= m
       PROVE  calls'[k] = calls[g[k]] /\ calls[g[k]] \notin cleared
  <2>1. k \in 1..Len(before)
    BY <1>9, <1>12 DEF m
  <2>2. before[k] = calls[g[k]]
    BY <1>6, <2>1 DEF Parts
  <2> QED BY <1>5, <1>10, <1>12, <2>1, <2>2
<1>13. ASSUME NEW k \in 1..Len(calls), k > m
       PROVE  /\ calls'[k] = [calls[g[k]] EXCEPT !.stage = "importing"]
              /\ calls[g[k]] \in cleared
  <2>1. k \in m + 1..Len(calls) /\ k - m \in 1..Len(importing) /\ ~(k <= m)
    BY <1>1, <1>9, <1>13
  <2>2. importing[k - m] = calls[g[k]]
    BY <1>6, <2>1 DEF Parts, m
  <2> QED BY <1>5, <1>8, <1>10, <2>1, <2>2
<1>14. ASSUME NEW k \in 1..Len(calls)
       PROVE  /\ calls'[k].viewer = calls[g[k]].viewer /\ calls'[k].feature = calls[g[k]].feature
              /\ calls'[k].id = calls[g[k]].id /\ calls'[k].waits = calls[g[k]].waits
              /\ k <= m => calls'[k].stage = calls[g[k]].stage
              /\ k > m => calls'[k].stage = "importing" /\ calls[g[k]].stage = "clearing"
              /\ Pending(calls'[k]) <=> Pending(calls[g[k]])
  <2>1. calls[g[k]] \in Call /\ k \in Nat
    BY <1>1, <1>11
  <2>2. CASE k <= m
    BY <1>9, <1>12, <2>1, <2>2
  <2>3. CASE k > m
    <3>1. calls[g[k]].stage = "clearing"
      BY <1>3, <1>11, <1>13, <2>3
    <3>2. calls'[k] = [calls[g[k]] EXCEPT !.stage = "importing"] /\ ~(k <= m)
      BY <1>9, <1>13, <2>1, <2>3
    <3> QED BY <2>1, <2>3, <3>1, <3>2 DEF Call, Pending
  <2> QED BY <1>9, <2>1, <2>2, <2>3
<1>15. /\ callback' \in [Viewer -> Callback]
       /\ \A u \in Viewer : callback'[u] = callback[u] \/ callback'[u] = NoCallback
  BY <1>2 DEF HighlightInv, HighlightTypeOK, Callback
<1>16. HighlightTypeOK'
  <2>1. past' \in {"orderly", "overtaken", "late"}
    BY <1>2 DEF PastWaiting, HighlightInv, HighlightTypeOK
  <2> QED BY <1>2, <1>10, <1>15, <2>1 DEF HighlightInv, HighlightTypeOK
<1>17. Placed'
  <2>1. ASSUME NEW k \in 1..Len(calls)
        PROVE  /\ calls'[k].viewer <= viewer
               /\ calls'[k].id # 0 <=> calls'[k].stage \in {"loading", "loaded"}
               /\ calls'[k].id # 0 => calls'[k].feature \in Region
               /\ calls'[k].waits # 0 => calls'[k].stage = "waiting"
    <3>1. g[k] \in 1..Len(calls) /\ (k <= m \/ k > m)
      BY <1>9, <1>11
    <3> QED BY <1>14, <3>1 DEF HighlightInv, Placed
  <2> QED BY <1>2, <1>10, <1>15, <2>1 DEF HighlightInv, Placed
<1>18. ~NoneLeft
  BY <1>4 DEF NoneLeft, Removing
<1>19. ASSUME past' # "late"
       PROVE  /\ ~FallsBehind(cleared) /\ past' = past
              /\ \A n \in 1..Len(calls) : calls[n].stage # "waiting"
  BY <1>1, <1>2, <1>19 DEF PastWaiting, Calls
<1>20. Comes'
  <2> SUFFICES ASSUME past' # "late", selected \in Drawn
               PROVE  \E q \in 1..Len(calls') : LastIs(q)'
    BY <1>2 DEF Comes
  <2>1. PICK p \in 1..Len(calls) : LastIs(p)
    BY <1>18, <1>19 DEF HighlightInv, Comes
  <2>2. PICK q \in 1..Len(calls) : g[q] = p
    BY <1>11
  <2>3. ASSUME NEW k \in 1..Len(calls), k > q
        PROVE  ~Pending(calls'[k]) /\ ~Removing(calls'[k])
    <3>1. k \in Nat /\ q \in Nat /\ g[k] \in 1..Len(calls) /\ g[k] # p
      <4>1. k # q /\ k \in Nat /\ q \in Nat
        BY <2>3
      <4> QED BY <1>11, <2>2, <4>1
    <3>2. CASE g[k] > p
      <4>1. ~Pending(calls[g[k]]) /\ ~Removing(calls[g[k]])
        BY <2>1, <3>1, <3>2 DEF LastIs
      <4>2. k <= m
        BY <1>9, <1>14, <3>1, <4>1 DEF Removing
      <4> QED BY <1>14, <4>1, <4>2 DEF Removing
    <3>3. CASE g[k] < p
      <4>1. k > m /\ q <= m
        <5>1. p \in Nat /\ ~(g[q] < g[k])
          BY <1>1, <2>2, <3>1, <3>3
        <5>2. ~(k <= m \/ q > m)
          BY <1>11, <2>3, <5>1
        <5> QED BY <1>9, <3>1, <5>2
      <4>2. calls[g[k]] \in cleared /\ calls[p] \notin cleared
        BY <1>12, <1>13, <2>2, <4>1
      <4>3. ~Pending(calls[g[k]])
        BY <1>1, <1>19, <2>1, <3>1, <3>3, <4>2 DEF FallsBehind, LastIs
      <4> QED BY <1>14, <4>1, <4>3 DEF Removing
    <3> QED BY <3>1, <3>2, <3>3
  <2>4. Pending(calls'[q]) /\ calls'[q].feature = selected /\ calls'[q].viewer = viewer
    BY <1>14, <2>1, <2>2 DEF LastIs
  <2>5. LastIs(q)'
    BY <1>2, <1>10, <2>3, <2>4 DEF LastIs
  <2> QED BY <1>10, <2>5
<1>21. ASSUME past' = "orderly" PROVE OneDrawn' /\ OneHighlighted' /\ OneVisible'
  <2>1. /\ OneDrawn /\ OneHighlighted /\ OneVisible
        /\ \A n \in 1..Len(calls) : calls[n].stage # "waiting"
    BY <1>19, <1>21 DEF HighlightInv, NothingElse
  <2>2. OneDrawn'
    <3> SUFFICES ASSUME NEW k \in 1..Len(calls), calls'[k].feature \in Drawn
                 PROVE  /\ calls'[k].feature = selected /\ calls'[k].viewer = viewer
                        /\ \A l \in 1..Len(calls) : calls'[l].feature \in Drawn => k = l
      BY <1>2, <1>10 DEF OneDrawn
    <3>1. g[k] \in 1..Len(calls) /\ calls[g[k]].feature \in Drawn
      BY <1>11, <1>14
    <3>2. \A l \in 1..Len(calls) : calls'[l].feature \in Drawn => g[k] = g[l]
      <4>1. \A j \in 1..Len(calls) : calls[j].feature \in Drawn => g[k] = j
        BY <2>1, <3>1 DEF OneDrawn
      <4>2. \A l \in 1..Len(calls) : g[l] \in 1..Len(calls)
        BY <1>11
      <4>3. \A l \in 1..Len(calls) : calls'[l].feature = calls[g[l]].feature
        BY <1>14
      <4> QED BY <4>1, <4>2, <4>3
    <3>3. calls[g[k]].feature = selected /\ calls[g[k]].viewer = viewer
      BY <2>1, <3>1 DEF OneDrawn
    <3> QED BY <1>11, <1>14, <3>2, <3>3
  <2>3. OneHighlighted'
    BY <1>2, <1>15, <1>18, <2>1 DEF OneHighlighted, HighlightInv, HighlightTypeOK, NoCallback
  <2>4. OneVisible'
    BY <1>2, <1>18, <2>1 DEF OneVisible, Visible
  <2> QED BY <2>2, <2>3, <2>4
<1> QED BY <1>16, <1>17, <1>19, <1>20, <1>21 DEF HighlightInv, NothingElse

-----------------------------------------------------------------------------

\* HighlightInv is inductive.
LEMMA HighlightNextKeeps == HighlightInv /\ [HighlightNext]_highlightVars => HighlightInv'
<1> SUFFICES ASSUME HighlightInv, [HighlightNext]_highlightVars PROVE HighlightInv'
  OBVIOUS
<1>1. ASSUME NEW f \in Feature, Select(f) PROVE HighlightInv'
  BY <1>1, SelectKeeps
<1>2. ASSUME NEW v \in Viewer, SwitchViewer(v) PROVE HighlightInv'
  BY <1>2, SwitchViewerKeeps
<1>3. ASSUME NEW v \in Viewer, Clear(v) PROVE HighlightInv'
  BY <1>3, ClearKeeps
<1>4. ASSUME NEW v \in Viewer, NEW id \in LoadId, Hide(v, id) PROVE HighlightInv'
  BY <1>4, HideKeeps
<1>5. ASSUME NEW i \in DOMAIN calls,
             LoadEnds(i) \/ Show(i) \/ DrawStyled(i) \/ DrawRegion(i) \/ DrawNothing(i)
      PROVE  HighlightInv'
  <2>1. i \in 1..Len(calls)
    BY DEF HighlightInv, HighlightTypeOK
  <2> QED BY <1>5, <2>1, LoadEndsKeeps, ShowKeeps, DrawStyledKeeps, DrawRegionKeeps,
             DrawNothingKeeps
<1>6. CASE UNCHANGED highlightVars
  BY <1>6 DEF highlightVars, HighlightInv, HighlightTypeOK, Placed, Comes, LastIs, NoneLeft,
              Shown, NothingElse, OneDrawn, OneHighlighted, OneVisible, Visible
<1> QED BY <1>1, <1>2, <1>3, <1>4, <1>5, <1>6 DEF HighlightNext, Step

\* The queue, the callbacks of the viewers and the item have their types, however many
\* calls overlap and viewers follow each other: there is always an id for one more load.
THEOREM HighlightTypeCorrect == HighlightSpec => []HighlightTypeOK
<1>1. HighlightInv => HighlightTypeOK
  BY DEF HighlightInv
<1> QED BY <1>1, InitHighlightInv, HighlightNextKeeps, PTL DEF HighlightSpec

\* When no call of _highlightFeature() is left, what is selected is highlighted, unless a
\* call came last that had begun before; and nothing else is, if no call overtook another.
THEOREM SelectedIsHighlighted == HighlightSpec => []SelectedHighlighted
<1>1. ASSUME HighlightInv, Idle PROVE SelectedHighlighted
  <2>1. Len(calls) = 0 /\ 1..Len(calls) = {}
    BY <1>1 DEF Idle
  <2>2. past # "late" /\ selected \in Drawn => Shown
    BY <1>1, <2>1 DEF HighlightInv, Comes
  <2>3. past = "orderly" => OneHighlighted /\ OneVisible
    BY <1>1 DEF HighlightInv, NothingElse
  <2>4. ASSUME past # "late"
        PROVE  /\ selected \in Styled => selected \in highlighted
               /\ selected \in Region => Visible /\ item.feature = selected
    BY <2>1, <2>2, <2>4, HighlightAssumption DEF Drawn, Shown, Visible
  <2>5. ASSUME past = "orderly"
        PROVE  /\ highlighted = Styled \intersect {selected}
               /\ Visible <=> selected \in Region
    <3>1. highlighted \subseteq Styled
      BY <1>1 DEF HighlightInv, HighlightTypeOK
    <3>2. highlighted = Styled \intersect {selected}
      BY <2>3, <2>4, <2>5, <3>1 DEF OneHighlighted
    <3>3. Visible <=> selected \in Region
      BY <2>1, <2>3, <2>4, <2>5 DEF OneVisible
    <3> QED BY <3>2, <3>3
  <2> QED BY <2>4, <2>5 DEF SelectedHighlighted
<1>2. HighlightInv => SelectedHighlighted
  BY <1>1 DEF SelectedHighlighted
<1> QED BY <1>2, InitHighlightInv, HighlightNextKeeps, PTL DEF HighlightSpec

=============================================================================
