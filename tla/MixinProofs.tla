---------------------------- MODULE MixinProofs ----------------------------
(***************************************************************************)
(* Two mixins that build on another one.  A reference uses its AsyncLoader *)
(* as it is meant to be used, so that all that AsyncLoaderProofs proves of *)
(* loaders holds of the loader of a reference; and with it, for any number *)
(* of calls, runs, changes and reloads, what ReferenceMixin promises of    *)
(* the target.  A job switches its AutoRefreshing on and off: for any      *)
(* number of polls, loads and reloads of the page, it is polled only while *)
(* it runs, and its results are delivered once.                            *)
(***************************************************************************)
EXTENDS Reference, CatalogFunctionJob, TLAPS

Proofs == INSTANCE AsyncLoaderProofs

\* What is known of the loader.
Known == Loader!TypeOK /\ Loader!CacheKnown

\* A target is found before anybody is told of it.
Found == \A r \in Run : Loader!IsLoad(r) /\ run[r].state = "ok" => target # 0

\* Whoever is answered has the outcome of the run he waited for.
Told ==
  \A c \in Call : call[c].state \in {"ok", "failed"} =>
    call[c].run \in Run /\ run[call[c].run].state = call[c].state

\* A run that has not ended is waited for.
Awaited ==
  \A r \in Run : run[r].state = "pending" => \E c \in Call : Loader!Waiting(c) /\ call[c].run = r

\* The calls that have yet to give the target what belongs to it.
Furnishes(c) ==
  \/ returning[c] /\ call[c].state = "ok"
  \/ /\ Loader!Waiting(c) /\ run[call[c].run].state = "ok"
     /\ call[c].run \in Run /\ Loader!IsLoad(call[c].run)

Own ==
  /\ previousTarget \in [Run -> 0..MaxRuns]
  /\ target \in 0..MaxRuns
  /\ content \in [Run -> 0..MaxVersion]
  /\ applied \in [Run -> BOOLEAN]
  /\ returning \in [Call -> BOOLEAN]

IInv ==
  /\ Own /\ Found /\ Told /\ Awaited
  /\ \A c \in Call : returning[c] => ~Loader!Waiting(c)
  /\ target # 0 => applied[target] \/ \E c \in Call : Furnishes(c)

-----------------------------------------------------------------------------
(* The loader *)

LEMMA StartsLoader == Init => Proofs!Init
BY DEF Init, Loader!Init, Proofs!Init, Loader!Run, Proofs!Run

LEMMA UsesLoader == [Next]_vars => [Proofs!Next]_(Proofs!vars)
<1> SUFFICES ASSUME [Next]_vars PROVE [Proofs!Next]_(Proofs!vars)
  OBVIOUS
<1> USE DEF Proofs!Next, Proofs!vars
<1>1. CASE ChangeDependency
  BY <1>1 DEF ChangeDependency, Loader!ChangeDependency, Proofs!ChangeDependency,
     Loader!IsLoad, Proofs!IsLoad
<1>2. ASSUME NEW c \in Call, LoadReference(c) PROVE Proofs!Load(c) \/ Proofs!ForceLoad(c)
  BY <1>2 DEF LoadReference, Loader!Load, Proofs!Load, Loader!ForceLoad, Proofs!ForceLoad,
     Loader!BeginLoad, Proofs!BeginLoad, Loader!ReadLoadKeepAlive, Proofs!ReadLoadKeepAlive,
     Loader!Waiting, Proofs!Waiting
<1>3. ASSUME NEW c \in Call, Resume(c) PROVE Proofs!Resume(c)
  BY <1>3 DEF Resume, Loader!Resume, Proofs!Resume, Loader!Waiting, Proofs!Waiting,
     Loader!Settled, Proofs!Settled, Loader!Outcome, Proofs!Outcome
<1>4. ASSUME NEW c \in Call, ApplyToTarget(c) PROVE UNCHANGED Proofs!vars
  BY <1>4 DEF ApplyToTarget, loaderVars
<1>5. ASSUME NEW c \in Call, Dispose(c) PROVE Proofs!Dispose(c)
  BY <1>5 DEF Dispose, Loader!Dispose, Proofs!Dispose, Loader!BeginLoad, Proofs!BeginLoad,
     Loader!ReadLoadKeepAlive, Proofs!ReadLoadKeepAlive, Loader!Waiting, Proofs!Waiting
<1>6. ASSUME NEW r \in Run, RunSucceeds(r) \/ RunEndsWithoutTarget(r)
      PROVE  \E outcome \in Proofs!Outcome : Proofs!Settle(r, outcome)
  BY <1>6 DEF RunSucceeds, RunEndsWithoutTarget, Loader!Settle, Proofs!Settle, Proofs!Outcome
<1>7. \A r \in Run : r \in Proofs!Run
  BY DEF Run, Loader!Run, Proofs!Run
<1>8. CASE UNCHANGED vars
  BY <1>8 DEF vars
<1> QED BY <1>1, <1>2, <1>3, <1>4, <1>5, <1>6, <1>7, <1>8 DEF Next

\* A reference is a loader and more: whatever is true of every AsyncLoader is true of the
\* loader of every reference.
THEOREM UsesItsLoader == Spec => Proofs!Spec
BY StartsLoader, UsesLoader, PTL DEF Spec, Proofs!Spec

LEMMA LoaderKnown == Spec => []Known
<1>1. Spec => []Proofs!IInv
  BY UsesItsLoader, Proofs!Inductive, ReferenceAssumption, PTL DEF Proofs!BoundsAssumption
<1>2. Proofs!IInv => Known
  <2> SUFFICES ASSUME Proofs!IInv PROVE Known
    OBVIOUS
  <2>1. Loader!TypeOK
    BY DEF Proofs!IInv, Proofs!TypeOK, Loader!TypeOK, Proofs!Run, Loader!Run, Proofs!RunRecord,
       Loader!RunRecord, Proofs!RunState, Loader!RunState, Proofs!Outcome, Loader!Outcome,
       Proofs!CallRecord, Loader!CallRecord
  <2>2. Loader!CacheKnown
    BY DEF Proofs!IInv, Proofs!CacheKnown, Loader!CacheKnown, Proofs!Run, Loader!Run,
       Proofs!IsLoad, Loader!IsLoad
  <2> QED BY <2>1, <2>2 DEF Known
<1> QED BY <1>1, <1>2, PTL

-----------------------------------------------------------------------------
(* The target *)

\* A reference starts without a target, and nobody was promised one.
LEMMA InitEstablishes == Init => IInv
<1> SUFFICES ASSUME Init PROVE IInv
  OBVIOUS
<1> USE ReferenceAssumption DEF ReferenceAssumption, Init, Loader!Init
<1>1. Own
  BY DEF Own
<1>2. Found /\ Told /\ Awaited
  BY DEF Found, Told, Awaited, Run
<1> QED BY <1>1, <1>2 DEF IInv

\* A change of what the callback reads concerns neither runs nor callers.
LEMMA ChangePreserves == Known /\ IInv /\ ChangeDependency => IInv'
<1> SUFFICES ASSUME Known, IInv, ChangeDependency PROVE IInv'
  OBVIOUS
<1> USE DEF IInv, ChangeDependency, Loader!ChangeDependency, Run, Loader!Run
<1>1. Own'
  BY DEF Own
<1>2. Found' /\ Told' /\ Awaited'
  BY DEF Found, Told, Awaited, Loader!IsLoad, Loader!Waiting
<1>3. \A c \in Call : Furnishes(c)' = Furnishes(c)
  BY DEF Furnishes, Loader!IsLoad, Loader!Waiting
<1> QED BY <1>1, <1>2, <1>3 DEF Loader!Waiting

\* A call that begins was not in flight, so it owed the target nothing, and the run it may
\* start is waited for by it.
LEMMA LoadPreserves ==
  ASSUME NEW c \in Call, NEW count \in -1..MaxForce, Known, Known', IInv,
         ~returning[c], Loader!BeginLoad(c, count),
         previousTarget' \in [Run -> 0..MaxRuns],
         UNCHANGED <<target, content, applied, returning>>
  PROVE  IInv'
<1> USE ReferenceAssumption
    DEF ReferenceAssumption, IInv, Run, Loader!Run, Loader!Waiting, Loader!IsLoad,
        Loader!BeginLoad, Loader!ReadLoadKeepAlive
<1>1. /\ call \in [Call -> Loader!CallRecord]
      /\ run \in [Run -> Loader!RunRecord]
      /\ nRuns \in 0..MaxRuns /\ nRuns' \in 0..MaxRuns
      /\ \A r \in Run : run[r].state = "unused" <=> r > nRuns
      /\ \A d \in Call : call[d].run <= nRuns
  BY DEF Known, Loader!TypeOK, Loader!CacheKnown
<1>2. call'[c] = [state |-> "waiting", run |-> nRuns'] /\ \A d \in Call : d # c => call'[d] = call[d]
  BY <1>1
<1>3. nRuns' = nRuns \/ nRuns' = nRuns + 1
  BY <1>1
<1>4. \A r \in Run : r # nRuns + 1 => run'[r] = run[r]
  BY <1>1
<1>5. nRuns' = nRuns + 1 => nRuns + 1 \in Run /\ run'[nRuns'].state = "pending"
  BY <1>1
<1>6. nRuns' = nRuns => run' = run
  BY <1>1
<1>7. Own'
  BY <1>1 DEF Own
<1>8. Found'
  BY <1>1, <1>3, <1>4, <1>5, <1>6 DEF Found
<1>9. Told'
  BY <1>1, <1>2, <1>3, <1>4, <1>5, <1>6 DEF Told
<1>10. Awaited'
  BY <1>1, <1>2, <1>3, <1>4, <1>5, <1>6 DEF Awaited
<1>11. ~Furnishes(c)
  BY DEF Furnishes
<1>12. ASSUME NEW d \in Call, Furnishes(d) PROVE Furnishes(d)'
  BY <1>1, <1>2, <1>3, <1>4, <1>5, <1>6, <1>12 DEF Furnishes
<1> QED BY <1>2, <1>7, <1>8, <1>9, <1>10, <1>12

\* A new target is found by a run somebody waits for, and he will furnish it.
LEMMA SuccessPreserves ==
  ASSUME NEW r \in Run, Known, Known', IInv, Loader!IsLoad(r), RunSucceeds(r)
  PROVE  IInv'
<1> USE ReferenceAssumption
    DEF ReferenceAssumption, IInv, Run, Loader!Run, Loader!Waiting, Loader!IsLoad,
        RunSucceeds, Loader!Settle
<1>1. /\ call \in [Call -> Loader!CallRecord]
      /\ run \in [Run -> Loader!RunRecord]
  BY DEF Known, Loader!TypeOK
<1>2. run'[r].state = "ok" /\ run'[r].force = run[r].force
      /\ \A q \in Run : q # r => run'[q] = run[q]
  BY <1>1 DEF Loader!RunRecord
<1>3. target' \in Run
  BY DEF Own
<1>4. Own'
  <2>1. run[r].version \in 0..MaxVersion
    BY <1>1 DEF Loader!RunRecord
  <2> QED BY <1>3, <2>1 DEF Own
<1>5. Found'
  BY <1>3 DEF Found
<1>6. Told'
  BY <1>2 DEF Told
<1>7. Awaited'
  BY <1>2 DEF Awaited
<1>8. PICK d \in Call : Loader!Waiting(d) /\ call[d].run = r
  BY DEF Awaited
<1>9. Furnishes(d)'
  BY <1>2, <1>8 DEF Furnishes
<1> QED BY <1>4, <1>5, <1>6, <1>7, <1>9

\* A run that ends without a target changes nothing but its own state.
LEMMA EndPreserves ==
  ASSUME NEW r \in Run, Known, Known', IInv, RunEndsWithoutTarget(r)
  PROVE  IInv'
<1> USE ReferenceAssumption
    DEF ReferenceAssumption, IInv, Run, Loader!Run, Loader!Waiting, Loader!IsLoad,
        RunEndsWithoutTarget, Loader!Settle
<1>1. /\ call \in [Call -> Loader!CallRecord]
      /\ run \in [Run -> Loader!RunRecord]
  BY DEF Known, Loader!TypeOK
<1>2. /\ run'[r].state = "failed" \/ (run'[r].state = "ok" /\ ~Loader!IsLoad(r))
      /\ run'[r].force = run[r].force
      /\ run[r].state = "pending"
      /\ \A q \in Run : q # r => run'[q] = run[q]
  BY <1>1 DEF Loader!RunRecord
<1>3. Own'
  BY DEF Own
<1>4. Found'
  BY <1>1, <1>2 DEF Found, Loader!RunRecord
<1>5. Told'
  BY <1>2 DEF Told
<1>6. Awaited'
  BY <1>2 DEF Awaited
<1>7. ASSUME NEW d \in Call, Furnishes(d) PROVE Furnishes(d)'
  BY <1>2, <1>7 DEF Furnishes
<1> QED BY <1>3, <1>4, <1>5, <1>6, <1>7

\* A caller that is answered goes on to the second part of loadReference().
LEMMA ResumePreserves ==
  ASSUME NEW c \in Call, Known, Known', IInv, Resume(c)
  PROVE  IInv'
<1> USE ReferenceAssumption
    DEF ReferenceAssumption, IInv, Run, Loader!Run, Loader!Waiting, Loader!IsLoad,
        Resume, Loader!Resume, Loader!Settled, Loader!Outcome
<1>1. /\ call \in [Call -> Loader!CallRecord]
      /\ \A d \in Call : call[d].run \in 0..MaxRuns /\ (call[d].state = "idle" <=> call[d].run = 0)
  BY DEF Known, Loader!TypeOK, Loader!CacheKnown, Loader!CallRecord
<1>2. /\ call'[c].state = run[call[c].run].state /\ call'[c].run = call[c].run
      /\ \A d \in Call : d # c => call'[d] = call[d]
  BY <1>1 DEF Loader!CallRecord
<1>3. call[c].run \in Run
  BY <1>1
<1>4. Own'
  BY DEF Own
<1>5. Found'
  BY DEF Found
<1>6. Told'
  BY <1>2, <1>3 DEF Told
<1>7. Awaited'
  BY <1>2 DEF Awaited
<1>8. ASSUME NEW d \in Call, Furnishes(d) PROVE Furnishes(d)'
  BY <1>2, <1>3, <1>8 DEF Furnishes, Own
<1>9. \A d \in Call : returning'[d] => ~Loader!Waiting(d)'
  BY <1>2 DEF Own
<1> QED BY <1>4, <1>5, <1>6, <1>7, <1>8, <1>9

\* Whoever returns without an error leaves the target furnished.
LEMMA ApplyPreserves ==
  ASSUME NEW c \in Call, Known, Known', IInv, ApplyToTarget(c)
  PROVE  IInv'
<1> USE ReferenceAssumption
    DEF ReferenceAssumption, IInv, Run, Loader!Run, Loader!Waiting, Loader!IsLoad,
        ApplyToTarget, loaderVars
<1>1. Own'
  BY DEF Own
<1>2. Found' /\ Told' /\ Awaited'
  BY DEF Found, Told, Awaited
<1>3. \A d \in Call : returning'[d] => ~Loader!Waiting(d)'
  BY DEF Own
<1>4. target' # 0 => applied'[target'] \/ \E d \in Call : Furnishes(d)'
  <2>1. target \in 0..MaxRuns /\ applied \in [Run -> BOOLEAN] /\ returning \in [Call -> BOOLEAN]
    BY DEF Own
  <2>2. CASE call[c].state = "ok" /\ target # 0
    BY <2>1, <2>2
  <2>3. CASE ~(call[c].state = "ok" /\ target # 0)
    <3>1. \A d \in Call : target # 0 /\ Furnishes(d) => Furnishes(d)'
      BY <2>1, <2>3 DEF Furnishes
    <3> QED BY <2>3, <3>1
  <2> QED BY <2>2, <2>3
<1> QED BY <1>1, <1>2, <1>3, <1>4

LEMMA NextPreserves == Known /\ Known' /\ IInv /\ [Next]_vars => IInv'
<1> SUFFICES ASSUME Known, Known', IInv, [Next]_vars PROVE IInv'
  OBVIOUS
<1>0. forceReloadCount \in -1..MaxForce /\ MaxForce \in Nat
  BY ReferenceAssumption DEF ReferenceAssumption, Known, Loader!TypeOK
<1>1. CASE ChangeDependency
  BY <1>1, ChangePreserves
<1>2. ASSUME NEW c \in Call, LoadReference(c) PROVE IInv'
  <2>0. previousTarget' \in [Run -> 0..MaxRuns]
    BY <1>2 DEF LoadReference, IInv, Own
  <2>1. CASE Loader!Load(c)
    BY <1>0, <1>2, <2>0, <2>1, LoadPreserves DEF LoadReference, Loader!Load
  <2>2. CASE Loader!ForceLoad(c)
    <3>1. forceReloadCount + 1 \in -1..MaxForce /\ Loader!BeginLoad(c, forceReloadCount + 1)
      BY <1>0, <2>2 DEF Loader!ForceLoad
    <3> QED BY <1>2, <2>0, <3>1, LoadPreserves DEF LoadReference
  <2> QED BY <1>2, <2>1, <2>2 DEF LoadReference
<1>3. ASSUME NEW c \in Call, Resume(c) PROVE IInv'
  BY <1>3, ResumePreserves
<1>4. ASSUME NEW c \in Call, ApplyToTarget(c) PROVE IInv'
  BY <1>4, ApplyPreserves
<1>5. ASSUME NEW c \in Call, Dispose(c) PROVE IInv'
  <2>1. -1 \in -1..MaxForce /\ previousTarget' \in [Run -> 0..MaxRuns]
    BY <1>0, <1>5 DEF Dispose, IInv, Own
  <2> QED BY <1>5, <2>1, LoadPreserves DEF Dispose, Loader!Dispose
<1>6. ASSUME NEW r \in Run, Loader!IsLoad(r), RunSucceeds(r) PROVE IInv'
  BY <1>6, SuccessPreserves
<1>7. ASSUME NEW r \in Run, RunEndsWithoutTarget(r) PROVE IInv'
  BY <1>7, EndPreserves
<1>8. CASE UNCHANGED vars
  <2> USE <1>8 DEF vars, IInv
  <2>1. Own' /\ Found' /\ Told' /\ Awaited'
    BY DEF Own, Found, Told, Awaited, Loader!IsLoad, Loader!Waiting
  <2>2. \A c \in Call : Furnishes(c)' = Furnishes(c)
    BY DEF Furnishes, Loader!IsLoad, Loader!Waiting
  <2> QED BY <2>1, <2>2 DEF Loader!Waiting
<1> QED BY <1>1, <1>2, <1>3, <1>4, <1>5, <1>6, <1>7, <1>8 DEF Next

LEMMA Inductive == Spec => [](Known /\ IInv)
<1>1. Known /\ IInv /\ [Next]_vars /\ Known' => IInv'
  BY NextPreserves
<1> QED BY InitEstablishes, LoaderKnown, <1>1, PTL DEF Spec

\* Types of a reference and of its loader, and what the loader's cache is known to hold.
THEOREM TypeCorrect == Spec => []TypeOK
<1>1. Known /\ IInv => TypeOK
  BY DEF Known, IInv, Own, TypeOK
<1> QED BY Inductive, <1>1, PTL

\* "When the returned promise resolves, target should return the target of the
\* reference" (ReferenceMixin.ts:108-109), whatever is reloaded or disposed meanwhile: a
\* successful load assigns _target before its promise resolves, and nothing takes it away.
THEOREM TargetFound == Spec => []TargetWhenResolved
<1>1. IInv => TargetWhenResolved
  BY DEF IInv, TargetWhenResolved, Told, Found
<1> QED BY Inductive, <1>1, PTL

\* With no call in flight the target has what the reference gives it (loadReference(), after
\* its loader's answer): while it lacks it, somebody is on his way with it.
THEOREM TargetFurnished == Spec => []TargetIsFurnished
<1>1. IInv => TargetIsFurnished
  BY DEF IInv, TargetIsFurnished, Furnishes, Quiet, InFlight
<1> QED BY Inductive, <1>1, PTL

-----------------------------------------------------------------------------
(* What is always so of a job *)

\* The timer runs only under the reaction that set it, and that one only while something
\* observes the map items.
TimerOwned ==
  /\ enabling => observed
  /\ timer => enabling /\ refreshEnabled

\* A function that waits for its request has the job to itself.
WaitsAlone ==
  /\ phase["invoke"] = "waiting" =>
       jobStatus = "running" /\ ~refreshEnabled /\ phase["refreshData"] = "idle"
  /\ phase["refreshData"] = "waiting" => refreshEnabled

\* One function downloads, what nobody has downloaded, of a job that has finished.
DownloadsOnce ==
  \A f \in Function : phase[f] = "downloading" =>
    /\ downloadingResults /\ ~downloadedResults /\ jobStatus = "finished"
    /\ \A g \in Function : phase[g] = "downloading" => f = g

JobInv ==
  /\ JobTypeOK /\ TimerOwned /\ WaitsAlone /\ DownloadsOnce
  /\ refreshEnabled => jobStatus = "running"
  /\ jobStatus = "inactive" => \A f \in Function : phase[f] = "idle"
  /\ DeliveredOnce

-----------------------------------------------------------------------------
(* Jobs *)

LEMMA JobStarts == JobInit => JobInv
<1> SUFFICES ASSUME JobInit PROVE JobInv
  OBVIOUS
<1>1. \A f \in Function : phase[f] = "idle" /\ addResults[f] = FALSE
  BY DEF JobInit
<1>2. JobTypeOK
  BY DEF JobInit, JobTypeOK, Refresh!Init, Refresh!TypeOK, Function, Phase
<1> QED BY <1>1, <1>2 DEF JobInit, JobInv, Refresh!Init, TimerOwned, WaitsAlone, DownloadsOnce,
           DeliveredOnce, Function

\* The functions of the job, each step of which may end at onJobFinish.
LEMMA FunctionsKeepJob ==
  ASSUME JobInv,
         \/ Invoke \/ InvokeFinishes \/ InvokeAccepted \/ InvokeFails
         \/ RefreshData \/ PollRunning \/ PollFinished \/ PollFails \/ LoadMetadata
  PROVE  JobInv'
<1> USE DEF JobInv, JobTypeOK, TimerOwned, WaitsAlone, DownloadsOnce, DeliveredOnce,
        Function, Phase, refresh, onMap, Refresh!TypeOK
<1>1. CASE Invoke
  BY <1>1 DEF Invoke
<1>2. CASE InvokeFinishes
  BY <1>2 DEF InvokeFinishes, OnJobFinish
<1>3. CASE InvokeAccepted
  BY <1>3 DEF InvokeAccepted, Refresh!SetRefreshEnabled, Refresh!StartAutoRefresh
<1>4. CASE InvokeFails
  BY <1>4 DEF InvokeFails
<1>5. CASE RefreshData
  BY <1>5 DEF RefreshData
<1>6. CASE PollRunning
  BY <1>6 DEF PollRunning
<1>7. CASE PollFinished
  BY <1>7 DEF PollFinished, OnJobFinish, Refresh!SetRefreshEnabled, Refresh!StopAutoRefresh
<1>8. CASE PollFails
  BY <1>8 DEF PollFails, Refresh!SetRefreshEnabled, Refresh!StopAutoRefresh
<1>9. CASE LoadMetadata
  BY <1>9 DEF LoadMetadata, OnJobFinish
<1> QED BY <1>1, <1>2, <1>3, <1>4, <1>5, <1>6, <1>7, <1>8, <1>9

LEMMA DownloadedKeepsJob ==
  ASSUME JobInv, NEW f \in Function, Downloaded(f)
  PROVE  JobInv'
<1> USE DEF Function, Phase
<1>1. /\ phase[f] = "downloading" /\ ~downloadedResults /\ downloadingResults
      /\ jobStatus = "finished" /\ ~refreshEnabled
      /\ \A g \in Function : phase[g] = "downloading" => f = g
  BY DEF JobInv, Downloaded, DownloadsOnce
<1>2. mapped = 0
  BY <1>1 DEF JobInv, JobTypeOK, DeliveredOnce
<1>3. JobTypeOK' /\ TimerOwned'
  <2>1. mapped' \in {0, 1}
    BY <1>2 DEF Downloaded
  <2>2. pollingForResults' \in BOOLEAN
    BY DEF Downloaded
  <2>3. UNCHANGED <<refresh, onMap, jobStatus, addResults>> /\ downloadedResults' = TRUE
        /\ downloadingResults' = FALSE /\ phase' = [phase EXCEPT ![f] = "idle"]
    BY DEF Downloaded
  <2>4. Refresh!TypeOK' /\ TimerOwned'
    BY <2>3 DEF JobInv, JobTypeOK, TimerOwned, refresh, Refresh!TypeOK
  <2>5. phase' \in [Function -> Phase] /\ phase'["loadMetadata"] # "waiting"
    BY <2>3 DEF JobInv, JobTypeOK
  <2>6. show' \in BOOLEAN /\ inWorkbench' \in BOOLEAN /\ addResults' \in [Function -> BOOLEAN]
    BY <2>3 DEF JobInv, JobTypeOK, onMap
  <2>7. mapped' \in Nat
    BY <2>1
  <2>8. /\ jobStatus' \in {"inactive", "running", "finished", "error"}
        /\ downloadedResults' \in BOOLEAN /\ downloadingResults' \in BOOLEAN
    BY <2>3 DEF JobInv, JobTypeOK
  <2> QED BY <2>2, <2>4, <2>5, <2>6, <2>7, <2>8 DEF JobTypeOK
<1>4. WaitsAlone'
  BY <1>1 DEF JobInv, JobTypeOK, Downloaded, WaitsAlone, refresh
<1>5. \A g \in Function : phase'[g] # "downloading"
  BY <1>1 DEF JobInv, JobTypeOK, Downloaded
<1>6. DownloadsOnce'
  BY <1>5 DEF DownloadsOnce
<1>7. DeliveredOnce'
  BY <1>1, <1>2 DEF Downloaded, DeliveredOnce
<1> QED BY <1>1, <1>3, <1>4, <1>6, <1>7 DEF JobInv, Downloaded, refresh

LEMMA OthersKeepJob ==
  ASSUME JobInv,
         \/ \E f \in Function : DownloadFails(f)
         \/ AddToWorkbench \/ BecomeObserved \/ RemoveFromWorkbench \/ ToggleShow \/ Reload
         \/ UNCHANGED jobVars
  PROVE  JobInv'
<1> USE DEF JobInv, JobTypeOK, TimerOwned, WaitsAlone, DownloadsOnce, DeliveredOnce,
        Function, Phase, refresh, onMap, rest, Refresh!TypeOK
<1>1. ASSUME NEW f \in Function, DownloadFails(f) PROVE JobInv'
  BY <1>1 DEF DownloadFails, Refresh!SetRefreshEnabled, Refresh!StopAutoRefresh
<1>2. CASE AddToWorkbench
  BY <1>2 DEF AddToWorkbench
<1>3. CASE BecomeObserved
  BY <1>3 DEF BecomeObserved, Refresh!BecomeObserved, Refresh!StartAutoRefresh
<1>4. CASE RemoveFromWorkbench
  BY <1>4 DEF RemoveFromWorkbench, Refresh!BecomeUnobserved, Refresh!StopAutoRefresh
<1>5. CASE ToggleShow
  BY <1>5 DEF ToggleShow
<1>6. CASE Reload
  BY <1>6 DEF Reload
<1>7. CASE UNCHANGED jobVars
  BY <1>7 DEF jobVars
<1> QED BY <1>1, <1>2, <1>3, <1>4, <1>5, <1>6, <1>7

\* Of every job, for however many polls, loads of its metadata and reloads of the page:
\* a function that waits for its request has the job to itself, and only one of them
\* downloads the results.
THEOREM JobInvariant == JobSpec => []JobInv
<1>1. JobInv /\ [JobNext]_jobVars => JobInv'
  BY FunctionsKeepJob, DownloadedKeepsJob, OthersKeepJob DEF JobNext
<1> QED BY <1>1, JobStarts, PTL DEF JobSpec

\* A job's traits, flags and functions keep their types.
THEOREM JobTypeCorrect == JobSpec => []JobTypeOK
<1>1. JobInv => JobTypeOK
  BY DEF JobInv
<1> QED BY <1>1, JobInvariant, PTL

\* The server is polled only for a job that runs and only while something observes the
\* job's map items: whichever function comes to the end of the job, no timer is left.
THEOREM PolledOnlyWhileRunning == JobSpec => []PolledWhileRunning
<1>1. JobInv => PolledWhileRunning
  BY DEF JobInv, TimerOwned, PolledWhileRunning, Refresh!PollsOnlyWhenObserved
<1> QED BY <1>1, JobInvariant, PTL

\* The results of a job reach the workbench at most once, and never those of a job that
\* has failed.
THEOREM DeliveredAtMostOnce == JobSpec => []DeliveredOnce
<1>1. JobInv => DeliveredOnce
  BY DEF JobInv
<1> QED BY <1>1, JobInvariant, PTL

=============================================================================
