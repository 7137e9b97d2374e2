------------------------- MODULE AsyncLoaderProofs -------------------------
(***************************************************************************)
(* Theorems of AsyncLoader, for every number of callers, promises, changes *)
(* and reloads.  IInv is inductive as it stands: SpinnerOwned and Memoised *)
(* need CacheKnown, and all of them the types.                             *)
(***************************************************************************)
EXTENDS AsyncLoader, TLAPS

\* No loader starts out busy, with a promise, or with callers.
LEMMA InitEstablishes == Init => IInv
<1> SUFFICES ASSUME Init PROVE IInv
  OBVIOUS
<1> USE BoundsAssumption DEF BoundsAssumption, Init
<1>1. TypeOK
  <2>1. run \in [Run -> RunRecord]
    BY DEF RunRecord, RunState
  <2>2. call \in [Call -> CallRecord]
    BY DEF CallRecord
  <2>3. stale \in BOOLEAN /\ isLoading \in BOOLEAN
    OBVIOUS
  <2>4. /\ version \in 0..MaxVersion /\ nRuns \in 0..MaxRuns /\ promise \in 0..nRuns
        /\ forceReloadCount \in -1..MaxForce
    OBVIOUS
  <2> QED BY <2>1, <2>2, <2>3, <2>4 DEF TypeOK
<1>2. CacheKnown
  BY DEF CacheKnown, Run
<1>3. SpinnerOwned /\ Memoised
  BY DEF SpinnerOwned, Memoised, Run
<1> QED BY <1>1, <1>2, <1>3 DEF IInv

\* A change of the callback's observables can only make the computed stale.
LEMMA ChangePreserves == IInv /\ ChangeDependency => IInv'
<1> SUFFICES ASSUME IInv, ChangeDependency PROVE IInv'
  OBVIOUS
<1> USE BoundsAssumption DEF BoundsAssumption, IInv, ChangeDependency
<1>1. TypeOK'
  BY DEF TypeOK, RunRecord, RunState, Outcome, CallRecord, Run, IsLoad
<1>2. CacheKnown'
  <2>1. nRuns # 0 => nRuns \in Run /\ run[nRuns] \in RunRecord
    BY DEF TypeOK, Run
  <2>2. nRuns # 0 /\ ~stale /\ IsLoad(nRuns) => run[nRuns].version < version'
    BY <2>1 DEF CacheKnown, TypeOK, RunRecord
  <2>3. nRuns # 0 /\ stale => run[nRuns].version < version' /\ IsLoad(nRuns)
    BY <2>1 DEF CacheKnown, TypeOK, RunRecord
  <2> QED BY <2>2, <2>3 DEF CacheKnown, IsLoad
<1>3. SpinnerOwned'
  BY DEF SpinnerOwned, Waiting
<1>4. Memoised'
  BY DEF Memoised, Key, IsLoad
<1> QED BY <1>1, <1>2, <1>3, <1>4

\* load(), load(true) and dispose() up to their await.
LEMMA BeginPreserves ==
  ASSUME NEW c \in Call, NEW count \in -1..MaxForce, IInv, BeginLoad(c, count),
         count # forceReloadCount => count = -1 \/ count = forceReloadCount + 1
  PROVE  IInv'
<1> USE BoundsAssumption DEF BoundsAssumption, IInv, BeginLoad, ReadLoadKeepAlive
<1>0. nRuns' \in 0..MaxRuns /\ nRuns <= nRuns'
  BY DEF TypeOK
<1>1. TypeOK'
  <2>1. run' \in [Run -> RunRecord]
    <3>1. [state |-> "pending", version |-> version, force |-> count] \in RunRecord
      BY DEF TypeOK, RunRecord, RunState
    <3> QED BY <3>1 DEF TypeOK
  <2>2. call' \in [Call -> CallRecord]
    BY <1>0 DEF TypeOK, CallRecord
  <2>3. stale' \in BOOLEAN /\ isLoading' \in BOOLEAN
    BY DEF TypeOK
  <2> QED BY <1>0, <2>1, <2>2, <2>3 DEF TypeOK
<1>2. CacheKnown'
  <2>1. \A r \in Run : (run[r].state = "unused" <=> r > nRuns)'
    BY DEF CacheKnown, TypeOK, Run
  <2>2. nRuns' # 0 /\ ~stale' /\ run'[nRuns'].force = forceReloadCount'
    BY DEF CacheKnown, TypeOK, Run
  <2>3. IsLoad(nRuns)' => run'[nRuns'].version = version'
    BY DEF CacheKnown, TypeOK, Run, IsLoad
  <2>4. \A d \in Call : (/\ call[d].run <= nRuns
                         /\ call[d].state = "idle" <=> call[d].run = 0)'
    BY <1>0, <2>2 DEF CacheKnown, TypeOK, CallRecord
  <2> QED BY <2>1, <2>2, <2>3, <2>4 DEF CacheKnown
<1>3. SpinnerOwned'
  BY DEF SpinnerOwned, Waiting, CacheKnown, TypeOK, CallRecord
<1>4. Memoised'
  <2>1. CASE nRuns' = nRuns
    BY <2>1 DEF Memoised, Key, IsLoad, TypeOK
  <2>2. CASE nRuns' # nRuns
    <3>1. \A r \in Run : r <= nRuns => Key(r)' = Key(r)
      BY <2>2 DEF Key, IsLoad, TypeOK, Run
    <3>2. nRuns' = nRuns + 1 /\ nRuns' \in Run
      BY <2>2 DEF TypeOK, Run
    <3>3. ASSUME nRuns # 0
          PROVE  \/ run'[nRuns'].force # run[nRuns].force
                 \/ /\ run'[nRuns'].force >= 0
                    /\ run[nRuns].force >= 0
                    /\ run'[nRuns'].version # run[nRuns].version
      <4>1. run'[nRuns'].force = count /\ run'[nRuns'].version = version
        BY <2>2, <3>2 DEF TypeOK
      <4>2. run[nRuns] \in RunRecord
        BY <3>3 DEF TypeOK, Run
      <4> QED BY <2>2, <3>3, <4>1, <4>2 DEF CacheKnown, TypeOK, RunRecord, IsLoad
    <3>4. ASSUME NEW r \in Run, 1 < r, r <= nRuns'
          PROVE  Key(r)' # Key(r - 1)'
      <4>1. CASE r <= nRuns
        BY <3>1, <3>4, <4>1 DEF Memoised, TypeOK, Run
      <4>2. CASE r = nRuns'
        <5>1. nRuns # 0 /\ r - 1 = nRuns /\ r - 1 \in Run
          BY <3>2, <3>4, <4>2 DEF TypeOK, Run
        <5>2. Key(r - 1)' = Key(nRuns' - 1)
          BY <3>1, <3>2, <4>2, <5>1 DEF TypeOK
        <5>3. Key(r)' = <<run'[nRuns'].force,
                          IF run'[nRuns'].force >= 0 THEN run'[nRuns'].version ELSE 0>>
          BY <4>2 DEF Key, IsLoad
        <5>4. Key(nRuns' - 1) = <<run[nRuns].force,
                                  IF run[nRuns].force >= 0 THEN run[nRuns].version ELSE 0>>
          BY <4>2, <5>1 DEF Key, IsLoad
        <5> QED BY <3>3, <5>1, <5>2, <5>3, <5>4
      <4> QED BY <3>2, <3>4, <4>1, <4>2 DEF TypeOK, Run
    <3> QED BY <3>4 DEF Memoised
  <2> QED BY <2>1, <2>2
<1> QED BY <1>1, <1>2, <1>3, <1>4

\* A promise is settled: nobody but its run notices yet.
LEMMA SettlePreserves ==
  ASSUME NEW r \in Run, NEW outcome \in Outcome, IInv, Settle(r, outcome)
  PROVE  IInv'
<1> USE BoundsAssumption DEF BoundsAssumption, IInv, Settle
<1>1. TypeOK'
  BY DEF TypeOK, RunRecord, RunState, Outcome, CallRecord, Run
<1>2. CacheKnown'
  BY DEF CacheKnown, TypeOK, RunRecord, RunState, Outcome, Run, IsLoad
<1>3. SpinnerOwned'
  BY DEF SpinnerOwned, Waiting
<1>4. Memoised'
  <2>1. \A q \in Run : Key(q)' = Key(q)
    BY DEF Key, IsLoad, TypeOK, RunRecord
  <2> QED BY <2>1 DEF Memoised, TypeOK, Run
<1> QED BY <1>1, <1>2, <1>3, <1>4

\* load() after its await: the indicator goes out, so it needs no owner.
LEMMA ResumePreserves ==
  ASSUME NEW c \in Call, IInv, Resume(c)
  PROVE  IInv'
<1> USE BoundsAssumption DEF BoundsAssumption, IInv, Resume
<1>1. TypeOK'
  BY DEF TypeOK, RunRecord, RunState, Outcome, CallRecord, Run, Settled
<1>2. CacheKnown'
  BY DEF CacheKnown, TypeOK, RunRecord, CallRecord, RunState, Outcome, Run, IsLoad, Waiting, Settled
<1>3. SpinnerOwned'
  BY DEF SpinnerOwned, Waiting
<1>4. Memoised'
  BY DEF Memoised, Key, IsLoad
<1> QED BY <1>1, <1>2, <1>3, <1>4

-----------------------------------------------------------------------------
\* One step, whichever it is, and a stutter.
LEMMA NextPreserves == IInv /\ [Next]_vars => IInv'
<1> SUFFICES ASSUME IInv, [Next]_vars PROVE IInv'
  OBVIOUS
<1>1. CASE ChangeDependency
  BY <1>1, ChangePreserves
<1>2. ASSUME NEW c \in Call, Load(c) PROVE IInv'
  <2>1. forceReloadCount \in -1..MaxForce
    BY DEF IInv, TypeOK
  <2> QED BY <1>2, <2>1, BeginPreserves DEF Load
<1>3. ASSUME NEW c \in Call, ForceLoad(c) PROVE IInv'
  <2>1. forceReloadCount + 1 \in -1..MaxForce
    BY <1>3, BoundsAssumption DEF BoundsAssumption, ForceLoad, IInv, TypeOK
  <2> QED BY <1>3, <2>1, BeginPreserves DEF ForceLoad
<1>4. ASSUME NEW c \in Call, Dispose(c) PROVE IInv'
  <2>1. -1 \in -1..MaxForce
    BY BoundsAssumption DEF BoundsAssumption
  <2> QED BY <1>4, <2>1, BeginPreserves DEF Dispose
<1>5. ASSUME NEW c \in Call, Resume(c) PROVE IInv'
  BY <1>5, ResumePreserves
<1>6. ASSUME NEW r \in Run, NEW outcome \in Outcome, Settle(r, outcome) PROVE IInv'
  BY <1>6, SettlePreserves
<1>7. CASE UNCHANGED vars
  BY <1>7 DEF vars, IInv, TypeOK, CacheKnown, SpinnerOwned, Memoised, Waiting, Key, IsLoad
<1> QED BY <1>1, <1>2, <1>3, <1>4, <1>5, <1>6, <1>7 DEF Next

\* The invariant everything below rests on.
THEOREM Inductive == Spec => []IInv
<1>1. Init => IInv
  BY InitEstablishes
<1>2. IInv /\ [Next]_vars => IInv'
  BY NextPreserves
<1> QED BY <1>1, <1>2, PTL DEF Spec

\* Every variable of the loader keeps its type.
THEOREM TypeCorrect == Spec => []TypeOK
<1>1. IInv => TypeOK
  BY DEF IInv
<1> QED BY <1>1, Inductive, PTL

\* The promise that load() keeps is that of the newest run, made with the present count, and
\* mobx's computed is stale only if what a load read has changed (AsyncLoader.ts:66-77).
THEOREM CacheIsKnown == Spec => []CacheKnown
<1>1. IInv => CacheKnown
  BY DEF IInv
<1> QED BY <1>1, Inductive, PTL

\* While isLoading shows, some invocation of load() waits for the latest promise
\* and will clear it: no error path and no overlap leaves the indicator on.
THEOREM IndicatorIsOwned == Spec => []SpinnerOwned
<1>1. IInv => SpinnerOwned
  BY DEF IInv
<1> QED BY <1>1, Inductive, PTL

\* load() never makes a second run from the observables and the count that the
\* previous run was made from.
THEOREM LoadIsMemoised == Spec => []Memoised
<1>1. IInv => Memoised
  BY DEF IInv
<1> QED BY <1>1, Inductive, PTL

-----------------------------------------------------------------------------
(* The loader implements LoadRequest.  A settling promise is a stutter there,  *)
(* since callers only learn of it when they resume.                            *)

\* What a caller's slot looks like to LoadRequest.
LEMMA AskRefines ==
  ASSUME NEW c \in Call, NEW count \in -1..MaxForce, IInv, BeginLoad(c, count),
         count # forceReloadCount => count = -1 \/ count = forceReloadCount + 1
  PROVE  Answered!Ask(c, count < 0)
<1> USE BoundsAssumption DEF BoundsAssumption
<1>1. IInv'
  BY BeginPreserves
<1>2. ~stale' /\ nRuns' # 0 /\ forceReloadCount' = count /\ version' = version
  BY DEF BeginLoad, ReadLoadKeepAlive, IInv, CacheKnown, TypeOK
<1>3. run'[nRuns'].force = count /\ (count >= 0 => run'[nRuns'].version = version)
  BY <1>1, <1>2 DEF IInv, CacheKnown, IsLoad
<1>4. \A d \in Call : d # c =>
        call'[d] = call[d] /\ (call[d].run # 0 => run'[call[d].run] = run[call[d].run])
  BY DEF BeginLoad, ReadLoadKeepAlive, IInv, TypeOK, CacheKnown, CallRecord, Run
<1>5. call'[c] = [state |-> "waiting", run |-> nRuns']
  BY DEF BeginLoad, IInv, TypeOK
<1>6. Request(c)' = [state |-> "waiting", served |-> IF count < 0 THEN -1 ELSE version]
  BY <1>2, <1>3, <1>5 DEF Request, IsLoad
<1>7. \A d \in Call : d # c => Request(d)' = Request(d)
  BY <1>4 DEF Request, IsLoad
<1>8. Request(c).state # "waiting"
  BY DEF BeginLoad, Waiting, Request
<1>9. isLoading' \in {isLoading, TRUE}
  BY DEF BeginLoad, IInv, TypeOK
<1>10. (forceReloadCount < 0)' = (count < 0)
  BY <1>2
<1> QED BY <1>2, <1>6, <1>7, <1>8, <1>9, <1>10 DEF Answered!Ask, Answered!Nothing

\* A settled promise changes nothing LoadRequest can see.
LEMMA SettleStutters ==
  ASSUME NEW r \in Run, NEW outcome \in Outcome, IInv, Settle(r, outcome)
  PROVE  UNCHANGED Answered!vars
<1>1. \A c \in Call : call[c].run # 0 => call[c].run \in Run
  BY DEF IInv, TypeOK, CallRecord, Run
<1>2. \A q \in Run : run'[q].version = run[q].version /\ run'[q].force = run[q].force
  BY DEF Settle, IInv, TypeOK, RunRecord
<1>3. \A c \in Call : Request(c)' = Request(c)
  BY <1>1, <1>2 DEF Request, IsLoad, Settle
<1> QED BY <1>3 DEF Answered!vars, Settle

\* A resumed load() answers its caller with its own promise.
LEMMA ResumeAnswers ==
  ASSUME NEW c \in Call, IInv, Resume(c)
  PROVE  Answered!Answer(c)
<1>1. call[c].run \in Run /\ run[call[c].run].state \in Outcome
  BY DEF Resume, Settled, Waiting, IInv, TypeOK, CacheKnown, CallRecord, Run
<1>2. Request(c)' = [Request(c) EXCEPT !.state = run[call[c].run].state]
  BY <1>1 DEF Request, Resume, IsLoad, IInv, TypeOK, CallRecord
<1>3. \A d \in Call : d # c => Request(d)' = Request(d)
  BY DEF Request, Resume, IsLoad, IInv, TypeOK
<1>4. Request(c).state = "waiting"
  BY DEF Request, Resume, Waiting
<1> QED BY <1>1, <1>2, <1>3, <1>4 DEF Answered!Answer, Answered!Outcome, Outcome, Resume

LEMMA DeadOrAlive == \A count : (count < 0) \in BOOLEAN
OBVIOUS

\* Every behaviour of the loader is one that LoadRequest allows its callers to see
\* (that they are all answered in the end is left to the model checker).
THEOREM RefinesLoadRequest == Spec => Answered!Spec
<1>1. Init => Answered!Init
  BY DEF Init, Answered!Init, Answered!Nothing, Request
<1>2. IInv /\ [Next]_vars => [Answered!Next]_(Answered!vars)
  <2> SUFFICES ASSUME IInv, [Next]_vars PROVE Answered!Next \/ UNCHANGED Answered!vars
    OBVIOUS
  <2>1. CASE ChangeDependency
    BY <2>1 DEF ChangeDependency, Answered!Next, Answered!Change, Request, IsLoad
  <2>2. ASSUME NEW c \in Call, Load(c) PROVE Answered!Next
    <3>1. forceReloadCount \in -1..MaxForce
      BY DEF IInv, TypeOK
    <3>2. Answered!Ask(c, forceReloadCount < 0)
      BY <2>2, <3>1, AskRefines DEF Load
    <3> QED BY <3>2, DeadOrAlive DEF Answered!Next
  <2>3. ASSUME NEW c \in Call, ForceLoad(c) PROVE Answered!Next
    <3>1. forceReloadCount + 1 \in -1..MaxForce
      BY <2>3, BoundsAssumption DEF BoundsAssumption, ForceLoad, IInv, TypeOK
    <3>2. Answered!Ask(c, forceReloadCount + 1 < 0)
      BY <2>3, <3>1, AskRefines DEF ForceLoad
    <3> QED BY <3>2, DeadOrAlive DEF Answered!Next
  <2>4. ASSUME NEW c \in Call, Dispose(c) PROVE Answered!Next
    <3>1. -1 \in -1..MaxForce
      BY BoundsAssumption DEF BoundsAssumption
    <3>2. Answered!Ask(c, -1 < 0)
      BY <2>4, <3>1, AskRefines DEF Dispose
    <3> QED BY <3>2, DeadOrAlive DEF Answered!Next
  <2>5. ASSUME NEW c \in Call, Resume(c) PROVE Answered!Next
    BY <2>5, ResumeAnswers DEF Answered!Next
  <2>6. ASSUME NEW r \in Run, NEW outcome \in Outcome, Settle(r, outcome)
        PROVE  UNCHANGED Answered!vars
    BY <2>6, SettleStutters
  <2>7. CASE UNCHANGED vars
    BY <2>7 DEF vars, Answered!vars, Request, IsLoad
  <2> QED BY <2>1, <2>2, <2>3, <2>4, <2>5, <2>6, <2>7 DEF Next
<1> QED BY <1>1, <1>2, Inductive, PTL DEF Spec, Answered!Spec

=============================================================================
