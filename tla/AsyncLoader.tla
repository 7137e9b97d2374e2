---------------------------- MODULE AsyncLoader ----------------------------
(***************************************************************************)
(* lib/Core/AsyncLoader.ts: the memoised asynchronous request behind every *)
(* catalog member's metadata, map items, group members and reference.      *)
(*                                                                         *)
(* `loadKeepAlive` is a keepAlive'd mobx computed: reading it starts a run *)
(* of the load callback only when an observable that the previous run read *)
(* synchronously, or _forceReloadCount, has changed since.  The observables*)
(* of the callback are abstracted to one version number.  A run is the     *)
(* promise one evaluation returned; promises are numbered in the order in  *)
(* which they were made.  A call is one pending invocation of load(): the  *)
(* only code that assigns _result and clears _isLoading is the part of it  *)
(* after the await.  Calls on the same promise resume in any order here,   *)
(* a superset of the order of JavaScript's job queue.                      *)
(***************************************************************************)
EXTENDS Integers

CONSTANTS
  Call,        \* slots for invocations of load() that are in flight
  MaxRuns,     \* bound: promises the callbacks ever make
  MaxVersion,  \* bound: changes of the observables that the callback reads
  MaxForce     \* bound: value of _forceReloadCount

ASSUME BoundsAssumption ==
  /\ MaxRuns \in Nat
  /\ MaxVersion \in Nat
  /\ MaxForce \in Nat

VARIABLES
  version,           \* the observables loadCallback reads before its first await
  forceReloadCount,  \* _forceReloadCount: -1 once disposed
  nRuns,             \* evaluations of loadKeepAlive so far; the newest run is the cached value
  stale,             \* mobx would evaluate loadKeepAlive again when it is read
  run,               \* the promises: what each was made from, and its state
  promise,           \* _promise, 0 for undefined
  isLoading,         \* _isLoading
  result,            \* _result
  call               \* the invocations of load()

vars == <<version, forceReloadCount, nRuns, stale, run, promise, isLoading,
          result, call>>

Run      == 1..MaxRuns
Outcome  == {"ok", "failed"}
RunState == {"unused", "pending"} \union Outcome

RunRecord  == [state : RunState, version : 0..MaxVersion, force : -1..MaxForce]
CallRecord == [state : {"idle", "waiting"} \union Outcome, run : 0..MaxRuns]

TypeOK ==
  /\ version \in 0..MaxVersion
  /\ forceReloadCount \in -1..MaxForce
  /\ nRuns \in 0..MaxRuns
  /\ stale \in BOOLEAN
  /\ run \in [Run -> RunRecord]
  /\ promise \in 0..nRuns
  /\ isLoading \in BOOLEAN
  /\ result \in {"none"} \union Outcome
  /\ call \in [Call -> CallRecord]

Init ==
  /\ version = 0
  /\ forceReloadCount = 0
  /\ nRuns = 0
  /\ stale = TRUE
  /\ run = [r \in Run |-> [state |-> "unused", version |-> 0, force |-> 0]]
  /\ promise = 0
  /\ isLoading = FALSE
  /\ result = "none"
  /\ call = [c \in Call |-> [state |-> "idle", run |-> 0]]

-----------------------------------------------------------------------------
Waiting(c) == call[c].state = "waiting"
Settled(r) == run[r].state \in Outcome

\* A run made with a negative count calls disposeCallback, not loadCallback.
IsLoad(r) == run[r].force >= 0

\* Mutant: a callback that reads its observables after its first await.
UntrackedChange ==
  /\ version < MaxVersion
  /\ version' = version + 1
  /\ UNCHANGED <<forceReloadCount, nRuns, stale, run, promise, isLoading, result, call>>

\* An observable the callback read has changed.  Only a run of loadCallback
\* depends on it: a disposed loader's computed no longer depends on anything.
ChangeDependency ==
  /\ version < MaxVersion
  /\ version' = version + 1
  /\ stale' = (stale \/ IsLoad(nRuns))
  /\ UNCHANGED <<forceReloadCount, nRuns, run, promise, isLoading, result, call>>

\* Mutant: a computed without keepAlive, which nobody observes and mobx never caches.
ReadUncached(count) ==
  /\ forceReloadCount' = count
  /\ nRuns < MaxRuns
  /\ nRuns' = nRuns + 1
  /\ run' = [run EXCEPT ![nRuns + 1] =
               [state |-> "pending", version |-> version, force |-> count]]
  /\ stale' = FALSE

\* Reading loadKeepAlive once _forceReloadCount has become `count`: the cached
\* promise, or a new run when the computed is stale.
ReadLoadKeepAlive(count) ==
  /\ forceReloadCount' = count
  /\ IF stale \/ count # forceReloadCount
       THEN /\ nRuns < MaxRuns
            /\ nRuns' = nRuns + 1
            /\ run' = [run EXCEPT ![nRuns + 1] =
                         [state |-> "pending", version |-> version, force |-> count]]
       ELSE UNCHANGED <<nRuns, run>>
  /\ stale' = FALSE

\* load() up to its await.
BeginLoad(c, count) ==
  /\ ~Waiting(c)
  /\ ReadLoadKeepAlive(count)
  /\ promise' = nRuns'
  /\ isLoading' = (isLoading \/ promise # nRuns')
  /\ call' = [call EXCEPT ![c] = [state |-> "waiting", run |-> nRuns']]
  /\ UNCHANGED <<version, result>>

Load(c) == BeginLoad(c, forceReloadCount)

ForceLoad(c) ==
  /\ forceReloadCount < MaxForce
  /\ BeginLoad(c, forceReloadCount + 1)

Dispose(c) == BeginLoad(c, -1)

\* The promise the callback returned is fulfilled or rejected.
Settle(r, outcome) ==
  /\ run[r].state = "pending"
  /\ run' = [run EXCEPT ![r].state = outcome]
  /\ UNCHANGED <<version, forceReloadCount, nRuns, stale, promise, isLoading,
                 result, call>>

\* Mutant: load() clears isLoading only when its promise is fulfilled.
ResumeKeepingErrorBusy(c) ==
  /\ Waiting(c)
  /\ Settled(call[c].run)
  /\ result' = run[call[c].run].state
  /\ isLoading' = (isLoading /\ run[call[c].run].state = "failed")
  /\ call' = [call EXCEPT ![c].state = run[call[c].run].state]
  /\ UNCHANGED <<version, forceReloadCount, nRuns, stale, run, promise>>

\* load() after its await: it reports its own promise, whichever is newest.
Resume(c) ==
  /\ Waiting(c)
  /\ Settled(call[c].run)
  /\ result' = run[call[c].run].state
  /\ isLoading' = FALSE
  /\ call' = [call EXCEPT ![c].state = run[call[c].run].state]
  /\ UNCHANGED <<version, forceReloadCount, nRuns, stale, run, promise>>

Next ==
  \/ ChangeDependency
  \/ \E c \in Call : Load(c) \/ ForceLoad(c) \/ Dispose(c) \/ Resume(c)
  \/ \E r \in Run, outcome \in Outcome : Settle(r, outcome)

Spec == Init /\ [][Next]_vars

\* The job queue runs every continuation, and every request of a callback ends
\* in a response, an error or a timeout.  Nobody has to call load().
Fairness ==
  /\ \A c \in Call : WF_vars(Resume(c))
  /\ \A r \in Run : WF_vars(\E outcome \in Outcome : Settle(r, outcome))

FairSpec == Spec /\ Fairness

-----------------------------------------------------------------------------
(* Properties *)

\* The loading indicator always has somebody who will clear it: while it shows,
\* an invocation of load() that waits for the latest _promise is in flight.
SpinnerOwned == isLoading => \E c \in Call : Waiting(c) /\ call[c].run = promise

\* Two consecutive runs were never made from the same observables with the same
\* count: loading again without a reason returns the promise there is.
Key(r) == <<run[r].force, IF IsLoad(r) THEN run[r].version ELSE 0>>

Memoised == \A r \in Run : 1 < r /\ r <= nRuns => Key(r) # Key(r - 1)

\* A caller's slot as LoadRequest sees it: the version its load was made from.
Request(c) ==
  [state  |-> call[c].state,
   served |-> IF call[c].run # 0 /\ IsLoad(call[c].run) THEN run[call[c].run].version ELSE -1]

Answered == INSTANCE LoadRequest WITH
  disposed <- forceReloadCount < 0,
  busy     <- isLoading,
  request  <- [c \in Call |-> Request(c)]

\* Whoever calls load() is answered in the end, and from a load of the observables
\* as they were at the call, or by no load when the loader is disposed.
ImplementsLoadRequest == Answered!FairSpec

\* What makes Memoised and the answers inductive: the cached promise is the
\* newest, it was made with the current count, and mobx knows whether what it was
\* made from is still current.
CacheKnown ==
  /\ promise = nRuns
  /\ \A r \in Run : run[r].state = "unused" <=> r > nRuns
  /\ IF nRuns = 0
       THEN stale /\ forceReloadCount = 0
       ELSE /\ run[nRuns].force = forceReloadCount
            /\ stale => IsLoad(nRuns) /\ run[nRuns].version < version
            /\ ~stale /\ IsLoad(nRuns) => run[nRuns].version = version
  /\ \A c \in Call : /\ call[c].run <= nRuns
                     /\ call[c].state = "idle" <=> call[c].run = 0

IInv == TypeOK /\ CacheKnown /\ SpinnerOwned /\ Memoised

\* "Gets a value indicating whether we are currently loading" (AsyncLoader.ts:101):
\* the load of the latest promise never runs unannounced.
LoadingIsShown == promise # 0 /\ run[promise].state = "pending" => isLoading

\* Once every invocation has returned, the result is that of the latest promise.
ResultIsLatest ==
  promise # 0 /\ (\A c \in Call : ~Waiting(c)) => result = run[promise].state

=============================================================================
