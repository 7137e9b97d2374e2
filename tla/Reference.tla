----------------------------- MODULE Reference -----------------------------
(***************************************************************************)
(* lib/ModelMixins/ReferenceMixin.ts: a catalog item that stands for       *)
(* another model, its target, which is found by an AsyncLoader whose       *)
(* callback is asynchronous and assigns _target as its last act.           *)
(*                                                                         *)
(* Models are numbered after the run that constructed them: model r is     *)
(* what forceLoadReference made during run r, unless it chose to update    *)
(* the target it was shown when the run began (as MagdaReference does).    *)
(* What a model holds is the version it was loaded from.                   *)
(***************************************************************************)
EXTENDS Integers

CONSTANTS Call, MaxRuns, MaxVersion, MaxForce

ASSUME ReferenceAssumption == MaxRuns \in Nat /\ MaxVersion \in Nat /\ MaxForce \in Nat

VARIABLES
  version, forceReloadCount, nRuns, stale, run, promise, isLoading, result, call,
                   \* _referenceLoader, an AsyncLoader
  previousTarget,  \* per run: _target when the callback began
  target,          \* _target, 0 for undefined
  content,         \* per model: the version it holds
  applied,         \* per model: has been given the reference's containers and itemProperties
  returning        \* loadReference() is between its loader's answer and its own return

loaderVars == <<version, forceReloadCount, nRuns, stale, run, promise, isLoading,
                result, call>>
vars == <<version, forceReloadCount, nRuns, stale, run, promise, isLoading, result,
          call, previousTarget, target, content, applied, returning>>

Loader == INSTANCE AsyncLoader

Run == Loader!Run

TypeOK ==
  /\ Loader!TypeOK
  /\ previousTarget \in [Run -> 0..MaxRuns]
  /\ target \in 0..MaxRuns
  /\ content \in [Run -> 0..MaxVersion]
  /\ applied \in [Run -> BOOLEAN]
  /\ returning \in [Call -> BOOLEAN]

Init ==
  /\ Loader!Init
  /\ previousTarget = [r \in Run |-> 0]
  /\ target = 0
  /\ content = [r \in Run |-> 0]
  /\ applied = [r \in Run |-> FALSE]
  /\ returning = [c \in Call |-> FALSE]

-----------------------------------------------------------------------------
\* An observable that forceLoadReference read has changed.
ChangeDependency ==
  /\ Loader!ChangeDependency
  /\ UNCHANGED <<previousTarget, target, content, applied, returning>>

\* Mutant: the old target is dropped as soon as a reload begins.
LoadDroppingTarget(c) ==
  /\ ~returning[c]
  /\ Loader!Load(c) \/ Loader!ForceLoad(c)
  /\ previousTarget' = IF nRuns' = nRuns THEN previousTarget
                       ELSE [previousTarget EXCEPT ![nRuns'] = target]
  /\ target' = IF nRuns' = nRuns THEN target ELSE 0
  /\ UNCHANGED <<content, applied, returning>>

\* loadReference(forceReload) up to its await; a run that begins is shown the target.
LoadReference(c) ==
  /\ ~returning[c]
  /\ Loader!Load(c) \/ Loader!ForceLoad(c)
  /\ previousTarget' = IF nRuns' = nRuns THEN previousTarget
                       ELSE [previousTarget EXCEPT ![nRuns'] = target]
  /\ UNCHANGED <<target, content, applied, returning>>

\* The callback found a target that passed its checks, and assigns _target.
RunSucceeds(r) ==
  /\ Loader!Settle(r, "ok")
  /\ \E model \in {r, previousTarget[r]} \ {0} :
       /\ target' = model
       /\ content' = [content EXCEPT ![model] = run[r].version]
  /\ UNCHANGED <<previousTarget, applied, returning>>

\* forceLoadReference threw, returned nothing, or returned a model whose uniqueId
\* or sourceReference is not what it must be; a disposed loader's promise settles.
RunEndsWithoutTarget(r) ==
  /\ Loader!Settle(r, "failed") \/ (~Loader!IsLoad(r) /\ Loader!Settle(r, "ok"))
  /\ UNCHANGED <<previousTarget, target, content, applied, returning>>

\* The loader answers loadReference().
Resume(c) ==
  /\ Loader!Resume(c)
  /\ returning' = [returning EXCEPT ![c] = Loader!IsLoad(call[c].run)]
  /\ UNCHANGED <<previousTarget, target, content, applied>>

\* Mutant: a caller whose load has been superseded leaves the target alone.
ApplyUnlessSuperseded(c) ==
  /\ returning[c]
  /\ returning' = [returning EXCEPT ![c] = FALSE]
  /\ applied' = IF call[c].state = "ok" /\ target # 0 /\ call[c].run = nRuns
                  THEN [applied EXCEPT ![target] = TRUE] ELSE applied
  /\ UNCHANGED <<loaderVars, previousTarget, target, content>>

\* The rest of loadReference(): this.target, whichever it is by now, is given the
\* container ids and the item properties of the reference.
ApplyToTarget(c) ==
  /\ returning[c]
  /\ returning' = [returning EXCEPT ![c] = FALSE]
  /\ applied' = IF call[c].state = "ok" /\ target # 0
                  THEN [applied EXCEPT ![target] = TRUE] ELSE applied
  /\ UNCHANGED <<loaderVars, previousTarget, target, content>>

Dispose(c) ==
  /\ ~returning[c]
  /\ Loader!Dispose(c)
  /\ UNCHANGED <<previousTarget, target, content, applied, returning>>

Next ==
  \/ ChangeDependency
  \/ \E c \in Call : LoadReference(c) \/ Resume(c) \/ ApplyToTarget(c) \/ Dispose(c)
  \/ \E r \in Run : (Loader!IsLoad(r) /\ RunSucceeds(r)) \/ RunEndsWithoutTarget(r)

Spec == Init /\ [][Next]_vars

-----------------------------------------------------------------------------
(* Properties *)

InFlight(c) == Loader!Waiting(c) \/ returning[c]
Quiet == \A c \in Call : ~InFlight(c)

\* "When the returned promise resolves, target should return the target of the
\* reference" (ReferenceMixin.ts:108-109): whoever was answered without an error by
\* a load finds a target, whatever was reloaded or disposed meanwhile.
TargetWhenResolved ==
  \A c \in Call : /\ call[c].state = "ok"
                  /\ Loader!IsLoad(call[c].run)
                  => target # 0

\* No target is left without the reference's containers and item properties once
\* the calls that could bring them are over, even when a target replaced another
\* between a loader's answer and the end of loadReference().
TargetIsFurnished == Quiet /\ target # 0 => applied[target]

\* "While this is true, target may be undefined or stale" (ReferenceMixin.ts:83-84):
\* with nothing loading, nothing in flight and the newest load a success, the target
\* holds what that load found.
TargetIsCurrent ==
  Quiet /\ ~isLoading /\ nRuns > 0 /\ Loader!IsLoad(nRuns) /\ run[nRuns].state = "ok"
    => content[target] = run[nRuns].version

=============================================================================
