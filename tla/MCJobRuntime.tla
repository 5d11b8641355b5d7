---------------------------- MODULE MCJobRuntime ----------------------------
(***************************************************************************)
(* JobRuntime for TLC.  One behaviour stays within one scope: the outside  *)
(* activity it has, and how many jobs, generations, tokens and attempts of *)
(* a job it may use up and how many workers are busy.  A run explores the  *)
(* scopes side by side, each in depth, instead of their product.  The      *)
(* workers are interchangeable tasks of one loop (start_workers), so       *)
(* states are identified up to their names.                                *)
(***************************************************************************)
EXTENDS JobRuntime, TLC

CONSTANT Scopes   \* the scopes of the instance

VARIABLE scope

Scope(born, admits, jobs, gens, tokens, attempts, busy) ==
  [born |-> born, admits |-> admits, jobs |-> jobs, gens |-> gens, tokens |-> tokens,
   attempts |-> attempts, busy |-> busy]

\* Readers among endpoints and offboarding.
Reads == Scope(Devices, {"read", "endpoint", "offboard", "crash"}, 3, 0, 3, 2, 2)

\* Coalescing applies.
Applies == Scope(Devices, {"apply", "crash"}, 2, 2, 2, 1, 2)

\* Dedicated applies and removals with the operator's exits.
Removals == Scope(Devices, {"dedicated", "removal", "retry"}, 2, 2, 2, 2, 2)

\* Provisions, of a device that does not exist yet.
Provisions == Scope({}, {"provision", "offboard", "crash"}, 2, 0, 2, 2, 2)

\* Three generations of one device, under one worker.
Chain == Scope(Devices, {"apply", "dedicated", "crash"}, 3, 3, 3, 1, 1)

Depth == {Reads, Applies, Removals, Provisions, Chain}

\* For liveness: what the bounds of a scope cut off is only outside activity,
\* of which nothing is assumed.
LiveWriters == Scope(Devices, {"apply", "endpoint", "crash"}, MaxJobs, MaxGens, MaxTokens, MaxAttempts, 2)
LiveProvisions == Scope(Devices, {"provision", "crash"}, 1, MaxGens, MaxTokens, MaxAttempts, 2)
Live == {LiveWriters, LiveProvisions}

Admitted(d) ==
  \/ /\ lastJob < scope.jobs
     /\ \/ "read" \in scope.admits /\ AdmitRead(d)
        \/ \E kind \in DeviceWriting :
             (IF kind = "apply" THEN "dedicated" ELSE kind) \in scope.admits /\ AdmitDedicated(d, kind)
  \/ "apply" \in scope.admits /\ AdmitApply(d)
  \/ "retry" \in scope.admits /\ (RetryGeneration(d) \/ ReconcileGeneration(d))
  \/ "endpoint" \in scope.admits /\ EndpointAcquire(d)
  \/ "offboard" \in scope.admits /\ Offboard(d)

ScopedOutside ==
  \/ \E j \in Jobs : NsoActs(j)
  \/ \E d \in Devices : EndpointRelease(d) \/ Admitted(d)
  \/ "provision" \in scope.admits /\ lastJob < scope.jobs /\ AdmitProvision

ScopedRecovery ==
  \/ \E d \in Devices : RevokeStaleClaim(d) \/ RecoverGenerations(d)
  \/ \E j \in Jobs : OrphanScan(j)
  \/ OrphanDispose \/ StartWorkers
  \/ "crash" \in scope.admits /\ Crash

InScope ==
  /\ lastJob <= scope.jobs /\ nextToken <= scope.tokens + 1
  /\ \A d \in Devices : lastGen[d] <= scope.gens
  /\ \A j \in 1 .. lastJob : job[j].attempt <= scope.attempts
  /\ Cardinality({w \in Workers : pc[w] # "idle"}) <= scope.busy

ScopedInit ==
  /\ scope \in Scopes
  /\ StoreInit(scope.born) /\ ProcInit

ScopedNext ==
  /\ UNCHANGED scope
  /\ (\E w \in Workers : WorkerStep(w)) \/ ScopedRecovery \/ ScopedOutside
  /\ InScope'

ScopedSpec == ScopedInit /\ [][ScopedNext]_<<vars, scope>>

ScopedFairSpec == ScopedSpec /\ Fairness

WorkerSymmetry == Permutations(Workers)
=============================================================================
