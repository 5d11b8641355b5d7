------------------------- MODULE JobRuntimeTheorems -------------------------
(***************************************************************************)
(* The remaining steps keep Ownership, and the theorems about every        *)
(* behaviour of the runtime, for any number of workers, devices, jobs,     *)
(* generations, tokens, attempts and crashes.                              *)
(***************************************************************************)
EXTENDS OwnershipProofs

\* Most leaves are first-order; SMT, slow to encode large contexts, comes second.
USE ZenonT(10), SMTT(30)

\* A step that at most adds a job, and moves nothing else the invariant reads.
LEMMA ExtendStep ==
  ASSUME Ownership, JobExtended, gen' \in [Devices -> [Gens -> Generation]],
         lastGen' \in [Devices -> 0 .. MaxGens], up' \in BOOLEAN,
         wire' \in [Jobs -> {"none", "open", "landed", "rejected"}],
         UNCHANGED <<claim, nextToken, settleSeq, exe, live, pc, wk, ep, scan, crashes>>
  PROVE  Ownership'
<1>1. TypeOK /\ StoreTypeOK
  BY DEF Ownership, TypeOK
<1>2. job' \in [Jobs -> Job] /\ lastJob' \in 0 .. MaxJobs
  BY <1>1, AddJobEffect DEF JobExtended, StoreTypeOK
<1>3. TypeOK'
  BY <1>1, <1>2 DEF TypeOK, StoreTypeOK
<1>4. Unique'
  BY DEF Ownership, Unique
<1> QED BY <1>3, <1>4, ExtendKeeps DEF Ownership

LEMMA AddGenerationEffect ==
  ASSUME StoreTypeOK, NEW d \in Devices, NEW kind \in DeviceWriting, NEW c \in 0 .. MaxJobs,
         AddGeneration(d, kind, c)
  PROVE  gen' \in [Devices -> [Gens -> Generation]] /\ lastGen' \in [Devices -> 0 .. MaxGens]
<1> USE ConstantsFacts
<1> DEFINE g == [status |-> "pending", job |-> c, kind |-> kind]
<1>1. g \in Generation
  BY DEF Generation, GenerationStatus
<1>2. /\ lastGen[d] < MaxGens /\ lastGen' = [lastGen EXCEPT ![d] = lastGen[d] + 1]
      /\ gen' = [gen EXCEPT ![d] = [gen[d] EXCEPT ![lastGen[d] + 1] = g]]
  BY DEF AddGeneration, StoreTypeOK
<1> HIDE DEF g
<1>3. lastGen[d] + 1 \in 0 .. MaxGens /\ lastGen[d] + 1 \in Gens
  BY SMTT(30), <1>2 DEF StoreTypeOK, Gens
<1> QED BY <1>1, <1>2, <1>3 DEF StoreTypeOK

LEMMA AdmitStep ==
  ASSUME Ownership, NEW d \in Devices,
         AdmitRead(d) \/ AdmitApply(d) \/ (\E kind \in DeviceWriting : AdmitDedicated(d, kind))
  PROVE  Ownership'
<1> USE ConstantsFacts
<1>0. TypeOK /\ StoreTypeOK /\ d \in Devices \cup {NoDevice}
  BY DEF Ownership, TypeOK
<1>1. UNCHANGED <<claim, nextToken, settleSeq, exe, live, wire, pc, wk, ep, scan, up, crashes>>
  BY DEF AdmitRead, AdmitApply, AdmitDedicated, procVars
<1>2. "read" \in JobType /\ "apply" \in JobType /\ "apply" \in DeviceWriting
      /\ \A kind \in DeviceWriting : kind \in JobType /\ kind # "provision"
  BY DEF JobType, DeviceWriting
<1>3. CASE AdmitRead(d)
  <2>1. AddJob("read", d, TRUE) /\ UNCHANGED <<gen, lastGen>>
    BY <1>3 DEF AdmitRead
  <2>2. JobExtended
    BY <1>0, <1>2, <2>1 DEF JobExtended
  <2> QED BY <1>0, <1>1, <2>1, <2>2, ExtendStep DEF TypeOK, StoreTypeOK
<1>4. ASSUME NEW kind \in DeviceWriting, NEW c \in BOOLEAN,
             AddJob(kind, d, c), AddGeneration(d, kind, lastJob + 1)
      PROVE  Ownership'
  <2>1. lastJob + 1 \in 0 .. MaxJobs
    BY SMTT(30), <1>0, <1>4 DEF AddJob, StoreTypeOK
  <2>2. JobExtended
    BY <1>0, <1>2, <1>4 DEF JobExtended
  <2> QED BY <1>0, <1>1, <1>4, <2>1, <2>2, AddGenerationEffect, ExtendStep DEF TypeOK, StoreTypeOK
<1>5. CASE AdmitApply(d)
  <2> DEFINE winners == {j \in Queue(d) : job[j].type = "apply" /\ job[j].coalescible}
             carried == Carried(d, Min(winners))
             c == IF carried = {} \/ Max(carried) = lastGen[d] THEN Min(winners) ELSE 0
  <2>1. CASE winners = {}
    BY <1>2, <1>4, <1>5, <2>1 DEF AdmitApply
  <2>2. CASE winners # {}
    <3>1. AddGeneration(d, "apply", c) /\ UNCHANGED <<job, lastJob>>
      BY <1>5, <2>2 DEF AdmitApply
    <3>2. c \in 0 .. MaxJobs
      <4>1. winners \in SUBSET Nat /\ winners \subseteq Jobs
        BY DEF Queue
      <4>2. Min(winners) \in Jobs
        BY <2>2, <4>1, MinLeast
      <4> QED BY <4>2 DEF Jobs
    <3> HIDE DEF c
    <3>3. gen' \in [Devices -> [Gens -> Generation]] /\ lastGen' \in [Devices -> 0 .. MaxGens]
      BY <1>0, <1>2, <3>1, <3>2, AddGenerationEffect
    <3> QED BY <1>0, <1>1, <3>1, <3>3, ExtendStep DEF JobExtended, TypeOK, StoreTypeOK
  <2> QED BY <2>1, <2>2
<1>6. CASE \E kind \in DeviceWriting : AdmitDedicated(d, kind)
  BY <1>4, <1>6 DEF AdmitDedicated
<1> QED BY <1>3, <1>5, <1>6

\* The operator's exits and recovery of the generations.
LEMMA GenerationStep ==
  ASSUME Ownership, NEW d \in Devices,
         RetryGeneration(d) \/ ReconcileGeneration(d) \/ RecoverGenerations(d)
  PROVE  Ownership'
<1> USE ConstantsFacts
<1>0. TypeOK /\ StoreTypeOK /\ d \in Devices \cup {NoDevice} /\ gen[d] \in [Gens -> Generation]
  BY DEF Ownership, TypeOK, StoreTypeOK
<1>1. UNCHANGED <<claim, nextToken, lastGen, settleSeq, exe, live, wire, pc, wk, ep, scan, up, crashes>>
  BY DEF RetryGeneration, ReconcileGeneration, RecoverGenerations, procVars
<1>2. SUFFICES JobExtended /\ gen' \in [Devices -> [Gens -> Generation]]
  BY <1>0, <1>1, ExtendStep DEF TypeOK, StoreTypeOK
<1>3. \A g \in Generation, s \in GenerationStatus : [g EXCEPT !.status = s] \in Generation
  BY DEF Generation
<1>4. {"pending", "abandoned", "outcome_unknown"} \subseteq GenerationStatus
  BY DEF GenerationStatus
<1> DEFINE h == Min(Uncrossed(gen[d]))
<1>5. BlockedHead(d) => h \in Gens
  <2>1. Uncrossed(gen[d]) \in SUBSET Nat /\ Uncrossed(gen[d]) \subseteq Gens
    BY DEF Uncrossed
  <2> QED BY <2>1, MinLeast DEF BlockedHead
<1>6. CASE RetryGeneration(d)
  <2>1. h \in Gens /\ AddJob(gen[d][h].kind, d, FALSE)
        /\ gen' = [gen EXCEPT ![d][h].status = "pending", ![d][h].job = lastJob + 1]
    BY <1>5, <1>6 DEF RetryGeneration
  <2> HIDE DEF h
  <2>2. gen[d][h] \in Generation /\ gen[d][h].kind \in JobType /\ gen[d][h].kind # "provision"
    BY <1>0, <2>1 DEF Generation, DeviceWriting, JobType
  <2>3. lastJob + 1 \in 0 .. MaxJobs
    BY SMTT(30), <1>0, <2>1 DEF AddJob, StoreTypeOK
  <2>4. \A g \in Generation : [g EXCEPT !.status = "pending", !.job = lastJob + 1] \in Generation
    BY <2>3 DEF Generation, GenerationStatus
  <2>5. gen' \in [Devices -> [Gens -> Generation]]
    BY <1>0, <2>1, <2>2, <2>3 DEF StoreTypeOK, Generation, GenerationStatus
  <2> QED BY <1>0, <2>1, <2>2, <2>5 DEF JobExtended
<1>7. CASE ReconcileGeneration(d)
  <2> DEFINE gens == [gen[d] EXCEPT ![h].status = "abandoned"]
  <2>1. h \in Gens /\ AdvanceLocked(d, gens)
    BY <1>5, <1>7 DEF ReconcileGeneration
  <2> HIDE DEF h
  <2>2. gens \in [Gens -> Generation]
    BY <1>0, <1>3, <1>4, <2>1
  <2> HIDE DEF gens
  <2> QED BY <1>0, <2>1, <2>2, AdvanceEffect
<1>8. CASE RecoverGenerations(d)
  <2> DEFINE gens == [n \in Gens |->
               IF /\ gen[d][n].status = "running"
                  /\ gen[d][n].job = 0 \/ job[gen[d][n].job].status # "running"
               THEN [gen[d][n] EXCEPT !.status = "outcome_unknown"] ELSE gen[d][n]]
  <2>1. AdvanceLocked(d, gens)
    BY <1>8 DEF RecoverGenerations
  <2>2. gens \in [Gens -> Generation]
    BY <1>0, <1>3, <1>4
  <2> HIDE DEF gens
  <2> QED BY <1>0, <2>1, <2>2, AdvanceEffect
<1> QED BY <1>6, <1>7, <1>8

LEMMA OutsideStep ==
  ASSUME Ownership, AdmitProvision \/ (\E j \in Jobs : NsoActs(j)) \/ StartWorkers
  PROVE  Ownership'
<1>0. TypeOK /\ StoreTypeOK
  BY DEF Ownership, TypeOK
<1>1. CASE AdmitProvision
  <2>1. /\ AddJob("provision", NoDevice, FALSE)
        /\ UNCHANGED <<claim, nextToken, gen, lastGen, settleSeq, exe, live, wire, pc, wk, ep, scan, up, crashes>>
    BY <1>1 DEF AdmitProvision, procVars
  <2>2. JobExtended
    BY <2>1 DEF JobExtended, JobType
  <2> QED BY <1>0, <2>1, <2>2, ExtendStep DEF TypeOK, StoreTypeOK
<1>2. CASE \E j \in Jobs : NsoActs(j)
  <2>1. PICK j \in Jobs, fate \in {"landed", "rejected"} : wire' = [wire EXCEPT ![j] = fate]
    BY <1>2 DEF NsoActs
  <2>2. UNCHANGED <<claim, nextToken, job, lastJob, gen, lastGen, settleSeq, exe, live, pc, wk, ep, scan, up, crashes>>
    BY <1>2 DEF NsoActs, procVars
  <2>3. wire' \in [Jobs -> {"none", "open", "landed", "rejected"}]
    BY <1>0, <2>1 DEF StoreTypeOK
  <2> QED BY <1>0, <2>2, <2>3, ExtendStep DEF JobExtended, TypeOK, StoreTypeOK
<1>3. CASE StartWorkers
  BY <1>0, <1>3, ExtendStep DEF StartWorkers, JobExtended, TypeOK, StoreTypeOK, storeVars
<1> QED BY <1>1, <1>2, <1>3

\* A crash leaves the tables and takes every registration with it.
LEMMA CrashStep ==
  ASSUME Ownership, Crash
  PROVE  Ownership'
<1> USE ConstantsFacts, UnregisteredType
<1>0. /\ TypeOK /\ pc' = [w \in Workers |-> "idle"] /\ wk' = [w \in Workers |-> Unregistered]
      /\ ep' = [d \in Devices |-> 0] /\ scan' = NoScan /\ up' = FALSE /\ crashes' = crashes + 1
      /\ crashes < MaxCrashes
      /\ UNCHANGED <<claim, nextToken, job, lastJob, gen, lastGen, settleSeq, exe, live, wire>>
  BY DEF Ownership, Crash, storeVars
<1>1. TypeOK'
  <2>1. crashes' \in 0 .. MaxCrashes /\ NoScan \in [job : 0 .. MaxJobs, attempt : Nat]
    BY SMTT(30), <1>0, RuntimeAssumption DEF TypeOK, NoScan
  <2>2. pc' \in [Workers -> PC] /\ wk' \in [Workers -> Registration] /\ ep' \in [Devices -> 0 .. MaxTokens]
    BY <1>0 DEF PC
  <2> QED BY <1>0, <2>1, <2>2 DEF TypeOK, StoreTypeOK
<1>2. \A w \in Workers : WorkerOK(w)'
  BY <1>0, IdleOK
<1>3. Unique'
  <2>1. nextToken \in Nat \ {0} /\ Unregistered.token = 0 /\ Unregistered.job = 0
    BY <1>0, TypesAt DEF Unregistered
  <2> QED BY SMTT(30), <1>0, <2>1 DEF Ownership, Unique
<1>4. \A d \in Devices : ClaimRow(d)'
  BY <1>0 DEF Ownership, ClaimRow
<1>5. (\A j \in Jobs : JobRow(j)') /\ ScanOK'
  BY <1>0 DEF Ownership, JobRow, ScanOK
<1> QED BY <1>1, <1>2, <1>3, <1>4, <1>5 DEF Ownership

\* Offboarding detaches jobs only from a device whose claim names no run.
LEMMA OffboardStep ==
  ASSUME Ownership, NEW d \in Devices, Offboard(d)
  PROVE  Ownership'
<1> USE ConstantsFacts
<1> DEFINE detached(j) == [job[j] EXCEPT !.dev = NoDevice,
             !.status = IF job[j].status \in Terminal THEN job[j].status ELSE "failed"]
<1>0. /\ TypeOK /\ StoreTypeOK /\ Unique /\ ep[d] # 0 /\ claim[d].token = ep[d]
      /\ job' = [j \in Jobs |-> IF job[j].dev # d THEN job[j] ELSE detached(j)]
      /\ exe' = [j \in Jobs |-> IF job[j].dev = d THEN NoExecution ELSE exe[j]]
      /\ gen' = [gen EXCEPT ![d] = [n \in Gens |-> NoGeneration]]
      /\ lastGen' = [lastGen EXCEPT ![d] = 0]
      /\ claim' = [claim EXCEPT ![d] = NoClaim]
      /\ live' = [live EXCEPT ![d] = "gone"] /\ ep' = [ep EXCEPT ![d] = 0]
      /\ UNCHANGED <<nextToken, lastJob, settleSeq, wire, pc, wk, scan, up, crashes>>
  BY DEF Ownership, TypeOK, Offboard
<1>1. ASSUME NEW j \in Jobs, job[j].dev = d
      PROVE  /\ detached(j) \in Job /\ detached(j).dev = NoDevice /\ detached(j).status \in Terminal
             /\ detached(j).type = job[j].type /\ detached(j).attempt = job[j].attempt
             /\ job[j].status # "absent"
  <2>1. job[j] \in Job /\ job[j].status # "absent"
    BY <1>0, <1>1 DEF StoreTypeOK, Ownership, JobRow
  <2> QED BY <2>1 DEF Job, JobStatus, Terminal
<1> HIDE DEF detached
<1>2. /\ job' \in [Jobs -> Job] /\ exe' \in [Jobs -> Execution]
      /\ \A j \in Jobs : /\ job'[j].type = job[j].type /\ job'[j].attempt = job[j].attempt
                         /\ job[j].dev # d => job'[j] = job[j] /\ exe'[j] = exe[j]
                         /\ job[j].dev = d => /\ job'[j].status \in Terminal /\ job'[j].dev = NoDevice
                                              /\ exe'[j].attempt = 0 /\ job[j].status # "absent"
  <2>1. NoExecution \in Execution /\ NoExecution.attempt = 0
    BY DEF NoExecution, Execution, Response
  <2> QED BY <1>0, <1>1, <2>1 DEF StoreTypeOK
<1>3. /\ \A e \in Devices \ {d} : claim'[e] = claim[e] /\ live'[e] = live[e] /\ ep'[e] = ep[e]
      /\ claim'[d] = NoClaim /\ ep'[d] = 0 /\ claim[d].job = 0
  <2>1. claim[d].job = 0
    BY <1>0 DEF Ownership, ClaimRow
  <2> QED BY <1>0, <2>1 DEF TypeOK, StoreTypeOK
<1>4. TypeOK'
  <2>1. gen' \in [Devices -> [Gens -> Generation]] /\ lastGen' \in [Devices -> 0 .. MaxGens]
    <3>1. NoGeneration \in Generation
      BY DEF NoGeneration, Generation, GenerationStatus, DeviceWriting
    <3> QED BY SMTT(30), <1>0, <3>1 DEF StoreTypeOK
  <2>2. claim' \in [Devices -> Claim]
    BY <1>0, DeleteTypes
  <2>3. ep' \in [Devices -> 0 .. MaxTokens] /\ live' \in [Devices -> {"unborn", "live", "gone"}]
    BY SMTT(30), <1>0 DEF TypeOK, StoreTypeOK
  <2> QED BY <1>0, <1>2, <2>1, <2>2, <2>3 DEF TypeOK, StoreTypeOK
<1>5. Unique'
  <2>1. nextToken \in Nat \ {0} /\ NoClaim.token = 0
    BY <1>0, TypesAt DEF NoClaim
  <2>2. \A e \in Devices : claim'[e].token < nextToken /\ ep'[e] < nextToken
    BY SMTT(30), <1>0, <1>3, <2>1 DEF Unique
  <2>3. \A v \in Workers, e \in Devices : ep'[e] # 0 => ep'[e] # wk[v].token
    BY SMTT(30), <1>0, <1>3 DEF Unique
  <2> QED BY <1>0, <2>2, <2>3 DEF Unique
<1>6. ASSUME NEW v \in Workers PROVE WorkerOK(v)'
  <2>0. WorkerOK(v) /\ pc'[v] = pc[v] /\ wk'[v] = wk[v]
    BY <1>0 DEF Ownership
  <2>1. wk[v].token # 0 => wk[v].dev \in Devices
    BY SMTT(30), <1>0, <2>0 DEF WorkerOK, PlacedAt, TypeOK, PC, Busy, Unregistered
  <2>2. /\ Holds(v)' <=> Holds(v)
        /\ Holds(v) => wk[v].dev # d /\ claim'[wk[v].dev] = claim[wk[v].dev]
    BY SMTT(30), <1>0, <1>3, <2>0, <2>1 DEF Holds, NoClaim, Unique
  <2>3. CASE pc[v] \notin Busy \/ job[wk[v].job].dev # d
    <3>1. pc[v] \in Busy => wk[v].job \in Jobs
      BY <2>0 DEF WorkerOK, PlacedAt
    <3>2. Undisturbed(v)
      BY <1>2, <2>0, <2>2, <2>3, <3>1 DEF Undisturbed
    <3> QED BY <2>0, <3>2, UndisturbedOK
  <2>4. CASE pc[v] \in Busy /\ job[wk[v].job].dev = d
    <3>0. wk[v].job \in Jobs
      BY <2>0, <2>4 DEF WorkerOK, PlacedAt
    <3>1. DeviceBound(v) => ~Holds(v)
      BY <2>0, <2>1, <2>2, <2>4, <3>0 DEF WorkerOK, HeldAt, Ownership, ClaimRow, DeviceBound, Holds
    <3>2. /\ job'[wk[v].job].type = job[wk[v].job].type /\ job'[wk[v].job].attempt = job[wk[v].job].attempt
          /\ job'[wk[v].job].status \in Terminal
      BY <1>2, <2>4, <3>0
    <3>3. PlacedAt(v)' /\ KindAt(v)'
      BY <2>0, <2>4, <3>0, <3>2 DEF WorkerOK, PlacedAt, KindAt, Runs, DeviceBound, Terminal
    <3>4. CurrentAt(v)'
      BY <2>0, <3>2 DEF CurrentAt, RunningAt, Terminal
    <3>5. CASE DeviceBound(v)
      BY <2>0, <2>2, <3>1, <3>3, <3>4, <3>5 DEF WorkerOK, HeldAt, SendingAt
    <3>6. CASE ~DeviceBound(v)
      <4>1. ~(pc[v] \in {"prepared", "put", "verify", "runfail", "post"}) /\ ~DeviceBound(v)'
        BY <2>0, <3>2, <3>6 DEF WorkerOK, KindAt, Runs, DeviceBound, DeviceWriting
      <4>2. HeldAt(v)' /\ SendingAt(v)'
        BY <2>0, <2>2, <2>4, <4>1 DEF WorkerOK, HeldAt, SendingAt
      <4> QED BY <3>3, <3>4, <4>2 DEF WorkerOK
    <3> QED BY <3>5, <3>6
  <2> QED BY <2>3, <2>4
<1>7. ASSUME NEW e \in Devices PROVE ClaimRow(e)'
  <2>0. ClaimRow(e) /\ claim[e].job \in 0 .. MaxJobs
    BY <1>0, TypesAt DEF Ownership
  <2>1. CASE e = d
    BY SMTT(30), <1>3, <2>1 DEF ClaimRow, NoClaim
  <2>2. CASE e # d
    <3>1. claim[e].job # 0 => claim[e].job \in Jobs
      BY <2>0 DEF Jobs
    <3>2. claim'[e] = claim[e] /\ live'[e] = live[e] /\ ep'[e] = ep[e]
      BY <1>3, <2>2
    <3> QED BY SMTT(30), <1>2, <2>0, <2>2, <3>1, <3>2 DEF ClaimRow, Terminal
  <2> QED BY <2>1, <2>2
<1>8. ASSUME NEW j \in Jobs PROVE JobRow(j)'
  <2>0. JobRow(j) /\ lastJob' = lastJob
    BY <1>0 DEF Ownership
  <2>1. CASE job[j].dev = d
    BY <1>2, <2>0, <2>1 DEF JobRow, Terminal
  <2>2. CASE job[j].dev # d
    BY SMTT(30), <1>2, <1>3, <2>0, <2>2 DEF JobRow
  <2> QED BY <2>1, <2>2
<1>9. ScanOK'
  BY <1>0, <1>2 DEF Ownership, ScanOK, Terminal
<1> QED BY <1>4, <1>5, <1>6, <1>7, <1>8, <1>9 DEF Ownership

-----------------------------------------------------------------------------
(* The theorems.                                                           *)

LEMMA InitOwnership == Init => Ownership
<1> USE ConstantsFacts, UnregisteredType
<1> SUFFICES ASSUME Init PROVE Ownership
  OBVIOUS
<1>0. /\ claim = [d \in Devices |-> NoClaim] /\ nextToken = 1 /\ job = [j \in Jobs |-> NoJob] /\ lastJob = 0
      /\ gen = [d \in Devices |-> [n \in Gens |-> NoGeneration]] /\ lastGen = [d \in Devices |-> 0]
      /\ settleSeq = [d \in Devices |-> 0] /\ exe = [j \in Jobs |-> NoExecution]
      /\ live = [d \in Devices |-> IF d \in Born THEN "live" ELSE "unborn"] /\ wire = [j \in Jobs |-> "none"]
      /\ pc = [w \in Workers |-> "idle"] /\ wk = [w \in Workers |-> Unregistered]
      /\ ep = [d \in Devices |-> 0] /\ scan = NoScan /\ up = TRUE /\ crashes = 0
  BY DEF Init, ProcInit, StoreInit
<1>1. /\ NoClaim \in Claim /\ NoJob \in Job /\ NoGeneration \in Generation /\ NoExecution \in Execution
      /\ NoScan \in [job : 0 .. MaxJobs, attempt : Nat]
  BY SMTT(30) DEF NoClaim, Claim, NoJob, Job, JobType, JobStatus, Evidence, NoGeneration, Generation, GenerationStatus,
       DeviceWriting, NoExecution, Execution, Response, NoScan
<1>2. TypeOK
  <2>1. StoreTypeOK
    BY SMTT(30), <1>0, <1>1 DEF StoreTypeOK
  <2>2. pc \in [Workers -> PC] /\ wk \in [Workers -> Registration] /\ ep \in [Devices -> 0 .. MaxTokens]
    BY <1>0 DEF PC
  <2> QED BY SMTT(30), <1>0, <1>1, <2>1, <2>2, RuntimeAssumption DEF TypeOK
<1>3. Unique /\ ScanOK
  BY <1>0 DEF Unique, ScanOK, NoClaim, Unregistered
<1>4. \A w \in Workers : WorkerOK(w)
  BY <1>0 DEF WorkerOK, PlacedAt, KindAt, HeldAt, CurrentAt, SendingAt, Holds, Unregistered, Busy, Executing
<1>5. \A d \in Devices : ClaimRow(d)
  BY <1>0 DEF ClaimRow, NoClaim
<1>6. \A j \in Jobs : JobRow(j)
  BY SMTT(30), <1>0 DEF JobRow, NoJob, NoExecution, Jobs
<1> QED BY <1>2, <1>3, <1>4, <1>5, <1>6 DEF Ownership

LEMMA WorkerStepOwnership ==
  ASSUME Ownership, NEW w \in Workers, WorkerStep(w)
  PROVE  Ownership'
<1>1. CASE Discover(w) \/ AcquireConflict(w) \/ NothingRunnable(w) \/ StartFails(w) \/ EnsureWorkers(w) \/ ClaimLost(w)
  BY <1>1, PollStep
<1>2. CASE AcquireClaim(w)
  BY <1>2, AcquireClaimStep
<1>3. CASE StartHead(w) \/ StartClaimless(w)
  BY <1>3, StartHeadStep, StartClaimlessStep
<1>4. CASE GiveBack(w) \/ LinkRefused(w)
  BY <1>4, GiveBackStep
<1>5. CASE RunSucceed(w) \/ MarkJobFailed(w)
  BY <1>5, RunSucceedStep, MarkJobFailedStep
<1>6. CASE RunRaises(w) \/ WriterRaises(w) \/ BudgetExpires(w)
  BY <1>6, RaiseStep
<1>7. CASE \E d \in Devices : ProvisionInsert(w, d) \/ ProvisionAcquire(w, d)
  BY <1>7, ProvisionClaimStep
<1>8. CASE LinkExisting(w)
  BY <1>8, LinkExistingStep
<1>9. CASE FinalizeEmpty(w) \/ SettleUnsent(w) \/ SettleSuccess(w) \/ RunFail(w)
  BY <1>9, FinalizeEmptyStep, SettleUnsentStep, SettleSuccessStep, RunFailStep
<1>10. CASE Prepare(w) \/ GuardBlocks(w) \/ PutResponse(w)
  BY <1>10, WriterStep
<1>11. CASE SendPut(w)
  BY <1>11, SendPutStep
<1>12. CASE Post(w) \/ AdvanceGenerations(w)
  BY <1>12, PostStep, AdvanceGenerationsStep
<1>13. CASE DisposeCancelled(w) \/ MarkFailedAndRelease(w)
  <2>1. PICK to : pc[w] \in {"cancel", "failrel"} /\ DisposeAndRelease(w, to)
    BY <1>13 DEF DisposeCancelled, MarkFailedAndRelease
  <2>2. pc[w] \in Busy
    BY <2>1 DEF Busy
  <2> QED BY <2>1, <2>2, DisposeAndReleaseStep
<1>14. CASE Release(w)
  BY <1>14, ReleaseStep
<1> QED BY <1>1, <1>2, <1>3, <1>4, <1>5, <1>6, <1>7, <1>8, <1>9, <1>10, <1>11, <1>12, <1>13, <1>14 DEF WorkerStep

LEMMA StutterOwnership ==
  ASSUME Ownership, UNCHANGED vars
  PROVE  Ownership'
<1>1. UNCHANGED <<claim, nextToken, job, lastJob, gen, lastGen, settleSeq, exe, live, wire, pc, wk, ep, scan, up, crashes>>
  BY DEF vars, storeVars, procVars
<1> QED BY <1>1, ExtendStep DEF JobExtended, Ownership, TypeOK, StoreTypeOK

LEMMA NextOwnership == Ownership /\ [Next]_vars => Ownership'
<1> SUFFICES ASSUME Ownership, [Next]_vars PROVE Ownership'
  OBVIOUS
<1>1. CASE \E w \in Workers : WorkerStep(w)
  BY <1>1, WorkerStepOwnership
<1>2. CASE Recovery
  BY <1>2, RevokeStaleClaimStep, GenerationStep, OrphanScanStep, OrphanDisposeStep, CrashStep, OutsideStep DEF Recovery
<1>3. CASE Outside
  BY <1>3, OutsideStep, AdmitStep, GenerationStep, EndpointAcquireStep, EndpointReleaseStep, OffboardStep DEF Outside
<1>4. CASE UNCHANGED vars
  BY <1>4, StutterOwnership
<1> QED BY <1>1, <1>2, <1>3, <1>4 DEF Next

\* The inductive invariant: which worker holds which claim, run and attempt, at
\* every place of _run_one_job, holds in every reachable state.
THEOREM OwnershipInvariant == Spec => []Ownership
BY InitOwnership, NextOwnership, PTL DEF Spec

\* Type correctness of the tables and of the process state.
THEOREM TypeCorrect == Spec => []TypeOK
<1>1. Ownership => TypeOK
  BY DEF Ownership
<1> QED BY <1>1, OwnershipInvariant, PTL

\* Recovery never re-dispositions a device-bound run behind a valid token: a run
\* that has not written its own end and whose token is still in the claim row is
\* the job's present run, and the claim names it (lock_claim, revoke_stale_claims,
\* requeue_orphaned_jobs).
THEOREM TokenImpliesRunAlways == Spec => []TokenImpliesRun
<1>1. Ownership => TokenImpliesRun
  BY DEF Ownership, WorkerOK, HeldAt, TokenImpliesRun, DeviceBound, Runs, Busy, Executing
<1> QED BY <1>1, OwnershipInvariant, PTL

\* No device-bound run is ever stranded: the claim of its device names it, so the
\* stale-claim scan, which is the only recovery of such a run, can find it.
THEOREM NoStrandedRunAlways == Spec => []NoStrandedRun
<1>1. Ownership => NoStrandedRun
  BY ConstantsFacts DEF Ownership, JobRow, NoStrandedRun
<1> QED BY <1>1, OwnershipInvariant, PTL

\* A device is only ever written by the run its claim names, under the claim row
\* lock, at the job's present attempt, with the attempt recorded beforehand, and
\* by one worker at a time (guarded_device_write, prepare_send).
THEOREM FencedDeviceWriteAlways == Spec => []FencedDeviceWrite
<1> USE ConstantsFacts
<1>1. ASSUME Ownership, NEW w \in Workers, pc[w] = "put"
      PROVE  /\ wk[w].dev \in Devices /\ wk[w].token # 0
             /\ claim[wk[w].dev] = [token |-> wk[w].token, job |-> wk[w].job]
             /\ RunningAt(wk[w].job, wk[w].attempt) /\ job[wk[w].job].dev = wk[w].dev
             /\ OpenAttempt(wk[w].job, wk[w].attempt)
  <2>1. pc[w] \in Busy /\ WorkerOK(w) /\ DeviceBound(w) /\ Holds(w)
    BY <1>1 DEF Ownership, WorkerOK, SendingAt, KindAt, Runs, DeviceWriting, DeviceBound, Busy, Executing
  <2>2. /\ wk[w].dev \in Devices /\ wk[w].token # 0 /\ wk[w].job \in Jobs
        /\ claim[wk[w].dev].token = wk[w].token /\ claim[wk[w].dev].job = wk[w].job
        /\ OpenAttempt(wk[w].job, wk[w].attempt) /\ RunningAt(wk[w].job, wk[w].attempt)
    BY <1>1, <2>1 DEF WorkerOK, PlacedAt, HeldAt, Holds
  <2>3. claim[wk[w].dev] \in Claim
    BY <1>1, <2>2 DEF Ownership, TypeOK, StoreTypeOK
  <2>4. ClaimRow(wk[w].dev)
    BY <1>1, <2>2 DEF Ownership
  <2>5. job[wk[w].job].dev = wk[w].dev
    BY <2>1, <2>2, <2>4 DEF ClaimRow, DeviceBound
  <2>6. claim[wk[w].dev] = [token |-> wk[w].token, job |-> wk[w].job]
    BY <2>2, <2>3 DEF Claim
  <2> QED BY <2>2, <2>5, <2>6
<1>2. ASSUME Ownership, NEW w \in Workers, NEW v \in Workers, w # v, pc[w] = "put", pc[v] = "put"
      PROVE  wk[w].dev # wk[v].dev
  <2>0. /\ wk[w].token # 0 /\ claim[wk[w].dev] = [token |-> wk[w].token, job |-> wk[w].job]
        /\ claim[wk[v].dev] = [token |-> wk[v].token, job |-> wk[v].job]
    BY <1>1, <1>2
  <2>1. wk[w].token # 0 /\ claim[wk[w].dev].token = wk[w].token /\ claim[wk[v].dev].token = wk[v].token
    BY <2>0
  <2>2. wk[w].token # wk[v].token
    BY <1>2, <2>1 DEF Ownership, Unique
  <2> QED BY <2>1, <2>2
<1>3. Ownership => FencedDeviceWrite
  BY <1>1, <1>2 DEF FencedDeviceWrite
<1> QED BY <1>3, OwnershipInvariant, PTL

-----------------------------------------------------------------------------
(* A terminal job is final: every step leaves the job table alone, adds to *)
(* it, rewrites one row that is not terminal, or detaches a device's jobs. *)

LEMMA OneJobKept ==
  ASSUME NEW j \in Jobs, job[j].status \notin Terminal, \A k \in Jobs \ {j} : job'[k] = job[k]
  PROVE  TerminalKept
BY DEF TerminalKept

LEMMA SameJobsKept ==
  ASSUME UNCHANGED job PROVE TerminalKept
BY DEF TerminalKept

LEMMA AddedJobKept ==
  ASSUME Ownership, NEW type, NEW d, NEW c, AddJob(type, d, c)
  PROVE  TerminalKept
<1>1. lastJob + 1 \in Jobs /\ \A k \in Jobs \ {lastJob + 1} : job'[k] = job[k]
  BY SMTT(30), ConstantsFacts DEF Ownership, TypeOK, StoreTypeOK, AddJob, Jobs
<1>2. job[lastJob + 1].status = "absent"
  BY SMTT(30), <1>1, TypesAt DEF Ownership, JobRow
<1> QED BY <1>1, <1>2, OneJobKept DEF Terminal

LEMMA TerminalizeKept ==
  ASSUME NEW j \in Jobs, job[j].status = "running", NEW status, NEW evidence, NEW outcome, NEW d,
         job \in [Jobs -> Job], Terminalize(j, status, evidence, outcome, d)
  PROVE  TerminalKept
<1>1. \A k \in Jobs \ {j} : job'[k] = job[k]
  BY DEF Terminalize
<1> QED BY <1>1, OneJobKept DEF Terminal

LEMMA DisposesKept ==
  ASSUME NEW j \in Jobs, NEW a, Disposes(j, a)
  PROVE  TerminalKept
<1>1. CASE job' = job
  BY <1>1, SameJobsKept
<1>2. CASE RunningAt(j, a)
  BY <1>2, OneJobKept DEF Disposes, TouchesOnly, RunningAt, Terminal
<1> QED BY <1>1, <1>2 DEF Disposes

\* The steps of a run that may write its end.
LEMMA RunStepKept ==
  ASSUME Ownership, NEW w \in Workers, pc[w] \in Busy,
         \/ RunSucceed(w) \/ MarkJobFailed(w) \/ FinalizeEmpty(w) \/ SettleUnsent(w) \/ SettleSuccess(w)
         \/ RunFail(w) \/ DisposeCancelled(w) \/ MarkFailedAndRelease(w) \/ Release(w)
  PROVE  TerminalKept
<1>1. PICK j \in Jobs, a \in Nat : wk[w].job = j /\ wk[w].attempt = a
  BY BusyFacts
<1>2. StoreTypeOK /\ job \in [Jobs -> Job]
  BY BusyFacts
<1>3. CASE UNCHANGED job
  BY <1>3, SameJobsKept
<1>4. CASE RunSucceed(w) /\ ~UNCHANGED job
  <2>1. RunningAt(j, a) /\ \E d : Terminalize(j, "succeeded", "none", "settled", d)
    BY <1>1, <1>4 DEF RunSucceed
  <2> QED BY <1>2, <2>1, TerminalizeKept DEF RunningAt
<1>5. CASE MarkJobFailed(w) /\ ~UNCHANGED job
  <2>1. RunningAt(j, a) /\ Terminalize(j, "failed", UnpreparedEvidence(j), "failed", job[j].dev)
    BY <1>1, <1>5 DEF MarkJobFailed
  <2> QED BY <1>2, <2>1, TerminalizeKept DEF RunningAt
<1>6. CASE FinalizeEmpty(w)
  <2>1. RunningAt(j, a) /\ \E e : Terminalize(j, "succeeded", e, "settled", job[j].dev)
    BY <1>1, <1>6 DEF FinalizeEmpty
  <2> QED BY <1>2, <2>1, TerminalizeKept DEF RunningAt
<1>7. CASE SettleUnsent(w)
  <2>1. RunningAt(j, a) /\ Terminalize(j, "failed", "not_applied", "failed", wk[w].dev)
    BY <1>1, <1>7 DEF SettleUnsent, OwnsRun
  <2> QED BY <1>2, <2>1, TerminalizeKept DEF RunningAt
<1>8. CASE SettleSuccess(w)
  <2>1. RunningAt(j, a) /\ \E s, e, o : Terminalize(j, s, e, o, wk[w].dev)
    BY <1>1, <1>8 DEF SettleSuccess, OwnsRun
  <2> QED BY <1>2, <2>1, TerminalizeKept DEF RunningAt
<1>9. CASE RunFail(w) /\ ~UNCHANGED job
  <2>1. CASE OpenAttempt(j, a)
    <3>1. RunningAt(j, a) /\ SettleAttempt(j)
      BY <1>1, <1>9, <2>1 DEF RunFail, OwnsRun
    <3> QED BY <1>2, <3>1, SettleAttemptEffect, DisposesKept
  <2>2. CASE ~OpenAttempt(j, a)
    <3>1. RunningAt(j, a) /\ Terminalize(j, "failed", UnpreparedEvidence(j), "failed", job[j].dev)
      BY <1>1, <1>9, <2>2 DEF RunFail
    <3> QED BY <1>2, <3>1, TerminalizeKept DEF RunningAt
  <2> QED BY <2>1, <2>2
<1>10. CASE (DisposeCancelled(w) \/ MarkFailedAndRelease(w)) /\ ~UNCHANGED job
  <2>1. PICK to : DisposeAndRelease(w, to)
    BY <1>10 DEF DisposeCancelled, MarkFailedAndRelease
  <2>2. DisposeRun(j, a, wk[w].token, to) \/ TerminalizeRunning(j, a, to)
    BY <1>1, <1>10, <2>1 DEF DisposeAndRelease
  <2>3. Disposes(j, a)
    BY <1>2, <2>2, DisposeRunEffect, TerminalizeRunningEffect DEF Disposed
  <2> QED BY <2>3, DisposesKept
<1>11. CASE Release(w) /\ ~UNCHANGED job
  <2>1. RunningAt(j, a) /\ SettleAttempt(j)
    BY <1>1, <1>11 DEF Release, OwnsRun
  <2> QED BY <1>2, <2>1, SettleAttemptEffect, DisposesKept
<1> QED BY <1>3, <1>4, <1>5, <1>6, <1>7, <1>8, <1>9, <1>10, <1>11

LEMMA StartKept ==
  ASSUME Ownership, NEW w \in Workers, StartHead(w) \/ StartClaimless(w)
  PROVE  TerminalKept
<1> USE ConstantsFacts
<1>1. CASE StartHead(w)
  <2> DEFINE heads == {j \in Queue(wk[w].dev) : Admissible(j)}
  <2>1. heads # {} /\ heads \in SUBSET Nat /\ heads \subseteq Queue(wk[w].dev) /\ heads \subseteq Jobs
        /\ job' = [job EXCEPT ![Min(heads)] = Started(Min(heads))]
    BY <1>1 DEF StartHead, Queue
  <2> HIDE DEF heads
  <2>2. Min(heads) \in Jobs /\ Min(heads) \in Queue(wk[w].dev)
    BY <2>1, MinLeast
  <2> QED BY <2>1, <2>2, OneJobKept DEF Queue, Terminal, Ownership, TypeOK, StoreTypeOK
<1>2. CASE StartClaimless(w)
  <2> DEFINE heads == {j \in Queue(NoDevice) : job[j].type = "provision"}
  <2>1. heads # {} /\ heads \in SUBSET Nat /\ heads \subseteq Queue(NoDevice) /\ heads \subseteq Jobs
        /\ job' = [job EXCEPT ![Min(heads)] = Started(Min(heads))]
    BY <1>2 DEF StartClaimless, Queue
  <2> HIDE DEF heads
  <2>2. Min(heads) \in Jobs /\ Min(heads) \in Queue(NoDevice)
    BY <2>1, MinLeast
  <2> QED BY <2>1, <2>2, OneJobKept DEF Queue, Terminal, Ownership, TypeOK, StoreTypeOK
<1> QED BY <1>1, <1>2

\* Admission, the operator's exits, and what advances the chain.
LEMMA AdmissionKept ==
  ASSUME Ownership,
         \/ AdmitProvision
         \/ \E w \in Workers : Post(w) \/ AdvanceGenerations(w)
         \/ \E d \in Devices :
              \/ AdmitRead(d) \/ AdmitApply(d) \/ (\E kind \in DeviceWriting : AdmitDedicated(d, kind))
              \/ RetryGeneration(d) \/ ReconcileGeneration(d) \/ RecoverGenerations(d)
  PROVE  TerminalKept
<1>1. UNCHANGED job \/ \E type, d, c : AddJob(type, d, c)
  BY DEF AdmitProvision, Post, AdvanceGenerations, AdmitRead, AdmitApply, AdmitDedicated, RetryGeneration,
         ReconcileGeneration, RecoverGenerations, AdvanceLocked
<1> QED BY <1>1, SameJobsKept, AddedJobKept

LEMMA RecoveryKept ==
  ASSUME Ownership, OrphanDispose \/ \E d \in Devices : RevokeStaleClaim(d)
  PROVE  TerminalKept
<1>0. StoreTypeOK /\ ScanOK
  BY DEF Ownership, TypeOK
<1>1. CASE UNCHANGED job
  BY <1>1, SameJobsKept
<1>2. CASE OrphanDispose
  <2>1. scan.job \in Jobs /\ RecoverRun(scan.job, scan.attempt, 0)
    BY <1>0, <1>2 DEF OrphanDispose, ScanOK
  <2>2. Disposes(scan.job, scan.attempt)
    BY <1>0, <2>1, RecoverRunEffect DEF Disposed
  <2> QED BY <2>1, <2>2, DisposesKept
<1>3. CASE (\E d \in Devices : RevokeStaleClaim(d)) /\ ~UNCHANGED job
  <2>1. PICK d \in Devices : RevokeStaleClaim(d)
    BY <1>3
  <2>2. PICK k \in Jobs : k = claim[d].job
    BY SMTT(30), <1>3, <2>1, TypesAt DEF RevokeStaleClaim, Ownership, Jobs
  <2>3. RecoverRun(k, job[k].attempt, claim[d].token)
    BY <1>3, <2>1, <2>2 DEF RevokeStaleClaim
  <2>4. \E a : Disposes(k, a)
    BY <1>0, <2>3, RecoverRunEffect DEF Disposed
  <2> QED BY <2>4, DisposesKept
<1> QED BY <1>1, <1>2, <1>3

LEMMA OffboardKept ==
  ASSUME Ownership, NEW d \in Devices, Offboard(d)
  PROVE  TerminalKept
<1>1. ASSUME NEW j \in Jobs, job[j].status \in Terminal
      PROVE  job'[j].status = job[j].status /\ job'[j].evidence = job[j].evidence /\ job'[j].seq = job[j].seq
  <2>1. job[j] \in Job
    BY <1>1 DEF Ownership, TypeOK, StoreTypeOK
  <2>2. job'[j] = job[j] \/ job'[j] = [job[j] EXCEPT !.dev = NoDevice, !.status = job[j].status]
    BY <1>1 DEF Offboard
  <2> QED BY <2>1, <2>2 DEF Job
<1> QED BY <1>1 DEF TerminalKept

LEMMA NextKept == Ownership /\ [Next]_vars => [TerminalKept]_vars
<1> SUFFICES ASSUME Ownership, Next PROVE TerminalKept
  OBVIOUS
<1>1. CASE \E w \in Workers : WorkerStep(w)
  <2>1. PICK w \in Workers : WorkerStep(w)
    BY <1>1
  <2>2. CASE \/ RunSucceed(w) \/ MarkJobFailed(w) \/ FinalizeEmpty(w) \/ SettleUnsent(w) \/ SettleSuccess(w)
             \/ RunFail(w) \/ DisposeCancelled(w) \/ MarkFailedAndRelease(w) \/ Release(w)
    <3>1. pc[w] \in Busy
      BY <2>2 DEF RunSucceed, MarkJobFailed, FinalizeEmpty, SettleUnsent, SettleSuccess, RunFail,
                  DisposeCancelled, MarkFailedAndRelease, Release, Busy, Executing
    <3> QED BY <2>2, <3>1, RunStepKept
  <2>3. CASE StartHead(w) \/ StartClaimless(w)
    BY <2>3, StartKept
  <2>4. CASE Post(w) \/ AdvanceGenerations(w)
    BY <2>4, AdmissionKept
  <2>5. CASE \/ Discover(w) \/ AcquireClaim(w) \/ AcquireConflict(w) \/ NothingRunnable(w) \/ StartFails(w)
             \/ GiveBack(w) \/ RunRaises(w) \/ (\E d \in Devices : ProvisionInsert(w, d) \/ ProvisionAcquire(w, d))
             \/ LinkExisting(w) \/ LinkRefused(w) \/ Prepare(w) \/ WriterRaises(w) \/ GuardBlocks(w)
             \/ SendPut(w) \/ PutResponse(w) \/ ClaimLost(w) \/ BudgetExpires(w) \/ EnsureWorkers(w)
    <3>1. UNCHANGED job
      BY <2>5 DEF Discover, AcquireClaim, AcquireConflict, NothingRunnable, StartFails, GiveBack, RunRaises,
                  ProvisionInsert, ProvisionAcquire, LinkExisting, LinkRefused, Prepare, WriterRaises,
                  GuardBlocks, SendPut, PutResponse, ClaimLost, BudgetExpires, EnsureWorkers, storeVars
    <3> QED BY <3>1, SameJobsKept
  <2> QED BY <2>1, <2>2, <2>3, <2>4, <2>5 DEF WorkerStep
<1>2. CASE Recovery
  <2>1. CASE (\E j \in Jobs : OrphanScan(j)) \/ Crash \/ StartWorkers
    <3>1. UNCHANGED job
      BY <2>1 DEF OrphanScan, Crash, StartWorkers, storeVars
    <3> QED BY <3>1, SameJobsKept
  <2> QED BY <1>2, <2>1, AdmissionKept, RecoveryKept DEF Recovery
<1>3. CASE Outside
  <2>1. CASE \/ \E j \in Jobs : NsoActs(j)
             \/ \E d \in Devices : EndpointAcquire(d) \/ EndpointRelease(d)
    <3>1. UNCHANGED job
      BY <2>1 DEF NsoActs, EndpointAcquire, EndpointRelease
    <3> QED BY <3>1, SameJobsKept
  <2> QED BY <1>3, <2>1, AdmissionKept, OffboardKept DEF Outside
<1> QED BY <1>1, <1>2, <1>3 DEF Next

\* A terminal job is final whoever comes late: a runner, a zombie, the reaper or
\* an offboarding (terminalize's compare-and-set on status and run_attempt).
THEOREM TerminalIsFinalAlways == Spec => TerminalIsFinal
BY OwnershipInvariant, NextKept, PTL DEF Spec, TerminalIsFinal
=============================================================================
