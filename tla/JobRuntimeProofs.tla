-------------------------- MODULE JobRuntimeProofs --------------------------
(***************************************************************************)
(* Ownership of a run, for every number of workers, devices, jobs and      *)
(* tokens: the type invariant, that recovery never re-dispositions a run   *)
(* behind a valid token, and that no run is stranded.                      *)
(***************************************************************************)
EXTENDS JobRuntime, JobStoreProofs

\* Most leaves are first-order; SMT, slow to encode large contexts, comes second.
USE ZenonT(10), SMTT(30)

\* The places at which a worker carries a started run.
Busy == Executing \cup {"post", "cancel", "failrel", "release"}

DeviceBound(w) == job[wk[w].job].type # "provision"

-----------------------------------------------------------------------------
(* The inductive invariant.                                                *)

\* What a worker's registration holds at each of its places.
PlacedAt(w) ==
  /\ pc[w] \in {"idle", "dead"} => wk[w] = Unregistered
  /\ pc[w] \in {"found", "advance", "claimed", "giveback"} => wk[w].dev \in Devices /\ wk[w].job = 0
  /\ pc[w] \in {"found", "advance"} => wk[w].token = 0
  /\ pc[w] \in {"claimed", "giveback"} => wk[w].token # 0
  /\ pc[w] \in Busy =>
       /\ wk[w].job \in Jobs /\ job[wk[w].job].status # "absent"
       /\ wk[w].attempt # 0 /\ wk[w].attempt <= job[wk[w].job].attempt
       /\ DeviceBound(w) => wk[w].token # 0
       /\ wk[w].token # 0 => wk[w].dev \in Devices

\* Which kind of job a runner's places belong to.
KindAt(w) ==
  /\ pc[w] = "linking" => Runs(w, {"provision"}) /\ wk[w].token # 0
  /\ pc[w] \in {"prepared", "put", "verify", "runfail", "post"} => Runs(w, DeviceWriting)
  /\ pc[w] = "markfail" => Runs(w, {"read", "provision"})

\* What a valid token means at each place.
HeldAt(w) ==
  Holds(w) =>
    /\ pc[w] \in {"claimed", "giveback"} => claim[wk[w].dev].job = 0
    /\ pc[w] \in Busy => claim[wk[w].dev].job = wk[w].job
    /\ pc[w] \in Busy /\ DeviceBound(w) => job[wk[w].job].attempt = wk[w].attempt
    /\ pc[w] \in {"prepared", "put", "verify"} => OpenAttempt(wk[w].job, wk[w].attempt)
    /\ pc[w] \in {"run", "prepared", "put", "verify"} /\ DeviceBound(w) =>
         RunningAt(wk[w].job, wk[w].attempt)

\* A run that is still the job's present one has its token: no step takes the
\* claim without disposing of the run.  After its terminal write it is not.
CurrentAt(w) ==
  /\ pc[w] \in Busy /\ DeviceBound(w) /\ RunningAt(wk[w].job, wk[w].attempt) => Holds(w)
  /\ pc[w] \in {"post", "release"} /\ DeviceBound(w) => ~RunningAt(wk[w].job, wk[w].attempt)

\* The row lock: a claim is not taken from a worker that is sending.
SendingAt(w) == pc[w] = "put" => Holds(w)

WorkerOK(w) == PlacedAt(w) /\ KindAt(w) /\ HeldAt(w) /\ CurrentAt(w) /\ SendingAt(w)

\* Tokens are fresh and each has one holder, and so has each attempt of a job.
Unique ==
  /\ \A d \in Devices : claim[d].token < nextToken /\ ep[d] < nextToken
  /\ \A w \in Workers : wk[w].token < nextToken
  /\ \A w, v \in Workers : w # v =>
       /\ wk[w].token # 0 => wk[w].token # wk[v].token
       /\ wk[w].job # 0 /\ wk[w].job = wk[v].job => wk[w].attempt # wk[v].attempt
  /\ \A w \in Workers, d \in Devices : ep[d] # 0 => ep[d] # wk[w].token

\* A claim row names a job of its own device; an endpoint's names none.
ClaimRow(d) ==
  /\ claim[d].token = 0 => claim[d] = NoClaim
  /\ live[d] = "unborn" => claim[d] = NoClaim
  /\ claim[d].job # 0 =>
       /\ job[claim[d].job].status # "absent"
       /\ job[claim[d].job].type # "provision" => job[claim[d].job].dev = d
  /\ ep[d] # 0 /\ claim[d].token = ep[d] => claim[d].job = 0

\* Keys are handed out in order, a run has a number, a device-bound job that is
\* running is named by its device's claim, and an execution attempt belongs to
\* the last run of its job, which is over once the attempt is closed.
JobRow(j) ==
  /\ j > lastJob <=> job[j].status = "absent"
  /\ job[j].status = "absent" => job[j].dev = NoDevice
  /\ job[j].status = "running" => job[j].attempt # 0
  /\ job[j].type # "provision" /\ job[j].status \in {"queued", "running"} => job[j].dev \in Devices
  /\ job[j].type # "provision" /\ job[j].status = "running" => claim[job[j].dev].job = j
  /\ exe[j].attempt # 0 =>
       /\ exe[j].attempt = job[j].attempt
       /\ job[j].status \notin {"absent", "queued"}
       /\ job[j].type \in DeviceWriting
       /\ ~exe[j].open => job[j].status \in Terminal

\* The orphan lane only ever has a provision in hand.
ScanOK ==
  scan # NoScan =>
    scan.job \in Jobs /\ job[scan.job].type = "provision" /\ job[scan.job].status # "absent"

Ownership ==
  /\ TypeOK /\ Unique /\ ScanOK
  /\ \A w \in Workers : WorkerOK(w)
  /\ \A d \in Devices : ClaimRow(d)
  /\ \A j \in Jobs : JobRow(j)

-----------------------------------------------------------------------------
(* Steps by the state they touch: what a step owes for itself, the lemmas  *)
(* here give for all the other workers, claims and jobs.                   *)

\* Only worker w moves, and it keeps or drops its token and its run.
Moves(w) ==
  /\ \A v \in Workers \ {w} : pc'[v] = pc[v] /\ wk'[v] = wk[v]
  /\ wk'[w].token \in {0, wk[w].token}
  /\ wk'[w].job = 0 \/ (wk'[w].job = wk[w].job /\ wk'[w].attempt = wk[w].attempt)

\* Worker v and all its place speaks of are as they were.
Undisturbed(v) ==
  /\ pc'[v] = pc[v] /\ wk'[v] = wk[v]
  /\ Holds(v)' <=> Holds(v)
  /\ Holds(v) => claim'[wk[v].dev] = claim[wk[v].dev]
  /\ pc[v] \in Busy =>
       job'[wk[v].job] = job[wk[v].job] /\ exe'[wk[v].job] = exe[wk[v].job]

LEMMA UndisturbedOK ==
  ASSUME NEW v \in Workers, WorkerOK(v), Undisturbed(v)
  PROVE  WorkerOK(v)'
<1>1. PlacedAt(v)'
  BY DEF WorkerOK, PlacedAt, Undisturbed, DeviceBound
<1>2. KindAt(v)'
  BY DEF WorkerOK, KindAt, Undisturbed, Runs, Busy, Executing
<1>3. HeldAt(v)'
  <2>1. Holds(v)' => Holds(v)
    BY DEF Undisturbed
  <2> QED BY <2>1 DEF WorkerOK, HeldAt, Undisturbed, DeviceBound, RunningAt, OpenAttempt, Busy, Executing
<1>4. CurrentAt(v)'
  BY DEF WorkerOK, CurrentAt, Undisturbed, DeviceBound, RunningAt, Busy
<1>5. SendingAt(v)'
  BY DEF WorkerOK, SendingAt, Undisturbed
<1> QED BY <1>1, <1>2, <1>3, <1>4, <1>5 DEF WorkerOK

\* A new job disturbs nobody: neither a worker, nor a claim, nor another job.
LEMMA ExtendKeeps ==
  ASSUME Ownership, TypeOK', JobExtended, UNCHANGED <<claim, nextToken, exe, live, ep, scan>>
  PROVE  /\ \A j \in Jobs : job[j].status # "absent" => job'[j] = job[j]
         /\ \A v \in Workers : pc'[v] = pc[v] /\ wk'[v] = wk[v] => WorkerOK(v)'
         /\ \A d \in Devices : ClaimRow(d)'
         /\ \A j \in Jobs : JobRow(j)'
         /\ ScanOK'
<1> USE ConstantsFacts
<1>0. StoreTypeOK
  BY DEF Ownership, TypeOK
<1>1. \A j \in Jobs : job[j].status # "absent" => job'[j] = job[j]
  <2>1. CASE UNCHANGED <<job, lastJob>>
    BY <2>1
  <2>2. ASSUME NEW type \in JobType, NEW d \in Devices \cup {NoDevice}, NEW c \in BOOLEAN, AddJob(type, d, c)
        PROVE  \A j \in Jobs : job[j].status # "absent" => job'[j] = job[j]
    <3>1. lastJob + 1 \in Jobs /\ \A k \in Jobs \ {lastJob + 1} : job'[k] = job[k]
      BY <1>0, <2>2, AddJobEffect
    <3>2. job[lastJob + 1].status = "absent"
      BY SMTT(30), <1>0, <3>1 DEF Ownership, JobRow, StoreTypeOK, Jobs
    <3> QED BY <3>1, <3>2
  <2> QED BY <2>1, <2>2 DEF JobExtended
<1>2. ASSUME NEW v \in Workers, pc'[v] = pc[v], wk'[v] = wk[v] PROVE WorkerOK(v)'
  <2>1. WorkerOK(v)
    BY DEF Ownership
  <2>2. Undisturbed(v)
    BY <1>1, <1>2, <2>1 DEF WorkerOK, PlacedAt, Undisturbed, Holds
  <2> QED BY <2>1, <2>2, UndisturbedOK
<1>3. ASSUME NEW d \in Devices PROVE ClaimRow(d)'
  <2>1. ClaimRow(d) /\ claim[d] \in Claim
    BY DEF Ownership, TypeOK, StoreTypeOK
  <2>2. claim[d].job # 0 => claim[d].job \in Jobs
    BY SMTT(30), <2>1 DEF Claim, Jobs
  <2> QED BY <1>1, <2>1, <2>2 DEF ClaimRow
<1>4. ASSUME NEW j \in Jobs PROVE JobRow(j)'
  <2>0. JobRow(j)
    BY DEF Ownership
  <2>1. CASE UNCHANGED <<job, lastJob>>
    BY <2>0, <2>1 DEF JobRow
  <2>2. ASSUME NEW type \in JobType, NEW d \in Devices \cup {NoDevice}, NEW c \in BOOLEAN,
               type # "provision" => d \in Devices, AddJob(type, d, c)
        PROVE  JobRow(j)'
    <3>1. /\ lastJob' = lastJob + 1 /\ lastJob + 1 \in Jobs
          /\ \A k \in Jobs \ {lastJob + 1} : job'[k] = job[k]
          /\ job'[lastJob + 1].type = type /\ job'[lastJob + 1].dev = d
          /\ job'[lastJob + 1].status = "queued"
      BY <1>0, <2>2, AddJobEffect
    <3>2. lastJob \in Nat
      BY SMTT(30), <1>0 DEF StoreTypeOK
    <3>3. CASE j = lastJob + 1
      BY SMTT(30), <2>0, <2>2, <3>1, <3>2, <3>3 DEF JobRow
    <3>4. CASE j # lastJob + 1
      BY SMTT(30), <2>0, <3>1, <3>2, <3>4 DEF JobRow
    <3> QED BY <3>3, <3>4
  <2> QED BY <2>1, <2>2 DEF JobExtended
<1>5. ScanOK'
  BY <1>1 DEF Ownership, ScanOK
<1> QED BY <1>1, <1>2, <1>3, <1>4, <1>5

LEMMA TypesAt ==
  ASSUME TypeOK
  PROVE  /\ StoreTypeOK /\ nextToken \in Nat \ {0} /\ lastJob \in Nat
         /\ \A w \in Workers : /\ wk[w].token \in Nat /\ wk[w].attempt \in Nat
                             /\ wk[w].job \in 0 .. MaxJobs /\ wk[w].dev \in Devices \cup {NoDevice}
         /\ \A d \in Devices : claim[d].token \in Nat /\ claim[d].job \in 0 .. MaxJobs /\ ep[d] \in Nat
         /\ \A j \in Jobs : job[j].attempt \in Nat
BY SMTT(30), ConstantsFacts DEF TypeOK, StoreTypeOK, Registration, Claim, Job

\* Moving keeps tokens and attempts unique, also when claims are given back.
LEMMA MovesUnique ==
  ASSUME TypeOK, Unique, UNCHANGED <<nextToken, ep>>, NEW w \in Workers, Moves(w),
         \A d \in Devices : claim'[d].token \in {0, claim[d].token}
  PROVE  Unique'
<1>1. \A d \in Devices : claim'[d].token < nextToken'
  BY SMTT(30), TypesAt DEF Unique
<1>2. \A v \in Workers : wk'[v].token < nextToken'
  BY SMTT(30), TypesAt DEF Unique, Moves
<1>3. ASSUME NEW u \in Workers, NEW v \in Workers, u # v
      PROVE  /\ wk'[u].token # 0 => wk'[u].token # wk'[v].token
             /\ wk'[u].job # 0 /\ wk'[u].job = wk'[v].job => wk'[u].attempt # wk'[v].attempt
  <2>1. CASE u = w
    BY SMTT(30), <1>3, <2>1 DEF Unique, Moves
  <2>2. CASE v = w
    BY SMTT(30), <1>3, <2>2 DEF Unique, Moves
  <2>3. CASE u # w /\ v # w
    BY SMTT(30), <1>3, <2>3 DEF Unique, Moves
  <2> QED BY <2>1, <2>2, <2>3
<1>4. \A v \in Workers, d \in Devices : ep'[d] # 0 => ep'[d] # wk'[v].token
  BY SMTT(30) DEF Unique, Moves
<1> QED BY <1>1, <1>2, <1>3, <1>4 DEF Unique

\* A worker that moves without touching a run owes only its own place.
LEMMA MoveStep ==
  ASSUME Ownership, TypeOK', JobExtended, UNCHANGED <<claim, nextToken, exe, live, ep, scan>>,
         NEW w \in Workers, Moves(w), WorkerOK(w)'
  PROVE  Ownership'
<1>1. \A v \in Workers : WorkerOK(v)'
  BY ExtendKeeps DEF Moves
<1>2. Unique'
  BY MovesUnique DEF Ownership
<1> QED BY <1>1, <1>2, ExtendKeeps DEF Ownership

\* A worker that acts on its own run owes its own place and the job's row.
OwnRun(w, j, a) ==
  /\ pc[w] \in Busy /\ wk[w].job = j /\ wk[w].attempt = a
  /\ TouchesOnly(j) /\ job'[j].status # "absent"
  /\ job[j].type # "provision" => job'[j].dev = job[j].dev
  /\ job' = job \/ RunningAt(j, a)
  /\ exe' = exe \/ (RunningAt(j, a) /\ \A k \in Jobs \ {j} : exe'[k] = exe[k])
  /\ claim' = claim \/ (Holds(w) /\ claim' = [claim EXCEPT ![wk[w].dev] = NoClaim])
  /\ UNCHANGED <<nextToken, lastJob, live, ep, scan>>
  /\ JobRow(j)'

LEMMA OwnRunStep ==
  ASSUME Ownership, TypeOK', NEW w \in Workers, NEW j \in Jobs, NEW a \in Nat,
         Moves(w), OwnRun(w, j, a), WorkerOK(w)'
  PROVE  Ownership'
<1> USE ConstantsFacts
<1>0. /\ StoreTypeOK /\ WorkerOK(w) /\ wk[w].job = j /\ wk[w].attempt = a
      /\ a # 0 /\ a <= job[j].attempt /\ job[j].attempt \in Nat
      /\ Holds(w) => wk[w].dev \in Devices /\ claim[wk[w].dev].job = j
  BY TypesAt DEF Ownership, WorkerOK, PlacedAt, HeldAt, Holds, OwnRun
<1>1. Unique'
  <2>1. TypeOK /\ Unique /\ UNCHANGED <<nextToken, ep>>
    BY DEF Ownership, OwnRun
  <2>2. \A e \in Devices : claim'[e].token \in {0, claim[e].token}
    <3>1. CASE claim' = claim
      BY <3>1
    <3>2. CASE Holds(w) /\ claim' = [claim EXCEPT ![wk[w].dev] = NoClaim]
      <4>1. claim \in [Devices -> Claim] /\ NoClaim.token = 0
        BY <1>0 DEF StoreTypeOK, NoClaim
      <4> QED BY <3>2, <4>1
    <3> QED BY <3>1, <3>2 DEF OwnRun
  <2> QED BY <2>1, <2>2, MovesUnique
<1>2. ASSUME NEW v \in Workers PROVE WorkerOK(v)'
  <2>1. CASE v = w
    BY <2>1
  <2>2. CASE v # w
    <3>1. /\ pc'[v] = pc[v] /\ wk'[v] = wk[v] /\ WorkerOK(v) /\ wk[v] \in Registration
      BY <2>2 DEF Moves, Ownership, TypeOK
    <3>2. Holds(v) => v # w /\ wk[v].token # wk[w].token
      BY <2>2, <3>1 DEF Ownership, Unique, Holds
    <3>3. Holds(v)' <=> Holds(v)
      <4>1. CASE claim' = claim
        BY <3>1, <4>1 DEF Holds
      <4>2. CASE Holds(w) /\ claim' = [claim EXCEPT ![wk[w].dev] = NoClaim]
        <5>1. CASE wk[v].dev = wk[w].dev
          BY <1>0, <3>1, <3>2, <4>2, <5>1 DEF Holds, NoClaim, StoreTypeOK
        <5>2. CASE wk[v].dev # wk[w].dev
          BY SMTT(30), <1>0, <3>1, <4>2, <5>2 DEF Holds, StoreTypeOK, Registration
        <5> QED BY <5>1, <5>2
      <4> QED BY <4>1, <4>2 DEF OwnRun
    <3>4. Holds(v) => claim'[wk[v].dev] = claim[wk[v].dev]
      <4>1. CASE claim' = claim
        BY <4>1
      <4>2. CASE Holds(w) /\ claim' = [claim EXCEPT ![wk[w].dev] = NoClaim]
        BY SMTT(30), <1>0, <3>1, <3>2, <4>2 DEF Holds, StoreTypeOK, Registration
      <4> QED BY <4>1, <4>2 DEF OwnRun
    <3>5. CASE pc[v] \in Busy /\ wk[v].job = j /\ DeviceBound(v)
      <4>1. wk[v].attempt # a /\ wk[v].attempt \in Nat
        <5>1. Unique /\ wk[v].attempt \in Nat /\ j # 0
          BY <3>1 DEF Ownership, Registration
        <5> QED BY <1>0, <2>2, <3>5, <5>1 DEF Unique
      <4>2. RunningAt(j, a) => ~Holds(v) /\ ~RunningAt(j, wk[v].attempt) /\ ~RunningAt(j, wk[v].attempt)'
        BY <1>0, <3>1, <3>5, <4>1 DEF OwnRun, TouchesOnly, RunningAt, WorkerOK, HeldAt
      <4>3. CASE RunningAt(j, a)
        <5>1. job'[j].type = job[j].type /\ job'[j].attempt = job[j].attempt /\ job'[j].status # "absent"
          BY DEF OwnRun, TouchesOnly
        <5>2. ~Holds(v)' /\ ~RunningAt(wk[v].job, wk[v].attempt)'
          BY <3>1, <3>3, <3>5, <4>2, <4>3
        <5>3. PlacedAt(v)'
          BY SMTT(30), <3>1, <3>5, <5>1 DEF WorkerOK, PlacedAt, Runs, DeviceBound
        <5>4. KindAt(v)'
          BY <3>1, <3>5, <5>1 DEF WorkerOK, KindAt, Runs
        <5>5. HeldAt(v)' /\ CurrentAt(v)'
          BY <5>2 DEF HeldAt, CurrentAt
        <5>6. SendingAt(v)'
          BY <3>1, <3>3 DEF WorkerOK, SendingAt
        <5> QED BY <5>3, <5>4, <5>5, <5>6 DEF WorkerOK
      <4>4. CASE ~RunningAt(j, a)
        <5>1. job' = job /\ exe' = exe
          BY <4>4 DEF OwnRun
        <5> QED BY <3>1, <3>3, <3>4, <5>1, UndisturbedOK DEF Undisturbed
      <4> QED BY <4>3, <4>4
    <3>6. CASE pc[v] \in Busy /\ wk[v].job = j /\ ~DeviceBound(v)
      <4>1. job'[j].type = job[j].type /\ job'[j].attempt = job[j].attempt /\ job'[j].status # "absent"
        BY DEF OwnRun, TouchesOnly
      <4>2. ~(pc[v] \in {"prepared", "put", "verify", "runfail", "post"})
        BY <3>1, <3>6 DEF WorkerOK, KindAt, Runs, DeviceBound, DeviceWriting
      <4> QED BY <3>1, <3>3, <3>4, <3>6, <4>1, <4>2
        DEF WorkerOK, PlacedAt, KindAt, HeldAt, CurrentAt, SendingAt, Runs, DeviceBound
    <3>7. CASE pc[v] \in Busy /\ wk[v].job # j
      <4>1. job'[wk[v].job] = job[wk[v].job] /\ exe'[wk[v].job] = exe[wk[v].job]
        BY <3>1, <3>7 DEF OwnRun, TouchesOnly, WorkerOK, PlacedAt
      <4> QED BY <3>1, <3>3, <3>4, <4>1, UndisturbedOK DEF Undisturbed
    <3>8. CASE pc[v] \notin Busy
      BY <3>1, <3>3, <3>4, <3>8, UndisturbedOK DEF Undisturbed
    <3> QED BY <3>5, <3>6, <3>7, <3>8
  <2> QED BY <2>1, <2>2
<1>3. ASSUME NEW d \in Devices PROVE ClaimRow(d)'
  <2>1. ClaimRow(d) /\ claim[d] \in Claim
    BY DEF Ownership, TypeOK, StoreTypeOK
  <2>2. claim[d].job # 0 => claim[d].job \in Jobs
    BY SMTT(30), <2>1 DEF Claim, Jobs
  <2>3. CASE claim'[d] = claim[d]
    <3>1. ASSUME NEW k \in Jobs, job[k].status # "absent"
          PROVE  /\ job'[k].status # "absent" /\ job'[k].type = job[k].type
                 /\ job[k].type # "provision" => job'[k].dev = job[k].dev
      BY <3>1 DEF OwnRun, TouchesOnly
    <3>2. UNCHANGED <<live, ep>>
      BY DEF OwnRun
    <3> QED BY <2>1, <2>2, <2>3, <3>1, <3>2 DEF ClaimRow
  <2>4. CASE claim'[d] = NoClaim
    BY SMTT(30), <2>4 DEF ClaimRow, NoClaim
  <2> QED BY <1>0, <2>3, <2>4 DEF OwnRun, StoreTypeOK
<1>4. ASSUME NEW k \in Jobs PROVE JobRow(k)'
  <2>1. CASE k = j
    BY <2>1 DEF OwnRun
  <2>2. CASE k # j
    <3>1. JobRow(k) /\ job'[k] = job[k] /\ exe'[k] = exe[k]
      BY <2>2 DEF Ownership, OwnRun, TouchesOnly
    <3>2. CASE claim' = claim
      BY <3>1, <3>2 DEF JobRow, OwnRun
    <3>3. CASE Holds(w) /\ claim' = [claim EXCEPT ![wk[w].dev] = NoClaim]
      BY SMTT(30), <1>0, <2>2, <3>1, <3>3 DEF JobRow, OwnRun, StoreTypeOK
    <3> QED BY <3>2, <3>3 DEF OwnRun
  <2> QED BY <2>1, <2>2
<1>5. ScanOK'
  BY <1>0 DEF Ownership, ScanOK, OwnRun, TouchesOnly
<1> QED BY <1>1, <1>2, <1>3, <1>4, <1>5 DEF Ownership

-----------------------------------------------------------------------------
(* The actions.                                                            *)

\* The worker is back in its loop with nothing registered.
LEMMA IdleOK ==
  ASSUME NEW w \in Workers, pc'[w] \in {"idle", "dead"}, wk'[w] = Unregistered
  PROVE  WorkerOK(w)'
BY DEF WorkerOK, PlacedAt, KindAt, HeldAt, CurrentAt, SendingAt, Holds, Unregistered, Busy, Executing

LEMMA UnregisteredType == Unregistered \in Registration
BY SMTT(30), ConstantsFacts DEF Unregistered, Registration

\* Polling, conflicts, aborted starts, advancing: nothing of a run is touched.
LEMMA PollStep ==
  ASSUME Ownership, NEW w \in Workers,
         Discover(w) \/ AcquireConflict(w) \/ NothingRunnable(w) \/ StartFails(w) \/ EnsureWorkers(w) \/ ClaimLost(w)
  PROVE  Ownership'
<1> USE ConstantsFacts, UnregisteredType
<1>0. TypeOK /\ WorkerOK(w) /\ StoreTypeOK
  BY DEF Ownership, TypeOK
<1>1. JobExtended /\ UNCHANGED <<storeVars, ep, scan, up, crashes>>
  BY DEF JobExtended, storeVars, Discover, AcquireConflict, NothingRunnable, StartFails, EnsureWorkers, ClaimLost
<1>2. CASE AcquireConflict(w) \/ StartFails(w) \/ ClaimLost(w) \/ EnsureWorkers(w)
  <2>1. /\ pc' \in [Workers -> PC] /\ wk' \in [Workers -> Registration]
        /\ pc'[w] \in {"idle", "dead"} /\ wk'[w] = Unregistered
        /\ \A v \in Workers \ {w} : pc'[v] = pc[v] /\ wk'[v] = wk[v]
    BY SMTT(30), <1>0, <1>2 DEF TypeOK, PC, AcquireConflict, StartFails, ClaimLost, EnsureWorkers, Leave, Goto, WorkerOK, PlacedAt
  <2>2. TypeOK'
    BY <1>0, <1>1, <2>1 DEF TypeOK, StoreTypeOK, storeVars
  <2>3. Moves(w)
    BY SMTT(30), <2>1 DEF Moves, Unregistered
  <2> QED BY <1>1, <2>1, <2>2, <2>3, IdleOK, MoveStep DEF storeVars
<1>3. CASE Discover(w)
  <2>1. PICK d \in Devices : wk' = [wk EXCEPT ![w] = [Unregistered EXCEPT !.dev = d]]
    BY <1>3 DEF Discover
  <2>2. /\ wk'[w].dev = d /\ wk'[w].job = 0 /\ wk'[w].token = 0 /\ pc'[w] = "found"
        /\ \A v \in Workers \ {w} : pc'[v] = pc[v] /\ wk'[v] = wk[v]
        /\ pc' \in [Workers -> PC] /\ wk' \in [Workers -> Registration]
    BY <1>0, <1>3, <2>1 DEF TypeOK, PC, Discover, Goto, Unregistered, Registration
  <2>3. TypeOK'
    BY <1>0, <1>1, <2>2 DEF TypeOK, StoreTypeOK, storeVars
  <2>4. WorkerOK(w)'
    BY <2>2 DEF WorkerOK, PlacedAt, KindAt, HeldAt, CurrentAt, SendingAt, Holds, Busy, Executing
  <2> QED BY <1>1, <2>2, <2>3, <2>4, MoveStep DEF storeVars, Moves
<1>4. CASE NothingRunnable(w)
  <2>1. /\ wk' = wk /\ pc[w] = "claimed" /\ pc'[w] = "giveback" /\ pc' \in [Workers -> PC]
        /\ \A v \in Workers \ {w} : pc'[v] = pc[v]
    BY <1>0, <1>4 DEF TypeOK, PC, NothingRunnable, Goto
  <2>2. TypeOK'
    BY <1>0, <1>1, <2>1 DEF TypeOK, StoreTypeOK, storeVars
  <2>3. WorkerOK(w)'
    BY <1>0, <1>1, <2>1 DEF WorkerOK, PlacedAt, KindAt, HeldAt, CurrentAt, SendingAt, Holds, Busy, Executing, storeVars
  <2> QED BY <1>1, <2>1, <2>2, <2>3, MoveStep DEF storeVars, Moves
<1> QED BY <1>2, <1>3, <1>4

-----------------------------------------------------------------------------
(* Steps of a run.                                                         *)

LEMMA RunTypes ==
  ASSUME TypeOK, pc' \in [Workers -> PC], wk' \in [Workers -> Registration],
         job' \in [Jobs -> Job], gen' \in [Devices -> [Gens -> Generation]],
         settleSeq' \in [Devices -> Nat], exe' \in [Jobs -> Execution], claim' \in [Devices -> Claim],
         UNCHANGED <<nextToken, lastJob, lastGen, live, wire, ep, scan, up, crashes>>
  PROVE  TypeOK'
BY DEF TypeOK, StoreTypeOK

\* The end of a run leaves the worker with nothing but the device to advance.
LEMMA EndRunEffect ==
  ASSUME Ownership, NEW w \in Workers, pc[w] \in Busy, EndRun(w)
  PROVE  /\ pc' \in [Workers -> PC] /\ wk' \in [Workers -> Registration]
         /\ Moves(w) /\ WorkerOK(w)'
<1> USE ConstantsFacts
<1>0. TypeOK /\ WorkerOK(w)
  BY DEF Ownership
<1>1. CASE job[wk[w].job].type = "provision"
  <2>1. /\ pc' \in [Workers -> PC] /\ wk' \in [Workers -> Registration]
        /\ pc'[w] = "idle" /\ wk'[w] = Unregistered
        /\ \A v \in Workers \ {w} : pc'[v] = pc[v] /\ wk'[v] = wk[v]
    BY SMTT(30), <1>0, <1>1, UnregisteredType DEF TypeOK, PC, EndRun, Leave, Goto
  <2> QED BY SMTT(30), <2>1, IdleOK DEF Moves, Unregistered
<1>2. CASE job[wk[w].job].type # "provision"
  <2>1. wk[w].dev \in Devices
    BY <1>0, <1>2 DEF WorkerOK, PlacedAt, DeviceBound
  <2>2. /\ pc' = [pc EXCEPT ![w] = "advance"]
        /\ wk' = [wk EXCEPT ![w] = [Unregistered EXCEPT !.dev = wk[w].dev]]
    BY <1>2 DEF EndRun, Goto
  <2>3. /\ pc' \in [Workers -> PC] /\ wk' \in [Workers -> Registration]
        /\ pc'[w] = "advance" /\ wk'[w].dev = wk[w].dev /\ wk'[w].job = 0 /\ wk'[w].token = 0
        /\ \A v \in Workers \ {w} : pc'[v] = pc[v] /\ wk'[v] = wk[v]
    BY SMTT(30), <1>0, <2>1, <2>2 DEF TypeOK, PC, Unregistered, Registration
  <2>4. WorkerOK(w)'
    BY <2>1, <2>3 DEF WorkerOK, PlacedAt, KindAt, HeldAt, CurrentAt, SendingAt, Holds, Busy, Executing
  <2> QED BY <2>3, <2>4 DEF Moves
<1> QED BY <1>1, <1>2

\* The places after which a run is only wound up.
Ending == {"markfail", "runfail", "cancel", "failrel", "post", "release"}

\* A worker that goes on to wind up its run, or has just ended it, is in order.
LEMMA EndingEffect ==
  ASSUME Ownership, NEW w \in Workers, NEW j \in Jobs, NEW a \in Nat, NEW p \in Ending,
         OwnRun(w, j, a), claim' = claim, pc' = [pc EXCEPT ![w] = p], wk' = wk,
         p = "markfail" => job[j].type \in {"read", "provision"},
         p \in {"runfail", "post"} => job[j].type \in DeviceWriting,
         p \in {"post", "release"} /\ job[j].type # "provision" =>
           ~(job'[j].status = "running" /\ job'[j].attempt = a)
  PROVE  /\ pc' \in [Workers -> PC] /\ wk' \in [Workers -> Registration]
         /\ Moves(w) /\ WorkerOK(w)'
<1> USE ConstantsFacts
<1>0. /\ TypeOK /\ WorkerOK(w) /\ pc[w] \in Busy /\ wk[w].job = j /\ wk[w].attempt = a
      /\ job'[j].type = job[j].type /\ job'[j].attempt = job[j].attempt /\ job'[j].status # "absent"
      /\ job' = job \/ RunningAt(j, a)
  BY DEF Ownership, OwnRun, TouchesOnly
<1>1. /\ pc' \in [Workers -> PC] /\ wk' \in [Workers -> Registration] /\ pc'[w] = p /\ p \in Busy
      /\ \A v \in Workers \ {w} : pc'[v] = pc[v]
  BY <1>0 DEF TypeOK, Ending, PC, Executing, Busy
<1>2. Holds(w)' <=> Holds(w)
  BY DEF Holds
<1>3. RunningAt(wk[w].job, wk[w].attempt)' => RunningAt(j, a)
  BY <1>0 DEF RunningAt
<1>4. PlacedAt(w)' /\ KindAt(w)'
  BY <1>0, <1>1 DEF WorkerOK, PlacedAt, KindAt, Runs, DeviceBound, Ending, Busy, Executing
<1>5. HeldAt(w)'
  BY <1>0, <1>1, <1>2 DEF WorkerOK, HeldAt, DeviceBound, Ending
<1>6. CurrentAt(w)' /\ SendingAt(w)'
  BY <1>0, <1>1, <1>2, <1>3 DEF WorkerOK, CurrentAt, SendingAt, DeviceBound, RunningAt, Ending
<1> QED BY <1>1, <1>4, <1>5, <1>6 DEF Moves, WorkerOK

\* The row of a job whose run was just ended.
LEMMA EndedRow ==
  ASSUME Ownership, NEW j \in Jobs, NEW a \in Nat, RunningAt(j, a), TouchesOnly(j), lastJob' = lastJob,
         job'[j].status \in {"queued", "succeeded", "failed"},
         job[j].type # "provision" => job'[j].dev = job[j].dev,
         exe'[j].attempt # 0 =>
           exe'[j].attempt = a /\ job[j].type \in DeviceWriting /\ job'[j].status # "queued"
  PROVE  JobRow(j)'
BY DEF Ownership, JobRow, TouchesOnly, RunningAt, Terminal

\* What holds of a busy worker's run before the step.
LEMMA BusyFacts ==
  ASSUME Ownership, NEW w \in Workers, pc[w] \in Busy
  PROVE  /\ TypeOK /\ StoreTypeOK /\ WorkerOK(w)
         /\ wk[w].job \in Jobs /\ wk[w].attempt \in Nat /\ wk[w].attempt # 0
         /\ JobRow(wk[w].job) /\ job[wk[w].job] \in Job /\ job[wk[w].job].status # "absent"
         /\ job \in [Jobs -> Job] /\ exe \in [Jobs -> Execution]
BY TypesAt DEF Ownership, TypeOK, StoreTypeOK, WorkerOK, PlacedAt

\* Raising, failing and being cancelled leave the tables alone.
LEMMA RaiseStep ==
  ASSUME Ownership, NEW w \in Workers, RunRaises(w) \/ WriterRaises(w) \/ BudgetExpires(w)
  PROVE  Ownership'
<1>1. PICK p \in {"markfail", "runfail", "cancel"} :
        /\ pc[w] \in Busy /\ pc' = [pc EXCEPT ![w] = p] /\ wk' = wk
        /\ UNCHANGED <<storeVars, ep, scan, up, crashes>>
        /\ p = "markfail" => job[wk[w].job].type \in {"read", "provision"}
        /\ p = "runfail" => job[wk[w].job].type \in DeviceWriting
  <2>1. CASE RunRaises(w)
    BY <2>1 DEF RunRaises, Goto, Busy, Executing, Runs
  <2>2. CASE WriterRaises(w)
    BY <2>2 DEF WriterRaises, Goto, Busy, Executing, Runs
  <2>3. CASE BudgetExpires(w)
    BY <2>3 DEF BudgetExpires, Goto, Busy, Executing
  <2> QED BY <2>1, <2>2, <2>3
<1>2. PICK j \in Jobs, a \in Nat : wk[w].job = j /\ wk[w].attempt = a
  BY <1>1, BusyFacts
<1>3. OwnRun(w, j, a)
  BY <1>1, <1>2, BusyFacts DEF OwnRun, TouchesOnly, storeVars, JobRow
<1>4. /\ pc' \in [Workers -> PC] /\ wk' \in [Workers -> Registration]
      /\ Moves(w) /\ WorkerOK(w)'
  BY <1>1, <1>2, <1>3, EndingEffect DEF Ending, storeVars
<1>5. TypeOK'
  BY <1>1, <1>4, BusyFacts, RunTypes DEF storeVars, StoreTypeOK
<1> QED BY <1>3, <1>4, <1>5, OwnRunStep

\* The mapping is committed and the claim registered with the run.
LEMMA LinkExistingStep ==
  ASSUME Ownership, NEW w \in Workers, LinkExisting(w)
  PROVE  Ownership'
<1> USE ConstantsFacts
<1>1. /\ pc[w] = "linking" /\ pc[w] \in Busy /\ pc' = [pc EXCEPT ![w] = "run"] /\ wk' = wk
      /\ UNCHANGED <<storeVars, ep, scan, up, crashes>>
  BY DEF LinkExisting, Goto, Busy, Executing
<1>2. PICK j \in Jobs, a \in Nat : wk[w].job = j /\ wk[w].attempt = a
  BY <1>1, BusyFacts
<1>3. OwnRun(w, j, a)
  BY <1>1, <1>2, BusyFacts DEF OwnRun, TouchesOnly, storeVars, JobRow
<1>4. pc' \in [Workers -> PC] /\ pc'[w] = "run" /\ wk' \in [Workers -> Registration] /\ Moves(w)
  BY <1>1, BusyFacts DEF TypeOK, PC, Executing, Moves
<1>5. WorkerOK(w)'
  <2>1. WorkerOK(w) /\ ~DeviceBound(w)
    BY <1>1, BusyFacts DEF WorkerOK, KindAt, Runs, DeviceBound
  <2> QED BY <1>1, <1>4, <2>1
    DEF WorkerOK, PlacedAt, KindAt, HeldAt, CurrentAt, SendingAt, Holds, DeviceBound, Busy, Executing, storeVars
<1>6. TypeOK'
  BY <1>1, <1>4, BusyFacts, RunTypes DEF storeVars, StoreTypeOK
<1> QED BY <1>3, <1>4, <1>5, <1>6, OwnRunStep

-----------------------------------------------------------------------------
(* Steps of a device-writing run.                                          *)

\* A run that owns its job records its attempt and what it learnt of it.
LEMMA RecordStep ==
  ASSUME Ownership, NEW w \in Workers, NEW j \in Jobs, NEW a \in Nat, NEW p \in {"prepared", "verify", "runfail"},
         pc[w] \in Busy, wk[w].job = j, wk[w].attempt = a, Holds(w), RunningAt(j, a),
         job[j].type \in DeviceWriting,
         exe' \in [Jobs -> Execution], \A k \in Jobs \ {j} : exe'[k] = exe[k],
         exe'[j].attempt = a /\ exe'[j].open,
         pc' = [pc EXCEPT ![w] = p], wk' = wk,
         UNCHANGED <<claim, nextToken, job, lastJob, gen, lastGen, settleSeq, live, wire, ep, scan, up, crashes>>
  PROVE  Ownership'
<1> USE ConstantsFacts
<1>1. OwnRun(w, j, a)
  BY BusyFacts DEF OwnRun, TouchesOnly, JobRow, RunningAt
<1>2. pc' \in [Workers -> PC] /\ pc'[w] = p /\ p \in Busy /\ wk' \in [Workers -> Registration] /\ Moves(w)
  BY BusyFacts DEF TypeOK, PC, Executing, Busy, Moves
<1>3. WorkerOK(w)'
  <2>1. WorkerOK(w)
    BY BusyFacts
  <2>2. Holds(w)' /\ Runs(w, DeviceWriting)' /\ RunningAt(wk[w].job, wk[w].attempt)'
        /\ OpenAttempt(wk[w].job, wk[w].attempt)'
    BY DEF Holds, Runs, RunningAt, OpenAttempt
  <2>3. PlacedAt(w)' /\ KindAt(w)'
    BY <1>2, <2>1, <2>2 DEF WorkerOK, PlacedAt, KindAt, DeviceBound, Busy, Executing
  <2>4. HeldAt(w)' /\ CurrentAt(w)' /\ SendingAt(w)'
    BY <1>2, <2>1, <2>2 DEF WorkerOK, HeldAt, CurrentAt, SendingAt, DeviceBound
  <2> QED BY <2>3, <2>4 DEF WorkerOK
<1>4. TypeOK'
  BY <1>2, BusyFacts, RunTypes DEF StoreTypeOK
<1> QED BY <1>1, <1>2, <1>3, <1>4, OwnRunStep

LEMMA WriterStep ==
  ASSUME Ownership, NEW w \in Workers, Prepare(w) \/ GuardBlocks(w) \/ PutResponse(w)
  PROVE  Ownership'
<1> USE ConstantsFacts
<1>0. pc[w] \in {"run", "prepared", "put"} /\ pc[w] \in Busy
  BY DEF Prepare, GuardBlocks, PutResponse, Busy, Executing
<1>1. PICK j \in Jobs, a \in Nat : wk[w].job = j /\ wk[w].attempt = a
  BY <1>0, BusyFacts
<1>2. /\ TypeOK /\ WorkerOK(w) /\ exe \in [Jobs -> Execution] /\ wk' = wk
      /\ UNCHANGED <<claim, nextToken, job, lastJob, gen, lastGen, settleSeq, live, wire, ep, scan, up, crashes>>
  BY <1>0, BusyFacts DEF Prepare, GuardBlocks, PutResponse
<1>3. CASE Prepare(w)
  <2> DEFINE n == Max(Carried(wk[w].dev, j))
  <2>1. /\ Holds(w) /\ RunningAt(j, a) /\ job[j].type \in DeviceWriting /\ job[j].dev \in Devices
        /\ wk[w].dev \in Devices /\ Carried(job[j].dev, j) # {} /\ n = Max(Carried(job[j].dev, j))
        /\ exe' = [exe EXCEPT ![j] = [attempt |-> a, gen |-> n, open |-> TRUE, response |-> "none"]]
    BY <1>0, <1>1, <1>2, <1>3, BusyFacts DEF Prepare, OwnsRun, WorkerOK, PlacedAt, Job, Holds
  <2>2. n \in 0 .. MaxGens
    <3>1. Carried(job[j].dev, j) \subseteq 0 .. MaxGens
      BY SMTT(30) DEF Carried, Gens
    <3> QED BY <2>1, <3>1, MaxGreatest
  <2> HIDE DEF n
  <2>3. /\ exe' \in [Jobs -> Execution] /\ exe'[j].attempt = a /\ exe'[j].open
        /\ \A k \in Jobs \ {j} : exe'[k] = exe[k]
    BY <1>2, <2>1, <2>2 DEF Execution, Response
  <2>4. PICK p \in {"prepared", "runfail"} : pc' = [pc EXCEPT ![w] = p]
    BY <1>3 DEF Prepare, Goto
  <2> QED BY <1>0, <1>1, <1>2, <2>1, <2>3, <2>4, RecordStep
<1>4. CASE (GuardBlocks(w) \/ PutResponse(w)) /\ UNCHANGED exe
  <2>1. \/ pc[w] \in {"prepared", "put"} /\ pc' = [pc EXCEPT ![w] = "runfail"]
        \/ pc[w] = "put" /\ \E p \in {"verify", "runfail"} : pc' = [pc EXCEPT ![w] = p]
    BY <1>4 DEF GuardBlocks, PutResponse, Goto
  <2>2. Holds(w)
    BY <1>0, <1>2, <1>4, <2>1 DEF GuardBlocks, PutResponse, WorkerOK, SendingAt
  <2>3. RunningAt(j, a) /\ OpenAttempt(j, a) /\ job[j].type \in DeviceWriting
    BY <1>0, <1>1, <1>2, <2>1, <2>2 DEF WorkerOK, KindAt, HeldAt, Runs, DeviceBound, DeviceWriting
  <2> QED BY <1>0, <1>1, <1>2, <1>4, <2>1, <2>2, <2>3, RecordStep DEF OpenAttempt
<1>5. CASE (GuardBlocks(w) \/ PutResponse(w)) /\ exe' # exe
  <2>1. PICK r \in Response, p \in {"verify", "runfail"} :
          exe' = [exe EXCEPT ![j].response = r] /\ pc' = [pc EXCEPT ![w] = p]
    BY <1>1, <1>5 DEF GuardBlocks, PutResponse, Goto, Answers, Response
  <2>2. Holds(w) /\ pc[w] \in {"prepared", "put"}
    BY <1>0, <1>2, <1>5 DEF GuardBlocks, PutResponse, WorkerOK, SendingAt
  <2>3. RunningAt(j, a) /\ OpenAttempt(j, a) /\ job[j].type \in DeviceWriting
    BY <1>0, <1>1, <1>2, <2>2 DEF WorkerOK, KindAt, HeldAt, Runs, DeviceBound, DeviceWriting
  <2>4. /\ exe' \in [Jobs -> Execution] /\ exe'[j].attempt = a /\ exe'[j].open
        /\ \A k \in Jobs \ {j} : exe'[k] = exe[k]
    BY <1>2, <2>1, <2>3 DEF Execution, OpenAttempt
  <2> QED BY <1>0, <1>1, <1>2, <2>1, <2>2, <2>3, <2>4, RecordStep
<1> QED BY <1>3, <1>4, <1>5

LEMMA SendPutStep ==
  ASSUME Ownership, NEW w \in Workers, SendPut(w)
  PROVE  Ownership'
<1> USE ConstantsFacts
<1>0. /\ pc[w] = "prepared" /\ pc[w] \in Busy /\ Holds(w) /\ pc' = [pc EXCEPT ![w] = "put"] /\ wk' = wk
      /\ UNCHANGED <<claim, nextToken, job, lastJob, gen, lastGen, settleSeq, exe, live, ep, scan, up, crashes>>
      /\ wire' = [wire EXCEPT ![wk[w].job] = "open"]
  BY DEF SendPut, Goto, Busy, Executing
<1>1. PICK j \in Jobs, a \in Nat : wk[w].job = j /\ wk[w].attempt = a
  BY <1>0, BusyFacts
<1>2. TypeOK /\ WorkerOK(w) /\ pc' \in [Workers -> PC] /\ pc'[w] = "put" /\ Moves(w)
  BY <1>0, BusyFacts DEF TypeOK, PC, Executing, Moves
<1>3. OwnRun(w, j, a)
  BY <1>0, <1>1, BusyFacts DEF OwnRun, TouchesOnly, JobRow
<1>4. TypeOK'
  BY <1>0, <1>2 DEF TypeOK, StoreTypeOK
<1>5. WorkerOK(w)'
  BY <1>0, <1>2 DEF WorkerOK, PlacedAt, KindAt, HeldAt, CurrentAt, SendingAt, Holds, Runs, DeviceBound,
       RunningAt, OpenAttempt, Busy, Executing
<1> QED BY <1>2, <1>3, <1>4, <1>5, OwnRunStep

-----------------------------------------------------------------------------
(* The terminal writes of a run.                                           *)

\* Run a of job j was ended, and the execution rows of the others left alone.
Ended(j, a) ==
  /\ RunningAt(j, a) /\ TouchesOnly(j) /\ job'[j].status \in {"queued", "succeeded", "failed"}
  /\ job[j].type # "provision" => job'[j].dev = job[j].dev
  /\ settleSeq' \in [Devices -> Nat] /\ gen' \in [Devices -> [Gens -> Generation]]
  /\ exe' \in [Jobs -> Execution] /\ \A k \in Jobs \ {j} : exe'[k] = exe[k]
  /\ exe'[j].attempt # 0 =>
       exe'[j].attempt = a /\ job[j].type \in DeviceWriting /\ job'[j].status # "queued"

\* A worker that ends its run or finds it ended, and may give the claim back
\* with it, owes only where it goes next.
LEMMA EndStep ==
  ASSUME Ownership, NEW w \in Workers, NEW j \in Jobs, NEW a \in Nat,
         pc[w] \in Busy, wk[w].job = j, wk[w].attempt = a,
         Ended(j, a) \/ UNCHANGED <<job, gen, settleSeq, exe>>,
         \/ claim' = claim
         \/ /\ Holds(w) /\ claim' = [claim EXCEPT ![wk[w].dev] = NoClaim]
            /\ job[j].type # "provision" => job'[j].status # "running",
         \/ EndRun(w)
         \/ \E p \in Ending :
              /\ claim' = claim /\ pc' = [pc EXCEPT ![w] = p] /\ wk' = wk
              /\ p = "markfail" => job[j].type \in {"read", "provision"}
              /\ p \in {"runfail", "post"} => job[j].type \in DeviceWriting
              /\ p \in {"post", "release"} /\ job[j].type # "provision" =>
                   ~(job'[j].status = "running" /\ job'[j].attempt = a),
         UNCHANGED <<nextToken, lastJob, lastGen, live, wire, ep, scan, up, crashes>>
  PROVE  Ownership'
<1> USE ConstantsFacts
<1>0. TypeOK /\ StoreTypeOK /\ JobRow(j) /\ job[j].status # "absent"
  BY BusyFacts
<1>1. JobRow(j)'
  <2>1. CASE Ended(j, a)
    BY <2>1, EndedRow DEF Ended
  <2>2. CASE UNCHANGED <<job, gen, settleSeq, exe>>
    BY <1>0, <2>2 DEF JobRow
  <2> QED BY <2>1, <2>2
<1>2. /\ job' \in [Jobs -> Job] /\ gen' \in [Devices -> [Gens -> Generation]]
      /\ settleSeq' \in [Devices -> Nat] /\ exe' \in [Jobs -> Execution] /\ claim' \in [Devices -> Claim]
  <2>1. NoClaim \in Claim
    BY SMTT(30) DEF NoClaim, Claim
  <2>2. claim' \in [Devices -> Claim]
    BY SMTT(30), <1>0, <2>1 DEF StoreTypeOK
  <2>3. CASE Ended(j, a)
    BY <2>2, <2>3 DEF Ended, TouchesOnly
  <2>4. CASE UNCHANGED <<job, gen, settleSeq, exe>>
    BY <1>0, <2>2, <2>4 DEF StoreTypeOK
  <2> QED BY <2>3, <2>4
<1>3. OwnRun(w, j, a)
  BY <1>0, <1>1 DEF OwnRun, Ended, TouchesOnly, StoreTypeOK
<1>4. pc' \in [Workers -> PC] /\ wk' \in [Workers -> Registration] /\ Moves(w) /\ WorkerOK(w)'
  BY SMTT(30), <1>3, EndRunEffect, EndingEffect
<1>5. TypeOK'
  BY <1>0, <1>2, <1>4, RunTypes
<1> QED BY <1>3, <1>4, <1>5, OwnRunStep

\* terminalize, called with its predicate proven, ends the run.
LEMMA TerminalizeEnds ==
  ASSUME Ownership, NEW j \in Jobs, NEW a \in Nat, RunningAt(j, a),
         NEW status \in Terminal, NEW evidence \in Evidence, NEW outcome \in GenerationStatus,
         NEW d \in Devices \cup {NoDevice}, job[j].type # "provision" => d = job[j].dev,
         Terminalize(j, status, evidence, outcome, d),
         exe' \in [Jobs -> Execution], \A k \in Jobs \ {j} : exe'[k] = exe[k],
         exe'[j].attempt # 0 => exe'[j].attempt = a /\ job[j].type \in DeviceWriting
  PROVE  Ended(j, a) /\ job'[j].status = status
<1>1. StoreTypeOK
  BY DEF Ownership, TypeOK
<1>2. /\ TouchesOnly(j) /\ job'[j].status = status /\ job'[j].dev = d
      /\ settleSeq' \in [Devices -> Nat] /\ gen' \in [Devices -> [Gens -> Generation]]
  BY <1>1, TerminalizeEffect
<1> QED BY <1>2 DEF Ended, Terminal

\* The same, when the execution attempts are not touched.
LEMMA TerminalizeEndsAlone ==
  ASSUME Ownership, NEW j \in Jobs, NEW a \in Nat, RunningAt(j, a),
         NEW status \in Terminal, NEW evidence \in Evidence, NEW outcome \in GenerationStatus,
         NEW d \in Devices \cup {NoDevice}, job[j].type # "provision" => d = job[j].dev,
         Terminalize(j, status, evidence, outcome, d), UNCHANGED exe
  PROVE  Ended(j, a) /\ job'[j].status = status
<1>1. exe \in [Jobs -> Execution] /\ JobRow(j)
  BY DEF Ownership, TypeOK, StoreTypeOK
<1>2. exe[j].attempt # 0 => exe[j].attempt = a /\ job[j].type \in DeviceWriting
  BY <1>1 DEF JobRow, RunningAt
<1> QED BY <1>1, <1>2, TerminalizeEnds

\* Dispositions of a run end it or leave everything as it was.
LEMMA DisposedEnds ==
  ASSUME Ownership, NEW j \in Jobs, NEW a \in Nat, Disposed(j, a)
  PROVE  /\ Ended(j, a) \/ UNCHANGED <<job, gen, settleSeq, exe>>
         /\ a = job[j].attempt => job'[j].status # "running"
<1>1. StoreTypeOK /\ JobRow(j) /\ job[j].attempt \in Nat
  BY TypesAt DEF Ownership, TypeOK
<1>2. CASE job' = job
  <2>1. UNCHANGED <<gen, settleSeq, exe>>
    BY <1>2 DEF Disposed, Disposes, RunningAt
  <2>2. ~(RunningAt(j, a) /\ ~(exe[j].attempt = a /\ ~exe[j].open))
    BY <1>2 DEF Disposed, RunningAt
  <2> QED BY <1>1, <1>2, <2>1, <2>2 DEF JobRow, RunningAt, Terminal
<1>3. CASE job' # job
  <2>1. /\ RunningAt(j, a) /\ job'[j].status \in {"queued", "failed"} /\ job'[j].dev = job[j].dev
        /\ TouchesOnly(j) /\ settleSeq' \in [Devices -> Nat] /\ gen' \in [Devices -> [Gens -> Generation]]
        /\ exe' \in [Jobs -> Execution]
    BY <1>3 DEF Disposed, Disposes
  <2>2. \A k \in Jobs : exe'[k].attempt = exe[k].attempt /\ (k # j => exe'[k] = exe[k])
    BY SMTT(30), <1>1 DEF Disposed, StoreTypeOK, Execution
  <2>3. exe[j].attempt # 0 => /\ exe[j].attempt = a /\ job[j].type \in DeviceWriting
                              /\ job'[j].status # "queued"
    BY <1>1, <2>1 DEF JobRow, RunningAt, Disposed
  <2> QED BY <2>1, <2>2, <2>3 DEF Ended
<1> QED BY <1>2, <1>3

\* The runners that write no device.
LEMMA RunSucceedStep ==
  ASSUME Ownership, NEW w \in Workers, RunSucceed(w)
  PROVE  Ownership'
<1> USE ConstantsFacts
<1>0. pc[w] = "run" /\ pc[w] \in Busy /\ Runs(w, {"read", "provision"})
  BY DEF RunSucceed, Busy, Executing
<1>1. PICK j \in Jobs, a \in Nat : wk[w].job = j /\ wk[w].attempt = a
  BY <1>0, BusyFacts
<1>2. /\ TypeOK /\ job[j] \in Job /\ job[j].type \in {"read", "provision"}
      /\ wk[w].dev \in Devices \cup {NoDevice}
      /\ claim' = claim /\ exe' = exe
      /\ UNCHANGED <<nextToken, lastJob, lastGen, live, wire, ep, scan, up, crashes>>
  BY <1>0, <1>1, BusyFacts, TypesAt DEF RunSucceed, Runs
<1>3. CASE RunningAt(j, a) /\ ~UNCHANGED <<job, gen, settleSeq>>
  <2> DEFINE d == IF Runs(w, {"provision"}) THEN wk[w].dev ELSE job[j].dev
  <2>1. /\ Terminalize(j, "succeeded", "none", "settled", d) /\ wk' = wk
        /\ \E p \in {"release", "markfail"} : pc' = [pc EXCEPT ![w] = p]
    BY <1>1, <1>3 DEF RunSucceed, Goto
  <2>2. /\ d \in Devices \cup {NoDevice} /\ (job[j].type # "provision" => d = job[j].dev)
        /\ "succeeded" \in Terminal /\ "none" \in Evidence /\ "settled" \in GenerationStatus
    BY <1>1, <1>2 DEF Runs, Job, Terminal, Evidence, GenerationStatus
  <2> HIDE DEF d
  <2>3. Ended(j, a) /\ job'[j].status = "succeeded"
    BY <1>2, <1>3, <2>1, <2>2, TerminalizeEndsAlone
  <2>4. \E p \in Ending :
          /\ pc' = [pc EXCEPT ![w] = p] /\ p \in {"release", "markfail"}
    BY <2>1 DEF Ending
  <2> QED BY <1>0, <1>1, <1>2, <2>1, <2>3, <2>4, EndStep
<1>4. CASE UNCHANGED <<job, gen, settleSeq>>
  <2>1. \/ EndRun(w)
        \/ wk' = wk /\ pc' = [pc EXCEPT ![w] = "release"] /\ ~RunningAt(j, a)
        \/ /\ RunningAt(j, a) /\ wk' = wk
           /\ Terminalize(j, "succeeded", "none", "settled", IF Runs(w, {"provision"}) THEN wk[w].dev ELSE job[j].dev)
    BY <1>1, <1>4 DEF RunSucceed, Goto
  <2>2. ~ /\ RunningAt(j, a)
          /\ Terminalize(j, "succeeded", "none", "settled", IF Runs(w, {"provision"}) THEN wk[w].dev ELSE job[j].dev)
    <3>1. IF Runs(w, {"provision"}) THEN wk[w].dev \in Devices \cup {NoDevice} ELSE job[j].dev \in Devices \cup {NoDevice}
      BY <1>2 DEF Job
    <3>2. StoreTypeOK /\ "succeeded" \in Terminal /\ "none" \in Evidence /\ "settled" \in GenerationStatus
      BY <1>2 DEF TypeOK, Terminal, Evidence, GenerationStatus
    <3> QED BY <1>4, <3>1, <3>2, TerminalizeEffect DEF RunningAt
  <2> QED BY <1>0, <1>1, <1>2, <1>4, <2>1, <2>2, EndStep DEF Ending, RunningAt
<1> QED BY <1>1, <1>3, <1>4 DEF RunSucceed

LEMMA MarkJobFailedStep ==
  ASSUME Ownership, NEW w \in Workers, MarkJobFailed(w)
  PROVE  Ownership'
<1> USE ConstantsFacts
<1>0. pc[w] = "markfail" /\ pc[w] \in Busy
  BY DEF MarkJobFailed, Busy, Executing
<1>1. PICK j \in Jobs, a \in Nat : wk[w].job = j /\ wk[w].attempt = a
  BY <1>0, BusyFacts
<1>2. /\ TypeOK /\ WorkerOK(w) /\ job[j] \in Job /\ job[j].dev \in Devices \cup {NoDevice}
      /\ claim' = claim /\ exe' = exe
      /\ UNCHANGED <<nextToken, lastJob, lastGen, live, wire, ep, scan, up, crashes>>
  BY <1>0, <1>1, BusyFacts DEF MarkJobFailed, Job
<1>3. CASE /\ RunningAt(j, a) /\ wk' = wk
           /\ Terminalize(j, "failed", UnpreparedEvidence(j), "failed", job[j].dev)
           /\ \E p \in {"release", "failrel"} : pc' = [pc EXCEPT ![w] = p]
  <2>1. "failed" \in Terminal /\ "failed" \in GenerationStatus
    BY DEF Terminal, GenerationStatus
  <2>2. Ended(j, a) /\ job'[j].status = "failed"
    BY <1>2, <1>3, <2>1, UnpreparedEvidenceType, TerminalizeEndsAlone
  <2>3. \E p \in Ending : pc' = [pc EXCEPT ![w] = p] /\ p \in {"release", "failrel"}
    BY <1>3 DEF Ending
  <2> QED BY <1>0, <1>1, <1>2, <1>3, <2>2, <2>3, EndStep
<1>4. CASE /\ UNCHANGED <<job, gen, settleSeq>>
           /\ \/ EndRun(w)
              \/ pc' = [pc EXCEPT ![w] = "failrel"] /\ wk' = wk
  BY <1>0, <1>1, <1>2, <1>4, EndStep DEF Ending
<1>5. CASE /\ UNCHANGED <<job, gen, settleSeq>> /\ wk' = wk
           /\ pc' = [pc EXCEPT ![w] = "release"]
           /\ ~((wk[w].token = 0 \/ Holds(w)) /\ RunningAt(j, a))
  <2>1. job[j].type # "provision" => ~RunningAt(j, a)
    BY <1>0, <1>1, <1>2, <1>5 DEF WorkerOK, CurrentAt, DeviceBound
  <2> QED BY <1>0, <1>1, <1>2, <1>5, <2>1, EndStep DEF Ending, RunningAt
<1> QED BY <1>1, <1>3, <1>4, <1>5 DEF MarkJobFailed, Goto

\* The runners that write a device.
LEMMA FinalizeEmptyStep ==
  ASSUME Ownership, NEW w \in Workers, FinalizeEmpty(w)
  PROVE  Ownership'
<1> USE ConstantsFacts
<1>0. pc[w] = "run" /\ pc[w] \in Busy
  BY DEF FinalizeEmpty, Busy, Executing
<1>1. PICK j \in Jobs, a \in Nat : wk[w].job = j /\ wk[w].attempt = a
  BY <1>0, BusyFacts
<1> DEFINE e == IF Runs(w, {"apply"}) THEN "none" ELSE UnpreparedEvidence(j)
<1>2. /\ RunningAt(j, a) /\ job[j].type \in DeviceWriting /\ job[j].dev \in Devices \cup {NoDevice}
      /\ Terminalize(j, "succeeded", e, "settled", job[j].dev)
      /\ claim' = claim /\ exe' = exe
      /\ UNCHANGED <<nextToken, lastJob, lastGen, live, wire, ep, scan, up, crashes>>
  BY <1>0, <1>1, BusyFacts DEF FinalizeEmpty, Runs, Job
<1>3. "succeeded" \in Terminal /\ e \in Evidence /\ "settled" \in GenerationStatus
  BY UnpreparedEvidenceType DEF Terminal, Evidence, GenerationStatus
<1> HIDE DEF e
<1>4. Ended(j, a) /\ job'[j].status = "succeeded"
  BY <1>2, <1>3, TerminalizeEndsAlone
<1>5. EndRun(w) \/ (pc' = [pc EXCEPT ![w] = "post"] /\ wk' = wk)
  BY DEF FinalizeEmpty, Goto
<1> QED BY <1>0, <1>1, <1>2, <1>4, <1>5, EndStep DEF Ending

LEMMA SettleUnsentStep ==
  ASSUME Ownership, NEW w \in Workers, SettleUnsent(w)
  PROVE  Ownership'
<1> USE ConstantsFacts
<1>0. pc[w] = "run" /\ pc[w] \in Busy
  BY DEF SettleUnsent, Busy, Executing
<1>1. PICK j \in Jobs, a \in Nat : wk[w].job = j /\ wk[w].attempt = a
  BY <1>0, BusyFacts
<1> DEFINE n == Max(Carried(wk[w].dev, j))
<1>2. /\ Holds(w) /\ RunningAt(j, a) /\ job[j].type \in DeviceWriting /\ job[j].dev \in Devices
      /\ Carried(job[j].dev, j) # {} /\ n = Max(Carried(job[j].dev, j))
      /\ exe' = [exe EXCEPT ![j] = [attempt |-> a, gen |-> n, open |-> FALSE, response |-> "rejected"]]
      /\ Terminalize(j, "failed", "not_applied", "failed", wk[w].dev)
      /\ claim' = claim /\ exe \in [Jobs -> Execution]
      /\ UNCHANGED <<nextToken, lastJob, lastGen, live, wire, ep, scan, up, crashes>>
  BY <1>0, <1>1, BusyFacts DEF SettleUnsent, OwnsRun, Job
<1>3. n \in 0 .. MaxGens
  <2>1. Carried(job[j].dev, j) \subseteq 0 .. MaxGens
    BY SMTT(30) DEF Carried, Gens
  <2> QED BY <1>2, <2>1, MaxGreatest
<1> HIDE DEF n
<1>4. /\ exe' \in [Jobs -> Execution] /\ exe'[j].attempt = a
      /\ \A k \in Jobs \ {j} : exe'[k] = exe[k]
  BY <1>2, <1>3 DEF Execution, Response
<1>5. wk[w].dev = job[j].dev
  <2>1. claim[wk[w].dev].job = j /\ wk[w].dev \in Devices /\ ClaimRow(wk[w].dev)
    BY <1>0, <1>1, <1>2, BusyFacts DEF Ownership, WorkerOK, HeldAt, PlacedAt, Holds
  <2> QED BY <1>2, <2>1 DEF ClaimRow, DeviceWriting
<1>6. "failed" \in Terminal /\ "not_applied" \in Evidence /\ "failed" \in GenerationStatus
  BY DEF Terminal, Evidence, GenerationStatus
<1>7. Ended(j, a) /\ job'[j].status = "failed"
  BY <1>2, <1>4, <1>5, <1>6, TerminalizeEnds
<1>8. EndRun(w) \/ (pc' = [pc EXCEPT ![w] = "post"] /\ wk' = wk)
  BY DEF SettleUnsent, Goto
<1> QED BY <1>0, <1>1, <1>2, <1>7, <1>8, EndStep DEF Ending

LEMMA SettleSuccessStep ==
  ASSUME Ownership, NEW w \in Workers, SettleSuccess(w)
  PROVE  Ownership'
<1> USE ConstantsFacts
<1>0. pc[w] = "verify" /\ pc[w] \in Busy /\ Holds(w)
  BY DEF SettleSuccess, Busy, Executing
<1>1. PICK j \in Jobs, a \in Nat : wk[w].job = j /\ wk[w].attempt = a
  BY <1>0, BusyFacts
<1>2. PICK status \in Terminal, evidence \in {"in_sync", "unavailable"}, outcome \in {"settled", "failed"} :
        Terminalize(j, status, evidence, outcome, wk[w].dev)
  BY <1>1 DEF SettleSuccess
<1>3. /\ RunningAt(j, a) /\ job[j].type \in DeviceWriting /\ job[j].dev \in Devices /\ exe[j].attempt = a
      /\ exe' = [exe EXCEPT ![j].open = FALSE] /\ exe \in [Jobs -> Execution]
      /\ claim' = claim
      /\ UNCHANGED <<nextToken, lastJob, lastGen, live, wire, ep, scan, up, crashes>>
  BY <1>0, <1>1, BusyFacts DEF SettleSuccess, OwnsRun, OpenAttempt, Job
<1>4. wk[w].dev = job[j].dev
  <2>1. claim[wk[w].dev].job = j /\ wk[w].dev \in Devices /\ ClaimRow(wk[w].dev)
    BY <1>0, <1>1, BusyFacts DEF Ownership, WorkerOK, HeldAt, PlacedAt, Holds
  <2> QED BY <1>3, <2>1 DEF ClaimRow, DeviceWriting
<1>5. /\ exe' \in [Jobs -> Execution] /\ exe'[j].attempt = a /\ \A k \in Jobs \ {j} : exe'[k] = exe[k]
  BY <1>3 DEF Execution
<1>6. evidence \in Evidence /\ outcome \in GenerationStatus
  BY DEF Evidence, GenerationStatus
<1>7. Ended(j, a) /\ job'[j].status = status
  BY <1>2, <1>3, <1>4, <1>5, <1>6, TerminalizeEnds
<1>8. EndRun(w) \/ (pc' = [pc EXCEPT ![w] = "post"] /\ wk' = wk)
  BY DEF SettleSuccess, Goto
<1> QED BY <1>0, <1>1, <1>3, <1>7, <1>8, EndStep DEF Ending, Terminal

\* Settling an open attempt that is owned ends the run.
LEMMA SettleAttemptEnds ==
  ASSUME Ownership, NEW j \in Jobs, NEW a \in Nat, RunningAt(j, a), SettleAttempt(j)
  PROVE  Ended(j, a) /\ job'[j].status = "failed"
<1>1. StoreTypeOK /\ JobRow(j) /\ exe \in [Jobs -> Execution]
  BY DEF Ownership, TypeOK, StoreTypeOK
<1>2. /\ Disposes(j, a) /\ job'[j].status = "failed"
      /\ exe' = [exe EXCEPT ![j].open = FALSE] /\ exe' \in [Jobs -> Execution]
  BY <1>1, SettleAttemptEffect
<1>3. exe'[j].attempt = exe[j].attempt /\ \A k \in Jobs \ {j} : exe'[k] = exe[k]
  BY <1>1, <1>2 DEF Execution
<1>4. exe[j].attempt # 0 => exe[j].attempt = a /\ job[j].type \in DeviceWriting
  BY <1>1 DEF JobRow, RunningAt
<1>5. job'[j].dev = job[j].dev
  BY <1>2 DEF Disposes
<1> QED BY <1>2, <1>3, <1>4, <1>5 DEF Ended, Disposes

LEMMA RunFailStep ==
  ASSUME Ownership, NEW w \in Workers, RunFail(w)
  PROVE  Ownership'
<1> USE ConstantsFacts
<1>0. pc[w] = "runfail" /\ pc[w] \in Busy
  BY DEF RunFail, Busy, Executing
<1>1. PICK j \in Jobs, a \in Nat : wk[w].job = j /\ wk[w].attempt = a
  BY <1>0, BusyFacts
<1>2. /\ job[j].type \in DeviceWriting /\ job[j].dev \in Devices \cup {NoDevice} /\ claim' = claim
      /\ UNCHANGED <<nextToken, lastJob, lastGen, live, wire, ep, scan, up, crashes>>
  BY <1>0, <1>1, BusyFacts DEF RunFail, WorkerOK, KindAt, Runs, Job
<1>3. CASE /\ \/ RunningAt(j, a) /\ SettleAttempt(j)
              \/ /\ RunningAt(j, a) /\ UNCHANGED exe
                 /\ Terminalize(j, "failed", UnpreparedEvidence(j), "failed", job[j].dev)
           /\ \/ EndRun(w)
              \/ wk' = wk /\ \E p \in {"post", "failrel"} : pc' = [pc EXCEPT ![w] = p]
  <2>1. "failed" \in Terminal /\ "failed" \in GenerationStatus
    BY DEF Terminal, GenerationStatus
  <2>2. Ended(j, a) /\ job'[j].status = "failed"
    BY <1>2, <1>3, <2>1, UnpreparedEvidenceType, TerminalizeEndsAlone, SettleAttemptEnds
  <2>3. EndRun(w) \/ (wk' = wk /\ \E p \in Ending : pc' = [pc EXCEPT ![w] = p] /\ p # "markfail")
    BY <1>3 DEF Ending
  <2> QED BY <1>0, <1>1, <1>2, <2>2, <2>3, EndStep
<1>4. CASE /\ UNCHANGED <<job, gen, settleSeq, exe>>
           /\ EndRun(w) \/ (pc' = [pc EXCEPT ![w] = "failrel"] /\ wk' = wk)
  BY <1>0, <1>1, <1>2, <1>4, EndStep DEF Ending
<1> QED BY <1>1, <1>3, <1>4 DEF RunFail, Goto, OwnsRun

-----------------------------------------------------------------------------
(* Winding up.                                                             *)

LEMMA DisposeAndReleaseStep ==
  ASSUME Ownership, NEW w \in Workers, NEW to, pc[w] \in Busy, DisposeAndRelease(w, to)
  PROVE  Ownership'
<1> USE ConstantsFacts
<1>1. PICK j \in Jobs, a \in Nat : wk[w].job = j /\ wk[w].attempt = a
  BY BusyFacts
<1>2. /\ StoreTypeOK /\ WorkerOK(w) /\ JobRow(j) /\ EndRun(w) /\ a # 0
      /\ UNCHANGED <<nextToken, lastJob, lastGen, live, wire, ep, scan, up, crashes>>
  BY <1>1, BusyFacts DEF DisposeAndRelease
<1>3. CASE Holds(w) /\ DisposeRun(j, a, wk[w].token, to) /\ DeleteClaim(wk[w].dev, wk[w].token)
  <2>1. Disposed(j, a)
    BY <1>2, <1>3, DisposeRunEffect
  <2>2. job[j].type # "provision" => a = job[j].attempt
    BY <1>1, <1>2, <1>3 DEF WorkerOK, HeldAt, DeviceBound
  <2>3. /\ Ended(j, a) \/ UNCHANGED <<job, gen, settleSeq, exe>>
        /\ job[j].type # "provision" => job'[j].status # "running"
    BY <2>1, <2>2, DisposedEnds
  <2>4. claim' = [claim EXCEPT ![wk[w].dev] = NoClaim]
    BY <1>3 DEF Holds, DeleteClaim
  <2> QED BY <1>1, <1>2, <1>3, <2>3, <2>4, EndStep
<1>4. CASE wk[w].token = 0 /\ TerminalizeRunning(j, a, to) /\ UNCHANGED <<claim, exe>>
  <2>1. exe[j].attempt # a
    BY <1>1, <1>2, <1>4 DEF WorkerOK, PlacedAt, DeviceBound, JobRow, DeviceWriting
  <2>2. Disposed(j, a)
    BY <1>2, <1>4, <2>1, TerminalizeRunningEffect DEF Disposed, StoreTypeOK
  <2>3. Ended(j, a) \/ UNCHANGED <<job, gen, settleSeq, exe>>
    BY <2>2, DisposedEnds
  <2> QED BY <1>1, <1>2, <1>4, <2>3, EndStep
<1>5. CASE UNCHANGED <<claim, job, gen, settleSeq, exe>>
  BY <1>1, <1>2, <1>5, EndStep
<1> QED BY <1>1, <1>3, <1>4, <1>5 DEF DisposeAndRelease

LEMMA ReleaseStep ==
  ASSUME Ownership, NEW w \in Workers, Release(w)
  PROVE  Ownership'
<1> USE ConstantsFacts
<1>0. pc[w] = "release" /\ pc[w] \in Busy
  BY DEF Release, Busy
<1>1. PICK j \in Jobs, a \in Nat : wk[w].job = j /\ wk[w].attempt = a
  BY <1>0, BusyFacts
<1>2. /\ WorkerOK(w) /\ EndRun(w)
      /\ UNCHANGED <<nextToken, lastJob, lastGen, live, wire, ep, scan, up, crashes>>
  BY <1>0, BusyFacts DEF Release
<1>3. CASE Holds(w) /\ DeleteClaim(wk[w].dev, wk[w].token) /\ UNCHANGED <<job, gen, settleSeq, exe>>
  <2>1. claim' = [claim EXCEPT ![wk[w].dev] = NoClaim]
    BY <1>3 DEF Holds, DeleteClaim
  <2>2. job[j].type # "provision" => job[j].status # "running"
    BY <1>0, <1>1, <1>2, <1>3 DEF WorkerOK, HeldAt, CurrentAt, DeviceBound, RunningAt
  <2> QED BY <1>0, <1>1, <1>2, <1>3, <2>1, <2>2, EndStep
<1>4. CASE Holds(w) /\ DeleteClaim(wk[w].dev, wk[w].token) /\ RunningAt(j, a) /\ SettleAttempt(j)
  <2>1. claim' = [claim EXCEPT ![wk[w].dev] = NoClaim]
    BY <1>4 DEF Holds, DeleteClaim
  <2>2. Ended(j, a) /\ job'[j].status = "failed"
    BY <1>4, SettleAttemptEnds
  <2> QED BY <1>0, <1>1, <1>2, <1>4, <2>1, <2>2, EndStep
<1>5. CASE UNCHANGED <<claim, job, gen, settleSeq, exe>>
  BY <1>0, <1>1, <1>2, <1>5, EndStep
<1> QED BY <1>1, <1>3, <1>4, <1>5 DEF Release, OwnsRun

LEMMA PostStep ==
  ASSUME Ownership, NEW w \in Workers, Post(w)
  PROVE  Ownership'
<1> USE ConstantsFacts
<1>0. /\ pc[w] = "post" /\ pc[w] \in Busy /\ pc' = [pc EXCEPT ![w] = "release"] /\ wk' = wk
      /\ UNCHANGED <<claim, nextToken, gen, lastGen, settleSeq, exe, live, wire, ep, scan, up, crashes>>
  BY DEF Post, Goto, Busy
<1>1. /\ TypeOK /\ StoreTypeOK /\ WorkerOK(w) /\ wk[w].job \in Jobs /\ wk[w].dev \in Devices
      /\ job[wk[w].job].status # "absent"
  BY <1>0, BusyFacts DEF WorkerOK, PlacedAt, KindAt, Runs, DeviceBound, DeviceWriting
<1>2. JobExtended /\ job' \in [Jobs -> Job] /\ lastJob' \in 0 .. MaxJobs
  <2>1. CASE UNCHANGED <<job, lastJob>>
    BY <1>1, <2>1 DEF JobExtended, StoreTypeOK
  <2>2. CASE AddJob("read", wk[w].dev, FALSE)
    <3>1. "read" \in JobType /\ FALSE \in BOOLEAN /\ wk[w].dev \in Devices \cup {NoDevice}
      BY <1>1 DEF JobType
    <3> QED BY <1>1, <2>2, <3>1, AddJobEffect DEF JobExtended
  <2> QED BY <2>1, <2>2 DEF Post
<1>3. TypeOK' /\ pc'[w] = "release" /\ Moves(w)
  BY <1>0, <1>1, <1>2 DEF TypeOK, StoreTypeOK, PC, Moves
<1>4. job'[wk[w].job] = job[wk[w].job]
  BY <1>0, <1>1, <1>2, <1>3, ExtendKeeps
<1>5. WorkerOK(w)'
  BY <1>0, <1>1, <1>3, <1>4 DEF WorkerOK, PlacedAt, KindAt, HeldAt, CurrentAt, SendingAt, Holds, Runs,
       DeviceBound, RunningAt, OpenAttempt, Busy, Executing
<1> QED BY <1>0, <1>2, <1>3, <1>5, MoveStep

LEMMA AdvanceGenerationsStep ==
  ASSUME Ownership, NEW w \in Workers, AdvanceGenerations(w)
  PROVE  Ownership'
<1> USE ConstantsFacts, UnregisteredType
<1>0. /\ pc[w] = "advance" /\ pc' = [pc EXCEPT ![w] = "idle"] /\ wk' = [wk EXCEPT ![w] = Unregistered]
      /\ UNCHANGED <<claim, nextToken, lastGen, settleSeq, exe, live, wire, ep, scan, up, crashes>>
      /\ AdvanceLocked(wk[w].dev, gen[wk[w].dev]) \/ UNCHANGED <<job, lastJob, gen>>
  BY DEF AdvanceGenerations, Leave, Goto
<1>1. TypeOK /\ StoreTypeOK /\ wk[w].dev \in Devices
  BY <1>0 DEF Ownership, TypeOK, WorkerOK, PlacedAt
<1>2. JobExtended /\ gen' \in [Devices -> [Gens -> Generation]]
  BY <1>0, <1>1, AdvanceEffect DEF JobExtended, StoreTypeOK
<1>3. job' \in [Jobs -> Job] /\ lastJob' \in 0 .. MaxJobs
  BY SMTT(30), <1>1, <1>2, AddJobEffect DEF JobExtended, StoreTypeOK
<1>4. /\ TypeOK' /\ Moves(w) /\ pc'[w] = "idle" /\ wk'[w] = Unregistered
  BY <1>0, <1>1, <1>2, <1>3 DEF TypeOK, StoreTypeOK, PC, Moves, Unregistered
<1> QED BY <1>0, <1>2, <1>4, IdleOK, MoveStep
=============================================================================
