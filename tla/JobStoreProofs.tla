--------------------------- MODULE JobStoreProofs ---------------------------
(***************************************************************************)
(* What each transaction of JobStore does to the tables: its type and the  *)
(* part of its effect the ownership argument of JobRuntimeProofs rests on. *)
(***************************************************************************)
EXTENDS JobStore, Extrema

\* A step of the job table that touches only job j, and of it neither the type
\* nor the attempt.
TouchesOnly(j) ==
  /\ job' \in [Jobs -> Job]
  /\ \A k \in Jobs \ {j} : job'[k] = job[k]
  /\ job'[j].type = job[j].type
  /\ job'[j].attempt = job[j].attempt

\* What every disposition of a run does: nothing, or it ends that very attempt.
Disposes(j, a) ==
  /\ TouchesOnly(j)
  /\ settleSeq' \in [Devices -> Nat]
  /\ gen' \in [Devices -> [Gens -> Generation]]
  /\ \/ UNCHANGED <<job, settleSeq, gen>>
     \/ RunningAt(j, a) /\ job'[j].status \in {"queued", "failed"} /\ job'[j].dev = job[j].dev

LEMMA ConstantsFacts ==
  /\ NoDevice \notin Devices
  /\ MaxJobs \in Nat /\ MaxGens \in Nat /\ MaxTokens \in Nat
  /\ Jobs \subseteq Nat \ {0} /\ Gens \subseteq Nat \ {0}
BY DevicesAssumption, BoundsAssumption DEF Jobs, Gens

\* terminalize ends the job it is given, in the given status and on the given
\* device, and no other.
LEMMA TerminalizeEffect ==
  ASSUME StoreTypeOK, NEW j \in Jobs, NEW status \in Terminal, NEW evidence \in Evidence,
         NEW outcome \in GenerationStatus, NEW d \in Devices \cup {NoDevice},
         Terminalize(j, status, evidence, outcome, d)
  PROVE  /\ TouchesOnly(j)
         /\ job'[j].status = status
         /\ job'[j].dev = d
         /\ settleSeq' \in [Devices -> Nat]
         /\ gen' \in [Devices -> [Gens -> Generation]]
<1> DEFINE new == Finished(j, status, evidence, d)
<1>1. job[j] \in Job /\ settleSeq \in [Devices -> Nat]
  BY DEF StoreTypeOK
<1>2. job' = [job EXCEPT ![j] = new]
  BY DEF Terminalize
<1>3. new \in Job /\ new.status = status /\ new.dev = d /\ new.type = job[j].type /\ new.attempt = job[j].attempt
  <2> DEFINE q == IF d = NoDevice THEN job[j].seq ELSE settleSeq[d] + 1
  <2>1. q \in Nat
    BY <1>1 DEF Job
  <2>2. new = [job[j] EXCEPT !.status = status, !.evidence = evidence, !.dev = d, !.seq = q]
    BY DEF Finished
  <2> HIDE DEF q, new
  <2>3. status \in JobStatus
    BY DEF Terminal, JobStatus
  <2> QED BY <1>1, <2>1, <2>2, <2>3, Zenon DEF Job
<1> HIDE DEF new
<1>4. TouchesOnly(j) /\ job'[j].status = status /\ job'[j].dev = d
  BY <1>2, <1>3 DEF TouchesOnly, StoreTypeOK
<1>5. settleSeq' \in [Devices -> Nat]
  BY <1>1 DEF Terminalize
<1>6. gen' \in [Devices -> [Gens -> Generation]]
  <2>1. \A g \in Generation : [g EXCEPT !.status = outcome] \in Generation
    BY DEF Generation
  <2> QED BY <2>1 DEF Terminalize, SettleGenerations, StoreTypeOK
<1> QED BY <1>4, <1>5, <1>6

LEMMA RequeueEffect ==
  ASSUME StoreTypeOK, NEW j \in Jobs, NEW a, RunningAt(j, a), RequeueRunning(j)
  PROVE  Disposes(j, a) /\ job'[j].status = "queued"
<1>1. job[j] \in Job
  BY DEF StoreTypeOK
<1>2. TouchesOnly(j) /\ job'[j].status = "queued" /\ job'[j].dev = job[j].dev
  BY <1>1, Zenon DEF RequeueRunning, TouchesOnly, StoreTypeOK, Job, JobStatus
<1>3. gen' \in [Devices -> [Gens -> Generation]]
  <2>1. \A g \in Generation : [g EXCEPT !.status = "pending"] \in Generation
    BY DEF Generation, GenerationStatus
  <2> QED BY <2>1 DEF RequeueRunning, StoreTypeOK
<1> QED BY <1>2, <1>3 DEF Disposes, RequeueRunning, StoreTypeOK

LEMMA UnpreparedEvidenceType ==
  ASSUME NEW j PROVE UnpreparedEvidence(j) \in Evidence
BY DEF UnpreparedEvidence, Evidence

\* terminalize_running acts on the attempt it was given or not at all, and a job
\* it acted on does not run any more.
LEMMA TerminalizeRunningEffect ==
  ASSUME StoreTypeOK, NEW j \in Jobs, NEW a, NEW to, TerminalizeRunning(j, a, to)
  PROVE  /\ Disposes(j, a)
         /\ RunningAt(j, a) => job'[j].status \in {"queued", "failed"}
         /\ RunningAt(j, a) /\ job'[j].status = "queued" => to = "queued"
<1>1. CASE ~RunningAt(j, a)
  BY <1>1 DEF TerminalizeRunning, Disposes, TouchesOnly, StoreTypeOK
<1>2. CASE RunningAt(j, a) /\ to = "queued" /\ ~Superseded(j)
  BY <1>2, RequeueEffect DEF TerminalizeRunning
<1>3. CASE RunningAt(j, a) /\ ~(to = "queued" /\ ~Superseded(j))
  <2> DEFINE o == IF to = "queued" THEN "abandoned" ELSE "outcome_unknown"
  <2>1. Terminalize(j, "failed", UnpreparedEvidence(j), o, job[j].dev)
    BY <1>3 DEF TerminalizeRunning
  <2>2. "failed" \in Terminal /\ o \in GenerationStatus /\ job[j].dev \in Devices \cup {NoDevice}
    BY DEF Terminal, GenerationStatus, StoreTypeOK, Job
  <2> HIDE DEF o
  <2>3. /\ TouchesOnly(j) /\ job'[j].status = "failed" /\ job'[j].dev = job[j].dev
        /\ settleSeq' \in [Devices -> Nat] /\ gen' \in [Devices -> [Gens -> Generation]]
    BY <2>1, <2>2, UnpreparedEvidenceType, TerminalizeEffect
  <2> QED BY <1>3, <2>3 DEF Disposes
<1> QED BY <1>1, <1>2, <1>3

\* The attempt a settlement closes is the job's own; the job fails.
LEMMA SettleAttemptEffect ==
  ASSUME StoreTypeOK, NEW j \in Jobs, NEW a, RunningAt(j, a), SettleAttempt(j)
  PROVE  /\ Disposes(j, a) /\ job'[j].status = "failed"
         /\ exe' = [exe EXCEPT ![j].open = FALSE]
         /\ exe' \in [Jobs -> Execution]
<1>1. PICK v \in Verdicts(exe[j].response) : Terminalize(j, "failed", v[1], v[2], job[j].dev)
  BY DEF SettleAttempt
<1>2. v[1] \in Evidence /\ v[2] \in GenerationStatus
  BY <1>1 DEF Verdicts, Evidence, GenerationStatus
<1>3. "failed" \in Terminal /\ job[j].dev \in Devices \cup {NoDevice}
  BY DEF Terminal, StoreTypeOK, Job
<1>4. /\ TouchesOnly(j) /\ job'[j].status = "failed" /\ job'[j].dev = job[j].dev
      /\ settleSeq' \in [Devices -> Nat] /\ gen' \in [Devices -> [Gens -> Generation]]
  BY <1>1, <1>2, <1>3, TerminalizeEffect
<1>5. exe' = [exe EXCEPT ![j].open = FALSE] /\ exe' \in [Jobs -> Execution]
  BY ZenonT(60) DEF SettleAttempt, StoreTypeOK, Execution
<1> QED BY <1>4, <1>5 DEF Disposes

\* What a disposition leaves: no run, unless the attempt was closed before; and
\* a run that had prepared a send is not requeued.
Disposed(j, a) ==
  /\ Disposes(j, a)
  /\ exe' \in [Jobs -> Execution]
  /\ exe' = exe \/ (exe' = [exe EXCEPT ![j].open = FALSE] /\ RunningAt(j, a) /\ job'[j].status = "failed")
  /\ RunningAt(j, a) /\ ~(exe[j].attempt = a /\ ~exe[j].open) => job'[j].status \in {"queued", "failed"}
  /\ RunningAt(j, a) /\ job'[j].status = "queued" => exe[j].attempt # a

\* dispose_run and the caller's own write dispose of the attempt they are given.
LEMMA DisposeRunEffect ==
  ASSUME StoreTypeOK, NEW j \in Jobs, NEW a, NEW t, NEW to, DisposeRun(j, a, t, to)
  PROVE  Disposed(j, a)
<1>1. CASE OpenAttempt(j, a)
  <2>1. RunningAt(j, a) /\ SettleAttempt(j)
    BY <1>1 DEF DisposeRun, OwnsRun
  <2> QED BY <2>1, SettleAttemptEffect DEF Disposed
<1>2. CASE ~OpenAttempt(j, a) /\ exe[j].attempt = a
  <2>1. UNCHANGED <<job, settleSeq, gen, exe>> /\ ~exe[j].open
    BY <1>2 DEF DisposeRun, OpenAttempt
  <2>2. RunningAt(j, a) => job'[j].status # "queued"
    BY <2>1 DEF RunningAt
  <2> QED BY <1>2, <2>1, <2>2 DEF Disposed, Disposes, TouchesOnly, StoreTypeOK
<1>3. CASE ~OpenAttempt(j, a) /\ exe[j].attempt # a
  <2>1. TerminalizeRunning(j, a, to) /\ UNCHANGED exe
    BY <1>3 DEF DisposeRun
  <2>2. exe' \in [Jobs -> Execution]
    BY <2>1 DEF StoreTypeOK
  <2> QED BY <1>3, <2>1, <2>2, TerminalizeRunningEffect DEF Disposed
<1> QED BY <1>1, <1>2, <1>3

\* So does recovery, whose mismatched attempt stays open but ends the run.
LEMMA RecoverRunEffect ==
  ASSUME StoreTypeOK, NEW j \in Jobs, NEW a, NEW t, RecoverRun(j, a, t)
  PROVE  Disposed(j, a)
<1>1. CASE OpenAttempt(j, a) /\ ~OwnsRun(j, a, t, exe[j].gen)
  <2>1. TerminalizeRunning(j, a, "failed") /\ UNCHANGED exe
    BY <1>1 DEF RecoverRun
  <2>2. exe' \in [Jobs -> Execution]
    BY <2>1 DEF StoreTypeOK
  <2> QED BY <2>1, <2>2, TerminalizeRunningEffect DEF Disposed
<1>2. CASE ~(OpenAttempt(j, a) /\ ~OwnsRun(j, a, t, exe[j].gen))
  BY <1>2, DisposeRunEffect DEF RecoverRun
<1> QED BY <1>1, <1>2

\* A job is added under the next key; the rows that exist are left alone.
LEMMA AddJobEffect ==
  ASSUME StoreTypeOK, NEW type \in JobType, NEW d \in Devices \cup {NoDevice},
         NEW c \in BOOLEAN, AddJob(type, d, c)
  PROVE  /\ job' \in [Jobs -> Job] /\ lastJob + 1 \in Jobs
         /\ lastJob' = lastJob + 1 /\ lastJob' \in 0 .. MaxJobs
         /\ \A k \in Jobs \ {lastJob + 1} : job'[k] = job[k]
         /\ job'[lastJob + 1].type = type /\ job'[lastJob + 1].dev = d
         /\ job'[lastJob + 1].status = "queued" /\ job'[lastJob + 1].attempt = 0
<1> DEFINE new == NewJob(type, d, c)
<1>1. new \in Job /\ new.type = type /\ new.dev = d /\ new.status = "queued" /\ new.attempt = 0
  BY Zenon DEF NewJob, NoJob, Job, JobStatus, Evidence
<1>2. lastJob \in 0 .. MaxJobs /\ lastJob < MaxJobs /\ job' = [job EXCEPT ![lastJob + 1] = new] /\ lastJob' = lastJob + 1
  BY DEF AddJob, StoreTypeOK
<1> HIDE DEF new
<1>3. lastJob + 1 \in Jobs /\ lastJob' \in 0 .. MaxJobs
  BY <1>2, ConstantsFacts DEF Jobs
<1> QED BY <1>1, <1>2, <1>3 DEF StoreTypeOK

\* The job table is as it was, or a device-bound or claimless job was added.
JobExtended ==
  \/ UNCHANGED <<job, lastJob>>
  \/ \E type \in JobType, d \in Devices \cup {NoDevice}, c \in BOOLEAN :
       (type # "provision" => d \in Devices) /\ AddJob(type, d, c)

\* Advancing the chain adds at most the head's carrier.
LEMMA AdvanceEffect ==
  ASSUME StoreTypeOK, NEW d \in Devices, NEW gens \in [Gens -> Generation], AdvanceLocked(d, gens)
  PROVE  JobExtended /\ gen' \in [Devices -> [Gens -> Generation]]
<1>1. CASE NeedsCarrier(gens)
  <2> DEFINE h == Min(Uncrossed(gens))
  <2>1. h \in Gens
    <3>1. Uncrossed(gens) \in SUBSET Nat /\ Uncrossed(gens) # {} /\ Uncrossed(gens) \subseteq Gens
      BY <1>1, ConstantsFacts, Zenon DEF NeedsCarrier, Uncrossed
    <3> QED BY <3>1, MinLeast
  <2>2. /\ AddJob(gens[h].kind, d, FALSE)
        /\ gen' = [gen EXCEPT ![d] = [gens EXCEPT ![h].job = lastJob + 1]]
    BY <1>1, Zenon DEF AdvanceLocked
  <2> HIDE DEF h
  <2>3. gens[h].kind \in JobType /\ gens[h].kind # "provision"
    BY <2>1 DEF Generation, DeviceWriting, JobType
  <2>4. lastJob + 1 \in 0 .. MaxJobs
    BY <2>2, <2>3, AddJobEffect, Zenon DEF Jobs
  <2>5. [gens EXCEPT ![h].job = lastJob + 1] \in [Gens -> Generation]
    BY <2>4, Zenon DEF Generation
  <2> QED BY <2>2, <2>3, <2>5, Zenon DEF JobExtended, StoreTypeOK
<1>2. CASE ~NeedsCarrier(gens)
  BY <1>2 DEF AdvanceLocked, JobExtended, StoreTypeOK
<1> QED BY <1>1, <1>2
=============================================================================
