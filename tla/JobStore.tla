------------------------------ MODULE JobStore ------------------------------
(***************************************************************************)
(* The durable state of the job runtime and the transactions over it: the  *)
(* device_claim, jobs, deployment_generation and apply_execution_attempt   *)
(* tables (store/models.py), the per-device settlement counter, and the    *)
(* fate of each PUT on the NSO side.  Every operator that primes a         *)
(* variable is the body of one database transaction; the actions of        *)
(* JobRuntime say who runs it and what the caller then believes.           *)
(***************************************************************************)
EXTENDS Naturals, FiniteSets, FiniteSetsExt

CONSTANTS
  Devices, NoDevice,   \* managed devices; jobs.device_id IS NULL
  MaxJobs,             \* bound: rows of the jobs table
  MaxGens,             \* bound: generations per device
  MaxTokens            \* bound: claim acquisitions

ASSUME DevicesAssumption == NoDevice \notin Devices
ASSUME BoundsAssumption ==
  /\ MaxJobs \in Nat \ {0}
  /\ MaxGens \in Nat \ {0}
  /\ MaxTokens \in Nat \ {0}

VARIABLES
  claim,       \* device_claim, by device: the token and the job_id (0: NULL)
  nextToken,   \* claim tokens are fresh uuids: the next one to be minted
  job,         \* jobs, by primary key
  lastJob,     \* the last jobs.id handed out
  gen,         \* deployment_generation, by device and seq
  lastGen,     \* device_generation_counter
  settleSeq,   \* device_settle_counter
  exe,         \* apply_execution_attempt, by job (a job prepares at most once)
  live,        \* whether the device row exists
  wire         \* what became of the PUT a job sent (external: NSO)

storeVars == <<claim, nextToken, job, lastJob, gen, lastGen, settleSeq, exe, live, wire>>

Jobs == 1 .. MaxJobs
Gens == 1 .. MaxGens

JobType == {"read", "apply", "removal", "provision"}
JobStatus == {"absent", "queued", "running", "succeeded", "failed"}
Terminal == {"succeeded", "failed"}
DeviceWriting == {"apply", "removal"}
GenerationStatus ==
  {"absent", "pending", "running", "settled", "failed", "outcome_unknown", "abandoned"}
Crossable == {"absent", "settled", "abandoned"}
Blocked == {"failed", "outcome_unknown"}
Evidence == {"none", "in_sync", "not_applied", "unavailable"}
Response == {"none", "rejected", "refused", "unavailable", "acked"}

Claim == [token : 0 .. MaxTokens, job : 0 .. MaxJobs]
NoClaim == [token |-> 0, job |-> 0]
Job ==
  [type : JobType, dev : Devices \cup {NoDevice}, coalescible : BOOLEAN,
   status : JobStatus, attempt : Nat, seq : Nat, evidence : Evidence]
NoJob ==
  [type |-> "read", dev |-> NoDevice, coalescible |-> FALSE,
   status |-> "absent", attempt |-> 0, seq |-> 0, evidence |-> "none"]
Generation == [status : GenerationStatus, job : 0 .. MaxJobs, kind : DeviceWriting]
NoGeneration == [status |-> "absent", job |-> 0, kind |-> "apply"]
Execution ==
  [attempt : Nat, gen : 0 .. MaxGens, open : BOOLEAN, response : Response]
NoExecution == [attempt |-> 0, gen |-> 0, open |-> FALSE, response |-> "none"]

StoreTypeOK ==
  /\ claim \in [Devices -> Claim]
  /\ nextToken \in 1 .. MaxTokens + 1
  /\ job \in [Jobs -> Job]
  /\ lastJob \in 0 .. MaxJobs
  /\ gen \in [Devices -> [Gens -> Generation]]
  /\ lastGen \in [Devices -> 0 .. MaxGens]
  /\ settleSeq \in [Devices -> Nat]
  /\ exe \in [Jobs -> Execution]
  /\ live \in [Devices -> {"unborn", "live", "gone"}]
  /\ wire \in [Jobs -> {"none", "open", "landed", "rejected"}]

StoreInit(born) ==
  /\ claim = [d \in Devices |-> NoClaim]
  /\ nextToken = 1
  /\ job = [j \in Jobs |-> NoJob]
  /\ lastJob = 0
  /\ gen = [d \in Devices |-> [n \in Gens |-> NoGeneration]]
  /\ lastGen = [d \in Devices |-> 0]
  /\ settleSeq = [d \in Devices |-> 0]
  /\ exe = [j \in Jobs |-> NoExecution]
  /\ live = [d \in Devices |-> IF d \in born THEN "live" ELSE "unborn"]
  /\ wire = [j \in Jobs |-> "none"]

-----------------------------------------------------------------------------
(* Reading the tables.                                                     *)

Queue(d) == {j \in Jobs : job[j].status = "queued" /\ job[j].dev = d}

\* Mutant: the compare-and-set forgets the status.
MutRunningAtNoStatus(j, a) == job[j].attempt = a

\* Mutant: the compare-and-set forgets the attempt.
MutRunningAtNoAttempt(j, a) == job[j].status = "running" /\ a # 0

RunningAt(j, a) == job[j].status = "running" /\ job[j].attempt = a

Started(j) == [job[j] EXCEPT !.status = "running", !.attempt = job[j].attempt + 1]

Carried(d, j) == {n \in Gens : gen[d][n].job = j}

\* Mutant: a predecessor that failed no longer bars its successors.
MutAdmissible(j) ==
  LET mine == Carried(job[j].dev, j) IN
  \A n \in Gens, m \in mine : n < m => gen[job[j].dev][n].status \notin {"pending", "running"}

\* job_admissible: no generation before the first one carried may still bar it.
Admissible(j) ==
  LET d == job[j].dev
      mine == Carried(d, j)
  IN IF mine = {}
     THEN job[j].type \in DeviceWriting => \A n \in Gens : gen[d][n].status \notin Blocked
     ELSE \A n \in Gens : n < Min(mine) => gen[d][n].status \in Crossable

\* The queued slot of (device, type) is taken, so a requeue would collide.
\* Removals are exempt from the index and a provision has no device.
Superseded(j) ==
  /\ job[j].type # "removal"
  /\ job[j].dev # NoDevice
  /\ \E k \in Queue(job[j].dev) : job[k].type = job[j].type

\* disposition_for: an interrupted apply is never re-pushed.
Disposition(type) == IF type = "apply" THEN "failed" ELSE "queued"

-----------------------------------------------------------------------------
(* The claim.                                                              *)

InsertClaim(d, j) ==
  /\ claim[d] = NoClaim
  /\ live[d] = "live"
  /\ nextToken <= MaxTokens
  /\ claim' = [claim EXCEPT ![d] = [token |-> nextToken, job |-> j]]
  /\ nextToken' = nextToken + 1

\* Mutant: the delete is not scoped to the token.
MutDeleteClaim(d, t) == claim' = IF t # 0 THEN [claim EXCEPT ![d] = NoClaim] ELSE claim

\* Token-scoped, so it never removes a successor's row.
DeleteClaim(d, t) ==
  claim' = IF claim[d].token = t THEN [claim EXCEPT ![d] = NoClaim] ELSE claim

-----------------------------------------------------------------------------
(* The one terminal writer, and recovery's re-disposition.                 *)

\* The not-applied evidence of a device-writing run that prepared no attempt.
UnpreparedEvidence(j) ==
  IF /\ job[j].type \in DeviceWriting
     /\ job[j].dev # NoDevice
     /\ exe[j].attempt # job[j].attempt
     /\ Carried(job[j].dev, j) # {}
  THEN "not_applied" ELSE "none"

SettleGenerations(j, outcome) ==
  gen' = [d \in Devices |-> [n \in Gens |->
            IF gen[d][n].job = j
            THEN [gen[d][n] EXCEPT !.status = outcome] ELSE gen[d][n]]]

\* The row with its result, its device and, of a device, its settlement number.
Finished(j, status, evidence, d) ==
  [job[j] EXCEPT !.status = status, !.evidence = evidence, !.dev = d,
     !.seq = IF d = NoDevice THEN job[j].seq ELSE settleSeq[d] + 1]

\* terminalize, its ownership predicate already proven by the caller.
Terminalize(j, status, evidence, outcome, d) ==
  /\ job' = [job EXCEPT ![j] = Finished(j, status, evidence, d)]
  /\ settleSeq' = IF d = NoDevice THEN settleSeq ELSE [settleSeq EXCEPT ![d] = @ + 1]
  /\ SettleGenerations(j, outcome)

\* Mutant: requeue_job_generations is not called.
MutRequeueRunning(j) ==
  job' = [job EXCEPT ![j].status = "queued"] /\ UNCHANGED <<gen, settleSeq>>

RequeueRunning(j) ==
  /\ job' = [job EXCEPT ![j].status = "queued"]
  /\ gen' = [d \in Devices |-> [n \in Gens |->
               IF gen[d][n].job = j /\ gen[d][n].status = "running"
               THEN [gen[d][n] EXCEPT !.status = "pending"] ELSE gen[d][n]]]
  /\ UNCHANGED settleSeq

TerminalizeRunning(j, a, to) ==
  IF ~RunningAt(j, a) THEN UNCHANGED <<job, settleSeq, gen>>
  ELSE IF to = "queued" /\ ~Superseded(j) THEN RequeueRunning(j)
  ELSE Terminalize(j, "failed", UnpreparedEvidence(j),
                   IF to = "queued" THEN "abandoned" ELSE "outcome_unknown", job[j].dev)

-----------------------------------------------------------------------------
(* The execution attempt.                                                  *)

\* _lock_run: the run, its claim row (or, for token 0, no claim row at all) and
\* its last generation still belong together.
OwnsRun(j, a, t, n) ==
  LET d == job[j].dev IN
  /\ RunningAt(j, a)
  /\ job[j].type \in DeviceWriting
  /\ d # NoDevice
  /\ claim[d] = IF t = 0 THEN NoClaim ELSE [token |-> t, job |-> j]
  /\ Carried(d, j) # {} /\ n = Max(Carried(d, j))

OpenAttempt(j, a) == exe[j].open /\ exe[j].attempt = a

\* Mutant: an unreadable answer is taken for a refusal.
MutVerdicts(response) == {<<"not_applied", "failed">>}

\* What the checkpointed response lets a disposition conclude: the evidence of
\* the rows and the verdict on the generation.  A refusal whose attribution
\* fails proves nothing.
Verdicts(response) ==
  CASE response = "rejected" -> {<<"not_applied", "failed">>}
    [] response = "refused" -> {<<"not_applied", "failed">>, <<"unavailable", "outcome_unknown">>}
    [] OTHER -> {<<"unavailable", "outcome_unknown">>}

SettleAttempt(j) ==
  \E v \in Verdicts(exe[j].response) :
    /\ Terminalize(j, "failed", v[1], v[2], job[j].dev)
    /\ exe' = [exe EXCEPT ![j].open = FALSE]

\* Mutant: the disposition overlooks that an attempt was prepared.
MutDisposeRun(j, a, t, to) == TerminalizeRunning(j, a, to) /\ UNCHANGED exe

\* dispose_run followed by the caller's own write when no attempt was prepared.
\* Guard: a prepared attempt that is no longer owned aborts the transaction.
DisposeRun(j, a, t, to) ==
  IF OpenAttempt(j, a)
  THEN OwnsRun(j, a, t, exe[j].gen) /\ SettleAttempt(j)
  ELSE /\ IF exe[j].attempt = a THEN UNCHANGED <<job, settleSeq, gen>>
                                ELSE TerminalizeRunning(j, a, to)
       /\ UNCHANGED exe

\* Recovery's version: a mismatched attempt is durable, so the run ends here.
RecoverRun(j, a, t) ==
  IF OpenAttempt(j, a) /\ ~OwnsRun(j, a, t, exe[j].gen)
  THEN TerminalizeRunning(j, a, "failed") /\ UNCHANGED exe
  ELSE DisposeRun(j, a, t, Disposition(job[j].type))

-----------------------------------------------------------------------------
(* Admission and generations.                                              *)

NewJob(type, d, coalescible) ==
  [NoJob EXCEPT !.type = type, !.dev = d, !.coalescible = coalescible, !.status = "queued"]

AddJob(type, d, coalescible) ==
  /\ lastJob < MaxJobs
  /\ job' = [job EXCEPT ![lastJob + 1] = NewJob(type, d, coalescible)]
  /\ lastJob' = lastJob + 1

\* executable_head: the oldest generation that is neither settled nor abandoned.
Uncrossed(gens) == {n \in Gens : gens[n].status \notin Crossable}

\* The head is pending and nothing queued will run it.
NeedsCarrier(gens) ==
  /\ Uncrossed(gens) # {}
  /\ LET h == gens[Min(Uncrossed(gens))] IN
       h.status = "pending" /\ (h.job # 0 => job[h.job].status \in Terminal)

\* advance_generations_locked, on the generation rows as this transaction has them.
AdvanceLocked(d, gens) ==
  IF NeedsCarrier(gens)
  THEN LET h == Min(Uncrossed(gens)) IN
       /\ AddJob(gens[h].kind, d, FALSE)
       /\ gen' = [gen EXCEPT ![d] = [gens EXCEPT ![h].job = lastJob + 1]]
  ELSE gen' = [gen EXCEPT ![d] = gens] /\ UNCHANGED <<job, lastJob>>
=============================================================================
