----------------------------- MODULE JobRuntime -----------------------------
(***************************************************************************)
(* The worker pool over the job store: discovery, the device claim, the    *)
(* runners of the four kinds of job, cancellation, and everything that     *)
(* acts on the same rows meanwhile (admission, endpoints holding a claim,  *)
(* offboarding, operator exits, the stale-claim reaper, the orphan lane,   *)
(* crash and restart, NSO).                                                *)
(*                                                                         *)
(* Staleness is not modelled with clocks.  A heartbeat is judged against a *)
(* database timestamp by another session, so any claim whose row is not    *)
(* locked may be judged stale, also that of a worker which is merely slow: *)
(* safety may not rest on timing.  Only fairness distinguishes a claim     *)
(* nobody heartbeats any more.                                             *)
(***************************************************************************)
EXTENDS JobStore

CONSTANTS
  Workers,
  Born,          \* the devices onboarded before the run begins
  Admits,        \* which kinds of outside activity this instance has
  MaxAttempts,   \* bound: runs of one job
  MaxCrashes     \* bound: process crashes

ASSUME RuntimeAssumption ==
  /\ Born \subseteq Devices
  /\ MaxAttempts \in Nat \ {0}
  /\ MaxCrashes \in Nat

VARIABLES
  pc, wk,   \* each worker's place and the registration it carries
  ep,       \* per device, the token of the endpoint that holds its claim
  scan,     \* the candidate the orphan scan has in hand
  up,       \* the worker pool runs
  crashes

procVars == <<pc, wk, ep, scan, up, crashes>>
vars == <<storeVars, procVars>>

\* The pcs between the start of a run and its terminal write.
Executing == {"run", "linking", "prepared", "put", "verify", "runfail", "markfail"}
PC == Executing \cup
      {"idle", "found", "claimed", "giveback", "post", "cancel", "failrel", "release", "advance", "dead"}

\* ClaimRegistration: the job, its device, the token (0: unregistered) and the attempt.
Registration ==
  [job : 0 .. MaxJobs, dev : Devices \cup {NoDevice}, token : 0 .. MaxTokens, attempt : Nat]
Unregistered == [job |-> 0, dev |-> NoDevice, token |-> 0, attempt |-> 0]
NoScan == [job |-> 0, attempt |-> 0]

\* Rows and runners keep their shapes: the store's tables (JobStore), and each
\* worker's step and ClaimRegistration.
TypeOK ==
  /\ StoreTypeOK
  /\ pc \in [Workers -> PC]
  /\ wk \in [Workers -> Registration]
  /\ ep \in [Devices -> 0 .. MaxTokens]
  /\ scan \in [job : 0 .. MaxJobs, attempt : Nat]
  /\ up \in BOOLEAN
  /\ crashes \in 0 .. MaxCrashes

ProcInit ==
  /\ pc = [w \in Workers |-> "idle"]
  /\ wk = [w \in Workers |-> Unregistered]
  /\ ep = [d \in Devices |-> 0]
  /\ scan = NoScan
  /\ up = TRUE
  /\ crashes = 0

Init == StoreInit(Born) /\ ProcInit

Goto(w, p) == pc' = [pc EXCEPT ![w] = p]

\* The run is over for this worker: what it registered is dropped.
Leave(w, p) == Goto(w, p) /\ wk' = [wk EXCEPT ![w] = Unregistered]

\* _run_one_job's tail: a device-bound run goes on to advance the chain.
EndRun(w) ==
  IF job[wk[w].job].type = "provision" THEN Leave(w, "idle")
  ELSE Goto(w, "advance") /\ wk' = [wk EXCEPT ![w] = [Unregistered EXCEPT !.dev = wk[w].dev]]

\* lock_claim succeeds: the row is there and carries this run's token.
Holds(w) == wk[w].token # 0 /\ claim[wk[w].dev].token = wk[w].token

\* The claim row lock a sender keeps from lock_claim until the response is checkpointed.
Locked(d) == \E w \in Workers : pc[w] = "put" /\ wk[w].dev = d

Runs(w, types) == job[wk[w].job].type \in types

-----------------------------------------------------------------------------
(* Claiming a device and starting its head.                                *)

Discover(w) ==
  /\ up /\ pc[w] = "idle"
  /\ \E d \in Devices :
       /\ Queue(d) # {} /\ claim[d] = NoClaim
       /\ Goto(w, "found")
       /\ wk' = [wk EXCEPT ![w] = [Unregistered EXCEPT !.dev = d]]
  /\ UNCHANGED <<storeVars, ep, scan, up, crashes>>

\* acquire_claim commits; its acknowledgement may be lost, and then the loop
\* forgets a claim that is durably there.
AcquireClaim(w) ==
  /\ pc[w] = "found"
  /\ InsertClaim(wk[w].dev, 0)
  /\ \/ Goto(w, "claimed") /\ wk' = [wk EXCEPT ![w].token = nextToken]
     \/ Leave(w, "idle")
  /\ UNCHANGED <<job, lastJob, gen, lastGen, settleSeq, exe, live, wire, ep, scan, up, crashes>>

AcquireConflict(w) ==
  /\ pc[w] = "found"
  /\ claim[wk[w].dev] # NoClaim \/ live[wk[w].dev] # "live"
  /\ Leave(w, "idle")
  /\ UNCHANGED <<storeVars, ep, scan, up, crashes>>

\* The first admissible queued job in FIFO order: attempt, association and the
\* generations move in the one transaction.
StartHead(w) ==
  LET d == wk[w].dev
      heads == {j \in Queue(d) : Admissible(j)}
      j == Min(heads)
  IN
  /\ pc[w] = "claimed" /\ Holds(w)
  /\ heads # {} /\ job[j].attempt < MaxAttempts
  /\ job' = [job EXCEPT ![j] = Started(j)]
  /\ claim' = [claim EXCEPT ![d].job = j]
  /\ gen' = [gen EXCEPT ![d] = [n \in Gens |->
               IF gen[d][n].job = j /\ gen[d][n].status = "pending"
               THEN [gen[d][n] EXCEPT !.status = "running"] ELSE gen[d][n]]]
  /\ \/ /\ Goto(w, "run")
        /\ wk' = [wk EXCEPT ![w].job = j, ![w].attempt = job[j].attempt + 1]
     \/ Leave(w, "idle")
  /\ UNCHANGED <<nextToken, lastJob, lastGen, settleSeq, exe, live, wire, ep, scan, up, crashes>>

\* No head is admissible, or an admission holds the row lock of one.
NothingRunnable(w) ==
  /\ pc[w] = "claimed" /\ Holds(w)
  /\ Goto(w, "giveback")
  /\ UNCHANGED <<storeVars, wk, ep, scan, up, crashes>>

\* The transaction aborted, or the claim was revoked before it began: the loop
\* logs the exception and polls again, leaving whatever claim there is.
StartFails(w) ==
  /\ pc[w] = "claimed"
  /\ Leave(w, "idle")
  /\ UNCHANGED <<storeVars, ep, scan, up, crashes>>

\* release_claim: an aborted delete leaves the row to the reaper.
GiveBack(w) ==
  /\ pc[w] = "giveback"
  /\ claim' = claim \/ DeleteClaim(wk[w].dev, wk[w].token)
  /\ Leave(w, "idle")
  /\ UNCHANGED <<nextToken, job, lastJob, gen, lastGen, settleSeq, exe, live, wire, ep, scan, up, crashes>>

StartClaimless(w) ==
  LET heads == {j \in Queue(NoDevice) : job[j].type = "provision"}
      j == Min(heads)
  IN
  /\ up /\ pc[w] = "idle"
  /\ heads # {} /\ job[j].attempt < MaxAttempts
  /\ job' = [job EXCEPT ![j] = Started(j)]
  /\ \/ /\ Goto(w, "run")
        /\ wk' = [wk EXCEPT ![w] = [Unregistered EXCEPT !.job = j, !.attempt = job[j].attempt + 1]]
     \/ UNCHANGED <<pc, wk>>
  /\ UNCHANGED <<claim, nextToken, lastJob, gen, lastGen, settleSeq, exe, live, wire, ep, scan, up, crashes>>

-----------------------------------------------------------------------------
(* The runners that write no device: reads and provisions.                 *)

\* terminalize(succeeded) under the compare-and-set alone; only a provision
\* that registered a claim mid-run locks it first.  A refused write is rolled
\* back.  An unacknowledged COMMIT is answered by _mark_job_failed, an aborted
\* sequence allocation by leaving everything to recovery.
RunSucceed(w) ==
  LET r == wk[w]
      d == IF Runs(w, {"provision"}) THEN r.dev ELSE job[r.job].dev
  IN
  /\ pc[w] = "run" /\ Runs(w, {"read", "provision"})
  /\ Runs(w, {"provision"}) => r.token = 0 \/ Holds(w)
  /\ \/ /\ RunningAt(r.job, r.attempt)
        /\ Terminalize(r.job, "succeeded", "none", "settled", d)
        /\ \/ Goto(w, "release")
           \/ Goto(w, "markfail")
        /\ UNCHANGED wk
     \/ /\ UNCHANGED <<job, gen, settleSeq>>
        /\ \/ ~RunningAt(r.job, r.attempt) /\ Goto(w, "release") /\ UNCHANGED wk
           \/ RunningAt(r.job, r.attempt) /\ d # NoDevice /\ EndRun(w)
  /\ UNCHANGED <<claim, nextToken, lastJob, lastGen, exe, live, wire, ep, scan, up, crashes>>

\* The runner raised, or its own timeout expired, or the device stayed busy.
RunRaises(w) ==
  /\ pc[w] = "run" /\ Runs(w, {"read", "provision"})
  /\ Goto(w, "markfail")
  /\ UNCHANGED <<storeVars, wk, ep, scan, up, crashes>>

\* _mark_job_failed: under the claim lock when one is registered, and compare-
\* and-set.  A lost claim or a refused write is the end of the runner, an
\* aborted or unacknowledged one raises into the worker.
MarkJobFailed(w) ==
  LET r == wk[w] IN
  /\ pc[w] = "markfail"
  /\ \/ /\ r.token = 0 \/ Holds(w)
        /\ RunningAt(r.job, r.attempt)
        /\ \/ /\ Terminalize(r.job, "failed", UnpreparedEvidence(r.job), "failed", job[r.job].dev)
              /\ Goto(w, "release") \/ Goto(w, "failrel")
              /\ UNCHANGED wk
           \/ /\ UNCHANGED <<job, gen, settleSeq>>
              /\ (Goto(w, "failrel") /\ UNCHANGED wk) \/ (job[r.job].dev # NoDevice /\ EndRun(w))
     \/ /\ ~ ((r.token = 0 \/ Holds(w)) /\ RunningAt(r.job, r.attempt))
        /\ Goto(w, "release")
        /\ UNCHANGED <<job, gen, settleSeq, wk>>
  /\ UNCHANGED <<claim, nextToken, lastJob, lastGen, exe, live, wire, ep, scan, up, crashes>>

\* _insert_device_with_claim: the device, its claim and its counter together;
\* an in-doubt COMMIT is resolved by the token, so the answer is always known.
ProvisionInsert(w, d) ==
  /\ pc[w] = "run" /\ Runs(w, {"provision"}) /\ wk[w].token = 0
  /\ live[d] = "unborn" /\ nextToken <= MaxTokens
  /\ live' = [live EXCEPT ![d] = "live"]
  /\ claim' = [claim EXCEPT ![d] = [token |-> nextToken, job |-> wk[w].job]]
  /\ nextToken' = nextToken + 1
  /\ wk' = [wk EXCEPT ![w].dev = d, ![w].token = nextToken]
  /\ UNCHANGED <<job, lastJob, gen, lastGen, settleSeq, exe, wire, pc, ep, scan, up, crashes>>

\* acquire_claim_resolving on a device that exists: claimed, not yet registered.
ProvisionAcquire(w, d) ==
  /\ pc[w] = "run" /\ Runs(w, {"provision"}) /\ wk[w].token = 0
  /\ InsertClaim(d, wk[w].job)
  /\ Goto(w, "linking")
  /\ wk' = [wk EXCEPT ![w].dev = d, ![w].token = nextToken]
  /\ UNCHANGED <<job, lastJob, gen, lastGen, settleSeq, exe, live, wire, ep, scan, up, crashes>>

LinkExisting(w) ==
  /\ pc[w] = "linking" /\ Holds(w)
  /\ Goto(w, "run")
  /\ UNCHANGED <<storeVars, wk, ep, scan, up, crashes>>

\* The mapping is refused, or the run is cancelled in the middle of it: the
\* unregistered claim is released (an aborted delete leaves it) and the run
\* goes on claimless.
LinkRefused(w) ==
  /\ pc[w] = "linking"
  /\ claim' = claim \/ DeleteClaim(wk[w].dev, wk[w].token)
  /\ Goto(w, "markfail") \/ Goto(w, "cancel")
  /\ wk' = [wk EXCEPT ![w].dev = NoDevice, ![w].token = 0]
  /\ UNCHANGED <<nextToken, job, lastJob, gen, lastGen, settleSeq, exe, live, wire, ep, scan, up, crashes>>

-----------------------------------------------------------------------------
(* The runners that write a device: apply and removal.                     *)

\* An apply with nothing eligible, or a removal every key of which was
\* reasserted: the generations settle without a send.
FinalizeEmpty(w) ==
  LET r == wk[w] IN
  /\ pc[w] = "run" /\ Runs(w, DeviceWriting)
  /\ Holds(w) /\ RunningAt(r.job, r.attempt)
  /\ Terminalize(r.job, "succeeded",
                 IF Runs(w, {"apply"}) THEN "none" ELSE UnpreparedEvidence(r.job),
                 "settled", job[r.job].dev)
  /\ (Goto(w, "post") /\ UNCHANGED wk) \/ EndRun(w)
  /\ UNCHANGED <<claim, nextToken, lastJob, lastGen, exe, live, wire, ep, scan, up, crashes>>

\* settle_unsent: the document could not be encoded.  Attempt, rejection and
\* disposition are one transaction.
SettleUnsent(w) ==
  LET r == wk[w]
      n == Max(Carried(r.dev, r.job))
  IN
  /\ pc[w] = "run" /\ Runs(w, {"apply"})
  /\ Holds(w) /\ OwnsRun(r.job, r.attempt, r.token, n)
  /\ exe' = [exe EXCEPT ![r.job] =
               [attempt |-> r.attempt, gen |-> n, open |-> FALSE, response |-> "rejected"]]
  /\ Terminalize(r.job, "failed", "not_applied", "failed", r.dev)
  /\ (Goto(w, "post") /\ UNCHANGED wk) \/ EndRun(w)
  /\ UNCHANGED <<claim, nextToken, lastJob, lastGen, live, wire, ep, scan, up, crashes>>

\* prepare_send: the attempt is committed before anything is delivered.
Prepare(w) ==
  LET r == wk[w]
      n == Max(Carried(r.dev, r.job))
  IN
  /\ pc[w] = "run" /\ Runs(w, DeviceWriting)
  /\ Holds(w) /\ OwnsRun(r.job, r.attempt, r.token, n)
  /\ exe' = [exe EXCEPT ![r.job] =
               [attempt |-> r.attempt, gen |-> n, open |-> TRUE, response |-> "none"]]
  /\ Goto(w, "prepared") \/ Goto(w, "runfail")
  /\ UNCHANGED <<claim, nextToken, job, lastJob, gen, lastGen, settleSeq, live, wire, wk, ep, scan, up, crashes>>

\* Anything the runner raises that is neither a lost claim nor an unknown commit.
WriterRaises(w) ==
  /\ pc[w] \in {"run", "prepared", "verify"} /\ Runs(w, DeviceWriting)
  /\ Goto(w, "runfail")
  /\ UNCHANGED <<storeVars, wk, ep, scan, up, crashes>>

\* The collateral guard blocks, or the live instance cannot be certified: the
\* rejection is checkpointed and nothing is sent.
GuardBlocks(w) ==
  LET r == wk[w] IN
  /\ pc[w] = "prepared" /\ Holds(w)
  /\ OwnsRun(r.job, r.attempt, r.token, exe[r.job].gen)
  /\ exe' = [exe EXCEPT ![r.job].response = "rejected"]
  /\ Goto(w, "runfail")
  /\ UNCHANGED <<claim, nextToken, job, lastJob, gen, lastGen, settleSeq, live, wire, wk, ep, scan, up, crashes>>

\* lock_claim, then the PUT goes out under the lock.
SendPut(w) ==
  /\ pc[w] = "prepared" /\ Holds(w)
  /\ wire' = [wire EXCEPT ![wk[w].job] = "open"]
  /\ Goto(w, "put")
  /\ UNCHANGED <<claim, nextToken, job, lastJob, gen, lastGen, settleSeq, exe, live, wk, ep, scan, up, crashes>>

\* NSO acts on a PUT that is in flight whenever it pleases, also when nobody
\* waits for the answer any more.
NsoActs(j) ==
  /\ wire[j] = "open"
  /\ \E fate \in {"landed", "rejected"} : wire' = [wire EXCEPT ![j] = fate]
  /\ UNCHANGED <<claim, nextToken, job, lastJob, gen, lastGen, settleSeq, exe, live, procVars>>

\* classify_error: what a sender can read off its PUT.  A transport failure or
\* a bare 5xx says nothing about the fate of the write.
Answers(fate) ==
  CASE fate = "landed" -> {"acked", "unavailable"}
    [] fate = "rejected" -> {"rejected", "refused", "unavailable"}
    [] OTHER -> {"unavailable"}

\* The answer is classified and checkpointed, and the row lock ends with that
\* commit.  The checkpoint may abort, or commit unacknowledged.
PutResponse(w) ==
  LET j == wk[w].job IN
  /\ pc[w] = "put"
  /\ \/ \E a \in Answers(wire[j]) :
          /\ exe' = [exe EXCEPT ![j].response = a]
          /\ (a = "acked" /\ Goto(w, "verify")) \/ Goto(w, "runfail")
     \/ Goto(w, "runfail") /\ UNCHANGED exe
  /\ UNCHANGED <<claim, nextToken, job, lastJob, gen, lastGen, settleSeq, live, wire, wk, ep, scan, up, crashes>>

\* Verification and read-back done: the rows are certified (or not) and the job
\* ends in the transaction that closes the attempt.  A removal that fails its
\* proof certifies nothing.
SettleSuccess(w) ==
  LET r == wk[w] IN
  /\ pc[w] = "verify" /\ Holds(w)
  /\ OpenAttempt(r.job, r.attempt) /\ OwnsRun(r.job, r.attempt, r.token, exe[r.job].gen)
  /\ \E status \in Terminal, evidence \in {"in_sync", "unavailable"} :
       /\ Runs(w, {"removal"}) /\ status = "failed" => evidence = "unavailable"
       /\ Terminalize(r.job, status, evidence,
                      IF status = "succeeded" THEN "settled" ELSE "failed", r.dev)
  /\ exe' = [exe EXCEPT ![r.job].open = FALSE]
  /\ (Goto(w, "post") /\ UNCHANGED wk) \/ EndRun(w)
  /\ UNCHANGED <<claim, nextToken, lastJob, lastGen, live, wire, ep, scan, up, crashes>>

\* dispose_run, then, when nothing was prepared, the runner's own failed write.
\* An unacknowledged commit is never followed by a second terminal status when
\* an attempt was settled; without one it may raise into the worker.
RunFail(w) ==
  LET r == wk[w] IN
  /\ pc[w] = "runfail" /\ Holds(w)
  /\ \/ /\ IF OpenAttempt(r.job, r.attempt)
           THEN OwnsRun(r.job, r.attempt, r.token, exe[r.job].gen) /\ SettleAttempt(r.job)
           ELSE /\ RunningAt(r.job, r.attempt)
                /\ Terminalize(r.job, "failed", UnpreparedEvidence(r.job), "failed", job[r.job].dev)
                /\ UNCHANGED exe
        /\ \/ Goto(w, "post") /\ UNCHANGED wk
           \/ EndRun(w)
           \/ ~OpenAttempt(r.job, r.attempt) /\ Goto(w, "failrel") /\ UNCHANGED wk
     \/ /\ UNCHANGED <<job, gen, settleSeq, exe>>
        /\ EndRun(w) \/ (Goto(w, "failrel") /\ UNCHANGED wk)
  /\ UNCHANGED <<claim, nextToken, lastJob, lastGen, live, wire, ep, scan, up, crashes>>

\* lock_claim found no row: recovery owns the disposition and the task dies.
ClaimLost(w) ==
  /\ \/ pc[w] \in {"run", "prepared", "verify", "runfail"} /\ Runs(w, DeviceWriting)
     \/ pc[w] = "linking"
     \/ pc[w] = "run" /\ Runs(w, {"provision"}) /\ wk[w].token # 0
  /\ ~Holds(w)
  /\ Leave(w, "dead")
  /\ UNCHANGED <<storeVars, ep, scan, up, crashes>>

\* After its terminal commit an apply refreshes the mirror, and a removal that
\* succeeded queues a sync of its own; neither can fail the finished job.
Post(w) ==
  /\ pc[w] = "post"
  /\ Goto(w, "release")
  /\ \/ UNCHANGED <<job, lastJob>>
     \/ /\ Runs(w, {"removal"}) /\ job[wk[w].job].status = "succeeded"
        /\ live[wk[w].dev] = "live"
        /\ AddJob("read", wk[w].dev, FALSE)
  /\ UNCHANGED <<claim, nextToken, gen, lastGen, settleSeq, exe, live, wire, wk, ep, scan, up, crashes>>

-----------------------------------------------------------------------------
(* The end of a run.                                                       *)

\* The execution budget expires and the runner is cancelled and drained; the
\* session it held is rolled back, so a row lock ends here, but a PUT that is
\* out stays out.
BudgetExpires(w) ==
  /\ pc[w] \in (Executing \ {"linking"}) \cup {"post"}
  /\ Goto(w, "cancel")
  /\ UNCHANGED <<storeVars, wk, ep, scan, up, crashes>>

\* dispose_cancelled and mark_failed_and_release: disposition and release in one
\* transaction, or neither.  The claimless lane has only the status to write.
DisposeAndRelease(w, to) ==
  LET r == wk[w] IN
  /\ \/ /\ r.token # 0 /\ Holds(w)
        /\ DisposeRun(r.job, r.attempt, r.token, to)
        /\ DeleteClaim(r.dev, r.token)
     \/ /\ r.token = 0
        /\ TerminalizeRunning(r.job, r.attempt, to)
        /\ UNCHANGED <<claim, exe>>
     \/ UNCHANGED <<claim, job, gen, settleSeq, exe>>
  /\ EndRun(w)
  /\ UNCHANGED <<nextToken, lastJob, lastGen, live, wire, ep, scan, up, crashes>>

DisposeCancelled(w) ==
  pc[w] = "cancel" /\ DisposeAndRelease(w, Disposition(job[wk[w].job].type))

MarkFailedAndRelease(w) ==
  pc[w] = "failrel" /\ DisposeAndRelease(w, "failed")

\* _release: prepared evidence is settled first, then the claim goes.
Release(w) ==
  LET r == wk[w] IN
  /\ pc[w] = "release"
  /\ \/ /\ r.token # 0 /\ Holds(w)
        /\ IF OpenAttempt(r.job, r.attempt)
           THEN OwnsRun(r.job, r.attempt, r.token, exe[r.job].gen) /\ SettleAttempt(r.job)
           ELSE UNCHANGED <<job, gen, settleSeq, exe>>
        /\ DeleteClaim(r.dev, r.token)
     \/ UNCHANGED <<claim, job, gen, settleSeq, exe>>
  /\ EndRun(w)
  /\ UNCHANGED <<nextToken, lastJob, lastGen, live, wire, ep, scan, up, crashes>>

\* _advance_generations: its own transaction, given up after three failures.
AdvanceGenerations(w) ==
  /\ pc[w] = "advance"
  /\ \/ live[wk[w].dev] = "live" /\ AdvanceLocked(wk[w].dev, gen[wk[w].dev])
     \/ UNCHANGED <<job, lastJob, gen>>
  /\ Leave(w, "idle")
  /\ UNCHANGED <<claim, nextToken, lastGen, settleSeq, exe, live, wire, ep, scan, up, crashes>>

EnsureWorkers(w) ==
  /\ up /\ pc[w] = "dead"
  /\ Goto(w, "idle")
  /\ UNCHANGED <<storeVars, wk, ep, scan, up, crashes>>

-----------------------------------------------------------------------------
(* Recovery.                                                               *)

\* Mutant: only claims without a job are revoked.
MutRevokeStaleClaim(d) ==
  /\ claim[d] # NoClaim /\ ~Locked(d) /\ claim[d].job = 0
  /\ claim' = [claim EXCEPT ![d] = NoClaim]
  /\ UNCHANGED <<job, gen, settleSeq, exe, nextToken, lastJob, lastGen, live, wire, procVars>>

\* Mutant: the revocation does not wait for the row lock.
MutRevokeLocked(d) ==
  /\ claim[d] # NoClaim
  /\ IF claim[d].job = 0 THEN UNCHANGED <<job, gen, settleSeq, exe>>
     ELSE RecoverRun(claim[d].job, job[claim[d].job].attempt, claim[d].token)
  /\ claim' = [claim EXCEPT ![d] = NoClaim]
  /\ UNCHANGED <<nextToken, lastJob, lastGen, live, wire, procVars>>

\* revoke_stale_claims, one row: the run is re-dispositioned as it stands and
\* the claim deleted, in one transaction that waits for the row lock.
RevokeStaleClaim(d) ==
  /\ claim[d] # NoClaim /\ ~Locked(d)
  /\ IF claim[d].job = 0 THEN UNCHANGED <<job, gen, settleSeq, exe>>
     ELSE RecoverRun(claim[d].job, job[claim[d].job].attempt, claim[d].token)
  /\ claim' = [claim EXCEPT ![d] = NoClaim]
  /\ UNCHANGED <<nextToken, lastJob, lastGen, live, wire, procVars>>

\* Mutant: the scan does not look for a covering claim.
MutNeverCovered(j) == j = 0

Covered(j) == \E d \in Devices : claim[d].job = j

\* requeue_orphaned_jobs reads its candidates without a lock ...
OrphanScan(j) ==
  /\ scan = NoScan
  /\ job[j].status = "running" /\ ~Covered(j)
  /\ scan' = [job |-> j, attempt |-> job[j].attempt]
  /\ UNCHANGED <<storeVars, pc, wk, ep, up, crashes>>

\* ... and disposes of the attempt it read.
OrphanDispose ==
  /\ scan # NoScan
  /\ RecoverRun(scan.job, scan.attempt, 0)
  /\ scan' = NoScan
  /\ UNCHANGED <<claim, nextToken, lastJob, lastGen, live, wire, pc, wk, ep, up, crashes>>

Crash ==
  /\ "crash" \in Admits /\ up /\ crashes < MaxCrashes
  /\ pc' = [w \in Workers |-> "idle"]
  /\ wk' = [w \in Workers |-> Unregistered]
  /\ ep' = [d \in Devices |-> 0]
  /\ scan' = NoScan
  /\ up' = FALSE
  /\ crashes' = crashes + 1
  /\ UNCHANGED storeVars

\* recover_generations: a generation running under no running job has an
\* unknown outcome; then the head gets a carrier.  Errors are swallowed.
RecoverGenerations(d) ==
  LET carrier(n) == gen[d][n].job
      gens == [n \in Gens |->
        IF /\ gen[d][n].status = "running"
           /\ carrier(n) = 0 \/ job[carrier(n)].status # "running"
        THEN [gen[d][n] EXCEPT !.status = "outcome_unknown"] ELSE gen[d][n]]
  IN
  /\ ~up
  /\ gens # gen[d] \/ NeedsCarrier(gens)
  /\ AdvanceLocked(d, gens)
  /\ UNCHANGED <<claim, nextToken, lastGen, settleSeq, exe, live, wire, procVars>>

StartWorkers ==
  /\ ~up /\ up' = TRUE
  /\ UNCHANGED <<storeVars, pc, wk, ep, scan, crashes>>

-----------------------------------------------------------------------------
(* Admission and the other holders of a claim.                             *)

\* enqueue_job: a queued coalescible job of the type absorbs the request.
AdmitRead(d) ==
  /\ "read" \in Admits /\ up /\ live[d] = "live"
  /\ ~ \E j \in Queue(d) : job[j].type = "read" /\ job[j].coalescible
  /\ AddJob("read", d, TRUE)
  /\ UNCHANGED <<claim, nextToken, gen, lastGen, settleSeq, exe, live, wire, procVars>>

\* _store_generation: the next seq of the device, pending, of this carrier.
AddGeneration(d, kind, carrier) ==
  /\ lastGen[d] < MaxGens
  /\ lastGen' = [lastGen EXCEPT ![d] = @ + 1]
  /\ gen' = [gen EXCEPT ![d][lastGen[d] + 1] =
               [status |-> "pending", job |-> carrier, kind |-> kind]]

\* admit_apply_generation, ordinary: joins the queued winner when contiguous,
\* else waits unattached for the chain to advance.
AdmitApply(d) ==
  /\ "apply" \in Admits /\ up /\ live[d] = "live"
  /\ LET winners == {j \in Queue(d) : job[j].type = "apply" /\ job[j].coalescible} IN
     IF winners = {}
     THEN AddJob("apply", d, TRUE) /\ AddGeneration(d, "apply", lastJob + 1)
     ELSE LET carried == Carried(d, Min(winners)) IN
          /\ AddGeneration(d, "apply",
                IF carried = {} \/ Max(carried) = lastGen[d] THEN Min(winners) ELSE 0)
          /\ UNCHANGED <<job, lastJob>>
  /\ UNCHANGED <<claim, nextToken, settleSeq, exe, live, wire, procVars>>

\* A chain companion, or a removal: its carrier is its own.
AdmitDedicated(d, kind) ==
  /\ (kind = "apply" /\ "dedicated" \in Admits) \/ (kind = "removal" /\ "removal" \in Admits)
  /\ up /\ live[d] = "live"
  /\ AddJob(kind, d, FALSE)
  /\ AddGeneration(d, kind, lastJob + 1)
  /\ UNCHANGED <<claim, nextToken, settleSeq, exe, live, wire, procVars>>

\* One active provision per (instance, device name); one pair is modelled.
AdmitProvision ==
  /\ "provision" \in Admits /\ up
  /\ ~ \E j \in Jobs : job[j].type = "provision" /\ job[j].status \in {"queued", "running"}
  /\ AddJob("provision", NoDevice, FALSE)
  /\ UNCHANGED <<claim, nextToken, gen, lastGen, settleSeq, exe, live, wire, procVars>>

BlockedHead(d) ==
  /\ Uncrossed(gen[d]) # {}
  /\ gen[d][Min(Uncrossed(gen[d]))].status \in Blocked

RetryGeneration(d) ==
  LET h == Min(Uncrossed(gen[d])) IN
  /\ "retry" \in Admits /\ up /\ live[d] = "live"
  /\ BlockedHead(d)
  /\ AddJob(gen[d][h].kind, d, FALSE)
  /\ gen' = [gen EXCEPT ![d][h].status = "pending", ![d][h].job = lastJob + 1]
  /\ UNCHANGED <<claim, nextToken, lastGen, settleSeq, exe, live, wire, procVars>>

\* Abandon the head, and advance the chain in the same transaction.
ReconcileGeneration(d) ==
  LET h == Min(Uncrossed(gen[d])) IN
  /\ "retry" \in Admits /\ up /\ live[d] = "live"
  /\ BlockedHead(d)
  /\ AdvanceLocked(d, [gen[d] EXCEPT ![h].status = "abandoned"])
  /\ UNCHANGED <<claim, nextToken, lastGen, settleSeq, exe, live, wire, procVars>>

\* held_claim: intent endpoints, the failover tick, the sweeper and teardown.
EndpointAcquire(d) ==
  /\ "endpoint" \in Admits /\ up /\ ep[d] = 0
  /\ InsertClaim(d, 0)
  /\ ep' = [ep EXCEPT ![d] = nextToken]
  /\ UNCHANGED <<job, lastJob, gen, lastGen, settleSeq, exe, live, wire, pc, wk, scan, up, crashes>>

EndpointRelease(d) ==
  /\ ep[d] # 0
  /\ claim' = claim \/ DeleteClaim(d, ep[d])
  /\ ep' = [ep EXCEPT ![d] = 0]
  /\ UNCHANGED <<nextToken, job, lastJob, gen, lastGen, settleSeq, exe, live, wire, pc, wk, scan, up, crashes>>

\* offboard_device: every job that is not terminal fails, all are detached, and
\* the device row takes its claim, generations, attempts and counters with it.
Offboard(d) ==
  /\ "offboard" \in Admits /\ ep[d] # 0 /\ claim[d].token = ep[d]
  /\ job' = [j \in Jobs |->
       IF job[j].dev # d THEN job[j]
       ELSE [job[j] EXCEPT !.dev = NoDevice,
               !.status = IF job[j].status \in Terminal THEN job[j].status ELSE "failed"]]
  /\ exe' = [j \in Jobs |-> IF job[j].dev = d THEN NoExecution ELSE exe[j]]
  /\ gen' = [gen EXCEPT ![d] = [n \in Gens |-> NoGeneration]]
  /\ lastGen' = [lastGen EXCEPT ![d] = 0]
  /\ claim' = [claim EXCEPT ![d] = NoClaim]
  /\ live' = [live EXCEPT ![d] = "gone"]
  /\ ep' = [ep EXCEPT ![d] = 0]
  /\ UNCHANGED <<nextToken, lastJob, settleSeq, wire, pc, wk, scan, up, crashes>>

-----------------------------------------------------------------------------
WorkerStep(w) ==
  \/ Discover(w) \/ AcquireClaim(w) \/ AcquireConflict(w)
  \/ StartHead(w) \/ NothingRunnable(w) \/ StartFails(w) \/ GiveBack(w) \/ StartClaimless(w)
  \/ RunSucceed(w) \/ RunRaises(w) \/ MarkJobFailed(w)
  \/ \E d \in Devices : ProvisionInsert(w, d) \/ ProvisionAcquire(w, d)
  \/ LinkExisting(w) \/ LinkRefused(w)
  \/ FinalizeEmpty(w) \/ SettleUnsent(w) \/ Prepare(w) \/ WriterRaises(w)
  \/ GuardBlocks(w) \/ SendPut(w) \/ PutResponse(w) \/ SettleSuccess(w) \/ RunFail(w)
  \/ ClaimLost(w) \/ Post(w)
  \/ BudgetExpires(w) \/ DisposeCancelled(w) \/ MarkFailedAndRelease(w) \/ Release(w)
  \/ AdvanceGenerations(w) \/ EnsureWorkers(w)

Recovery ==
  \/ \E d \in Devices : RevokeStaleClaim(d) \/ RecoverGenerations(d)
  \/ \E j \in Jobs : OrphanScan(j)
  \/ OrphanDispose \/ Crash \/ StartWorkers

Outside ==
  \/ \E j \in Jobs : NsoActs(j)
  \/ AdmitProvision
  \/ \E d \in Devices :
       \/ AdmitRead(d) \/ AdmitApply(d) \/ \E kind \in DeviceWriting : AdmitDedicated(d, kind)
       \/ RetryGeneration(d) \/ ReconcileGeneration(d)
       \/ EndpointAcquire(d) \/ EndpointRelease(d) \/ Offboard(d)

Next == (\E w \in Workers : WorkerStep(w)) \/ Recovery \/ Outside

Spec == Init /\ [][Next]_vars

-----------------------------------------------------------------------------
(* Fairness.                                                               *)

\* Nobody heartbeats the claim any more: its holder is gone or gave it up.
Abandoned(d) ==
  /\ claim[d] # NoClaim
  /\ ep[d] # claim[d].token
  /\ \A w \in Workers : wk[w].token # claim[d].token

\* Nobody runs the job at its present attempt.
Unattended(j) ==
  \A w \in Workers : ~(wk[w].job = j /\ wk[w].attempt = job[j].attempt)

ReapAbandoned(d) == Abandoned(d) /\ RevokeStaleClaim(d)
ReapUnattended(j) == Unattended(j) /\ OrphanScan(j)

\* The event loop runs every task, the execution budget bounds every run, the
\* reap tick recurs, `finally` releases endpoints and the supervisor restarts.
Fairness ==
  /\ \A w \in Workers : WF_vars(WorkerStep(w))
  /\ \A d \in Devices : WF_vars(ReapAbandoned(d)) /\ WF_vars(EndpointRelease(d))
  /\ \A j \in Jobs : SF_vars(ReapUnattended(j))
  /\ WF_vars(OrphanDispose) /\ WF_vars(StartWorkers)

FairSpec == Spec /\ Fairness

-----------------------------------------------------------------------------
(* Safety.                                                                 *)

\* A device is written only under the current claim, by the run the claim names,
\* at the job's present attempt and with the attempt recorded beforehand; hence
\* by one worker at a time (lock_claim held across guarded_device_write).
FencedDeviceWrite ==
  /\ \A w \in Workers : pc[w] = "put" =>
       LET r == wk[w] IN
       /\ claim[r.dev] = [token |-> r.token, job |-> r.job]
       /\ RunningAt(r.job, r.attempt) /\ job[r.job].dev = r.dev
       /\ OpenAttempt(r.job, r.attempt)
  /\ \A w, v \in Workers : w # v /\ pc[w] = "put" /\ pc[v] = "put" => wk[w].dev # wk[v].dev

\* What is being written is in order: the generations of the sender are running
\* and every generation before them is settled or abandoned (job_admissible,
\* although generations fail, are retried, reconciled and recovered meanwhile).
InOrderDeviceWrite ==
  \A w \in Workers : pc[w] = "put" =>
    LET d == wk[w].dev
        mine == Carried(d, wk[w].job)
    IN
    /\ mine # {}
    /\ \A n \in Gens :
         IF n \in mine THEN gen[d][n].status = "running"
         ELSE n < exe[wk[w].job].gen => gen[d][n].status \in Crossable

\* While a run that has not written its own end holds a valid token, the job is
\* running at that run's attempt: recovery never re-dispositions behind a valid
\* token (the single recovery clock of requeue_orphaned_jobs).  A provision
\* registers mid-run and is covered by the compare-and-set instead.
TokenImpliesRun ==
  \A w \in Workers :
    pc[w] \in {"run", "prepared", "put", "verify"} /\ Runs(w, {"read", "apply", "removal"}) /\ Holds(w)
      => RunningAt(wk[w].job, wk[w].attempt) /\ claim[wk[w].dev].job = wk[w].job

\* A device-bound job that is running is named by the claim of its device, so
\* the reaper, which scans claims only, can always see it.
NoStrandedRun ==
  \A j \in Jobs : job[j].status = "running" /\ job[j].type # "provision" =>
    job[j].dev # NoDevice /\ claim[job[j].dev].job = j

\* A job that prepared a send is never run again, and what it prepared is sent
\* at most once: no recovery path re-pushes a document that may have landed.
NoBlindResend ==
  /\ \A j \in Jobs : exe[j].attempt # 0 => exe[j].attempt = job[j].attempt /\ job[j].status # "queued"
  /\ \A w \in Workers : pc[w] = "prepared" /\ Holds(w) => wire[wk[w].job] = "none"

\* What a finished job says of the device is true and stays true, however late
\* the PUT is acted upon: not_applied only when nothing landed or ever will,
\* in_sync only when it did.
HonestEvidence ==
  \A j \in Jobs :
    /\ job[j].evidence = "not_applied" => wire[j] \in {"none", "rejected"}
    /\ job[j].evidence = "in_sync" => wire[j] = "landed"

\* The generations of a job follow its status: running exactly while it runs,
\* so advancement never meets a pending head under a running carrier
\* (GenerationCarrierCorruption) and recovery no running one without.
GenerationsFollowCarrier ==
  \A d \in Devices, n \in Gens :
    LET g == gen[d][n] IN
    /\ g.status = "running" => g.job # 0 /\ job[g.job].status = "running"
    /\ g.job # 0 /\ job[g.job].status = "running" => g.status = "running"
    /\ g.job # 0 /\ job[g.job].status = "queued" => g.status = "pending"

-----------------------------------------------------------------------------
(* Action properties.                                                      *)

\* A terminal job is final: status, evidence and sequence are never rewritten,
\* by a late runner, a zombie, or recovery.
TerminalKept ==
  \A j \in Jobs : job[j].status \in Terminal =>
    /\ job'[j].status = job[j].status
    /\ job'[j].evidence = job[j].evidence
    /\ job'[j].seq = job[j].seq

\* No step rewrites a terminal job (terminalize and its status-guarded UPDATE).
TerminalIsFinal == [][TerminalKept]_vars

\* A worker whose attempt was superseded changes neither the job nor its
\* execution attempt, and one that lost its token deletes nobody's claim.
ZombieHarmless ==
  [][\A w \in Workers :
       pc'[w] # pc[w] /\ wk[w].job # 0 /\ up' = up =>
         /\ job[wk[w].job].attempt # wk[w].attempt =>
              job'[wk[w].job] = job[wk[w].job] /\ exe'[wk[w].job] = exe[wk[w].job]
         /\ ~Holds(w) => \A d \in Devices : claim[d] # NoClaim => claim'[d] = claim[d]]_vars

-----------------------------------------------------------------------------
(* Liveness.                                                               *)

\* Every run ends: whatever is lost, revoked or crashes, a running job becomes
\* terminal or queued again.
RunEnds == \A j \in Jobs : job[j].status = "running" ~> job[j].status # "running"

\* Every claim is given back: no lost acknowledgement, aborted release or crash
\* leaves a device claimed for good.
ClaimFreed ==
  \A d \in Devices, t \in 1 .. MaxTokens : claim[d].token = t ~> claim[d].token # t
=============================================================================
