----------------------------- MODULE ReadMirror -----------------------------
(***************************************************************************)
(* How what NSO reads of one device becomes the rows its API serves: the   *)
(* refresh engine (core/refresh_engine.py), the outcome store              *)
(* (store/outcome_store.py), the projected sync and the drift check        *)
(* (core/importer.py), cancellation (core/cancelsafe.py) and the change of *)
(* the device's source (core/onboarding.py, rekey_device).                 *)
(*                                                                         *)
(* A refresh holds the in-process lock of its families from the read to    *)
(* the commit; a publication holds the family's advisory lock in the       *)
(* database, its fence, from the check to the commit.  A read is known by  *)
(* its number and by the source generation it was made of; every row says  *)
(* which read wrote it.                                                    *)
(***************************************************************************)
EXTENDS Naturals, Sequences, SequencesExt, FiniteSets, FiniteSetsExt

CONSTANTS
  Families,    \* the read families
  Attrs,       \* interface_attributes, which the importer reconciles itself
  LockOrder,   \* the families in the order of their names
  Readers,     \* tasks that refresh: pollers and job workers
  Plans,       \* the refreshes they are asked for
  Served,      \* bound: what the export serves for a section, by the number of the read
  Bodies,      \* bound: the entries an ok section lists
  MaxRuns,     \* bound: refreshes
  MaxEpoch,    \* bound: changes of the source
  MaxFaults    \* bound: database failures and abandoned spans

ASSUME FamiliesAssumption ==
  /\ ToSet(LockOrder) = Families /\ Len(LockOrder) = Cardinality(Families)
  /\ \A plan \in Plans : plan.fams # <<>> /\ ToSet(plan.fams) \subseteq Families

ASSUME MirrorBounds == MaxRuns \in Nat /\ MaxEpoch \in Nat /\ MaxFaults \in Nat

VARIABLES
  epoch,      \* device.source_epoch
  ned,        \* the generation device.ned_id was read from, 0 is unset
  status,     \* device.last_sync_status, with the read and generation it is of
  attempts,   \* refresh_outcome, by id
  pointer,    \* refresh_outcome_pointer
  rows,       \* the mirror tables of each family
  observed,   \* read_observation, the revision there is
  fence,      \* the advisory locks that are held
  lock,       \* the in-process family locks
  pc, run,    \* the refresh each task is in
  late,       \* an abandoned span that still runs
  rekey,      \* how many fences the rekey request holds
  reads, runs, faults

storeVars == <<attempts, pointer, rows, observed>>
deviceVars == <<epoch, ned, status>>
taskVars == <<pc, run, lock>>
vars == <<deviceVars, storeVars, fence, taskVars, late, rekey, reads, runs, faults>>

Present == {"fresh", "stale", "uncovered"}
NonFailing == {"not_authoritative", "unsupported", "not_covered"}
Unavailable == NonFailing \cup {"not_ready", "export_down", "read_error"}
Outcome == Present \cup Unavailable
NoRows == <<>>
NoPublication == [attempt |-> 0, revision |-> 0]
NoStatus == [result |-> "none", src |-> 0, at |-> 0]
NoSpan == [place |-> "none", att |-> 0]
Nobody == "nobody"
Idle == [kind |-> "none", fams |-> <<>>, todo |-> <<>>, snap |-> 0, start |-> 0, ned |-> 0,
         got |-> <<>>, body |-> {}, at |-> 0, src |-> 0, att |-> 0,
         failed |-> {}, aborted |-> FALSE, cancelled |-> FALSE]

Init ==
  /\ epoch = 1 /\ ned = 0 /\ status = NoStatus
  /\ attempts = <<>>
  /\ pointer = [f \in Families |-> NoPublication]
  /\ rows = [f \in Families |-> NoRows]
  /\ observed = [f \in Families |-> 0]
  /\ fence = {}
  /\ lock = [f \in Families |-> Nobody]
  /\ pc = [p \in Readers |-> "idle"] /\ run = [p \in Readers |-> Idle]
  /\ late = [p \in Readers |-> NoSpan]
  /\ rekey = 0 /\ reads = 0 /\ runs = 0 /\ faults = 0

-----------------------------------------------------------------------------
(* Classification of what is served for a section.  "partial" is an ok     *)
(* section whose reader does not cover a collection that the family needs. *)

\* classify_envelope_section
Classify(section) ==
  CASE section = "absent" -> "not_authoritative"
    [] section = "ok" -> "fresh"
    [] section = "partial" -> "uncovered"
    [] section = "stale" -> "stale"
    [] section = "unsupported" -> "unsupported"
    [] section = "not-ready" -> "not_ready"
    [] OTHER -> "read_error"

\* The action's section is terminal, and the action may fail or omit it.
EscalateNotReady(section) ==
  IF section \in {"down", "fails", "absent", "not-ready"} THEN "read_error" ELSE Classify(section)

\* One section GET, and one action when it is not ready.
FamilyRead(section, healed) ==
  IF section = "down" THEN "export_down"
  ELSE IF Classify(section) = "not_ready" THEN EscalateNotReady(healed)
  ELSE Classify(section)

\* _split_sections: in a served document a missing section is malformed.
SplitSection(section) == IF section \in {"absent", "fails", "down"} THEN "read_error" ELSE Classify(section)

\* One document GET for all families and one action for those not ready, which
\* fails for all of them or answers each; the atomic read is one action.
FetchProjection(served) ==
  {[f \in Families |-> Classify("absent")], [f \in Families |-> "export_down"],
   [f \in Families |-> "read_error"]}
  \cup {[f \in Families |->
           IF doc[f] = "not-ready" THEN (IF heals THEN SplitSection(healed[f]) ELSE "read_error")
           ELSE SplitSection(doc[f])] :
          doc \in [Families -> served], healed \in [Families -> served], heals \in BOOLEAN}

\* admit_coverage
AdmitCoverage(outcome) == IF outcome = "uncovered" THEN "not_covered" ELSE outcome

-----------------------------------------------------------------------------
(* The outcome store.                                                      *)

\* refresh_outcome of the read that run p holds, for family f.
Attempt(p, f) ==
  LET out == AdmitCoverage(run[p].got[f])
  IN [fam |-> f, epoch |-> run[p].snap, out |-> out, by |-> run[p].kind, at |-> run[p].at,
      src |-> run[p].src, body |-> IF out \in Present THEN run[p].body ELSE {}, result |-> "open"]

\* publication_is_current, under the fence.
Superseded(as, a) == epoch # as[a].epoch \/ pointer[as[a].fam].attempt > a

\* Mutant: the pointer moves only with a payload, and hides a newest failure.
AdvanceOnPayload(f, a, publishes) ==
  IF publishes THEN [attempt |-> a, revision |-> a] ELSE pointer[f]

\* _pointer_advance_stmt
Advance(f, a, publishes) ==
  [attempt |-> a, revision |-> IF publishes THEN a ELSE pointer[f].revision]

Publishes(result) == result = "replaced"

\* Mutant: the drift check creates the rows it has no interface for, as a sync does.
MaterializeAll(att) ==
  [i \in DOMAIN rows[att.fam] \cup att.body |->
     IF i \in att.body THEN [at |-> att.at, src |-> att.src] ELSE rows[att.fam][i]]

\* The rows the materializer of the attempt leaves.  An engine family's are
\* replaced; a sync creates and updates the interfaces that were read and deletes
\* none, and a drift check only updates those that are there.
Materialize(att) ==
  LET before == rows[att.fam]
      named == CASE att.fam # Attrs -> att.body
                 [] att.by = "drift" -> DOMAIN before
                 [] OTHER -> DOMAIN before \cup att.body
  IN [i \in named |-> IF i \in att.body THEN [at |-> att.at, src |-> att.src] ELSE before[i]]

\* stage_result with the rows of the materializer, committed: the terminal
\* outcome, the pointer, the rows and the observation of attempt a.
StageResult(as, a, result) ==
  LET f == as[a].fam
      selected == ~Superseded(as, a)
      published == selected /\ Publishes(result)
  IN /\ attempts' = [as EXCEPT ![a].result = IF selected THEN result ELSE "superseded"]
     /\ pointer' = IF selected THEN [pointer EXCEPT ![f] = Advance(f, a, Publishes(result))] ELSE pointer
     /\ rows' = IF published THEN [rows EXCEPT ![f] = Materialize(as[a])] ELSE rows
     /\ observed' = IF published THEN [observed EXCEPT ![f] = a] ELSE observed

-----------------------------------------------------------------------------
(* A refresh: of one family (run_family_refresh), of all of them from one  *)
(* projection (sync_device), or the drift check of the attributes.         *)

Head1(p) == Head(run[p].todo)
Result(p) == AdmitCoverage(run[p].got[Head1(p)])

Leave(p) ==
  /\ pc' = [pc EXCEPT ![p] = "idle"]
  /\ run' = [run EXCEPT ![p] = Idle]
  /\ lock' = [f \in Families |-> IF lock[f] = p THEN Nobody ELSE lock[f]]

Goto(p, place, r) ==
  /\ pc' = [pc EXCEPT ![p] = place]
  /\ run' = [run EXCEPT ![p] = r]
  /\ UNCHANGED lock

\* The device row is loaded: its source and NED as they are now.
Begin(p, plan) ==
  /\ pc[p] = "idle" /\ runs < MaxRuns
  /\ runs' = runs + 1
  /\ Goto(p, IF plan.kind = "sweep" THEN "ned" ELSE "lock",
          [Idle EXCEPT !.kind = plan.kind, !.fams = plan.fams, !.todo = plan.fams,
                       !.snap = epoch, !.start = epoch, !.ned = ned])
  /\ UNCHANGED <<deviceVars, storeVars, fence, late, rekey, reads, faults>>

\* _resolve_ned_id: NSO is asked for the NED by the name that was loaded; an
\* empty or failed answer keeps the one there is.
ResolveNed(p) ==
  /\ pc[p] = "ned"
  /\ \/ /\ ned' = IF run[p].ned # run[p].snap THEN run[p].snap ELSE ned
        /\ Goto(p, "lock", run[p]) /\ UNCHANGED status
     \/ /\ run[p].ned # 0
        /\ Goto(p, "lock", run[p]) /\ UNCHANGED <<ned, status>>
     \/ /\ run[p].ned = 0
        /\ status' = [result |-> "failed", src |-> run[p].snap, at |-> 0]
        /\ Leave(p) /\ UNCHANGED ned
  /\ UNCHANGED <<epoch, storeVars, fence, late, rekey, reads, runs, faults>>

\* _projection_layout: the plan's families in the order of their names.
Wanted(p) == SelectSeq(LockOrder, LAMBDA f : f \in ToSet(run[p].fams))

\* Mutant: a refresh does not wait for the one that holds the family.
AcquireLockAtOnce(p) ==
  LET held == Cardinality({f \in Families : lock[f] = p})
      next == Wanted(p)[held + 1]
  IN /\ pc[p] = "lock"
     /\ lock' = [lock EXCEPT ![next] = p]
     /\ pc' = [pc EXCEPT ![p] = IF held + 1 = Len(Wanted(p)) THEN "fetch" ELSE "lock"]
     /\ UNCHANGED <<deviceVars, storeVars, run, fence, late, rekey, reads, runs, faults>>

\* The in-process locks of the batch, one after the other in that order.
AcquireLock(p) ==
  LET held == Cardinality({f \in Families : lock[f] = p})
      next == Wanted(p)[held + 1]
  IN /\ pc[p] = "lock" /\ lock[next] = Nobody
     /\ lock' = [lock EXCEPT ![next] = p]
     /\ pc' = [pc EXCEPT ![p] = IF held + 1 = Len(Wanted(p)) THEN "fetch" ELSE "lock"]
     /\ UNCHANGED <<deviceVars, storeVars, run, fence, late, rekey, reads, runs, faults>>

\* The read, with every lock of the batch held.
Fetch(p) ==
  /\ pc[p] = "fetch"
  /\ reads' = reads + 1
  /\ \E got \in IF run[p].kind = "sweep" THEN FetchProjection(Served[reads + 1])
                ELSE {[f \in Families |-> FamilyRead(a, b)] : a, b \in Served[reads + 1]},
        body \in Bodies :
       Goto(p, "record",
            [run[p] EXCEPT !.got = [f \in ToSet(run[p].fams) |-> got[f]],
                           !.body = IF \E f \in ToSet(run[p].fams) : got[f] \in Present THEN body ELSE {},
                           !.at = reads + 1, !.src = run[p].snap])
  /\ UNCHANGED <<deviceVars, storeVars, fence, late, rekey, runs, faults>>

\* On with the next family, or out: a sweep publishes its status first.
After(p, r) ==
  IF r.cancelled \/ (Len(r.todo) = 1 /\ r.kind # "sweep") THEN Leave(p)
  ELSE Goto(p, IF Len(r.todo) = 1 THEN "meta" ELSE "record",
            [r EXCEPT !.todo = Tail(@), !.att = 0])

Degrades(f, out) == out \notin Present /\ (f = Attrs \/ out \notin NonFailing)

\* The run goes on without the family if it is one surface of a sweep; the
\* attributes of a sweep, a poll and a drift check raise.
Raises(p) == run[p].kind # "sweep" \/ Head1(p) = Attrs

\* Phase 1: the classified read, flushed on the run's session.
RecordRead(p) ==
  /\ pc[p] = "record" /\ ~run[p].aborted
  /\ attempts' = Append(attempts, Attempt(p, Head1(p)))
  /\ Goto(p, "fence", [run[p] EXCEPT !.att = Len(attempts) + 1])
  /\ UNCHANGED <<deviceVars, pointer, rows, observed, fence, late, rekey, reads, runs, faults>>

\* _recover_session: the transaction is rolled back and the device reloaded.
Recover(r) == [r EXCEPT !.aborted = FALSE, !.snap = epoch]

\* The exception ends the run; the importer first records it for the attributes.
Raise(p) ==
  IF run[p].kind = "sweep" THEN Goto(p, "cleanup", run[p]) ELSE Leave(p)

\* A fresh attempt with the read's classification and epoch, terminal as an error.
RecordError(att) ==
  StageResult(Append(attempts, [att EXCEPT !.result = "open"]), Len(attempts) + 1, "error")

Failing(p, r) ==
  [r EXCEPT !.failed = IF Result(p) \in Present \/ Degrades(Head1(p), Result(p))
                       THEN @ \cup {Head1(p)} ELSE @]

\* The flush of phase 1 fails, as it does in a transaction that is aborted: the
\* session is recovered and a present read is not published.
RecordFails(p) ==
  LET raises == Raises(p) /\ (Result(p) \in Present \/ run[p].kind = "drift") IN
  /\ pc[p] = "record"
  /\ run[p].aborted \/ faults < MaxFaults
  /\ faults' = IF run[p].aborted THEN faults ELSE faults + 1
  /\ IF raises THEN Raise(p) ELSE After(p, Recover(Failing(p, run[p])))
  /\ UNCHANGED <<deviceVars, storeVars, fence, late, rekey, reads, runs>>

AcquireFence(p) ==
  /\ pc[p] = "fence" /\ Head1(p) \notin fence
  /\ fence' = fence \cup {Head1(p)}
  /\ Goto(p, "span", run[p])
  /\ UNCHANGED <<deviceVars, storeVars, late, rekey, reads, runs, faults>>

\* The server's lock timeout.  _record_result recovers the session of a kept
\* read; the transaction of a publication is aborted and nothing recovers it
\* before the next family's phase 1.
FenceTimeout(p) ==
  LET failed == Failing(p, run[p]) IN
  /\ pc[p] = "fence" /\ Head1(p) \in fence /\ faults < MaxFaults
  /\ faults' = faults + 1
  /\ IF Raises(p) THEN Raise(p)
     ELSE After(p, IF Result(p) \in Present THEN [failed EXCEPT !.aborted = TRUE] ELSE Recover(failed))
  /\ UNCHANGED <<deviceVars, storeVars, fence, late, rekey, reads, runs>>

\* The sync keeps its attributes: the read is committed first and its result
\* recorded in a transaction of its own.
KeepsAttrs(p) ==
  /\ run[p].kind = "sweep" /\ Head1(p) = Attrs /\ Result(p) \notin Present
  /\ ~Superseded(attempts, run[p].att)

\* The publication: checked, materialised and committed under the fence.
Publish(p) ==
  LET f == Head1(p)
      degraded == Degrades(f, Result(p)) /\ ~Superseded(attempts, run[p].att)
  IN /\ pc[p] = "span" /\ ~KeepsAttrs(p)
     /\ StageResult(attempts, run[p].att, IF Result(p) \in Present THEN "replaced" ELSE "kept")
     /\ fence' = fence \ {f}
     /\ After(p, [run[p] EXCEPT !.failed = IF degraded THEN @ \cup {f} ELSE @])
     /\ UNCHANGED <<deviceVars, late, rekey, reads, runs, faults>>

\* _success_span of a kept read: the commit, which releases the fence, and then
\* _record_attrs_result; the sync is degraded whether or not that succeeds.
CommitAttrsKept(p) ==
  /\ pc[p] = "span" /\ KeepsAttrs(p)
  /\ fence' = fence \ {Attrs}
  /\ Goto(p, "result", [run[p] EXCEPT !.failed = @ \cup {Attrs}])
  /\ UNCHANGED <<deviceVars, storeVars, late, rekey, reads, runs, faults>>
RecordAttrsResult(p) ==
  /\ pc[p] = "result" /\ Attrs \notin fence
  /\ StageResult(attempts, run[p].att, "kept")
  /\ After(p, run[p])
  /\ UNCHANGED <<deviceVars, fence, late, rekey, reads, runs, faults>>
RecordAttrsResultFails(p) ==
  /\ pc[p] = "result" /\ faults < MaxFaults
  /\ faults' = faults + 1
  /\ After(p, Recover(run[p]))
  /\ UNCHANGED <<deviceVars, storeVars, fence, late, rekey, reads, runs>>

\* The materializer raises: its savepoint is rolled back, the attempt is an error.
MaterializeFails(p) ==
  /\ pc[p] = "span" /\ Result(p) \in Present /\ ~Superseded(attempts, run[p].att)
  /\ IF run[p].kind = "drift" THEN UNCHANGED storeVars ELSE StageResult(attempts, run[p].att, "error")
  /\ fence' = fence \ {Head1(p)}
  /\ IF Raises(p) THEN Leave(p) ELSE After(p, Failing(p, run[p]))
  /\ UNCHANGED <<deviceVars, late, rekey, reads, runs, faults>>

\* The transaction fails as a whole and phase 1 with it.  The session is recovered
\* and, for a publication, the engine records the error if it can; a superseded
\* one has no such handler and leaves the transaction as it is.
CommitFails(p) ==
  LET a == run[p].att
      publishing == Result(p) \in Present /\ Head1(p) # Attrs
      failed == Failing(p, run[p])
  IN /\ pc[p] = "span" /\ faults < MaxFaults
     /\ faults' = faults + 1
     /\ \/ publishing /\ ~Superseded(attempts, a) /\ RecordError(attempts[a])
        \/ UNCHANGED storeVars
     /\ fence' = fence \ {Head1(p)}
     /\ IF Raises(p) THEN Raise(p)
        ELSE After(p, IF publishing /\ Superseded(attempts, a) THEN [failed EXCEPT !.aborted = TRUE]
                      ELSE Recover(failed))
     /\ UNCHANGED <<deviceVars, late, rekey, reads, runs>>

\* _attrs_failure_cleanup: the error of a lost transaction as a fresh attempt,
\* or nothing when that fails too.
AttrsFailureCleanup(p) ==
  /\ pc[p] = "cleanup"
  /\ \/ Attrs \notin fence /\ RecordError(Attempt(p, Attrs))
     \/ UNCHANGED storeVars
  /\ Leave(p)
  /\ UNCHANGED <<deviceVars, fence, late, rekey, reads, runs, faults>>

\* Mutant: the status is written whatever source the device has.
StatusUnguarded(p) == TRUE

\* The generation the sync started from is still the device's.
StatusCurrent(p) == epoch = run[p].start

\* _publish_sync_metadata, before the locks are released; the sync-from action
\* may have failed too.  In an aborted transaction the update raises.
PublishSyncMetadata(p) ==
  /\ pc[p] = "meta"
  /\ \E synced \in BOOLEAN :
       status' = IF StatusCurrent(p) /\ ~run[p].aborted
                 THEN [result |-> IF run[p].failed = {} /\ synced THEN "succeeded" ELSE "partial",
                       src |-> run[p].src, at |-> run[p].at]
                 ELSE status
  /\ Leave(p)
  /\ UNCHANGED <<epoch, ned, storeVars, fence, late, rekey, reads, runs, faults>>

-----------------------------------------------------------------------------
(* Cancellation, restart, and the change of the source.                    *)

\* await_uncancellable: a publication is absorbed to its end; of the attributes
\* only the last commit is one.
Absorbed(p) ==
  \/ pc[p] = "result"
  \/ /\ pc[p] = "span" \/ (pc[p] = "fence" /\ Head1(p) # Attrs)
     /\ Result(p) \in Present /\ run[p].kind # "drift"

\* Anywhere else the run ends and its open transaction with it; the importer
\* records that its attributes were not reconciled.
Cancel(p) ==
  /\ pc[p] \notin {"idle", "cleanup"} /\ ~run[p].cancelled
  /\ \/ /\ Absorbed(p)
        /\ Goto(p, pc[p], [run[p] EXCEPT !.cancelled = TRUE]) /\ UNCHANGED fence
     \/ /\ Absorbed(p) => pc[p] = "span" /\ Head1(p) = Attrs
        /\ IF pc[p] \in {"fence", "span"} /\ Raises(p) THEN Raise(p) ELSE Leave(p)
        /\ fence' = IF pc[p] = "span" THEN fence \ {Head1(p)} ELSE fence
  /\ UNCHANGED <<deviceVars, storeVars, late, rekey, reads, runs, faults>>

\* Past the deadline the span is left to itself and the locks are released.
Abandon(p) ==
  /\ Absorbed(p) /\ run[p].cancelled /\ late[p] = NoSpan /\ faults < MaxFaults
  /\ faults' = faults + 1
  /\ late' = [late EXCEPT ![p] = [place |-> IF pc[p] = "span" THEN "span" ELSE "fence", att |-> run[p].att]]
  /\ Leave(p)
  /\ UNCHANGED <<deviceVars, storeVars, fence, rekey, reads, runs>>

\* The abandoned span gets its fence, commits, or fails.
LateFence(p) ==
  /\ late[p].place = "fence" /\ attempts[late[p].att].fam \notin fence
  /\ fence' = fence \cup {attempts[late[p].att].fam}
  /\ late' = [late EXCEPT ![p].place = "span"]
  /\ UNCHANGED <<deviceVars, storeVars, taskVars, rekey, reads, runs, faults>>
LatePublish(p) ==
  /\ late[p].place = "span"
  /\ StageResult(attempts, late[p].att, IF attempts[late[p].att].out \in Present THEN "replaced" ELSE "kept")
  /\ fence' = fence \ {attempts[late[p].att].fam}
  /\ late' = [late EXCEPT ![p] = NoSpan]
  /\ UNCHANGED <<deviceVars, taskVars, rekey, reads, runs, faults>>
LateFails(p) ==
  /\ late[p] # NoSpan
  /\ fence' = IF late[p].place = "span" THEN fence \ {attempts[late[p].att].fam} ELSE fence
  /\ late' = [late EXCEPT ![p] = NoSpan]
  /\ UNCHANGED <<deviceVars, storeVars, taskVars, rekey, reads, runs, faults>>

\* The process goes down and comes back: tasks, locks and open transactions are lost.
Restart ==
  /\ faults < MaxFaults /\ faults' = faults + 1
  /\ pc' = [p \in Readers |-> "idle"] /\ run' = [p \in Readers |-> Idle]
  /\ lock' = [f \in Families |-> Nobody] /\ fence' = {}
  /\ late' = [p \in Readers |-> NoSpan] /\ rekey' = 0
  /\ UNCHANGED <<deviceVars, storeVars, reads, runs>>

\* rekey_device: every family's fence, in one order, and then the change.
RekeyFence ==
  /\ rekey < Len(LockOrder) /\ epoch < MaxEpoch
  /\ LockOrder[rekey + 1] \notin fence
  /\ fence' = fence \cup {LockOrder[rekey + 1]}
  /\ rekey' = rekey + 1
  /\ UNCHANGED <<deviceVars, storeVars, taskVars, late, reads, runs, faults>>

RekeyEnds == fence' = fence \ {LockOrder[n] : n \in 1 .. rekey} /\ rekey' = 0

\* The mirror tables, the observations and the pointers of every family.
InvalidateMirror ==
  /\ pointer' = [f \in Families |-> NoPublication] /\ observed' = [f \in Families |-> 0]
  /\ rows' = [f \in Families |-> NoRows]

RekeyCommit ==
  /\ rekey = Len(LockOrder)
  /\ epoch' = epoch + 1 /\ ned' = 0 /\ status' = NoStatus
  /\ InvalidateMirror
  /\ RekeyEnds
  /\ UNCHANGED <<attempts, taskVars, late, reads, runs, faults>>

\* The same identity, one that is taken, or a lock timeout.
RekeyNothing ==
  /\ rekey > 0
  /\ RekeyEnds
  /\ UNCHANGED <<deviceVars, storeVars, taskVars, late, reads, runs, faults>>

-----------------------------------------------------------------------------
Step(p) ==
  \/ ResolveNed(p) \/ AcquireLock(p) \/ Fetch(p)
  \/ RecordRead(p) \/ RecordFails(p) \/ AcquireFence(p) \/ FenceTimeout(p)
  \/ Publish(p) \/ CommitAttrsKept(p) \/ RecordAttrsResult(p) \/ RecordAttrsResultFails(p)
  \/ MaterializeFails(p) \/ CommitFails(p) \/ AttrsFailureCleanup(p)
  \/ PublishSyncMetadata(p)

LateStep(p) == LateFence(p) \/ LatePublish(p) \/ LateFails(p)
RekeyStep == RekeyFence \/ RekeyCommit \/ RekeyNothing

Next ==
  \/ \E p \in Readers : Step(p) \/ LateStep(p) \/ Cancel(p) \/ Abandon(p)
  \/ \E p \in Readers, plan \in Plans : Begin(p, plan)
  \/ RekeyStep \/ Restart

Spec == Init /\ [][Next]_vars

-----------------------------------------------------------------------------
(* Properties.                                                             *)

\* The rows and the tasks have their declared shapes.
TypeOK ==
  /\ epoch \in 1 .. MaxEpoch /\ ned \in 0 .. epoch
  /\ status \in [result : {"none", "failed", "partial", "succeeded"}, src : 0 .. MaxEpoch, at : Nat]
  /\ \A a \in 1 .. Len(attempts) :
       attempts[a] \in [fam : Families, epoch : 1 .. MaxEpoch, out : Outcome \ {"uncovered"}, at : Nat,
                        by : {"poll", "sweep", "drift"}, body : SUBSET UNION Bodies,
                        src : 1 .. MaxEpoch, result : {"open", "replaced", "kept", "error", "superseded"}]
  /\ pointer \in [Families -> [attempt : 0 .. Len(attempts), revision : 0 .. Len(attempts)]]
  /\ \A f \in Families : \E items \in SUBSET UNION Bodies : rows[f] \in [items -> [at : Nat, src : 1 .. MaxEpoch]]
  /\ observed \in [Families -> 0 .. Len(attempts)]
  /\ fence \subseteq Families /\ lock \in [Families -> Readers \cup {Nobody}]
  /\ pc \in [Readers -> {"idle", "ned", "lock", "fetch", "record", "fence", "span", "result", "cleanup", "meta"}]
  /\ rekey \in 0 .. Len(LockOrder)

\* What the API joins is one publication: the observation and the pointer's
\* payload revision are of one attempt that published (stage_result,
\* get_current_publication).  The rows of an engine family are exactly that
\* attempt's.  Of the attributes, which are never deleted and which a drift check
\* does not create, no row is newer than it and those it read are its own.
PublicationIsWhole ==
  \A f \in Families :
    LET r == pointer[f].revision
        its(i) == rows[f][i] = [at |-> attempts[r].at, src |-> attempts[r].src]
    IN /\ observed[f] = r
       /\ r = 0 => rows[f] = NoRows
       /\ r # 0 =>
            /\ attempts[r].fam = f /\ attempts[r].result = "replaced"
            /\ f # Attrs => DOMAIN rows[f] = attempts[r].body
            /\ \A i \in DOMAIN rows[f] :
                 IF i \in attempts[r].body THEN its(i) ELSE rows[f][i].at < attempts[r].at

\* The pointer shows the newest attempt, by start, that ended in the present
\* source generation: a late older one is not shown and a newest failure is
\* (record_result, stage_result), whatever is cancelled, abandoned or lost.
NewestEndShown ==
  \A f \in Families :
    pointer[f].attempt = Max({0} \cup {a \in 1 .. Len(attempts) :
      /\ attempts[a].fam = f /\ attempts[a].epoch = epoch
      /\ attempts[a].result \notin {"open", "superseded"}})

\* No read of a former source is served as the present one's: "Rekey increments
\* it so a read fetched before [the] change cannot publish against the new source".
PublishedFromSource == \A f \in Families : \A i \in DOMAIN rows[f] : rows[f][i].src = epoch

\* A sync that reports success has no family that failed, and is of the source
\* the device has (sync_device, _publish_sync_metadata).
SucceededIsClean ==
  status.result = "succeeded" =>
    /\ status.src = epoch
    /\ \A a \in 1 .. Len(attempts) :
         attempts[a].at = status.at =>
           /\ attempts[a].result # "error"
           /\ attempts[a].result = "kept" => ~Degrades(attempts[a].fam, attempts[a].out)

\* The read a family shows: its number and its source.
ShownRead(f) ==
  LET r == pointer[f].revision
  IN IF r = 0 THEN [at |-> 0, src |-> 0] ELSE [at |-> attempts[r].at, src |-> attempts[r].src]

\* The attempts that tasks and abandoned spans still have to end.
Unfinished == ({run[p].att : p \in Readers} \cup {late[p].att : p \in Readers}) \ {0}

\* The abstract register of each family.
Shown == INSTANCE Publication WITH
  shown <- [f \in Families |-> ShownRead(f)],
  reloaded <- \E a \in Unfinished : attempts[a].src # attempts[a].epoch

\* What a family shows is replaced only by a later read, of the source the device
\* has unless the run reloaded the device row after reading (_recover_session),
\* and a change of the source leaves nothing shown.
ServesLaterReads == Shown!Spec

=============================================================================
