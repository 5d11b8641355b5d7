--------------------------- MODULE Redistribution ---------------------------
(***************************************************************************)
(* The composite family (core/redistribution.py): three protocols' reads,  *)
(* each made or kept on its own, become one publication over three         *)
(* partitions of one table.  A poll reads the three sections one after the *)
(* other, a sweep takes them from one document; both hold the family's     *)
(* in-process lock from the first read to the commit, and the commit holds *)
(* its fence.  A read is known by its number.                              *)
(***************************************************************************)
EXTENDS Naturals, Sequences, SequencesExt, FiniteSets, FiniteSetsExt

CONSTANTS
  Readers,     \* tasks that refresh
  Served,      \* bound: what a section read can give
  MaxRuns,     \* bound: refreshes
  MaxEpoch,    \* bound: changes of the device's source
  MaxFaults    \* bound: database failures and abandoned spans

VARIABLES
  epoch,      \* device.source_epoch
  attempts,   \* refresh_outcome rows of the family, by id
  pointer,    \* refresh_outcome_pointer
  rows,       \* device_redistribution, by dest_protocol: the read it was built from
  fence,      \* the task that holds the family's advisory lock
  lock,       \* the task that holds the family's in-process lock
  pc, run,    \* the refresh each task is in
  late,       \* an abandoned span that still runs, by its attempt
  reads, runs, faults

storeVars == <<attempts, pointer, rows>>
vars == <<epoch, storeVars, fence, lock, pc, run, late, reads, runs, faults>>

-----------------------------------------------------------------------------
(* The components and the outcomes of their reads.  "malformed" is a       *)
(* present section that the row builder refuses, "uncovered" one whose     *)
(* reader does not cover the redistribute lists.                           *)

Components == <<"ospf", "isis", "bgp">>
Protocols == ToSet(Components)
Present == {"present", "malformed"}
NonFailing == {"not_authoritative", "unsupported", "not_covered"}
Unavailable == NonFailing \cup {"read_error", "export_down"}

Nobody == "nobody"
NoRows == [at |-> 0, epoch |-> 0]
NoPublication == [attempt |-> 0, revision |-> 0]
NoReads == [p \in Protocols |-> [out |-> "unread", at |-> 0]]
Idle == [kind |-> "none", snap |-> 0, got |-> NoReads, att |-> 0, cancelled |-> FALSE]

\* RedistComponent.admit
Admit(out) == IF out = "uncovered" THEN "not_covered" ELSE out

Replaced(got) == {p \in Protocols : got[p].out \in Present}

\* Tier 1: one confirmed outage of the export speaks for every component.
Outage(got) == \E p \in Protocols : got[p].out = "export_down"

\* What the commit makes of it: the partitions are replaced, or all are kept.
TerminalResult(got) == IF ~Outage(got) /\ Replaced(got) # {} THEN "replaced" ELSE "kept"

-----------------------------------------------------------------------------
Init ==
  /\ epoch = 1 /\ attempts = <<>> /\ pointer = NoPublication
  /\ rows = [p \in Protocols |-> NoRows]
  /\ fence = Nobody /\ lock = Nobody
  /\ pc = [r \in Readers |-> "idle"] /\ run = [r \in Readers |-> Idle]
  /\ late = [r \in Readers |-> 0]
  /\ reads = 0 /\ runs = 0 /\ faults = 0

Goto(r, place, v) == pc' = [pc EXCEPT ![r] = place] /\ run' = [run EXCEPT ![r] = v]

\* The run ends, and gives up the lock and a fence it holds.
Leave(r) ==
  /\ Goto(r, "idle", Idle)
  /\ lock' = IF lock = r THEN Nobody ELSE lock
  /\ fence' = IF fence = r THEN Nobody ELSE fence

Fault == faults < MaxFaults /\ faults' = faults + 1

\* refresh_redistribution_for_device, or the projected sweep: the device is
\* loaded, with the source generation it keeps in the session (expire_on_commit
\* is off) until it is loaded again.
Begin(r, kind) ==
  /\ pc[r] = "idle" /\ runs < MaxRuns
  /\ runs' = runs + 1
  /\ Goto(r, "lock", [Idle EXCEPT !.kind = kind, !.snap = epoch])
  /\ UNCHANGED <<epoch, storeVars, fence, lock, late, reads, faults>>

\* Mutant: the poll does not exclude the batch.
AcquireLockUnguarded(r) ==
  /\ pc[r] = "lock"
  /\ lock' = r
  /\ Goto(r, "read", run[r])
  /\ UNCHANGED <<epoch, storeVars, fence, late, reads, runs, faults>>

\* The family's lock, for the whole span.
AcquireLock(r) ==
  /\ pc[r] = "lock" /\ lock = Nobody
  /\ lock' = r
  /\ Goto(r, "read", run[r])
  /\ UNCHANGED <<epoch, storeVars, fence, late, reads, runs, faults>>

Unread(r) == SelectSeq(Components, LAMBDA p : run[r].got[p].out = "unread")

\* A poll reads the next section, a sweep all of them at once.
ReadSection(r, served) ==
  /\ pc[r] = "read" /\ run[r].kind = "poll"
  /\ reads' = reads + 1
  /\ \E out \in served :
       Goto(r, IF Len(Unread(r)) = 1 THEN "record" ELSE "read",
            [run[r] EXCEPT !.got[Head(Unread(r))] = [out |-> Admit(out), at |-> reads + 1]])
  /\ UNCHANGED <<epoch, storeVars, fence, lock, late, runs, faults>>

ReadDocument(r, served) ==
  /\ pc[r] = "read" /\ run[r].kind = "sweep"
  /\ reads' = reads + 1
  /\ \E out \in [Protocols -> served \ {"export_down"}] \cup {[p \in Protocols |-> "export_down"]} :
       Goto(r, "record", [run[r] EXCEPT !.got = [p \in Protocols |-> [out |-> Admit(out[p]), at |-> reads + 1]]])
  /\ UNCHANGED <<epoch, storeVars, fence, lock, late, runs, faults>>

\* The sweep stages its families one after the other in one session.  When an
\* earlier one's record failed, the session was recovered and the device loaded
\* again (_recover_session) before this family takes its source generation.
SessionRecovered(r) ==
  /\ pc[r] = "record" /\ run[r].kind = "sweep" /\ Fault
  /\ Goto(r, "record", [run[r] EXCEPT !.snap = epoch])
  /\ UNCHANGED <<epoch, storeVars, fence, lock, late, reads, runs>>

-----------------------------------------------------------------------------
(* The two-phase record.                                                   *)

Attempt(r) == [epoch |-> run[r].snap, got |-> run[r].got, result |-> "open"]

\* Phase 1, before anything is mutated.
RecordRead(r) ==
  /\ pc[r] = "record"
  /\ attempts' = Append(attempts, Attempt(r))
  /\ Goto(r, "fence", [run[r] EXCEPT !.att = Len(attempts) + 1])
  /\ UNCHANGED <<epoch, pointer, rows, fence, lock, late, reads, runs, faults>>

\* Phase 1 fails: an authoritative body is not published without an attempt, and
\* a kept one, or an outage, has nothing to publish.
RecordFails(r) ==
  /\ pc[r] = "record" /\ Fault
  /\ Leave(r)
  /\ UNCHANGED <<epoch, storeVars, late, reads, runs>>

AcquireFence(r) ==
  /\ pc[r] = "fence" /\ fence = Nobody
  /\ fence' = r
  /\ Goto(r, "span", run[r])
  /\ UNCHANGED <<epoch, storeVars, lock, late, reads, runs, faults>>

\* The lock timeout: the record of an outage is best effort, the span raises.
FenceTimeout(r) ==
  /\ pc[r] = "fence" /\ fence # Nobody /\ Fault
  /\ Leave(r)
  /\ UNCHANGED <<epoch, storeVars, late, reads, runs>>

\* publication_is_current, under the fence.
Superseded(as, a) == epoch # as[a].epoch \/ pointer.attempt > a

\* Mutant: a component that could not be read is rebuilt as well.
RebuildAll(a) == [p \in Protocols |-> [at |-> a.got[p].at, epoch |-> a.epoch]]

\* _rebuild_partitions: only an authoritative component replaces its partition.
Rebuild(a) ==
  [p \in Protocols |-> IF p \in Replaced(a.got) THEN [at |-> a.got[p].at, epoch |-> a.epoch] ELSE rows[p]]

\* Mutant: the payload revision follows every end.
StageResultAlways(as, a, result) ==
  LET selected == ~Superseded(as, a)
  IN  /\ attempts' = [as EXCEPT ![a].result = IF selected THEN result ELSE "superseded"]
      /\ pointer' = IF selected THEN [attempt |-> a, revision |-> a] ELSE pointer
      /\ rows' = IF selected /\ result = "replaced" THEN Rebuild(as[a]) ELSE rows

\* stage_result and the commit: outcome, pointer, observation and partitions.
StageResult(as, a, result) ==
  LET selected == ~Superseded(as, a)
  IN  /\ attempts' = [as EXCEPT ![a].result = IF selected THEN result ELSE "superseded"]
      /\ pointer' = IF ~selected THEN pointer
                    ELSE [attempt |-> a, revision |-> IF result = "replaced" THEN a ELSE pointer.revision]
      /\ rows' = IF selected /\ result = "replaced" THEN Rebuild(as[a]) ELSE rows

Refused(got) == \E p \in Replaced(got) : got[p].out = "malformed"

\* The row builder raises: the savepoint is rolled back, the attempt is an error.
Terminal(got) ==
  IF TerminalResult(got) = "replaced" /\ Refused(got) THEN "error" ELSE TerminalResult(got)

\* _commit_partitions, or the record of an outage.
Commit(r) ==
  /\ pc[r] = "span"
  /\ StageResult(attempts, run[r].att, Terminal(run[r].got))
  /\ Leave(r)
  /\ UNCHANGED <<epoch, late, reads, runs, faults>>

\* The transaction fails as a whole; a fresh attempt takes the error, if it can.
\* The record of an outage is not tried again.
CommitFails(r) ==
  /\ pc[r] = "span" /\ Fault
  /\ \/ ~Outage(run[r].got) /\ StageResult(Append(attempts, Attempt(r)), Len(attempts) + 1, "error")
     \/ UNCHANGED storeVars
  /\ Leave(r)
  /\ UNCHANGED <<epoch, late, reads, runs>>

-----------------------------------------------------------------------------
(* Cancellation, restart, and the change of the source.                    *)

\* await_uncancellable around _tier2_span.
Absorbed(r) == pc[r] \in {"fence", "span"} /\ ~Outage(run[r].got)

Cancel(r) ==
  /\ pc[r] # "idle" /\ ~run[r].cancelled
  /\ IF Absorbed(r)
     THEN Goto(r, pc[r], [run[r] EXCEPT !.cancelled = TRUE]) /\ UNCHANGED <<lock, fence>>
     ELSE Leave(r)
  /\ UNCHANGED <<epoch, storeVars, late, reads, runs, faults>>

\* Past the deadline the span is left to itself and the lock is released.
Abandon(r) ==
  /\ Absorbed(r) /\ pc[r] = "fence" /\ run[r].cancelled /\ late[r] = 0 /\ Fault
  /\ late' = [late EXCEPT ![r] = run[r].att]
  /\ Leave(r)
  /\ UNCHANGED <<epoch, storeVars, reads, runs>>

\* The abandoned span gets the fence and commits, or fails.
LateCommit(r) ==
  /\ late[r] # 0 /\ fence = Nobody
  /\ \/ StageResult(attempts, late[r], Terminal(attempts[late[r]].got))
     \/ UNCHANGED storeVars
  /\ late' = [late EXCEPT ![r] = 0]
  /\ UNCHANGED <<epoch, fence, lock, pc, run, reads, runs, faults>>

Restart ==
  /\ Fault
  /\ pc' = [r \in Readers |-> "idle"] /\ run' = [r \in Readers |-> Idle]
  /\ late' = [r \in Readers |-> 0] /\ lock' = Nobody /\ fence' = Nobody
  /\ UNCHANGED <<epoch, storeVars, reads, runs>>

\* rekey_device, under the family's fence: the mirror of the former source goes.
Rekey ==
  /\ epoch < MaxEpoch /\ fence = Nobody
  /\ epoch' = epoch + 1
  /\ pointer' = NoPublication /\ rows' = [p \in Protocols |-> NoRows]
  /\ UNCHANGED <<attempts, fence, lock, pc, run, late, reads, runs, faults>>

-----------------------------------------------------------------------------
Task(r, served) ==
  \/ AcquireLock(r) \/ ReadSection(r, served) \/ ReadDocument(r, served)
  \/ SessionRecovered(r) \/ RecordRead(r) \/ RecordFails(r)
  \/ AcquireFence(r) \/ FenceTimeout(r) \/ Commit(r) \/ CommitFails(r)
  \/ Cancel(r) \/ Abandon(r) \/ LateCommit(r)
  \/ \E kind \in {"poll", "sweep"} : Begin(r, kind)

Next == (\E r \in Readers : Task(r, Served)) \/ Restart \/ Rekey

Spec == Init /\ [][Next]_vars

-----------------------------------------------------------------------------
(* Properties.                                                             *)

\* The rows and the tasks have their declared shapes.
TypeOK ==
  /\ epoch \in 1 .. MaxEpoch
  /\ \A a \in 1 .. Len(attempts) :
       /\ attempts[a].result \in {"open", "replaced", "kept", "error", "superseded"}
       /\ \A p \in Protocols : attempts[a].got[p].out \in Present \cup Unavailable
  /\ pointer \in [attempt : 0 .. Len(attempts), revision : 0 .. Len(attempts)]
  /\ \A p \in Protocols : rows[p].at <= reads /\ rows[p].epoch <= epoch
  /\ {fence, lock} \subseteq Readers \cup {Nobody}
  /\ pc \in [Readers -> {"idle", "lock", "read", "record", "fence", "span"}]

\* The attempts of the present source that replaced a protocol's partition.
Replacements(p) ==
  {a \in 1 .. Len(attempts) : /\ attempts[a].epoch = epoch /\ attempts[a].result = "replaced"
                              /\ p \in Replaced(attempts[a].got)}

\* "A protocol whose read failed with a non-outage error KEEPS its last-known
\* rows": each partition is what the newest authoritative read of its own
\* protocol said, whichever run, component, failure or rollback came since.
PartitionIsLastAuthoritative ==
  \A p \in Protocols :
    IF Replacements(p) = {} THEN rows[p] = NoRows
    ELSE LET a == attempts[Max(Replacements(p))] IN rows[p] = [at |-> a.got[p].at, epoch |-> a.epoch]

\* What the GET joins agrees: every component the current observation covers is
\* in the table with the read it was observed in (get_redistribution).
ObservationIsShown ==
  pointer.revision # 0 =>
    \A p \in Replaced(attempts[pointer.revision].got) :
      rows[p] = [at |-> attempts[pointer.revision].got[p].at, epoch |-> attempts[pointer.revision].epoch]

\* A partition never goes back to an older read of the same source: the poll and
\* the projected batch "cannot interleave an older snapshot over a newer one".
NeverAnOlderRead ==
  [][\A p \in Protocols : rows'[p] # rows[p] /\ epoch' = epoch => rows'[p].at > rows[p].at]_vars

=============================================================================
