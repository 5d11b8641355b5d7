----------------------------- MODULE Projection -----------------------------
(***************************************************************************)
(* What the operator has said, has authorised and has had deployed, for    *)
(* one device: keyed intent pushes and their receipts                      *)
(* (core/receipt.py, api/intent_push.py), the revisions and the last       *)
(* authorised fragment of each stream, the generations that freeze a       *)
(* complete document with its removal authority (core/generation.py,       *)
(* core/removal.py, core/apply.py), and their settlement.                  *)
(*                                                                         *)
(* A fragment gives each key of a stream 0 (no row), 1 (a row whose        *)
(* clearable scalar is unset) or 2 (the scalar is set).  A handler is one  *)
(* transaction under the device's projection lock: it is written as a      *)
(* function on the rows it has so far, tx, and committed in one step.      *)
(***************************************************************************)
EXTENDS Naturals, Sequences, SequencesExt, FiniteSets

CONSTANTS
  Streams,        \* the intent endpoints' lanes
  ChainStreams,   \* those whose PUT plans through the promotion chain (interface attributes)
  Section,        \* the document section of a stream
  Keys,           \* row identities of a stream
  Bodies,         \* bound: the contents the plugin sends
  NoFragment,     \* a lane that was never authorised
  MaxPushes,      \* bound: pushes the plugin sends
  MaxGens         \* bound: generations

ASSUME StreamsAssumption == ChainStreams \subseteq Streams
ASSUME BodiesAssumption == Bodies \subseteq [Keys -> 0 .. 2]
ASSUME ProjectionBounds == MaxPushes \in Nat \ {0} /\ MaxGens \in Nat \ {0}

VARIABLES
  store,     \* the intent rows of each stream
  proj,      \* device_projection_stream
  receipt,   \* intent_push_receipt
  clear,     \* stream_pending_clear
  gens,      \* deployment_generation, in seq order
  auto,      \* device_settings.auto_apply
  svc,       \* the rows the NSO service instance asserts (external)
  dev,       \* the keys present on the device (external)
  gone,      \* history: how a key last left the store
  granted,   \* history: per generation, the deletions the operator had asked for
  owed       \* history: scalars unset in the store since the last networked replace

vars == <<store, proj, receipt, clear, gens, auto, svc, dev, gone, granted, owed>>

Marking == {"none", "detach", "delete_origin"}
Fragment == [Keys -> 0 .. 2]
Empty == [k \in Keys |-> 0]
Push(bodies) == [body : bodies, store_only : BOOLEAN, delete_origin : BOOLEAN]
ProjectionRow ==
  [desired : 0 .. MaxPushes, authorized : 0 .. MaxPushes, applied : 0 .. MaxPushes,
   source : 0 .. MaxPushes, document : Fragment \cup {NoFragment}]
Receipt ==
  [seq : 0 .. MaxPushes, delete_origin : BOOLEAN, deletions : [Keys -> Marking]]
Generation ==
  [kind : {"apply", "removal"}, mode : {"networked", "detach"}, force : BOOLEAN,
   doc : [Streams -> Fragment \cup {NoFragment}], allowed : SUBSET (Streams \X Keys),
   revisions : [Streams -> 0 .. MaxPushes], cohort : 0 .. MaxGens,
   status : {"pending", "running", "settled", "failed", "outcome_unknown", "abandoned"},
   job : 0 .. MaxGens + 1, coalescible : BOOLEAN]

Crossable == {"settled", "abandoned"}
Blocked == {"failed", "outcome_unknown"}

\* fragment_tables: an unauthorised lane has no rows.
Tables(f) == IF f = NoFragment THEN Empty ELSE f
Rows(f) == {k \in Keys : f[k] # 0}
Unset(old, new) == {k \in Keys : old[k] = 2 /\ new[k] = 1}
RequestMarking(delete_origin) == IF delete_origin THEN "delete_origin" ELSE "detach"
NoDeletions == [k \in Keys |-> "none"]

Init ==
  /\ store = [s \in Streams |-> Empty]
  /\ proj = [s \in Streams |->
       [desired |-> 0, authorized |-> 0, applied |-> 0, source |-> 0, document |-> NoFragment]]
  /\ receipt = [s \in Streams |->
       [seq |-> 0, delete_origin |-> FALSE, deletions |-> NoDeletions]]
  /\ clear = [s \in Streams |-> "none"]
  /\ gens = <<>>
  /\ auto \in BOOLEAN
  /\ svc = [s \in Streams |-> Empty]
  /\ dev = [s \in Streams |-> {}]
  /\ gone = [s \in Streams |-> NoDeletions]
  /\ granted = <<>>
  /\ owed = [s \in Streams |-> {}]

-----------------------------------------------------------------------------
(* The transaction of a handler.                                           *)

Tx == [store |-> store, proj |-> proj, receipt |-> receipt, clear |-> clear, gens |-> gens]

Commit(tx) ==
  /\ Len(tx.gens) <= MaxGens
  /\ store' = tx.store /\ proj' = tx.proj /\ receipt' = tx.receipt
  /\ clear' = tx.clear /\ gens' = tx.gens

Accepted == MapThenSumSet(LAMBDA s : proj[s].desired, Streams)

NoteWrite(tx, s, n) ==
  [tx EXCEPT !.proj[s].desired = @ + 1, !.proj[s].source = n]

\* Mutant: the sequence number is not recorded.
AdmitForgotten(tx, s, n, p) == [tx EXCEPT !.receipt[s].delete_origin = p.delete_origin]

\* Private deletion provenance of the receipt survives until it is consumed.
AdmitPush(tx, s, n, p) ==
  [tx EXCEPT !.receipt[s].seq = n, !.receipt[s].delete_origin = p.delete_origin]

Promote(tx, streams) ==
  [tx EXCEPT !.proj = [s \in Streams |->
     IF s \in streams
     THEN [tx.proj[s] EXCEPT !.authorized = tx.proj[s].desired, !.document = tx.store[s]]
     ELSE tx.proj[s]]]

\* _compose_authorized_document: every stream's last authorised fragment, once
\* those that are promoted are.
ComposeDocument(tx, streams) == [s \in Streams |-> Promote(tx, streams).proj[s].document]

\* A job is known by the generations it carries: the numbers of forgotten jobs
\* are used again.
FreshJob(gs) == Min((1 .. Len(gs) + 1) \ {gs[n].job : n \in 1 .. Len(gs)})

\* create_generation: the promotion and the immutable row, with its document.
CreateGeneration(tx, streams, kind, mode, doc, allowed, cohort) ==
  LET px == Promote(tx, streams) IN
  [px EXCEPT !.gens = Append(@,
     [kind |-> kind, mode |-> mode, force |-> FALSE, doc |-> doc, allowed |-> allowed,
      revisions |-> [s \in Streams |-> IF s \in streams THEN px.proj[s].desired ELSE 0],
      cohort |-> cohort, status |-> "pending", job |-> 0, coalescible |-> FALSE])]

Attach(tx, job, coalescible) ==
  LET n == Len(tx.gens) IN
  [tx EXCEPT !.gens[n].job = job, !.gens[n].coalescible = coalescible]

\* A cohort member and a holder of removal authority get a carrier of their
\* own; any other joins the queued job when contiguous, else waits unattached.
AdmitApplyGeneration(tx) ==
  LET n == Len(tx.gens)
      queued == {m \in 1 .. n - 1 : tx.gens[m].status = "pending" /\ tx.gens[m].coalescible}
  IN IF tx.gens[n].cohort # 0 \/ tx.gens[n].allowed # {} THEN Attach(tx, FreshJob(tx.gens), FALSE)
     ELSE IF queued = {} THEN Attach(tx, FreshJob(tx.gens), TRUE)
     ELSE IF n - 1 \in queued THEN Attach(tx, tx.gens[n - 1].job, TRUE)
     ELSE tx

\* Mutant: the omission is not recorded.
ClearForgotten(tx, s, store_only) == tx

\* The clear keeps the strongest provenance it has had.
RecordPendingClear(tx, s, store_only) ==
  [tx EXCEPT !.clear[s] = IF store_only /\ @ # "none" THEN @
                          ELSE IF store_only THEN "store_only" ELSE "authorized"]

\* A networked replace of the stream delivers every omission recorded for it; a
\* detach authorises a parked one.
SettlePendingClear(tx, s, mode) ==
  [tx EXCEPT !.clear[s] = IF mode = "networked" \/ @ = "none" THEN "none" ELSE "authorized"]

EnqueueRemoval(tx, s, mode, doc, allowed, cohort) ==
  LET gx == CreateGeneration(tx, {s}, "removal", mode, doc, allowed, cohort)
  IN SettlePendingClear(Attach(gx, FreshJob(gx.gens), FALSE), s, mode)

EnqueueApply(tx, streams, doc, allowed, cohort) ==
  AdmitApplyGeneration(CreateGeneration(tx, streams, "apply", "networked", doc, allowed, cohort))
-----------------------------------------------------------------------------
(* The promotion chain of one Apply, manual or automatic.                  *)

\* _fragment_deletions: the rows a promotion drops, at one marking.  A row's own
\* marking outranks the receipt's.
FragmentDeletions(tx, s, marking) ==
  {k \in Rows(Tables(tx.proj[s].document)) \ Rows(tx.store[s]) :
     marking = IF tx.receipt[s].deletions[k] # "none" THEN tx.receipt[s].deletions[k]
               ELSE RequestMarking(tx.receipt[s].delete_origin)}

Networked(tx, s) == FragmentDeletions(tx, s, "delete_origin")
Detached(tx, s) == FragmentDeletions(tx, s, "detach")

\* _content_losing_rows: retained rows that lose a scalar need a replace.
ContentLosing(tx, s) == Unset(Tables(tx.proj[s].document), tx.store[s])
PositiveDelta(tx, s) == \E k \in Keys : tx.store[s][k] > Tables(tx.proj[s].document)[k]

NetworkedLink(tx, s) == Networked(tx, s) # {} \/ ContentLosing(tx, s) # {}
DetachLink(tx, s) == Detached(tx, s) # {}
ApplyLink(tx, s) == PositiveDelta(tx, s) \/ (~NetworkedLink(tx, s) /\ ~DetachLink(tx, s))

\* One replace cannot network a clear and keep an un-own off the device.
Unexecutable(tx, s) == DetachLink(tx, s) /\ ContentLosing(tx, s) # {}

\* _retain_rows: the desired fragment with the rows a later detach drops.
RetainRows(tx, s) ==
  [k \in Keys |-> IF k \in Detached(tx, s) THEN tx.proj[s].document[k] ELSE tx.store[s][k]]

Overlay(tx, selected, fragment) ==
  [s \in Streams |-> IF s \in selected THEN fragment[s] ELSE tx.proj[s].document]

\* _create_apply_chain: networked removals, the companion apply, detaches; the
\* links of a request share a cohort and the networked ones one document and
\* the union of their authority.
CreateApplyChain(tx, selected) ==
  LET nets == {s \in selected : NetworkedLink(tx, s)}
      dets == {s \in selected : DetachLink(tx, s)}
      applies == {s \in selected : ApplyLink(tx, s)}
      links == Cardinality(nets) + Cardinality(dets) + IF applies = {} THEN 0 ELSE 1
      cohort == IF links > 1 THEN Len(tx.gens) + 1 ELSE 0
      intermediate == Overlay(tx, selected, [s \in Streams |-> RetainRows(tx, s)])
      final == Overlay(tx, selected, tx.store)
      union == {<<s, k>> \in nets \X Keys : k \in Networked(tx, s)}
      remove(s, px) == EnqueueRemoval(px, s, "networked", intermediate, union, cohort)
      detach(s, px) == EnqueueRemoval(px, s, "detach", final, {s} \X Detached(tx, s), cohort)
      removed == FoldSet(remove, tx, nets)
      applied == IF applies = {} THEN removed
                 ELSE EnqueueApply(removed, applies, intermediate, union, cohort)
      chained == FoldSet(detach, applied, dets)
  IN [chained EXCEPT !.receipt = [s \in Streams |->
        IF s \in selected THEN [chained.receipt[s] EXCEPT !.deletions = NoDeletions]
        ELSE chained.receipt[s]]]

\* _resolve_receipt_selection: the latest receipt is the projection's source and
\* its revision is neither applied nor authorised.
Promotable(s) ==
  /\ receipt[s].seq # 0 /\ proj[s].source = receipt[s].seq
  /\ proj[s].desired > proj[s].applied
  /\ proj[s].authorized < proj[s].desired

LiveJob == \E n \in 1 .. Len(gens) :
  gens[n].status = "running" \/ (gens[n].status = "pending" /\ gens[n].job # 0)

\* POST actions/apply with the selections that are not skipped.
ActionApply(selected) ==
  /\ selected # {} /\ \A s \in selected : Promotable(s)
  /\ ~LiveJob
  /\ \A s \in selected : ~Unexecutable(Tx, s)
  /\ Commit(CreateApplyChain(Tx, selected))
  /\ UNCHANGED <<auto, svc, dev>>

-----------------------------------------------------------------------------
(* The intent PUTs.                                                        *)

\* A PUT whose scope enqueues its own removal and apply (api/vlan.py and alike).
PutDirect(tx, s, p) ==
  LET removed == Rows(store[s]) \ Rows(p.body)
      cleared == Unset(store[s], p.body) # {}
      shrinks == removed # {} \/ cleared
      applies == auto /\ Rows(p.body) # {} /\ ~p.store_only
      deferred == removed # {} /\ ~p.delete_origin
      cohort == IF shrinks /\ applies THEN Len(tx.gens) + 1 ELSE 0
      parked == IF cleared /\ (deferred \/ p.store_only)
                THEN RecordPendingClear(tx, s, p.store_only) ELSE tx
      shrunk == IF shrinks /\ ~p.store_only
                THEN EnqueueRemoval(parked, s, IF deferred THEN "detach" ELSE "networked",
                                    ComposeDocument(parked, {s}), {s} \X removed, cohort)
                ELSE parked
  IN IF applies THEN EnqueueApply(shrunk, {s}, ComposeDocument(shrunk, {s}), {}, cohort) ELSE shrunk

\* The interface-attribute PUT: a drop goes through the chain (api/intent.py).
PutInterface(tx, s, p) ==
  LET dropped == Rows(Tables(proj[s].document)) \ Rows(p.body) IN
  IF p.store_only \/ ~auto \/ (Rows(p.body) = {} /\ dropped = {}) THEN tx
  ELSE IF dropped # {} THEN CreateApplyChain(tx, {s})
  ELSE EnqueueApply(tx, {s}, ComposeDocument(tx, {s}), {}, 0)

Authorised(tx, s) == tx.proj[s].authorized >= tx.proj[s].desired

\* _restored_deletion_identities: recorded rows that are desired again.
Carried(tx, s) ==
  {k \in Keys : /\ tx.receipt[s].deletions[k] # "none"
                /\ ~(k \in Rows(Tables(tx.proj[s].document)) /\ k \in Rows(tx.store[s]))}

\* A continuously absent row keeps its first marking.
RecordDeletions(tx, s) ==
  [k \in Keys |->
     IF Authorised(tx, s) THEN "none"
     ELSE IF k \in Carried(tx, s) THEN tx.receipt[s].deletions[k]
     ELSE IF k \in Rows(Tables(tx.proj[s].document)) \ Rows(tx.store[s])
          THEN RequestMarking(tx.receipt[s].delete_origin)
     ELSE "none"]

\* record_response
RecordResponse(tx, s) == [tx EXCEPT !.receipt[s].deletions = RecordDeletions(tx, s)]

\* One intent PUT with X-Push-Seq n, a new push or a redelivery.  A replayed, reused
\* or stale sequence rolls back: no step.  So does a push that would promote over
\* a deletion it does not carry.
Deliver(s, n, p) ==
  LET begun == AdmitPush(NoteWrite([Tx EXCEPT !.store[s] = p.body], s, n), s, n, p)
      done == IF s \in ChainStreams THEN PutInterface(begun, s, p) ELSE PutDirect(begun, s, p)
  IN /\ n > receipt[s].seq
     /\ ~(s \in ChainStreams /\ auto /\ ~p.store_only /\ Unexecutable(begun, s))
     /\ ~(Authorised(done, s) /\ Carried(done, s) # {})
     /\ Commit(RecordResponse(done, s))
     /\ UNCHANGED <<auto, svc, dev>>

\* At least once and out of order: the next push of the outbox, or an old one again.
Redeliverable(s) ==
  {n \in receipt[s].seq - 1 .. receipt[s].seq + 1 : n > 0 /\ Accepted < MaxPushes}

ToggleAutoApply ==
  /\ auto' = ~auto
  /\ UNCHANGED <<store, proj, receipt, clear, gens, svc, dev>>

\* POST actions/force-removal: a reissue of what is authorised, guard off.
ForceRemoval(section) ==
  LET streams == {s \in Streams : Section[s] = section}
      reissue == [kind |-> "removal", mode |-> "networked", force |-> TRUE,
                  doc |-> ComposeDocument(Tx, {}), allowed |-> {},
                  revisions |-> [s \in Streams |-> 0], cohort |-> 0, status |-> "pending",
                  job |-> FreshJob(gens), coalescible |-> FALSE]
  IN /\ \E s \in streams : proj[s].document # NoFragment
     /\ Commit([Tx EXCEPT !.gens = Append(@, reissue),
                          !.clear = [s \in Streams |-> IF s \in streams THEN "none" ELSE clear[s]]])
     /\ UNCHANGED <<auto, svc, dev>>

-----------------------------------------------------------------------------
(* Execution and settlement.                                               *)

Carries(j) == {n \in 1 .. Len(gens) : gens[n].job = j}
Jobs == {gens[n].job : n \in 1 .. Len(gens)} \ {0}

\* A worker starts a queued job that no unfinished predecessor bars.
Start(j) ==
  /\ \A n \in Carries(j) : gens[n].status = "pending"
  /\ \A n \in 1 .. Len(gens) : n < Min(Carries(j)) => gens[n].status \in Crossable
  /\ gens' = [n \in 1 .. Len(gens) |->
                IF n \in Carries(j) THEN [gens[n] EXCEPT !.status = "running"] ELSE gens[n]]
  /\ UNCHANGED <<store, proj, receipt, clear, auto, svc, dev>>

\* Mutant: the first generation attached is the one deployed.
ExecutingFirst(j) == gens[Min(Carries(j))]

\* executing_generation: the highest one carried.
Executing(j) == gens[Max(Carries(j))]

\* An apply whose streams carry no row has nothing to do and sends nothing.
Eligible(j) ==
  \/ Executing(j).kind = "removal"
  \/ \E n \in Carries(j), s \in Streams :
       gens[n].revisions[s] # 0 /\ Rows(Tables(Executing(j).doc[s])) # {}

\* Mutant: the frozen authority is not consulted.
OrphansUnauthorised(g) ==
  {<<s, k>> \in Streams \X Keys : svc[s][k] # 0 /\ Tables(g.doc[s])[k] = 0}

\* _document_orphans: live rows the document would retract without authority.
Orphans(g) ==
  {<<s, k>> \in Streams \X Keys : svc[s][k] # 0 /\ Tables(g.doc[s])[k] = 0} \ g.allowed

\* Mutant: no guard.
GuardOff(g) == FALSE

\* evaluate_collateral_guard
GuardBlocks(g) == g.mode = "networked" /\ ~g.force /\ Orphans(g) # {}

\* The PUT of the complete document: NSO removes what the service no longer
\* asserts; a detach commits without networking (external).
PutDocument(g) ==
  /\ svc' = [s \in Streams |-> Tables(g.doc[s])]
  /\ dev' = IF g.mode = "detach" THEN dev
            ELSE [s \in Streams |->
                    (dev[s] \ Rows(svc[s])) \cup Rows(Tables(g.doc[s]))]

\* Every member settled or abandoned, one settled at least.
CohortReleased(gs, c) ==
  LET members == {n \in 1 .. Len(gs) : gs[n].cohort = c} IN
  /\ \A n \in members : gs[n].status \in Crossable
  /\ \E n \in members : gs[n].status = "settled"

\* Mutant: no cohort barrier.
StampAtOnce(gs, ns) ==
  [s \in Streams |-> [proj[s] EXCEPT !.applied =
     Max({proj[s].applied} \cup {gs[n].revisions[s] : n \in ns})]]

\* _stamp_applied_revisions, for the generations ns of the chain gs.
StampApplied(gs, ns) ==
  [s \in Streams |-> [proj[s] EXCEPT !.applied =
     Max({proj[s].applied} \cup
         {gs[n].revisions[s] : n \in {m \in ns : gs[m].cohort # 0 => CohortReleased(gs, gs[m].cohort)}})]]

CohortOf(gs, ns) ==
  {m \in 1 .. Len(gs) : gs[m].cohort # 0 /\ \E n \in ns : gs[n].cohort = gs[m].cohort}

\* settle_job_generations, in the job's terminal transaction.
Settle(j, outcome) ==
  /\ gens' = [n \in 1 .. Len(gens) |->
                IF n \in Carries(j) THEN [gens[n] EXCEPT !.status = outcome] ELSE gens[n]]
  /\ proj' = IF outcome = "settled"
             THEN StampApplied(gens', Carries(j) \cup CohortOf(gens', Carries(j))) ELSE proj
  /\ UNCHANGED <<store, receipt, clear, auto>>

Running(j) == \A n \in Carries(j) : gens[n].status = "running"

\* The run deploys its document, or the guard, a build error or NSO refuses it,
\* or it ends without knowing which.
RunSettles(j) ==
  /\ Running(j)
  /\ IF Eligible(j) THEN ~GuardBlocks(Executing(j)) /\ PutDocument(Executing(j))
                    ELSE UNCHANGED <<svc, dev>>
  /\ Settle(j, "settled")
RunFails(j) ==
  Running(j) /\ Settle(j, "failed") /\ UNCHANGED <<svc, dev>>
RunUnknown(j) ==
  /\ Running(j)
  /\ \/ ~GuardBlocks(Executing(j)) /\ PutDocument(Executing(j))
     \/ UNCHANGED <<svc, dev>>
  /\ Settle(j, "outcome_unknown")

\* executable_head
Uncrossed(gs) == {n \in 1 .. Len(gs) : gs[n].status \notin Crossable}

\* advance_generations_locked: a pending head without a carrier gets one.
AdvanceLocked(gs) ==
  LET h == Min(Uncrossed(gs)) IN
  IF Uncrossed(gs) # {} /\ gs[h].status = "pending" /\ gs[h].job = 0
  THEN [gs EXCEPT ![h].job = FreshJob(gs)] ELSE gs

AdvanceGenerations ==
  /\ gens' = AdvanceLocked(gens) /\ gens' # gens
  /\ UNCHANGED <<store, proj, receipt, clear, auto, svc, dev>>

BlockedHead(n) == Uncrossed(gens) # {} /\ n = Min(Uncrossed(gens)) /\ gens[n].status \in Blocked

\* retry_generation: the same document on a new dedicated job.
RetryGeneration(n) ==
  /\ BlockedHead(n)
  /\ gens' = [gens EXCEPT ![n].status = "pending", ![n].job = FreshJob(gens),
                          ![n].coalescible = FALSE]
  /\ UNCHANGED <<store, proj, receipt, clear, auto, svc, dev>>

\* reconcile_generation: abandon the head, release its cohort, advance.
ReconcileGeneration(n) ==
  LET gs == [gens EXCEPT ![n].status = "abandoned"] IN
  /\ BlockedHead(n)
  /\ proj' = IF gens[n].cohort = 0 THEN proj ELSE StampApplied(gs, CohortOf(gs, {n}))
  /\ gens' = AdvanceLocked(gs)
  /\ UNCHANGED <<store, receipt, clear, auto, svc, dev>>

-----------------------------------------------------------------------------
(* History variables: they record and never guard.                         *)

NetworkedReplace(g, s) ==
  g.kind = "removal" /\ g.mode = "networked" /\ (g.revisions[s] # 0 \/ g.force)

History ==
  /\ gone' = [s \in Streams |-> [k \in Keys |->
       IF store'[s][k] # 0 THEN "none"
       ELSE IF store[s][k] # 0 THEN RequestMarking(receipt'[s].delete_origin) ELSE gone[s][k]]]
  /\ granted' = granted \o [n \in 1 .. Len(gens') - Len(gens) |->
       {<<s, k>> \in Streams \X Keys : gone'[s][k] = "delete_origin"}]
  /\ owed' = [s \in Streams |->
       IF \E n \in Len(gens) + 1 .. Len(gens') : NetworkedReplace(gens'[n], s) THEN {}
       ELSE {k \in owed[s] \cup Unset(store[s], store'[s]) : store'[s][k] = 1}]

Operator(streams) ==
  \/ ToggleAutoApply
  \/ \E selected \in SUBSET streams : ActionApply(selected)
  \/ \E s \in streams : ForceRemoval(Section[s])
  \/ \E n \in 1 .. Len(gens) : RetryGeneration(n) \/ ReconcileGeneration(n)

Runtime(streams, bodies) ==
  \/ \E s \in streams, p \in Push(bodies) : \E n \in Redeliverable(s) : Deliver(s, n, p)
  \/ \E j \in Jobs : Start(j) \/ RunSettles(j) \/ RunFails(j) \/ RunUnknown(j)
  \/ AdvanceGenerations

Next == (Operator(Streams) \/ Runtime(Streams, Bodies)) /\ History

Spec == Init /\ [][Next]_vars

-----------------------------------------------------------------------------
(* Properties.                                                             *)

\* The tables hold rows of their declared shape.
TypeOK ==
  /\ store \in [Streams -> Fragment]
  /\ proj \in [Streams -> ProjectionRow]
  /\ receipt \in [Streams -> Receipt]
  /\ clear \in [Streams -> {"none", "store_only", "authorized"}]
  /\ gens \in Seq(Generation) /\ Len(gens) <= MaxGens
  /\ auto \in BOOLEAN
  /\ svc \in [Streams -> Fragment]
  /\ dev \in [Streams -> SUBSET Keys]
  /\ gone \in [Streams -> [Keys -> Marking]]
  /\ granted \in Seq(SUBSET (Streams \X Keys)) /\ Len(granted) = Len(gens)
  /\ owed \in [Streams -> SUBSET Keys]

\* However deliveries repeat and overtake each other, each sequence number is
\* written once and the projection's source is the receipt's push (admit_push,
\* note_write); revisions are ordered.
AdmittedOnce ==
  \A s \in Streams :
    /\ proj[s].source = receipt[s].seq
    /\ proj[s].desired <= receipt[s].seq
    /\ proj[s].applied <= proj[s].authorized /\ proj[s].authorized <= proj[s].desired

\* applied_revision is only advanced past a generation that, with all of its
\* request's cohort and everything before it, has settled or been abandoned.
AppliedMeansCrossed ==
  \A s \in Streams, n \in 1 .. Len(gens) :
    gens[n].revisions[s] # 0 /\ gens[n].revisions[s] <= proj[s].applied =>
      \A m \in 1 .. Len(gens) :
        m <= n \/ (gens[n].cohort # 0 /\ gens[m].cohort = gens[n].cohort)
          => gens[m].status \in Crossable

\* When every generation has settled, the service holds exactly the authorised
\* fragments, and a revision is applied once it is authorised.
SettledIsDeployed ==
  (\A n \in 1 .. Len(gens) : gens[n].status = "settled") =>
    \A s \in Streams : /\ svc[s] = Tables(proj[s].document)
                       /\ proj[s].applied = proj[s].authorized

\* A row leaves the device only if the operator had deleted the object it came
\* from when the generation was authorised, or forced the flush: an un-own never
\* retracts, whatever was abandoned or retried before (the marking rules of
\* enqueue_removal, and the collateral guard).
OnlyDeletionsLeaveDevice ==
  [][\A j \in Jobs, s \in Streams, k \in Keys :
       /\ Running(j) /\ ~(\A n \in Carries(j) : gens'[n].status = "running")
       /\ k \in dev[s] /\ k \notin dev'[s]
       => \/ Executing(j).force
          \/ <<s, k>> \in granted[Max(Carries(j))]]_vars

\* Unless a generation was abandoned, or the head shared its job with a later one
\* that may have landed, the collateral guard never blocks the head: the authority
\* frozen in it covers whatever its document drops.
AuthorityIsComplete ==
  (\A n \in 1 .. Len(gens) : gens[n].status # "abandoned") =>
    \A n \in Uncrossed(gens) :
      (\A m \in Uncrossed(gens) \ {n} : m > n /\ gens[m].status \notin Blocked)
        => ~GuardBlocks(gens[n])

\* A scalar unset without a networked replace since is on record as a pending
\* clear of its stream, so that it is not forgotten (_record_pending_clears).
ClearsAreRecorded ==
  \A s \in Streams \ ChainStreams : owed[s] # {} => clear[s] # "none"

=============================================================================
