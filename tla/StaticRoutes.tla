---------------------------- MODULE StaticRoutes ----------------------------
(***************************************************************************)
(* Static-route intent of one device, end to end: the intent PUT and the   *)
(* carriers it leaves (core/static_route_ingestion.py), the generations    *)
(* and jobs that deliver them (core/removal.py, core/generation.py,        *)
(* core/apply.py), the whole-document PUT behind the collateral guard, the *)
(* proof that settles it (core/static_route_plan.py, store/                *)
(* static_route_store.py), and the two drains that pick up a carrier       *)
(* nothing owns (core/tombstone_sweep.py, core/static_route_reclaim.py).   *)
(*                                                                         *)
(* service is NSO's copy of the section, device what the box runs: partial *)
(* functions from key to leaf.  A push, a sweep, a reclaim and a run each  *)
(* hold the device claim throughout, so run # Idle excludes the others.    *)
(***************************************************************************)
EXTENDS RouteMatching, SequencesExt

CONSTANTS
    Requests,   \* bound: the PUTs a pusher may send: [routes, deleted, mode]
    AutoApply,  \* the auto-apply settings a push may find on the device
    Handoffs,   \* bound: the succeeded-owner carriers an upgrade may leave
    MaxPushes,  \* bound on accepted pushes
    MaxFaults,  \* bound on failed sends, reads and crashes
    MaxPasses,  \* bound on sweeper and reclaimer passes that find work
    Exits,      \* the operator exits taken: of retry, abandon and force
    MaxExits    \* bound on operator retries, abandons and force-removals

ASSUME BoundsAssumption ==
    /\ {MaxPushes, MaxFaults, MaxPasses, MaxExits} \subseteq Nat
    /\ AutoApply \subseteq BOOLEAN
    /\ Exits \subseteq {"retry", "abandon", "force"}
    /\ \A q \in Requests : /\ q.mode \in {"push", "store_only", "backfill"}
                           /\ RejectPayloadDuplicates(q.routes)
                           /\ RejectDeletionPayload(q.deleted)

VARIABLES
    rows,      \* static_route_intent: row id -> [rid, key, dep, leaf, pend, stamp]
    tombs,     \* static_route_tombstone: id -> [rid, key, dep, marking, job]
    nextId,    \* the id sequences of both tables
    desired,   \* the stream's desired revision
    fragment,  \* the authorized fragment: its revision, rows and carriers
    chain,     \* the deployment generations, in order
    jobs,      \* job id -> status
    barred,    \* carriers an earlier attempt bars from automatic reissue
    service,   \* the section NSO holds
    device,    \* the routes the device runs
    run,       \* the claim's runner: the step it is at and what it sent
    unowned,   \* history: key -> first generation that must leave it on the device
    used       \* the spent bounds

vars == <<rows, tombs, nextId, desired, fragment, chain, jobs, barred, service, device,
          run, unowned, used>>

store == <<rows, tombs, nextId, desired, fragment, unowned>>

Idle == [pc |-> "idle"]

Spend(what) == used' = [used EXCEPT ![what] = @ + 1]

Bounds == [push |-> MaxPushes, fault |-> MaxFaults, pass |-> MaxPasses, exit |-> MaxExits]

Affordable(what) == used[what] < Bounds[what]

-----------------------------------------------------------------------------
(* Keys.                                                                   *)

KeysOf(r) == {r.key, r.dep} \ {NoKey}

ReplacementOpen(r) == r.dep # NoKey /\ r.dep # r.key

SrFenceOpen(rs) == \A i \in DOMAIN rs : rs[i].rid # NoRid

Rendered(rs) == {rs[i].key : i \in DOMAIN rs}

Predecessors(rs) == {rs[i].dep : i \in {i \in DOMAIN rs : ReplacementOpen(rs[i])}}

Claims(ts) == UNION {KeysOf(ts[t]) : t \in DOMAIN ts}

-----------------------------------------------------------------------------
(* Generations.  A generation freezes the fragment it deploys and, for a   *)
(* removal, the keys it may drop and the carriers it settles.              *)

ClassifyApplyPlan(g) == Predecessors(g.rows) \cup Claims(g.tombs)

(* A clear a networked removal delivers: authorized, still unset, and not  *)
(* waiting for a replacement's Apply.                                      *)
CandidateClears(rs) ==
    {i \in DOMAIN rs : rs[i].pend = "authorized" /\ ~ReplacementOpen(rs[i]) /\ ~rs[i].leaf}

(* Supersession is by a rendered key only. *)
ClassifyRemovalPlan(rs, carriers, removed, suppressed) ==
    [authorized |-> (removed \cup Claims(carriers)) \ Rendered(rs),
     clears |-> IF suppressed THEN {} ELSE CandidateClears(rs)]

(* A removal generation over a fragment, for the selected carriers. *)
Removal(frag, mode, sel, removed, suppressed, rev, job) ==
    LET plan == ClassifyRemovalPlan(frag.rows, Restrict(frag.tombs, sel), removed, suppressed)
    IN  [type |-> "removal", mode |-> mode, rows |-> frag.rows, tombs |-> frag.tombs, rev |-> rev,
         sel |-> sel, removed |-> removed, authorized |-> plan.authorized, clears |-> plan.clears,
         status |-> "pending", job |-> job]

Apply(frag, rev, job) ==
    [type |-> "apply", mode |-> "networked", rows |-> frag.rows, tombs |-> frag.tombs, rev |-> rev,
     sel |-> {}, removed |-> {}, authorized |-> {}, clears |-> {},
     status |-> "pending", job |-> job]

Crossable == {"settled", "abandoned"}

(* The generation no later one may cross. *)
Heads == {i \in DOMAIN chain : /\ chain[i].status \notin Crossable
                               /\ \A j \in 1..(i - 1) : chain[j].status \in Crossable}

Carried(j) == {i \in DOMAIN chain : chain[i].job = j}

Executing(j) == chain[Max(Carried(j))]

SetJob(ch, j, status) ==
    [i \in DOMAIN ch |-> IF ch[i].job = j THEN [ch[i] EXCEPT !.status = status] ELSE ch[i]]

(* The fragment a reissue composes: a discharged carrier is pruned. *)
RefreshConsumedCarriers(frag, live) ==
    [frag EXCEPT !.tombs = Restrict(@, DOMAIN @ \cap DOMAIN live)]


-----------------------------------------------------------------------------
(* The intent PUT.                                                         *)

Marking(part, i) == IF i \in part.genuine THEN "delete_origin" ELSE "detach"

(* The rows after a push: matched rows are rewritten in place, the rest of *)
(* the payload becomes new rows, what nothing claimed is deleted.          *)
Written(q, m) ==
    LET order == SetToSeq(q.routes \ DOMAIN m)
        row(e) == IF e \in DOMAIN m THEN m[e]
                  ELSE nextId.row + (CHOOSE n \in DOMAIN order : order[n] = e) - 1
        old(e) == rows[m[e]]
    IN  [i \in {row(e) : e \in q.routes} |->
            LET e == CHOOSE e \in q.routes : row(e) = i
            IN  IF e \in DOMAIN m
                THEN [rid |-> Claimant(e, old(e).rid), key |-> e.key, dep |-> old(e).dep, leaf |-> e.leaf,
                      pend |-> UpdatePendingClear(old(e).pend, old(e).leaf, e.leaf, q.mode = "store_only"),
                      stamp |-> desired + 1]
                ELSE [rid |-> e.rid, key |-> e.key, dep |-> NoKey, leaf |-> e.leaf,
                      pend |-> "none", stamp |-> desired + 1]]

(* A carrier for every deleted row, on a fence-open device and never for a *)
(* store-only push.                                                        *)
WriteTombstones(q, removed, part) ==
    LET order == SetToSortSeq(DOMAIN removed, <)
    IN  IF q.mode = "store_only" \/ ~SrFenceOpen(rows) THEN <<>>
        ELSE [t \in nextId.tomb .. (nextId.tomb + Len(order) - 1) |->
                LET i == order[t - nextId.tomb + 1]
                IN  [rid |-> removed[i].rid, key |-> removed[i].key, dep |-> removed[i].dep,
                     marking |-> Marking(part, i), job |-> 0]]

(* One removal generation per marking, deletions first; the clear rides    *)
(* the first and is deferred by any un-own; a pure clear has one of its    *)
(* own.  first is the job id of the first.                                 *)
EnqueueStaticRouteRemovals(frag, removed, part, carriers, cleared, first) ==
    LET under(m) == {i \in DOMAIN removed : Marking(part, i) = m}
        present == SelectSeq(<<"delete_origin", "detach">>, LAMBDA m : under(m) # {})
        gen(n) == LET m == present[n] IN
            Removal(frag, IF m = "detach" THEN "detach" ELSE "networked",
                    {t \in DOMAIN carriers : carriers[t].marking = m},
                    {removed[i].key : i \in under(m)},
                    m = "detach" \/ (n = 1 /\ cleared /\ under("detach") # {}),
                    frag.rev, first + n - 1)
    IN  CASE present # <<>> -> [n \in 1..Len(present) |-> gen(n)]
          [] present = <<>> /\ cleared -> <<Removal(frag, "networked", {}, {}, FALSE, frag.rev, first)>>
          [] OTHER -> <<>>

(* The carrier of an apply: dedicated when the request made a removal too, *)
(* else the queued winner of the lane if it carries the generation before  *)
(* this one, else a fresh lane job; a generation the winner cannot take    *)
(* waits unattached.                                                       *)
AdmitApplyGeneration(ch, js, frag, cohort) ==
    LET winners == {j \in DOMAIN js : js[j] = [kind |-> "lane", status |-> "queued"]}
        next == Len(js) + 1
        fresh == cohort \/ winners = {}
        w == CHOOSE j \in winners : TRUE
        job == CASE fresh -> next
                 [] ~fresh /\ ch[Len(ch)].job = w -> w
                 [] OTHER -> 0
    IN  [chain |-> Append(ch, Apply(frag, frag.rev, job)),
         jobs |-> IF fresh THEN Append(js, [kind |-> IF cohort THEN "apply" ELSE "lane", status |-> "queued"])
                  ELSE js]

(* The keys this push un-owned, or took back. *)
TrackUnowned(after, removed, part, live) ==
    LET let_go == UNION {KeysOf(removed[i]) : i \in {i \in DOMAIN removed : Marking(part, i) = "detach"}}
        deleted == UNION {KeysOf(live[t]) : t \in {t \in DOMAIN live : live[t].marking = "delete_origin"}}
        held == UNION {KeysOf(after[i]) : i \in DOMAIN after} \cup deleted
    IN  [k \in (DOMAIN unowned \cup let_go) \ held |->
            IF k \in let_go THEN Len(chain) + 1 ELSE unowned[k]]

ApplyStaticRouteIntent(q, auto) ==
    LET m == MatchPayloadToRows(q.routes, rows)
        removed == Restrict(rows, DOMAIN rows \ Range(m))
        part == ClassifyDeletions(q.deleted, removed)
        carriers == WriteTombstones(q, removed, part)
        after == Written(q, m)
        cleared == \E e \in DOMAIN m : SrIsCleared(rows[m[e]].leaf, e.leaf)
        frag == [rev |-> desired + 1, rows |-> after, tombs |-> tombs @@ carriers]
        gens == EnqueueStaticRouteRemovals(frag, removed, part, carriers, cleared, Len(jobs) + 1)
        js == jobs \o [n \in DOMAIN gens |-> [kind |-> "removal", status |-> "queued"]]
        applied == AdmitApplyGeneration(chain \o gens, js, frag, gens # <<>>)
        applies == auto /\ q.routes # {}
        owner(t) == Len(jobs) + (CHOOSE n \in DOMAIN gens : t \in gens[n].sel)
    IN  /\ run = Idle /\ Affordable("push")
        /\ q.mode \in {"push", "store_only"}
        /\ part.executed # {} => q.mode = "store_only" \/ SrFenceOpen(rows)
        /\ rows' = after
        /\ tombs' = tombs @@ [t \in DOMAIN carriers |-> [carriers[t] EXCEPT !.job = owner(t)]]
        /\ nextId' = [row |-> nextId.row + Cardinality(q.routes \ DOMAIN m),
                      tomb |-> nextId.tomb + Cardinality(DOMAIN carriers)]
        /\ desired' = desired + 1
        /\ Spend("push")
        /\ \/ /\ q.mode = "store_only"
              /\ UNCHANGED <<fragment, chain, jobs, unowned>>
           \/ /\ q.mode = "push"
              /\ fragment' = IF gens # <<>> \/ applies THEN frag ELSE fragment
              /\ chain' = IF applies THEN applied.chain ELSE chain \o gens
              /\ jobs' = IF applies THEN applied.jobs ELSE js
              /\ unowned' = TrackUnowned(after, removed, part, tombs @@ carriers)
        /\ UNCHANGED <<barred, service, device, run>>

(* Backfill: adopt ids, prune the uncorrelated rows the payload omits, and *)
(* touch nothing else.                                                     *)
ApplyBackfillOnly(q) ==
    LET m == MatchPayloadToRows(q.routes, rows)
        pruned == {i \in DOMAIN rows \ Range(m) : rows[i].rid = NoRid}
        adopted(i) == LET e == CHOOSE e \in DOMAIN m : m[e] = i IN Claimant(e, rows[i].rid)
    IN  /\ run = Idle /\ Affordable("push")
        /\ q.mode = "backfill" /\ q.deleted = {}
        /\ \A e \in DOMAIN m : e.rid # NoRid \/ rows[m[e]].rid # NoRid
        /\ rows' = [i \in DOMAIN rows \ pruned |->
                        IF i \in Range(m) THEN [rows[i] EXCEPT !.rid = adopted(i)] ELSE rows[i]]
        /\ desired' = desired + 1
        /\ Spend("push")
        /\ UNCHANGED <<tombs, nextId, fragment, chain, jobs, barred, service, device, run, unowned>>

-----------------------------------------------------------------------------
(* The worker: start the chain's head, send its document, settle what the  *)
(* send proved.                                                            *)

(* A fault is taken from the budget. *)
Fault(happened) ==
    IF happened THEN Affordable("fault") /\ Spend("fault") ELSE UNCHANGED used

Finish(status) ==
    /\ jobs' = [jobs EXCEPT ![run.job].status = status]
    /\ chain' = SetJob(chain, run.job, IF status = "succeeded" THEN "settled" ELSE "failed")
    /\ run' = Idle

Requeue ==
    /\ jobs' = [jobs EXCEPT ![run.job].status = "queued"]
    /\ chain' = SetJob(chain, run.job, "pending")
    /\ run' = Idle

(* A worker picks up the head's job; a head that lost its carrier to       *)
(* noncontiguous coalescing gets one first.                                *)
StartJob ==
    /\ run = Idle
    /\ \E h \in Heads :
        LET job == IF chain[h].job = 0 THEN Len(jobs) + 1 ELSE chain[h].job
            ch == [chain EXCEPT ![h].job = job]
            js == IF chain[h].job = 0 THEN Append(jobs, [kind |-> "apply", status |-> "queued"]) ELSE jobs
        IN  /\ chain[h].status = "pending"
            /\ jobs' = [js EXCEPT ![job].status = "running"]
            /\ chain' = SetJob(ch, job, "running")
            /\ run' = [pc |-> "started", job |-> job]
    /\ UNCHANGED <<store, barred, service, device, used>>

Gen == Executing(run.job)

Superseded(g) == g.type = "removal" /\ g.mode # "force" /\ g.authorized = {} /\ g.clears = {}

(* The send is refused unless the job owns every carrier it selected. *)
OwnsCarriers(g) == \A t \in g.sel : t \in DOMAIN tombs /\ tombs[t].job = run.job

(* The live entries an unconsumed carrier claims and nothing renders or    *)
(* removes.                                                                *)
Retained(g) ==
    IF g.mode = "force" THEN {}
    ELSE (Claims(g.tombs) \ (Rendered(g.rows) \cup g.authorized)) \cap DOMAIN service

(* What the accepted rows render; on its own, a body that retains nothing  *)
(* (a mutant).                                                             *)
EncodeStaticRoute(g) ==
    [k \in Rendered(g.rows) |-> \E i \in DOMAIN g.rows : g.rows[i].key = k /\ g.rows[i].leaf]

(* Retained entries are kept verbatim; a rendered row wins. *)
OverlayRetainedRoutes(body, retained) == body @@ Restrict(service, retained)

BuildDeviceContainers(g) == OverlayRetainedRoutes(EncodeStaticRoute(g), Retained(g))

GuardAllowed(g) ==
    g.removed \cup (IF g.type = "removal" THEN g.authorized ELSE ClassifyApplyPlan(g))

Orphans(g) == DOMAIN service \ (DOMAIN BuildDeviceContainers(g) \cup GuardAllowed(g))

EvaluateCollateralGuard(g) == g.mode # "networked" \/ Orphans(g) = {}

(* NSO, external: the section becomes the body; a networked commit takes   *)
(* dropped keys off the device and writes new or changed ones, except for  *)
(* the ones that fail to take.                                             *)
Commit(body, networked, failing) ==
    LET dropped == DOMAIN service \ DOMAIN body
        changed == {k \in DOMAIN body : k \notin DOMAIN service \/ service[k] # body[k]}
        stays == DOMAIN device \ (dropped \ failing)
    IN  /\ service' = body
        /\ device' = IF ~networked THEN device
                     ELSE [k \in stays \cup (changed \ failing) |->
                            IF k \in changed \ failing THEN body[k] ELSE device[k]]

CanSend == run.pc = "started" /\ ~Superseded(Gen) /\ OwnsCarriers(Gen)

(* Every authorized key is rendered again: nothing is sent. *)
SkipSuperseded ==
    /\ run # Idle /\ run.pc = "started" /\ Superseded(Gen)
    /\ run' = [pc |-> "superseded", job |-> run.job]
    /\ UNCHANGED <<store, chain, jobs, barred, service, device, used>>

(* An uncertified snapshot, or an ordinary rejection by NSO. *)
SendRejected ==
    /\ run # Idle /\ CanSend
    /\ Fault(TRUE)
    /\ Finish("failed")
    /\ UNCHANGED <<store, barred, service, device>>

SendBlocked ==
    /\ run # Idle /\ CanSend
    /\ ~EvaluateCollateralGuard(Gen)
    /\ Finish("failed")
    /\ UNCHANGED <<store, barred, service, device, used>>

(* The commit is acknowledged; the post-commit verification is conclusive, *)
(* or not.                                                                 *)
SendCommitted ==
    /\ run # Idle /\ CanSend
    /\ EvaluateCollateralGuard(Gen)
    /\ \E verified \in BOOLEAN :
       \E failing \in {{}} \cup {{k} : k \in DOMAIN service \cup Rendered(Gen.rows)} :
        /\ Fault(~verified \/ failing # {})
        /\ Commit(BuildDeviceContainers(Gen), Gen.mode # "detach", failing)
        /\ run' = [pc |-> "sent", job |-> run.job, sent |-> DOMAIN BuildDeviceContainers(Gen),
                   verified |-> verified]
    /\ barred' = barred \cup Gen.sel
    /\ UNCHANGED <<store, chain, jobs>>

(* The answer is lost, a verification refuses it, or the worker dies with  *)
(* its attempt prepared: the PUT landed or it did not.                     *)
SendLost ==
    /\ run # Idle /\ CanSend
    /\ EvaluateCollateralGuard(Gen)
    /\ Fault(TRUE)
    /\ \/ Commit(BuildDeviceContainers(Gen), Gen.mode # "detach", {})
       \/ UNCHANGED <<service, device>>
    /\ barred' = barred \cup Gen.sel
    /\ Finish("failed")
    /\ UNCHANGED store

(* A claim revoked with no attempt prepared: a removal is queued again, an *)
(* apply fails.                                                            *)
RevokeStaleClaim ==
    /\ run # Idle /\ run.pc \in {"started", "superseded"}
    /\ \/ Fault(TRUE)
       \/ run.pc = "started" /\ ~Superseded(Gen) /\ ~OwnsCarriers(Gen) /\ Fault(FALSE)
    /\ IF Gen.type = "removal" THEN Requeue ELSE Finish("failed")
    /\ UNCHANGED <<store, barred, service, device>>

(* A claim revoked after the commit was acknowledged. *)
DisposeExecutionAttempt ==
    /\ run # Idle /\ run.pc = "sent"
    /\ Fault(TRUE)
    /\ Finish("failed")
    /\ UNCHANGED <<store, barred, service, device>>

-----------------------------------------------------------------------------
(* Settling an apply: per row, the commit's verdict, the row's own         *)
(* evidence and the residue of the predecessors it replaced.               *)

SameIntent(r, g) == r.rid = g.rid /\ r.key = g.key /\ r.leaf = g.leaf /\ r.stamp = g.stamp

(* A live row may be stamped by a document only while the document is the  *)
(* authorized revision and the row is the one it carried.                  *)
MatchingBookkeepingRow(g, i) ==
    /\ i \in DOMAIN rows
    /\ fragment.rev = g.rev
    /\ SameIntent(rows[i], g.rows[i])

(* The CAS by row id: only from the deployed key the document saw. *)
CasDeployedKey(g, i) == rows[i].dep = g.rows[i].dep

(* No predecessor is looked for (a mutant). *)
ConsumedNothing(g) == {}

StaticRouteConsumedKeys(g) == Predecessors(g.rows) \ run.sent

(* As SettleProvenRow, the key's presence taken for the leaf's absence (a  *)
(* mutant).                                                                *)
SettleByKey(g, i, ok) ==
    IF ~CasDeployedKey(g, i) THEN rows[i]
    ELSE [rows[i] EXCEPT !.dep = g.rows[i].key, !.pend = "none"]

(* A proven row's deployed key moves, and its clear is consumed when the   *)
(* device read shows the leaf gone.                                        *)
SettleProvenRow(g, i, ok) ==
    LET r == rows[i]
        neutral == ok /\ r.key \in DOMAIN device /\ ~device[r.key]
    IN  IF ~CasDeployedKey(g, i) THEN r
        ELSE [r EXCEPT !.dep = g.rows[i].key,
                       !.pend = IF g.rows[i].pend # "none" /\ neutral THEN "none" ELSE @]

(* The residue verdict: none when nothing was replaced. *)
StaticRouteProof(g, ok) ==
    CASE StaticRouteConsumedKeys(g) = {} -> "none"
      [] StaticRouteConsumedKeys(g) # {} /\ ~ok -> "error"
      [] OTHER -> IF StaticRouteConsumedKeys(g) \cap DOMAIN device # {} THEN "found" ELSE "clean"

(* ok: the residue and field read answered; seen: the reader compare did. *)
SettleStaticRoutes ==
    /\ run # Idle /\ run.pc = "sent" /\ Gen.type = "apply"
    /\ \E ok, seen \in BOOLEAN :
        LET g == Gen
            residue == StaticRouteProof(g, ok)
            missing == {i \in DOMAIN g.rows : seen /\ g.rows[i].key \notin DOMAIN device}
            proven(i) == /\ run.verified /\ seen /\ i \in DOMAIN g.rows \ missing
                         /\ residue \in {"none", "clean"} /\ MatchingBookkeepingRow(g, i)
        IN  /\ Fault(~ok \/ ~seen)
            /\ rows' = [i \in DOMAIN rows |-> IF proven(i) THEN SettleProvenRow(g, i, ok) ELSE rows[i]]
            /\ Finish(IF residue = "found" \/ missing # {} THEN "failed" ELSE "succeeded")
    /\ UNCHANGED <<tombs, nextId, desired, fragment, unowned, barred, service, device>>

-----------------------------------------------------------------------------
(* Settling a removal: one transaction proves, consumes and ends the job.  *)
(* blind names the reads that did not answer.                              *)

ServiceClean(g, blind) == "service" \notin blind /\ g.authorized \cap DOMAIN service = {}

SrNetworkedProof(g, blind) ==
    /\ run.verified
    /\ g.authorized \ run.sent # {} \/ g.clears # {} => "device" \notin blind
    /\ (g.authorized \ run.sent) \cap DOMAIN device = {}
    /\ \A i \in g.clears : g.rows[i].key \in DOMAIN device /\ ~device[g.rows[i].key]
    /\ g.authorized = {} \/ ServiceClean(g, blind)

SrDetachProof(g, blind) == run.verified /\ ServiceClean(g, blind) /\ "sync" \notin blind

(* Every carrier of the device (a mutant). *)
SrConsumeAll(g) ==
    /\ tombs' = <<>>
    /\ rows' = rows

(* Only the carriers snapshotted before the send, and the leaves it        *)
(* delivered to a row that still has the key.                              *)
SrConsume(g) ==
    /\ tombs' = Restrict(tombs, DOMAIN tombs \ g.sel)
    /\ rows' = [i \in DOMAIN rows |->
                    IF i \in g.clears /\ rows[i].key = g.rows[i].key
                    THEN [rows[i] EXCEPT !.pend = "none"] ELSE rows[i]]

OwnsCarrier(g) == g.sel # {} \/ g.clears # {} \/ (g.authorized # {} /\ g.rev # 0)

(* An unproven removal is as good as a proven one (a mutant). *)
UnprovenSucceeds(g, proven, residue) == ~residue

(* A removal that leaves a carrier unconsumed must not end succeeded. *)
RemovalSucceeds(g, proven, residue) == ~residue /\ (proven \/ ~OwnsCarrier(g))

FinalizeStaticRouteRemoval ==
    /\ run # Idle /\ run.pc \in {"sent", "superseded"}
    /\ Gen.type = "removal" /\ Gen.mode # "force"
    /\ \E blind \in {{}, {"device"}, {"service"}, {"sync"}} :
        LET g == Gen
            proven == CASE run.pc = "superseded" -> TRUE
                        [] run.pc = "sent" /\ g.mode = "detach" -> SrDetachProof(g, blind)
                        [] OTHER -> SrNetworkedProof(g, blind)
            residue == /\ run.pc = "sent" /\ g.mode = "networked" /\ "device" \notin blind
                       /\ (g.authorized \ run.sent) \cap DOMAIN device # {}
        IN  /\ run.pc = "superseded" => blind = {}
            /\ Fault(blind # {})
            /\ IF proven /\ ~residue THEN SrConsume(g) ELSE UNCHANGED <<rows, tombs>>
            /\ Finish(IF RemovalSucceeds(g, proven, residue) THEN "succeeded" ELSE "failed")
    /\ UNCHANGED <<nextId, desired, fragment, unowned, barred, service, device>>

(* A force-removal owns no carrier: its tail only records. *)
RunForceRemoval ==
    /\ run # Idle /\ run.pc = "sent" /\ Gen.mode = "force"
    /\ Finish("succeeded")
    /\ UNCHANGED <<store, barred, service, device, used>>

-----------------------------------------------------------------------------
(* The drains and the operator's exits.                                    *)

(* One generation and one job per carrier, at its own marking, over the    *)
(* fragment with discharged carriers pruned.                               *)
ReissueRemovalJobs(ts, live) ==
    LET frag == RefreshConsumedCarriers(fragment, live)
        order == SetToSortSeq(ts, <)
        gen(n) == LET t == order[n] IN
            Removal(frag, IF live[t].marking = "detach" THEN "detach" ELSE "networked",
                    {t}, KeysOf(live[t]), live[t].marking = "detach", 0, Len(jobs) + n)
    IN  /\ fragment' = IF ts = {} THEN fragment ELSE frag
        /\ chain' = chain \o [n \in DOMAIN order |-> gen(n)]
        /\ jobs' = jobs \o [n \in DOMAIN order |-> [kind |-> "removal", status |-> "queued"]]
        /\ tombs' = [t \in DOMAIN live |->
                        IF t \in ts THEN [live[t] EXCEPT !.job = Len(jobs) + (CHOOSE n \in DOMAIN order : order[n] = t)]
                        ELSE live[t]]

OwnerStatus(t) == IF tombs[t].job = 0 THEN "none" ELSE jobs[tombs[t].job].status

(* A failed owner is an owner (a mutant). *)
SweepUnowned == {t \in DOMAIN tombs : OwnerStatus(t) = "none"}

Sweepable == {t \in DOMAIN tombs : OwnerStatus(t) \in {"none", "failed"}}

SweepOneDevice ==
    /\ run = Idle /\ Affordable("pass") /\ Spend("pass")
    /\ Sweepable \ barred # {}
    /\ ReissueRemovalJobs(Sweepable \ barred, tombs)
    /\ UNCHANGED <<rows, nextId, desired, unowned, barred, service, device, run>>

(* A succeeded owner's carrier is proven by the service, and by the device *)
(* for a deletion or by a sync-from for an un-own.                         *)
ReclaimProven(t, blind) ==
    /\ "service" \notin blind /\ KeysOf(tombs[t]) \cap DOMAIN service = {}
    /\ IF tombs[t].marking = "detach" THEN "sync" \notin blind
       ELSE "device" \notin blind /\ KeysOf(tombs[t]) \cap DOMAIN device = {}

ReclaimOneDevice ==
    LET due == {t \in DOMAIN tombs : OwnerStatus(t) = "succeeded"}
    IN  /\ run = Idle /\ Affordable("pass") /\ due # {}
        /\ \E blind \in {{}, {"device"}, {"service"}, {"sync"}} :
            LET proven == {t \in due : ReclaimProven(t, blind)}
            IN  /\ blind # {} => Affordable("fault")
                /\ used' = [used EXCEPT !.pass = @ + 1, !.fault = @ + (IF blind = {} THEN 0 ELSE 1)]
                /\ ReissueRemovalJobs(due \ (proven \cup barred), Restrict(tombs, DOMAIN tombs \ proven))
        /\ UNCHANGED <<rows, nextId, desired, unowned, barred, service, device, run>>

(* The same document in a new job; the carriers its last job held, or that *)
(* nothing holds, move with it.                                            *)
RetryGeneration ==
    /\ "retry" \in Exits /\ Affordable("exit") /\ Spend("exit")
    /\ \E h \in Heads :
        /\ chain[h].status = "failed"
        /\ chain' = [chain EXCEPT ![h].status = "pending", ![h].job = Len(jobs) + 1]
        /\ jobs' = Append(jobs, [kind |-> chain[h].type, status |-> "queued"])
        /\ tombs' = [t \in DOMAIN tombs |->
                        IF t \in chain[h].sel /\ tombs[t].job \in {chain[h].job, 0}
                        THEN [tombs[t] EXCEPT !.job = Len(jobs) + 1] ELSE tombs[t]]
    /\ UNCHANGED <<rows, nextId, desired, fragment, unowned, barred, service, device, run>>

ReconcileGeneration ==
    /\ "abandon" \in Exits /\ Affordable("exit") /\ Spend("exit")
    /\ \E h \in Heads : chain[h].status = "failed" /\ chain' = [chain EXCEPT ![h].status = "abandoned"]
    /\ UNCHANGED <<store, jobs, barred, service, device, run>>

(* The operator flushes what the guard blocked: the authorized rows alone. *)
ActionForceRemoval ==
    /\ "force" \in Exits /\ Affordable("exit") /\ Spend("exit")
    /\ fragment.rev # 0
    /\ LET frag == RefreshConsumedCarriers(fragment, tombs)
       IN  /\ fragment' = frag
           /\ chain' = Append(chain, Removal(frag, "force", {}, {}, TRUE, 0, Len(jobs) + 1))
    /\ jobs' = Append(jobs, [kind |-> "removal", status |-> "queued"])
    /\ UNCHANGED <<rows, tombs, nextId, desired, unowned, barred, service, device, run>>

-----------------------------------------------------------------------------
(* A fresh device, or one an upgrade hands over: carriers whose job        *)
(* succeeded before anything proved it.                                    *)
From(h) ==
    /\ rows = <<>>
    /\ tombs = h.tombs
    /\ nextId = [row |-> 1, tomb |-> Cardinality(DOMAIN h.tombs) + 1]
    /\ desired = 1
    /\ fragment = [rev |-> IF h.tombs = <<>> THEN 0 ELSE 1, rows |-> <<>>, tombs |-> h.tombs]
    /\ chain = <<>>
    /\ jobs = IF h.tombs = <<>> THEN <<>> ELSE <<[kind |-> "removal", status |-> "succeeded"]>>
    /\ barred = {}
    /\ service = h.service
    /\ device = h.device
    /\ run = Idle
    /\ unowned = <<>>

Init ==
    /\ \E h \in Handoffs : From(h)
    /\ used = [push |-> 0, fault |-> 0, pass |-> 0, exit |-> 0]

Worker ==
    \/ StartJob
    \/ SkipSuperseded
    \/ SendRejected
    \/ SendBlocked
    \/ SendCommitted
    \/ SendLost
    \/ RevokeStaleClaim
    \/ DisposeExecutionAttempt
    \/ SettleStaticRoutes
    \/ FinalizeStaticRouteRemoval
    \/ RunForceRemoval

Pushes(requests, settings) ==
    \E q \in requests : \/ \E auto \in settings : ApplyStaticRouteIntent(q, auto)
                         \/ ApplyBackfillOnly(q)

Next ==
    \/ Pushes(Requests, AutoApply)
    \/ Worker
    \/ SweepOneDevice
    \/ ReclaimOneDevice
    \/ RetryGeneration
    \/ ReconcileGeneration
    \/ ActionForceRemoval

Spec == Init /\ [][Next]_vars

(* Workers poll for queued jobs and reap stale claims; the sweeper is a    *)
(* scheduled job.  Pushers and operators promise nothing.                  *)
Fairness == WF_vars(Worker) /\ WF_vars(SweepOneDevice)

-----------------------------------------------------------------------------
(* Properties.                                                             *)

(* Rows, carriers, generations, jobs and the runner keep their shapes, and *)
(* every reference from one to another resolves.                           *)
TypeOK ==
    /\ \A i \in DOMAIN rows : i < nextId.row /\ rows[i].pend \in {"none", "authorized", "store_only"}
    /\ \A t \in DOMAIN tombs : /\ t < nextId.tomb
                               /\ tombs[t].marking \in {"delete_origin", "detach"}
                               /\ tombs[t].job \in DOMAIN jobs
    /\ \A n \in DOMAIN chain : /\ chain[n].status \in {"pending", "running", "settled", "failed", "abandoned"}
                               /\ chain[n].job \in DOMAIN jobs \cup {0}
                               /\ chain[n].sel \subseteq DOMAIN chain[n].tombs
    /\ \A j \in DOMAIN jobs : jobs[j].status \in {"queued", "running", "succeeded", "failed"}
    /\ run = Idle \/ (run.job \in DOMAIN jobs /\ jobs[run.job].status = "running")

(* Whatever pushes a device receives, two of its intent rows never share a *)
(* triple or a route id: the deferred unique constraints of                *)
(* static_route_intent hold at every commit, so no push answers 500.       *)
UniqueIdentity ==
    \A i, j \in DOMAIN rows : i # j =>
        rows[i].key # rows[j].key /\ (rows[i].rid = NoRid \/ rows[i].rid # rows[j].rid)

(* A deletion's carrier is discharged only when none of its keys is left   *)
(* behind: off the service, and off the device too for a genuine deletion, *)
(* unless the authorized rows, or the document that discharged it, render  *)
(* the key again.                                                          *)
DischargedIsGone ==
    [][\A t \in DOMAIN tombs \ DOMAIN tombs' :
        LET again == Rendered(fragment.rows) \cup
                     (IF run = Idle THEN {} ELSE Rendered(Gen.rows))
            left == KeysOf(tombs[t]) \ again
        IN  /\ left \cap DOMAIN service = {}
            /\ tombs[t].marking = "delete_origin" => left \cap DOMAIN device = {}]_vars

(* A route the operator un-owned is never taken off the device by a        *)
(* generation created with or after the un-own, its own detach, another    *)
(* push's removal, an apply or a reissue; only a force-removal may.        *)
UnownedStays ==
    [][\A k \in DOMAIN unowned :
        k \in DOMAIN device \ DOMAIN device' =>
            Max(Carried(run.job)) < unowned[k] \/ Gen.mode = "force"]_vars

(* No carrier is owned by a job that ended succeeded, save the ones an     *)
(* upgrade handed over: the sweeper would never look at it again.          *)
CarrierNotStranded ==
    \A t \in DOMAIN tombs : OwnerStatus(t) = "succeeded" => Carried(tombs[t].job) = {}

(* An edited route's deployed key moves to its new triple only once the    *)
(* old one is off the service and off the device, or was re-asserted by    *)
(* the same document: afterwards nothing remembers the old triple.         *)
ReplacementCloses ==
    [][\A i \in DOMAIN rows \cap DOMAIN rows' :
        rows[i].dep # NoKey /\ rows'[i].dep # rows[i].dep =>
            rows[i].dep \in run.sent \/ rows[i].dep \notin DOMAIN service \cup DOMAIN device]_vars

(* A cleared leaf is forgotten only when the operator set it again or the  *)
(* device no longer has it.                                                *)
ClearIsProven ==
    [][\A i \in DOMAIN rows \cap DOMAIN rows' :
        rows[i].pend # "none" /\ rows'[i].pend = "none" =>
            rows'[i].leaf \/ (rows[i].key \in DOMAIN device /\ ~device[rows[i].key])]_vars

(* Every deletion and un-own is in the end discharged, or its device stops *)
(* at a failed head that an operator has to retry or abandon, or its       *)
(* outcome is one that no automatic reissue may repeat (sweep_one_device). *)
CarrierSettles ==
    <>[](\A t \in DOMAIN tombs : t \in barred \/ \E h \in Heads : chain[h].status = "failed")

(* A retried generation gets somewhere: a pending head is eventually       *)
(* settled or blocked again.                                               *)
RetryEnds ==
    \A n \in 1..(2 * MaxPushes) :
        (n \in Heads /\ chain[n].status = "pending")
            ~> (n \in DOMAIN chain /\ chain[n].status \in {"settled", "failed", "abandoned"})

=============================================================================
