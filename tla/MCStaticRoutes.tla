--------------------------- MODULE MCStaticRoutes ---------------------------
(***************************************************************************)
(* StaticRoutes for TLC.  One behaviour stays within one scope: the        *)
(* requests, the auto-apply setting, the state it starts from and the      *)
(* budgets it has left.  The run explores the scopes side by side instead  *)
(* of their product.                                                       *)
(***************************************************************************)
EXTENDS StaticRoutes

CONSTANT Scopes   \* the scopes of the instance

VARIABLE scope

Route(rid, key, leaf) == [rid |-> rid, key |-> key, leaf |-> leaf]

Deleted(rid) == [rid |-> rid, triples |-> {}, unverified |-> FALSE]

Put(routes, deleted, mode) == [routes |-> routes, deleted |-> deleted, mode |-> mode]

(* A fresh device. *)
MCFresh == {[tombs |-> <<>>, service |-> <<>>, device |-> <<>>]}

(* A device handed over with one carrier its old job reported done. *)
MCHandoffs ==
    MCFresh \cup
    {[tombs |-> <<[rid |-> 9, key |-> "a", dep |-> d, marking |-> m, job |-> 1]>>,
      service |-> [k \in s |-> FALSE], device |-> [k \in s \cup e |-> FALSE]] :
        d \in {NoKey, "b"}, m \in {"delete_origin", "detach"}, s \in {{}, {"a"}}, e \in {{}, {"a"}, {"b"}}}

(* Payloads over route ids rids and keys: at most n entries. *)
Payloads(rids, keys, leaves, n) ==
    {p \in SUBSET {Route(r, k, l) : r \in rids, k \in keys, l \in leaves} :
        Cardinality(p) <= n /\ RejectPayloadDuplicates(p)}

(* Intake: ids and uncorrelated rows, lineages, store-only and backfill. *)
MCIntakeRequests ==
    {q \in {Put(p, d, m) : p \in Payloads({NoRid, 1, 2}, {"a", "b"}, {FALSE}, 2),
                           d \in {{}, {Deleted(1)}, {Deleted(1), Deleted(2)},
                                  {[rid |-> 1, triples |-> {"a"}, unverified |-> TRUE],
                                   [rid |-> 2, triples |-> {"b"}, unverified |-> TRUE]}},
                           m \in {"push", "store_only", "backfill"}} :
        q.mode = "backfill" => q.deleted = {}}

(* Deletions, un-owns and edits of two correlated routes; the second may   *)
(* take over the first one's key.                                          *)
MCDeletionRequests ==
    {Put(p, d, "push") : p \in {p \in Payloads({1, 2}, {"a", "b"}, {FALSE}, 2) : Route(2, "b", FALSE) \notin p},
                         d \in {{}, {Deleted(1)}}}

(* One route edited between keys, its leaf set and cleared. *)
MCEditRequests ==
    {Put(p, d, m) : p \in Payloads({1}, {"a", "b"}, BOOLEAN, 1), d \in {{}, {Deleted(1)}},
                    m \in {"push", "store_only"}}

Scope(requests, auto, handoffs, push, fault, pass, exit, exits) ==
    [requests |-> requests, auto |-> auto, handoffs |-> handoffs, push |-> push,
     fault |-> fault, pass |-> pass, exit |-> exit, exits |-> exits]

(* Only pushes; deletions and un-owns to the end, without and with the     *)
(* operator's exits; edits and clears to the end; and what an upgrade left.*)
Intake == Scope("intake", FALSE, "fresh", 3, 0, 0, 0, {})
Deletion == Scope("deletion", TRUE, "fresh", 3, 1, 1, 0, {})
Exited == Scope("deletion", TRUE, "fresh", 2, 1, 2, 1, {"retry", "abandon", "force"})
Edit == Scope("edit", TRUE, "fresh", 3, 1, 0, 1, {"retry", "abandon"})
Upgrade == Scope("deletion", TRUE, "handoff", 1, 1, 2, 1, {"retry", "abandon", "force"})

Depth == {Intake, Deletion, Exited, Edit, Upgrade}

(* For liveness: passes enough for every fault and every carrier, and the  *)
(* exit that leaves a head behind; and one that an operator retries.       *)
Settling == Scope("deletion", TRUE, "fresh", 2, 1, 3, 1, {"abandon"})
Retrying == Scope("deletion", TRUE, "fresh", 2, 1, 1, 1, {"retry"})

Explored == Depth \cup {Settling}
Retried == {Retrying}

(* Where no pass is cut off by its bound, every carrier settles.           *)
SettlesInScope == scope = Settling => CarrierSettles

RequestsOf == [intake |-> MCIntakeRequests, deletion |-> MCDeletionRequests, edit |-> MCEditRequests]
AllRequests == UNION Range(RequestsOf)

ScopedInit ==
    /\ scope \in Scopes
    /\ \E h \in IF scope.handoffs = "fresh" THEN MCFresh ELSE MCHandoffs : From(h)
    /\ used = [b \in DOMAIN Bounds |-> Bounds[b] - scope[b]]

ScopedNext ==
    /\ UNCHANGED scope
    /\ \/ Pushes(RequestsOf[scope.requests], {scope.auto})
       \/ Worker
       \/ SweepOneDevice
       \/ ReclaimOneDevice
       \/ "retry" \in scope.exits /\ RetryGeneration
       \/ "abandon" \in scope.exits /\ ReconcileGeneration
       \/ "force" \in scope.exits /\ ActionForceRemoval

ScopedSpec == ScopedInit /\ [][ScopedNext]_<<vars, scope>>

ScopedLiveSpec == ScopedSpec /\ Fairness
=============================================================================
