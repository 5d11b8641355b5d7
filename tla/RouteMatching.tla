--------------------------- MODULE RouteMatching ---------------------------
(***************************************************************************)
(* The pure half of static-route ingestion: how the entries of an intent   *)
(* PUT are paired with the stored rows (core/static_route_ingestion.py),   *)
(* how the deletions it names are partitioned over the rows it removes     *)
(* (core/deleted_routes.py), and what a cleared leaf leaves on a row       *)
(* (core/static_route_plan.py).                                            *)
(*                                                                         *)
(* A (vrf, prefix, next_hop) triple is one key.  A payload is a set of     *)
(* entries: its triples and route ids are distinct, so no step of the      *)
(* matching depends on their order.  One nullable leaf stands for the six  *)
(* fields an operator can clear; leaf says whether the renderer emits it.  *)
(***************************************************************************)
EXTENDS Integers, FiniteSets, Functions

NoRid == 0

NoKey == "none"

(* No route id, and no triple, stands twice in a payload. *)
RejectPayloadDuplicates(routes) ==
    \A e, f \in routes : e # f => e.key # f.key /\ (e.rid = NoRid \/ e.rid # f.rid)

(* One record per deleted route id. *)
RejectDeletionPayload(records) == \A r, s \in records : r.rid = s.rid => r = s

(* An id match that also asks for the triple (a mutant). *)
ByIdInPlace(e, rows) == {i \in DOMAIN rows : e.rid # NoRid /\ rows[i].rid = e.rid /\ rows[i].key = e.key}

(* The rows that answer to an entry's route id. *)
ById(e, rows) == {i \in DOMAIN rows : e.rid # NoRid /\ rows[i].rid = e.rid}

(* The rows an entry may adopt by its triple: one side lacks a route id,   *)
(* and no entry owns the row by id.                                        *)
ByTriple(e, rows, claimed) ==
    {i \in DOMAIN rows \ claimed :
        /\ rows[i].key = e.key
        /\ e.rid = NoRid \/ rows[i].rid = NoRid}

(* Pair entries with rows: every route id first, then the triples. *)
MatchPayloadToRows(routes, rows) ==
    LET owned == {e \in routes : ById(e, rows) # {}}
        claimed == UNION {ById(e, rows) : e \in owned}
        adopts == {e \in routes \ owned : ByTriple(e, rows, claimed) # {}}
    IN  [e \in owned \cup adopts |->
            CHOOSE i \in (IF e \in owned THEN ById(e, rows) ELSE ByTriple(e, rows, claimed)) : TRUE]

(* The route id a row has after an entry is written to it. *)
Claimant(e, rid) == IF e.rid # NoRid THEN e.rid ELSE rid

-----------------------------------------------------------------------------
(* Deletion records: a route id, the triples it may hold here, and whether *)
(* the pusher could verify them.                                           *)

(* The lineage ids grouped by the uncorrelated row whose triple they share. *)
Lineage(records, row) == {r.rid : r \in {r \in records : row.key \in r.triples}}

(* What each deleted id came to: executed (its own row is removed),        *)
(* degraded (an uncorrelated removed row may be its), or moot; and the     *)
(* rows a deletion authorized.                                             *)
ClassifyDeletions(records, removed) ==
    LET genuine == {i \in DOMAIN removed : /\ removed[i].rid # NoRid
                                           /\ removed[i].rid \in {r.rid : r \in records}}
        executed == {removed[i].rid : i \in genuine}
        remaining == {r \in records : r.rid \notin executed}
        residue == {i \in DOMAIN removed : removed[i].rid = NoRid}
        uncorrelated == {i \in residue : Lineage(remaining, removed[i]) = {}}
        shared == UNION {Lineage(remaining, removed[i]) : i \in residue}
        conservative == {r.rid : r \in {r \in remaining : r.unverified /\ uncorrelated # {}}}
    IN  [executed |-> executed,
         degraded |-> shared \cup conservative,
         moot |-> {r.rid : r \in remaining} \ (shared \cup conservative),
         uncorrelated |-> {removed[i].key : i \in uncorrelated},
         genuine |-> genuine]

-----------------------------------------------------------------------------
(* The clear carrier of a row: which push, if any, cleared the leaf and    *)
(* has not been proven gone: an authorizing one or a store-only one.       *)

SrIsCleared(before, after) == before /\ ~after

UpdatePendingClear(pend, before, after, storeOnly) ==
    CASE after -> "none"
      [] SrIsCleared(before, after) /\ storeOnly -> IF pend = "authorized" THEN pend ELSE "store_only"
      [] SrIsCleared(before, after) /\ ~storeOnly -> "authorized"
      [] OTHER -> pend

=============================================================================
