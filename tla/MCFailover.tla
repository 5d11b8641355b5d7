----------------------------- MODULE MCFailover -----------------------------
(***************************************************************************)
(* Failover for TLC.  One behaviour stays within one scope: the devices    *)
(* whose legs fall due, and the reports, faults, changes and edits it may  *)
(* have.  The run explores the scopes side by side instead of their        *)
(* product.                                                                *)
(***************************************************************************)
EXTENDS Failover, TLC

VARIABLE scope

Scope(number, reported, failing, changing, edited) ==
  {[devices |-> D, reports |-> reported, faults |-> failing, changes |-> changing, edits |-> edited] :
     D \in {D \in SUBSET Devices : Cardinality(D) = number}}

\* Two devices that share the budget; and one device among reports, faults, jobs,
\* changes of what is reachable and edits by the operator.
Scopes ==
  UNION {Scope(2, 0, 0, 0, 0), Scope(1, 1, 1, 0, 1), Scope(1, 1, 1, 1, 0), Scope(1, 0, 1, 1, 1)}

InScope ==
  /\ reports <= scope.reports /\ faults <= scope.faults
  /\ changes <= scope.changes /\ edits <= scope.edits
  /\ \A d \in Devices \ scope.devices : ~fo[d].primary_due

ScopedInit ==
  /\ scope \in Scopes
  /\ Watching(scope.devices)
  /\ \A d \in Devices \ scope.devices : up[d] = {}
  /\ \A d \in Devices : Cardinality(scope.devices) = 2 => up[d] \subseteq {fo[d].primary_ip, fo[d].oob_ip}

ScopedNext ==
  /\ UNCHANGED scope
  /\ \/ ScheduledTick
     \/ \E d \in scope.devices : TickStep(d) \/ TickAborts(d) \/ LegsFallDue(d) \/ World(d)
  /\ InScope'

ScopedSpec == ScopedInit /\ [][ScopedNext]_<<vars, scope>>

Symmetry == Permutations(Devices) \cup Permutations(Primaries)
=============================================================================
