------------------------------ MODULE Failover ------------------------------
(***************************************************************************)
(* The management-address failover of core/failover.py and its tick in     *)
(* core/scheduler.py: NSO is pointed at a device's primary or out-of-band  *)
(* address, with hysteresis, by a tick that holds the device's claim.      *)
(*                                                                         *)
(* A tick works on the columns it loaded and writes those it changed when  *)
(* it commits; the addresses that the plugin reports are written at any    *)
(* time, without the claim.  NSO has the address from the moment it is     *)
(* set, whatever becomes of the tick's transaction.                        *)
(***************************************************************************)
EXTENDS Naturals, FiniteSets, FiniteSetsExt

CONSTANTS
  Devices,
  Primaries, Oobs,     \* the addresses the plugin reports
  FailureThreshold, SuccessThreshold,
  MaxFlips,            \* disruptive flips in one scheduled tick
  MaxReports,          \* bound: reports of addresses after the first
  MaxFaults,           \* bound: calls that fail, bounds exceeded, restarts
  MaxChanges,          \* bound: changes of what is reachable, and jobs
  MaxEdits             \* bound: addresses the operator gives NSO

ASSUME ThresholdsAssumption == FailureThreshold \in Nat \ {0} /\ SuccessThreshold \in Nat \ {0}
ASSUME FailoverBounds == /\ MaxFlips \in Nat /\ MaxReports \in Nat
                         /\ MaxFaults \in Nat /\ MaxChanges \in Nat /\ MaxEdits \in Nat
ASSUME AddressesAssumption == {"none", "foreign", "flip"} \cap (Primaries \cup Oobs) = {}

VARIABLES
  fo,        \* device_failover
  addr,      \* the address NSO dials (external)
  up,        \* the addresses that answer (external)
  job,       \* the device has a queued or running job
  claim,     \* who holds the device's claim
  pc, tick,  \* the tick of each device: its place, and what it has in hand
  budget,    \* the scheduled tick's flips that are left
  failed,    \* history: committed failed probes in a row of the primary there is
  raced,     \* history: that primary was reported under a tick and still counts from it
  good,      \* history: committed good flip-probes in a row
  reports, faults, changes, edits

vars == <<fo, addr, up, job, claim, pc, tick, budget, failed, raced, good, reports, faults, changes, edits>>
history == <<failed, raced, good>>
external == <<addr, up>>
bounds == <<reports, faults, changes, edits>>

None == "none"
Foreign == "foreign"      \* an address that the operator gave NSO
Addresses == Primaries \cup Oobs
Role == {"primary", "oob"}
Row ==
  [primary_ip : Addresses \cup {None}, oob_ip : Addresses \cup {None}, active : Role,
   failures : 0 .. FailureThreshold, successes : 0 .. SuccessThreshold,
   override : BOOLEAN, blocked : {None, "unreadable", "conflict"},
   primary_due : BOOLEAN, oob_due : BOOLEAN, oob_healthy : {"unknown", "yes", "no"}]
NoTick == [row |-> None]

\* Devices that NSO dials at their primary; the primary leg is due for some.
Watching(due) ==
  /\ \E p \in Primaries, o \in Oobs :
       /\ fo = [d \in Devices |->
            [primary_ip |-> p, oob_ip |-> o, active |-> "primary", failures |-> 0, successes |-> 0,
             override |-> FALSE, blocked |-> None, primary_due |-> d \in due, oob_due |-> FALSE,
             oob_healthy |-> "unknown"]]
       /\ addr = [d \in Devices |-> p]
  /\ up \in [Devices -> SUBSET Addresses]
  /\ job = [d \in Devices |-> FALSE]
  /\ claim = [d \in Devices |-> None]
  /\ pc = [d \in Devices |-> "idle"] /\ tick = [d \in Devices |-> NoTick]
  /\ budget = 0
  /\ failed = [d \in Devices |-> 0] /\ good = [d \in Devices |-> 0] /\ raced = [d \in Devices |-> FALSE]
  /\ reports = 0 /\ faults = 0 /\ changes = 0 /\ edits = 0

Init == Watching(Devices)

-----------------------------------------------------------------------------
(* The pure steps.                                                         *)


\* Mutant: only the last probe counts.
StepFailoverForgets(reachable, failures, has_oob) ==
  IF reachable THEN [failures |-> 0, act |-> FALSE]
  ELSE IF has_oob /\ failures + 1 >= FailureThreshold THEN [failures |-> 0, act |-> TRUE]
  ELSE [failures |-> 0, act |-> FALSE]

\* Counts on past the threshold when there is nothing to fall to; the count is
\* kept at the threshold here, above which nothing tells it apart.
StepFailover(reachable, failures, has_oob) ==
  IF reachable THEN [failures |-> 0, act |-> FALSE]
  ELSE IF has_oob /\ failures + 1 >= FailureThreshold THEN [failures |-> 0, act |-> TRUE]
  ELSE [failures |-> Min({failures + 1, FailureThreshold}), act |-> FALSE]

\* Mutant: a failed probe does not break the row of good ones.
StepFailbackKeeping(reachable, successes) ==
  IF ~reachable THEN [successes |-> successes, act |-> FALSE]
  ELSE IF successes + 1 >= SuccessThreshold THEN [successes |-> 0, act |-> TRUE]
  ELSE [successes |-> successes + 1, act |-> FALSE]

StepFailback(reachable, successes) ==
  IF ~reachable THEN [successes |-> 0, act |-> FALSE]
  ELSE IF successes + 1 >= SuccessThreshold THEN [successes |-> 0, act |-> TRUE]
  ELSE [successes |-> successes + 1, act |-> FALSE]

\* _managed_address_role
ManagedRole(r, a) ==
  IF a = r.primary_ip THEN "primary" ELSE IF a = r.oob_ip THEN "oob" ELSE None

\* The OOB address that may be used: one that differs from the primary.
UsableOob(r) == IF r.oob_ip = r.primary_ip THEN None ELSE r.oob_ip

\* Mutant: a device on OOB is not probed on its primary.
PrimaryDueActive(r) == r.primary_ip # None /\ r.primary_due /\ r.active = "primary"

PrimaryDue(r) == r.primary_ip # None /\ r.primary_due

OobDue(r) == UsableOob(r) # None /\ r.oob_due

\* _due_failover_device_ids
Due(r) == PrimaryDue(r) \/ (r.oob_ip # None /\ r.oob_due)

\* The state of the row after NSO's address was read: a unreadable is None.
Reconciled(r, a) ==
  LET role == ManagedRole(r, a)
      read == [r EXCEPT !.blocked = IF @ = "unreadable" THEN None ELSE @]
  IN IF a = None THEN [r EXCEPT !.blocked = IF @ = "conflict" THEN @ ELSE "unreadable"]
     ELSE IF role = None THEN [read EXCEPT !.override = TRUE]
     ELSE IF role = r.active THEN [read EXCEPT !.override = FALSE]
     ELSE [read EXCEPT !.override = FALSE, !.active = role, !.failures = 0, !.successes = 0]

IsManaged(r, a) == a # None /\ ManagedRole(r, a) # None

\* What a read of the address returns: NSO's, or nothing.
Readable(d) == {addr[d]} \cup (IF faults < MaxFaults THEN {None} ELSE {})
Spend(a) == faults' = IF a = None THEN faults + 1 ELSE faults

-----------------------------------------------------------------------------
(* The tick of one device, under its claim.                                *)

\* FlipBudget.take
FlipCharged == budget - 1

Place(d, place, r) ==
  /\ pc' = [pc EXCEPT ![d] = place]
  /\ tick' = [tick EXCEPT ![d].row = r]

\* A scheduled tick starts when the last one is over, with a fresh budget.
ScheduledTick ==
  /\ \A d \in Devices : pc[d] = "idle"
  /\ budget' = MaxFlips
  /\ pc' = [d \in Devices |-> IF Due(fo[d]) THEN "due" ELSE "idle"]
  /\ UNCHANGED <<fo, external, job, claim, tick, history, bounds>>

\* The claim is taken, or the device waits for the next tick; the row is read
\* only under it.
TickBegins(d) ==
  /\ pc[d] = "due"
  /\ IF claim[d] # None
     THEN pc' = [pc EXCEPT ![d] = "idle"] /\ UNCHANGED <<claim, tick>>
     ELSE /\ claim' = [claim EXCEPT ![d] = "tick"]
          /\ pc' = [pc EXCEPT ![d] = "reconcile"]
          /\ tick' = [tick EXCEPT ![d] =
               [row |-> fo[d], loaded |-> fo[d], busy |-> job[d], before |-> None,
                probed |-> None, answered |-> FALSE]]
  /\ UNCHANGED <<fo, external, job, budget, history, bounds>>

\* Both legs are rescheduled when the address cannot be used; a role that NSO
\* took without the tick has its OOB verified first.
TickReconciles(d) ==
  LET r == tick[d].row IN
  /\ pc[d] = "reconcile"
  /\ IF ~(PrimaryDue(r) \/ OobDue(r) \/ r.override)
     THEN Place(d, "commit", r) /\ UNCHANGED faults
     ELSE \E a \in Readable(d) :
            LET s == Reconciled(r, a) IN
            /\ Spend(a)
            /\ IF ~IsManaged(r, a)
               THEN Place(d, "commit",
                          [s EXCEPT !.primary_due = @ /\ ~PrimaryDue(r), !.oob_due = @ /\ ~OobDue(r)])
               ELSE IF s.active # r.active /\ s.active = "oob"
               THEN Place(d, "primary", [s EXCEPT !.primary_due = FALSE, !.oob_due = TRUE])
               ELSE Place(d, "primary", s)
  /\ UNCHANGED <<fo, external, job, claim, budget, history, reports, changes, edits>>

\* The primary leg: liveness of the active address, or a flip back.
PrimaryLeg(d) ==
  LET r == tick[d].row IN
  /\ pc[d] = "primary"
  /\ Place(d, IF ~PrimaryDue(r) THEN "oob"
              ELSE IF r.active = "primary" THEN "probe" ELSE "failback", r)
  /\ UNCHANGED <<fo, external, job, claim, budget, history, bounds>>

\* _active_primary_probe, up to its decision.
ActivePrimaryProbe(d) ==
  LET r == tick[d].row
      reachable == addr[d] \in up[d]
      step == StepFailover(reachable, r.failures, UsableOob(r) # None)
      s == [r EXCEPT !.failures = step.failures, !.successes = 0, !.primary_due = FALSE]
  IN /\ pc[d] = "probe"
     /\ pc' = [pc EXCEPT ![d] = IF step.act THEN "switch" ELSE "oob"]
     /\ tick' = [tick EXCEPT ![d].row = s, ![d].probed = addr[d], ![d].answered = reachable]
     /\ UNCHANGED <<fo, external, job, claim, budget, history, bounds>>

\* The rest of it: deferred under a job or an unknown address, armed when the
\* budget is spent, else NSO is pointed at the OOB address.
SwitchToOob(d) ==
  LET r == tick[d].row
      armed == [r EXCEPT !.failures = FailureThreshold]
  IN /\ pc[d] = "switch"
     /\ IF tick[d].busy
        THEN Place(d, "oob", armed) /\ UNCHANGED <<addr, budget, faults>>
        ELSE \E a \in Readable(d) :
               LET s == Reconciled(r, a) IN
               /\ Spend(a)
               /\ IF ~IsManaged(r, a)
                  THEN Place(d, "oob", [s EXCEPT !.failures = FailureThreshold]) /\ UNCHANGED <<addr, budget>>
                  ELSE IF s.active # "primary"
                  THEN Place(d, "commit", s) /\ UNCHANGED <<addr, budget>>
                  ELSE IF budget = 0
                  THEN /\ Place(d, "oob", [s EXCEPT !.failures = FailureThreshold, !.primary_due = TRUE])
                       /\ UNCHANGED <<addr, budget>>
                  ELSE /\ addr' = [addr EXCEPT ![d] = UsableOob(r)]
                       /\ budget' = FlipCharged
                       /\ Place(d, "commit", [s EXCEPT !.active = "oob", !.failures = 0, !.successes = 0,
                                                      !.override = FALSE, !.oob_due = TRUE])
     /\ UNCHANGED <<fo, up, job, claim, history, reports, changes, edits>>

\* A flip for a probe: not under a job, not of an address NSO will not tell or
\* that is not ours, and within the budget.
Flip(d, place, target, blocked) ==
  LET r == tick[d].row IN
  IF tick[d].busy
  THEN Place(d, blocked, [r EXCEPT !.primary_due = @ /\ place # "failback", !.oob_due = @ /\ place # "health"])
       /\ UNCHANGED <<addr, budget, faults>>
  ELSE \E a \in Readable(d) :
         LET read == [r EXCEPT !.blocked = IF place = "failback" /\ @ = "unreadable" THEN None ELSE @]
             unread == [r EXCEPT !.blocked = IF @ = "conflict" THEN @ ELSE "unreadable"]
             ran(s) == [s EXCEPT !.primary_due = @ /\ place # "failback", !.oob_due = @ /\ place # "health"]
         IN /\ Spend(a)
            /\ IF a = None THEN Place(d, blocked, ran(unread)) /\ UNCHANGED <<addr, budget>>
               ELSE IF ManagedRole(r, a) = None
               THEN Place(d, blocked, ran([read EXCEPT !.override = TRUE])) /\ UNCHANGED <<addr, budget>>
               ELSE IF budget = 0 THEN Place(d, blocked, read) /\ UNCHANGED <<addr, budget>>
               ELSE /\ budget' = FlipCharged
                    /\ addr' = [addr EXCEPT ![d] = target]
                    /\ pc' = [pc EXCEPT ![d] = place]
                    /\ tick' = [tick EXCEPT ![d].row = ran([read EXCEPT !.override = FALSE]),
                                            ![d].before = a]

\* _failback_flip_probe, to its flip and then its probe.
FailbackFlip(d) ==
  /\ pc[d] = "failback" /\ tick[d].before = None
  /\ Flip(d, "failback", tick[d].row.primary_ip, "oob")
  /\ UNCHANGED <<fo, up, job, claim, history, reports, changes, edits>>

\* _revert_address: back to where NSO was, unless that fails.
Revert(d) == {tick[d].before} \cup (IF faults < MaxFaults THEN {addr[d]} ELSE {})

\* Mutant: the address is left where the probe put it.
RevertForgotten(d) == UNCHANGED <<addr, faults>>

Reverts(d) ==
  \E a \in Revert(d) :
    /\ addr' = [addr EXCEPT ![d] = a]
    /\ faults' = IF a # tick[d].before THEN faults + 1 ELSE faults

FailbackProbe(d) ==
  LET r == tick[d].row
      reachable == addr[d] \in up[d]
      step == StepFailback(reachable, r.successes)
      s == [r EXCEPT !.failures = 0, !.successes = step.successes]
  IN /\ pc[d] = "failback" /\ tick[d].before # None
     /\ IF step.act
        THEN /\ UNCHANGED <<addr, faults>>
             /\ pc' = [pc EXCEPT ![d] = "commit"]
             /\ tick' = [tick EXCEPT ![d].probed = "flip", ![d].answered = reachable, ![d].row =
                  [s EXCEPT !.active = "primary", !.blocked = None, !.oob_due = FALSE]]
        ELSE /\ Reverts(d)
             /\ pc' = [pc EXCEPT ![d] = "oob"]
             /\ tick' = [tick EXCEPT ![d].row = s, ![d].before = None, ![d].probed = "flip",
                                     ![d].answered = reachable]
     /\ UNCHANGED <<fo, up, job, claim, budget, history, reports, changes, edits>>

\* _probe_oob: liveness on OOB, a health flip on the primary.
OobLeg(d) ==
  LET r == tick[d].row IN
  /\ pc[d] = "oob"
  /\ IF ~OobDue(r) THEN Place(d, "commit", r) /\ UNCHANGED <<addr, budget, faults>>
     ELSE IF r.active = "oob"
     THEN /\ Place(d, "commit", [r EXCEPT !.oob_due = FALSE,
                                          !.oob_healthy = IF addr[d] \in up[d] THEN "yes" ELSE "no"])
          /\ UNCHANGED <<addr, budget, faults>>
     ELSE r.primary_ip # None /\ Flip(d, "health", UsableOob(r), "commit")
  /\ UNCHANGED <<fo, up, job, claim, history, reports, changes, edits>>

HealthProbe(d) ==
  /\ pc[d] = "health"
  /\ Reverts(d)
  /\ pc' = [pc EXCEPT ![d] = "commit"]
  /\ tick' = [tick EXCEPT ![d].row.oob_healthy = IF addr[d] \in up[d] THEN "yes" ELSE "no",
                          ![d].before = None]
  /\ UNCHANGED <<fo, up, job, claim, budget, history, reports, changes, edits>>

TickOver(d) ==
  /\ pc' = [pc EXCEPT ![d] = "idle"] /\ tick' = [tick EXCEPT ![d] = NoTick]
  /\ claim' = [claim EXCEPT ![d] = None]

\* The columns the tick changed are written over the row there is.
Merge(d) ==
  [c \in DOMAIN fo[d] |-> IF tick[d].row[c] # tick[d].loaded[c] THEN tick[d].row[c] ELSE fo[d][c]]

TickCommits(d) ==
  /\ pc[d] = "commit"
  /\ fo' = [fo EXCEPT ![d] = Merge(d)]
  /\ LET t == tick[d]
         moved == t.row.active # t.loaded.active
         row(n) == IF t.answered THEN 0 ELSE Min({n + 1, FailureThreshold})
         kept(n) == IF moved THEN 0 ELSE n   \* before the tick's own probe
     IN /\ failed' = [failed EXCEPT ![d] =
             IF t.probed # fo[d].primary_ip THEN kept(@) ELSE IF t.row.active = "oob" THEN 0 ELSE row(kept(@))]
        /\ raced' = [raced EXCEPT ![d] = @ /\ fo'[d].failures # 0]
        /\ good' = [good EXCEPT ![d] =
             IF t.probed # "flip" THEN kept(@)
             ELSE IF t.row.active = "primary" \/ ~t.answered THEN 0 ELSE Min({kept(@) + 1, SuccessThreshold})]
  /\ TickOver(d)
  /\ UNCHANGED <<external, job, budget, bounds>>

\* A call fails, the bound is exceeded, or the process dies: nothing is written.
\* Within a flip-probe the address is put back, unless that fails too.
TickAborts(d) ==
  /\ pc[d] \notin {"idle", "due"} /\ faults < MaxFaults
  /\ faults' = faults + 1
  /\ \E a \in {addr[d]} \cup ({tick[d].before} \ {None}) : addr' = [addr EXCEPT ![d] = a]
  /\ TickOver(d)
  /\ UNCHANGED <<fo, up, job, budget, history, reports, changes, edits>>

-----------------------------------------------------------------------------
(* The plugin's reports, the jobs, and the world.                          *)

\* While the device is on OOB its stored OOB address is kept.
ActiveOobConflict(r, p, o) ==
  r.active = "oob" /\ r.oob_ip # None /\ (o # r.oob_ip \/ p = r.oob_ip)

\* upsert_failover_ips
Upserted(r, p, o) ==
  LET conflict == ActiveOobConflict(r, p, o)
      primary == IF conflict /\ p = r.oob_ip THEN r.primary_ip ELSE p
      oob == IF conflict THEN r.oob_ip ELSE o
      b == [r EXCEPT !.blocked = IF conflict THEN "conflict" ELSE IF @ = "conflict" THEN None ELSE @]
      c == IF primary = r.primary_ip THEN b
           ELSE [b EXCEPT !.primary_ip = primary, !.failures = 0, !.successes = 0,
                          !.primary_due = @ \/ primary # None]
  IN IF oob = r.oob_ip THEN c
     ELSE [c EXCEPT !.oob_ip = oob, !.oob_healthy = "unknown", !.oob_due = @ \/ oob # None]

\* A scope reconcile or a PUT of the plugin: its own transaction, without the claim.
ReportAddresses(d, p, o) ==
  /\ reports < MaxReports /\ reports' = reports + 1
  /\ Upserted(fo[d], p, o) # fo[d]
  /\ fo' = [fo EXCEPT ![d] = Upserted(fo[d], p, o)]
  /\ LET new == fo'[d].primary_ip # fo[d].primary_ip
     IN /\ failed' = IF new THEN [failed EXCEPT ![d] = 0] ELSE failed
        /\ raced' = IF new THEN [raced EXCEPT ![d] = tick[d] # NoTick] ELSE raced
  /\ UNCHANGED <<external, job, claim, pc, tick, budget, good, faults, changes, edits>>

\* The interval of a leg passes.
LegsFallDue(d) ==
  /\ fo' = [fo EXCEPT ![d].primary_due = TRUE, ![d].oob_due = TRUE] /\ fo' # fo
  /\ UNCHANGED <<external, job, claim, pc, tick, budget, history, bounds>>

\* A job comes, runs under the claim, and ends.
JobComes(d) ==
  /\ ~job[d] /\ changes < MaxChanges /\ changes' = changes + 1
  /\ job' = [job EXCEPT ![d] = TRUE]
  /\ UNCHANGED <<fo, external, claim, pc, tick, budget, history, reports, faults, edits>>
JobRuns(d) ==
  /\ job[d] /\ claim[d] = None
  /\ claim' = [claim EXCEPT ![d] = "job"]
  /\ UNCHANGED <<fo, external, job, pc, tick, budget, history, bounds>>
JobEnds(d) ==
  /\ claim[d] = "job"
  /\ claim' = [claim EXCEPT ![d] = None] /\ job' = [job EXCEPT ![d] = FALSE]
  /\ UNCHANGED <<fo, external, pc, tick, budget, history, bounds>>

ReachabilityChanges(d) ==
  /\ changes < MaxChanges /\ changes' = changes + 1
  /\ \E a \in Addresses : up' = [up EXCEPT ![d] = IF a \in @ THEN @ \ {a} ELSE @ \cup {a}]
  /\ UNCHANGED <<fo, addr, job, claim, pc, tick, budget, history, reports, faults, edits>>

\* The operator points NSO elsewhere, or back.
OperatorEdits(d) ==
  /\ edits < MaxEdits /\ edits' = edits + 1
  /\ \E a \in {Foreign, fo[d].primary_ip, fo[d].oob_ip} \ {None, addr[d]} : addr' = [addr EXCEPT ![d] = a]
  /\ UNCHANGED <<fo, up, job, claim, pc, tick, budget, history, reports, faults, changes>>

-----------------------------------------------------------------------------
TickStep(d) ==
  \/ TickBegins(d) \/ TickReconciles(d) \/ PrimaryLeg(d) \/ ActivePrimaryProbe(d) \/ SwitchToOob(d)
  \/ FailbackFlip(d) \/ FailbackProbe(d) \/ OobLeg(d) \/ HealthProbe(d) \/ TickCommits(d)

World(d) ==
  \/ JobComes(d) \/ JobRuns(d) \/ JobEnds(d) \/ ReachabilityChanges(d) \/ OperatorEdits(d)
  \/ \E p \in Primaries \cup {None}, o \in Oobs \cup {None} : ReportAddresses(d, p, o)

Next ==
  \/ ScheduledTick
  \/ \E d \in Devices : TickStep(d) \/ TickAborts(d) \/ LegsFallDue(d) \/ World(d)

Spec == Init /\ [][Next]_vars

\* The scheduler ticks, the calls return, time passes, and a queued job gets the
\* claim between ticks and ends: a worker polls more often than the legs fall due.
Fairness ==
  /\ WF_vars(ScheduledTick)
  /\ \A d \in Devices : /\ WF_vars(TickStep(d)) /\ SF_vars(LegsFallDue(d))
                        /\ SF_vars(JobRuns(d)) /\ WF_vars(JobEnds(d))

FairSpec == Spec /\ Fairness

-----------------------------------------------------------------------------
(* What the failover promises.                                             *)

\* Rows, addresses and claims keep their shapes, and a tick is in flight exactly
\* while it holds the claim of its device.
TypeOK ==
  /\ fo \in [Devices -> Row]
  /\ addr \in [Devices -> Addresses \cup {Foreign}] /\ up \in [Devices -> SUBSET Addresses]
  /\ job \in [Devices -> BOOLEAN] /\ claim \in [Devices -> {None, "tick", "job"}]
  /\ budget \in 0 .. MaxFlips
  /\ \A d \in Devices : (tick[d] = NoTick) <=> (claim[d] # "tick")


\* The device is given back to its primary only on the last of SuccessThreshold
\* flip-probes that answered in a row (step_failback).
FailbackEarned ==
  [][\A d \in Devices : (FailbackProbe(d) /\ tick'[d].row.active = "primary")
       => good[d] + 1 >= SuccessThreshold]_vars

\* While every call returns, the plugin's addresses stay and no operator edits,
\* NSO dials the address of the stored role whenever no tick is at work: every
\* flip for a probe was taken back (_revert_address), every switch recorded.
DialsTheRole ==
  faults = 0 /\ reports = 0 /\ edits = 0 =>
    \A d \in Devices : claim[d] # "tick" => ManagedRole(fo[d], addr[d]) = fo[d].active


\* A device whose primary answers for good comes back to it, as long as NSO is
\* left on an address the row knows.
ComesBack ==
  \A d \in Devices :
    <>[](fo[d].primary_ip \in up[d] /\ ManagedRole(fo[d], addr[d]) # None)
      => <>[](fo[d].active = "primary")

\* A device whose primary is dead for good goes to an OOB address that answers,
\* under the same proviso.
GoesToOob ==
  \A d \in Devices :
    <>[](/\ fo[d].primary_ip \notin up[d] \cup {None} /\ UsableOob(fo[d]) # None
         /\ ManagedRole(fo[d], addr[d]) # None)
      => <>[](fo[d].active = "oob")

=============================================================================
