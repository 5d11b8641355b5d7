------------------------------ MODULE MCReads ------------------------------
(***************************************************************************)
(* The read side for TLC: the refresh engine (ReadMirror), the composite   *)
(* family (Redistribution) and the tables of every family (MirrorFamilies) *)
(* side by side.  A behaviour stays within one scope, in which one of the  *)
(* three moves and the others keep their initial state.                    *)
(***************************************************************************)
EXTENDS MCReadMirror

CONSTANTS CompositeServed, Mirrored

VARIABLES
  scope,
  cEpoch, cAttempts, cPointer, cRows, cFence, cLock, cPc, cRun, cLate, cReads, cRuns, cFaults,
  family, focus, section, mirror, published, refused

cVars == <<cEpoch, cAttempts, cPointer, cRows, cFence, cLock, cPc, cRun, cLate, cReads, cRuns, cFaults>>
fVars == <<family, focus, section, mirror, published, refused>>

C == INSTANCE Redistribution WITH
  Served <- CompositeServed,
  epoch <- cEpoch, attempts <- cAttempts, pointer <- cPointer, rows <- cRows, fence <- cFence, lock <- cLock,
  pc <- cPc, run <- cRun, late <- cLate, reads <- cReads, runs <- cRuns, faults <- cFaults
F == INSTANCE MirrorFamilies WITH Families <- Mirrored

\* Two refreshes of few outcomes, or one refresh of every outcome.
Concurrent == [of |-> "composite", served |-> {"present", "read_error", "export_down"}, runs |-> 2]
Outcomes == [of |-> "composite", served |-> CompositeServed, runs |-> 1]
Engine == [of |-> "engine"]
Tables == [of |-> "tables"]

FamilyAtRest ==
  /\ family = "none" /\ focus = "none" /\ section = <<>> /\ mirror = <<>> /\ published = <<>> /\ refused = FALSE

ReadsInit ==
  /\ Init /\ C!Init
  /\ \/ scope \in {Engine, Concurrent, Outcomes} /\ FamilyAtRest
     \/ scope = Tables /\ F!Init

ReadsNext ==
  \/ scope.of = "engine" /\ Next /\ UNCHANGED <<cVars, fVars, scope>>
  \/ /\ scope.of = "composite"
     /\ (\E r \in Readers : C!Task(r, scope.served)) \/ C!Restart \/ C!Rekey
     /\ cRuns' <= scope.runs
     /\ UNCHANGED <<vars, fVars, scope>>
  \/ scope.of = "tables" /\ F!Next /\ UNCHANGED <<vars, cVars, scope>>

ReadsSpec == ReadsInit /\ [][ReadsNext]_<<vars, cVars, fVars, scope>>

\* Each partition of the composite is the last authoritative read of its protocol.
PartitionIsLastAuthoritative == scope.of = "composite" => C!PartitionIsLastAuthoritative

\* The components the composite's observation covers are in its table.
ObservationIsShown == scope.of = "composite" => C!ObservationIsShown

\* No partition goes back to an older read of the same source.
NeverAnOlderRead == C!NeverAnOlderRead

\* A family's tables hold nothing its section does not.
NothingInvented == scope.of = "tables" => F!NothingInvented

\* A family's tables show every entry and leaf of an accepted section.
NothingLost == scope.of = "tables" => F!NothingLost
=============================================================================
