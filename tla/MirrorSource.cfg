SPECIFICATION Spec
CONSTANTS
  Families = {"attrs", "bgp"}
  Attrs = "attrs"
  LockOrder <- Order
  Readers = {r1, r2}
  Plans <- PollsAndSyncs
  Served <- ServedByRead
  Bodies = {{x}, {y}}
  MaxRuns = 2
  MaxEpoch = 2
  MaxFaults = 1
SYMMETRY MirrorSymmetry
INVARIANTS
  PublishedFromSource
CHECK_DEADLOCK FALSE
