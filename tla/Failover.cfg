SPECIFICATION ScopedSpec
CONSTANTS
  Devices = {d1, d2}
  Primaries = {p1, p2}
  Oobs = {o1}
  FailureThreshold = 2
  SuccessThreshold = 2
  MaxFlips = 1
  MaxReports = 1
  MaxFaults = 1
  MaxChanges = 1
  MaxEdits = 1
SYMMETRY Symmetry
INVARIANTS
  DialsTheRole
PROPERTIES
  
  FailbackEarned
CHECK_DEADLOCK FALSE
