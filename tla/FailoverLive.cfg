SPECIFICATION FairSpec
CONSTANTS
  Devices = {d1}
  Primaries = {p1}
  Oobs = {o1}
  FailureThreshold = 2
  SuccessThreshold = 2
  MaxFlips = 1
  MaxReports = 1
  MaxFaults = 1
  MaxChanges = 1
  MaxEdits = 1
PROPERTIES
  ComesBack
  GoesToOob
CHECK_DEADLOCK FALSE
