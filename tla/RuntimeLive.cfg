CONSTANTS
  Scopes <- Live
  Devices = {d1}
  NoDevice = none
  Workers = {w1, w2}
  Born = {d1}
  Admits = {"apply", "provision", "endpoint", "crash"}
  MaxJobs = 2
  MaxGens = 1
  MaxTokens = 2
  MaxAttempts = 2
  MaxCrashes = 1
SPECIFICATION ScopedFairSpec
PROPERTIES RunEnds ClaimFreed
CHECK_DEADLOCK FALSE
