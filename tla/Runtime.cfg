CONSTANTS
  Scopes <- Depth
  Devices = {d1}
  NoDevice = none
  Workers = {w1, w2}
  Born = {d1}
  Admits = {"read", "apply", "dedicated", "removal", "provision", "retry", "endpoint", "offboard", "crash"}
  MaxJobs = 3
  MaxGens = 3
  MaxTokens = 3
  MaxAttempts = 2
  MaxCrashes = 1
SYMMETRY WorkerSymmetry
SPECIFICATION ScopedSpec
INVARIANTS TokenImpliesRun NoStrandedRun FencedDeviceWrite InOrderDeviceWrite NoBlindResend HonestEvidence GenerationsFollowCarrier
PROPERTIES TerminalIsFinal ZombieHarmless
CHECK_DEADLOCK FALSE
