SPECIFICATION Spec

CONSTANTS
  j1 = j1
  Jobs = {j1}
  NoJob = NoJob
  AllowAbort = FALSE
  AllowKill = TRUE
  MaxFaults = 0
  Dying = {}
  MaxRetries = 1
  Plugin = "SquaredAlgo"
  PauseCount = 1
  PassCodes = FALSE
  Holds = FALSE
  MaxCopies = 1
  KillIncrement = 10

INVARIANTS
  KilledIsRaised
