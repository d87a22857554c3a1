SPECIFICATION Spec

CONSTANTS
  j1 = j1
  Jobs = {j1}
  NoJob = NoJob
  AllowAbort = FALSE
  AllowKill = TRUE
  MaxFaults = 1
  Dying = {"Submitter", "Creator", "Tracker", "Accountant", "Handler", "Retry", "Archiver", "Kill"}
  MaxRetries = 1
  Plugin = "SquaredAlgo"
  PauseCount = 1
  PassCodes = TRUE
  Holds = FALSE
  MaxCopies = 1
  KillIncrement = 10

INVARIANTS
  OwnershipInv
  RowsAgree
  LostOnlyToKill
  RetriesBounded
