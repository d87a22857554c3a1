SPECIFICATION FairSpec

CONSTANTS
  j1 = j1
  Jobs = {j1}
  NoJob = NoJob
  AllowAbort = FALSE
  AllowKill = FALSE
  MaxFaults = 2
  Dying = {"Submitter", "Creator", "Tracker", "Accountant", "Handler", "Retry", "Archiver"}
  MaxRetries = 1
  Plugin = "PauseAlgo"
  PauseCount = 1
  PassCodes = FALSE
  Holds = FALSE
  MaxCopies = 2
  KillIncrement = 10

INVARIANTS
  TypeOK
  Ownership
  TableInv
  JudgedByOwnReport
  RetriesBounded
  OneProcess
  CompleteMeansGone

PROPERTIES
  ImplementsLifecycle
  AllSettle
