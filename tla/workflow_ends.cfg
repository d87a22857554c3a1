SPECIFICATION FairFiles

CONSTANTS
  a = a
  b = b
  Elements <- OneFile
  Merge = Merge
  MaxPieces = 1
  TimesOut = TRUE
  AllowAbort = TRUE

CHECK_DEADLOCK FALSE

INVARIANTS
  FilesTypeOK
  FilesInv

PROPERTIES
  WorkflowFinishes
  AbortedEnds
