SPECIFICATION Spec

CONSTANTS
  a = a
  b = b
  Elements <- OneBlock
  Merge = Merge
  MaxPieces = 2
  TimesOut = FALSE
  AllowAbort = FALSE

SYMMETRY FileSymmetry
CHECK_DEADLOCK FALSE

INVARIANTS
  EveryFileOnce
  VerdictsAgree
  FinishedIsFinal
  NothingLost

PROPERTIES
  NoLateOutput
