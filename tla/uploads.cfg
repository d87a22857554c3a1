SPECIFICATION FairSpec

CONSTANTS
  p = p
  c = c
  d = d
  P1 = P1
  C1 = C1
  C2 = C2
  P2 = P2
  Files = {p, c, d}
  Blocks = {P1, C1, C2}
  NoBlock = NoBlock
  Dataset <- Origin
  Parents <- OneParent
  Faults <- AllFaults
  MaxFaults = 1

CHECK_DEADLOCK FALSE

INVARIANTS
  BlockTypeOK
  DBSAgrees
  RecordedIsTrue
  ParentsFirst
  RucioAgrees
  BlockInv

PROPERTIES
  AllUploaded
