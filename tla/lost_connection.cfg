SPECIFICATION FairSpec

CONSTANTS
  p = p
  c = c
  d = d
  P1 = P1
  C1 = C1
  C2 = C2
  P2 = P2
  Files = {p}
  Blocks = {P1, P2}
  NoBlock = NoBlock
  Dataset <- Origin
  Parents <- OneParent
  Faults = {"connection lost"}
  MaxFaults = 1

CHECK_DEADLOCK FALSE

PROPERTIES
  TriedLater
