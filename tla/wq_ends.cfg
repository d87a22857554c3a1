SPECIFICATION FairSpec

CONSTANTS
  a1 = a1
  a2 = a2
  e1 = e1
  e2 = e2
  Agents = {a1}
  Global = Global
  NoAgent = NoAgent
  GlobalWins = TRUE
  Elements = {e1}
  FirstElements = {e1}
  AllowCancel = {"force-complete"}
  SplitFails = FALSE
  Dying = {}
  MaxEdits = 7

CHECK_DEADLOCK FALSE

PROPERTIES
  RequestEnds
