SPECIFICATION Spec

CONSTANTS
  a1 = a1
  a2 = a2
  e1 = e1
  e2 = e2
  Agents = {a1, a2}
  Global = Global
  NoAgent = NoAgent
  GlobalWins = FALSE
  Elements = {e1}
  FirstElements = {e1}
  AllowCancel = {"force-complete"}
  SplitFails = TRUE
  Dying = {"cancelling", "asking", "killing"}
  MaxEdits = 4

CHECK_DEADLOCK FALSE

SYMMETRY Perms

INVARIANTS
  DoneIsOver

PROPERTIES
  ImplementsAssignment
