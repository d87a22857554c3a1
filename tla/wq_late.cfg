SPECIFICATION Spec

CONSTANTS
  a1 = a1
  a2 = a2
  e1 = e1
  e2 = e2
  Agents = {a1}
  Global = Global
  NoAgent = NoAgent
  GlobalWins = TRUE
  Elements = {e1, e2}
  FirstElements = {e1}
  AllowCancel = {}
  SplitFails = FALSE
  Dying = {"queueing", "pulling", "splitting", "feeding"}
  MaxEdits = 5

CHECK_DEADLOCK FALSE

INVARIANTS
  QueueTypeOK
  CompletedIsOver

PROPERTIES
  InjectedIsAll
