SPECIFICATION Spec
CONSTANTS
  c1 = c1
  c2 = c2
  None = None
  Clients = {c1, c2}
  Panes = {}
  Size <- TwoSizes
  Tall = 2
  Says <- Viewing
  Replaces <- Replacement
  Heartbeats = {c1}
  Hanging = {c1}
  Dying = {c2}
  HalfDying = {c1}
  REPLY_QUEUE = 1
  REPLY_HARD = 2
  ROOM = 1
  SelfHeal = TRUE
  ShellsExit = FALSE
  Draws = TRUE
  MaxInputs = 2
INVARIANTS BaselineHeld NobodyLeftBehind
