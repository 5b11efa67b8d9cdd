SPECIFICATION FairSpec
CONSTANTS
  c1 = c1
  c2 = c2
  None = None
  Clients = {c1}
  Panes = {p1, p2}
  Size <- OneSize
  Tall = 2
  Says <- Calling
  Replaces <- NoReplacement
  Heartbeats = {}
  Hanging = {}
  Dying = {}
  HalfDying = {c1}
  REPLY_QUEUE = 1
  REPLY_HARD = 2
  ROOM = 1
  SelfHeal = FALSE
  ShellsExit = TRUE
  Draws = FALSE
  MaxInputs = 3
INVARIANTS RepliesDelivered CopiesInOrder
PROPERTIES CommandsEnd
CHECK_DEADLOCK FALSE
