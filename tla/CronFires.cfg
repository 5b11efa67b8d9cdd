SPECIFICATION FairSpec
CONSTANTS
  each = each
  other = other
  once = once
  None = None
  Triggers = {each, other, once}
  Slots <- Times
  Lists <- SomeLists
  GRACE = 1
  MaxTime = 3
  MaxReloads = 2
CHECK_DEADLOCK FALSE
INVARIANTS FiresInForce
PROPERTIES SlotsSettled WorkerEnds
