SPECIFICATION FairSpec
CONSTANTS
  k1 = k1
  k2 = k2
  k3 = k3
  c1 = c1
  c2 = c2
  None = None
  Conns = {k1}
  Wants = {k1}
  Capable = {k1}
  Hanging = {k1}
  Calls = {c1, c2}
  WriterCap = 2
  MaxMisses = 2
CHECK_DEADLOCK FALSE
INVARIANTS EntriesAndWaiters EventsAfterAck
PROPERTIES WedgedUnregistered OrphansReturn
