SPECIFICATION Spec
CONSTANTS
  k1 = k1
  k2 = k2
  k3 = k3
  c1 = c1
  c2 = c2
  None = None
  Conns = {k1, k2, k3}
  Wants = {k1, k2}
  Capable = {k1}
  Hanging = {}
  Calls = {}
  WriterCap = 1
  MaxMisses = 1
CHECK_DEADLOCK FALSE
SYMMETRY WantingAlike
INVARIANTS PrimaryChosen
