SPECIFICATION Spec
CONSTANTS
  Requests = {r1, r2, r3, r4}
  Keys = {k1, k2, k3}
  Cap = 2
INVARIANTS OnePulse PulseLasts
PROPERTY SlotSpec
CHECK_DEADLOCK FALSE
SYMMETRY Symmetry
