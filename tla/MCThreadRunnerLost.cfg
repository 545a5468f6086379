CONSTANTS
  Client = {c1, c2}
  Window = {w1, w2}
  Task = {k1, k2, k3}
  Null = Null
SPECIFICATION Spec
SYMMETRY Sym
INVARIANTS AllMerged
CHECK_DEADLOCK FALSE
