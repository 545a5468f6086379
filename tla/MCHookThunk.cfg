CONSTANTS
  Image = {i1, i2}
  Thread = {t1, t2}
  Buffer = {u1, u2}
  Blocks = 2
  Code = Code
  Null = Null
SPECIFICATION Spec
SYMMETRY Sym
INVARIANTS OnePlace BuffersKept
CHECK_DEADLOCK FALSE
