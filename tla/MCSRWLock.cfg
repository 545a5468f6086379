CONSTANTS
  Thread = {t1, t2, t3, t4}
  Null = Null
SPECIFICATION Spec
SYMMETRY Sym
INVARIANTS OwnersRight NoDeadBlock NoLostWakeup
