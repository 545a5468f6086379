CONSTANTS
  Thread = {t1, t2, t3}
  Null = Null
  WakeMask = 7
SPECIFICATION Spec
INVARIANTS NoDeadBlock
CHECK_DEADLOCK FALSE
