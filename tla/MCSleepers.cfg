CONSTANTS
  Thread = {t1, t2, t3}
  Address = {a1, a2}
  WakeMask = 7
  Null = Null
  BelowVista = TRUE
SPECIFICATION SleepersSpec
SYMMETRY Sym
INVARIANTS NoBlockDead NobodyLeft BlocksAndWakesKept
PROPERTIES WakeReaches
CHECK_DEADLOCK FALSE
