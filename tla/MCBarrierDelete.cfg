CONSTANTS
  Thread = {t1, t2, t3}
  Context = {c1}
  BadContext = {odd}
  Null = Null
SPECIFICATION BarrierSpec
INVARIANT DeleteWaitsForAll
CHECK_DEADLOCK FALSE
