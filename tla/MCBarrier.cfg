CONSTANTS
  Thread = {t1, t2, t3}
  Context = {c1}
  BadContext = {odd}
  Null = Null
SPECIFICATION BarrierFairSpec
INVARIANTS LeaversWaitedFor
PROPERTIES ImplementsRendezvous RoundEnds
CHECK_DEADLOCK FALSE
