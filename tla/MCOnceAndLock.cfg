CONSTANTS
  Thread = {t1, t2, t3}
  Context = {c1}
  BadContext = {odd}
  Null = Null
SPECIFICATION BothSpec
INVARIANTS WaitersReachableOnce
PROPERTIES ImplementsOnce WaitersWoken QueueDrains ImplementsRWLock
CHECK_DEADLOCK FALSE
