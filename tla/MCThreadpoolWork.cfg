CONSTANTS
  Client = {c1, c2}
  Worker = {w1, w2}
  MaxPost = 3
SPECIFICATION FairSpec
INVARIANTS RefsCounted SignalledWhenIdle
PROPERTIES WaitsEnd
CHECK_DEADLOCK FALSE
