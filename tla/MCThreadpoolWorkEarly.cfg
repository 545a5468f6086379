CONSTANTS
  Client = {c1}
  Worker = {w1, w2}
  MaxPost = 3
SPECIFICATION Spec
PROPERTY WaitOutlasts
CHECK_DEADLOCK FALSE
