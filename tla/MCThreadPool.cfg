CONSTANTS
  PoolClient = {c1}
  Runner = {r1, r2, r3}
  Maximum = 2
  PoolMaxPost = 4
SPECIFICATION PoolFairSpec
INVARIANTS PoolKept
PROPERTIES QueueEmpties
CHECK_DEADLOCK FALSE
