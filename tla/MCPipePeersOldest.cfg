CONSTANTS
  Process = {p1, p2}
  Privileged = {p1}
  SlotsPerBucket = 2
  MaxInstance = 3
  MaxGeneration = 5
  GenerationBits = 4
  Null = Null
SPECIFICATION Spec
INVARIANTS OldestGoes
CHECK_DEADLOCK FALSE
