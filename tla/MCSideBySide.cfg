CONSTANTS
  Process = {p1, p2}
  Privileged = {p1}
  SlotsPerBucket = 1
  MaxInstance = 3
  MaxGeneration = 5
  GenerationBits = 4
  Null = Null
  kMaxBlockSize = 3
  MaxPush = 11
  Thread = {t1, t2}
  Root = Root
SPECIFICATION SideSpec
INVARIANTS IdsOfItsInstance AnswersRight NullOnlyWhenEmpty BlocksCounted CalledBackOnce
PROPERTY ImplementsFifo
CHECK_DEADLOCK FALSE
