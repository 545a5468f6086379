CONSTANTS
  Image = {i1, i2}
  Thread = {t1, t2}
  Mapping = {m1, m2}
  Client = {c1, c2}
  Window = {w1, w2}
  Task = {k1, k2}
  Registration = {r1, r2}
  Null = Null
SPECIFICATION SideSpec
INVARIANTS NothingLeaked OneMapping RefsCounted Served TasksAlive
PROPERTIES KeptForLife WaitOutlasts CallsEnd WindowGoes
CHECK_DEADLOCK FALSE
