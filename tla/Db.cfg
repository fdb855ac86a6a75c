CONSTANTS
  Workers = {w1}
  Admin = admin
  Clients = {c1, c2, c3}
  Key = {k1}
  Strings <- SomeStrings
  Ops = {"W", "R", "D"}
  Missing = Missing
  NULL = NULL
  Bufs = {b1, b2, b3}
  TABLE_MAX = 2
  Garbage = "?"
  PartialReads = FALSE
  AdminQuits = FALSE
  MaxKills = 1
  MaxBadTasks = 0
  Pair = {v1, v2}
SPECIFICATION DbSpec
SYMMETRY BothInterchangeable
CHECK_DEADLOCK FALSE
INVARIANTS ReadsWritten  CountsExact
