CONSTANTS
  Workers = {w1, w2}
  Admin = admin
  Clients = {c1, c2, c3}
  Key = {k1}
  Strings <- OneString
  Ops = {"W", "R", "D"}
  Missing = Missing
  NULL = NULL
  Bufs = {b1, b2, b3}
  TABLE_MAX = 2
  Garbage = "?"
  PartialReads = FALSE
  AdminQuits = FALSE
  MaxKills = 0
  MaxBadTasks = 0
SPECIFICATION Spec
INVARIANT NoUseAfterFree
CHECK_DEADLOCK FALSE
