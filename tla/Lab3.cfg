CONSTANTS
  Workers = {w1, w2}
  Listener = listener
  Admin = admin
  Nodes = {n1, n2}
  NULL = NULL
  MaxConns = 3
  Key = {k1, k2, k3}
  Val = {v1, v2}
  Missing = Missing
  TABLE_MAX = 2
  Bufs = {b1, b2, b3}
  Callers = {t1, t2}
  Counters = {writes, fails}
  MaxCount = 2
SPECIFICATION LabSpec
INVARIANTS MemorySafe QueueRight
PROPERTIES RefinesFifo NobodyStarves StoreContract StatsContract
