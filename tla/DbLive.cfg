CONSTANTS
  Workers = {w1}
  Admin = admin
  Clients = {c1, c2}
  Key = {k1}
  Strings <- OneString
  Ops = {"W", "R", "D", "Q"}
  Missing = Missing
  NULL = NULL
  Bufs = {b1, b2}
  TABLE_MAX = 2
  Garbage = "?"
  PartialReads = FALSE
  AdminQuits = TRUE
  MaxKills = 1
  MaxBadTasks = 1
SPECIFICATION FairSpec
INVARIANT ServerSound
PROPERTIES ClientsFinish QuitStops
CHECK_DEADLOCK FALSE
