CONSTANTS
  KernelStart = 9
  KernelEnd = 10
  StackTop = 11
  IoStart = 11
  Console = 12
  ProcStart = 13
  Mem = 23
  ProcSize = 3
  NPROC = 5
  HZ = 4
  Tables = 2
  Programs = 3
  KernelPerms = {{"P"}, {"P", "W"}}
  Args = {1, 9, 13, 14, 15, 17, 22, 23, 24}
  Calls = {"getpid", "yield", "panic", "fork", "exit"}
  Keys = {"a", "f", "e", "q"}
  Cpus = {c1, c2, c3, c4}
  TablePages = {0, 1, 2, 3, 4}
  Targets = {0, 10}
  Perms = {{}, {"P"}, {"P", "W", "U"}}
SPECIFICATION MachineSpec
CHECK_DEADLOCK FALSE
INVARIANTS PagesCounted IterExact SeesAll Window
PROPERTIES EachTurn RefinesMap GuardContract BacktraceSafe
