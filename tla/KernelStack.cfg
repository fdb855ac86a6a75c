CONSTANTS
  KernelStart = 9
  KernelEnd = 10
  StackTop = 11
  IoStart = 11
  Console = 12
  ProcStart = 13
  Mem = 23
  ProcSize = 3
  NPROC = 5
  HZ = 4
  Tables = 2
  Programs = 3
  KernelPerms = {{"P"}}
  Args = {}
  Calls = {"getpid"}
  Keys = {}
SPECIFICATION Spec
CHECK_DEADLOCK FALSE
INVARIANTS EntriesWork
