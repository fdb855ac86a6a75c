CONSTANTS
  Inputs <- MCMissing
  MaxProc = 5
SPECIFICATION Spec
INVARIANTS OneShell
CHECK_DEADLOCK FALSE
