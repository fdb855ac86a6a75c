CONSTANTS
  Inputs <- MCGood
  MaxProc = 7
  Node = {n1, n2, n3}
  NullNode = NullNode
SPECIFICATION ShellSpec
CHECK_DEADLOCK FALSE
INVARIANTS ForegroundDone ChainRuns PipesConnect ParsesGrammar  QueueProgram
PROPERTIES AllEnd 
