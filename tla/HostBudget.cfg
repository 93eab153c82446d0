SPECIFICATION FairSpec
CONSTANTS
  Builtin = {b}
  NoBuiltin = NoBuiltin
  MaxArgs = 0
  Reentry = 2
  Runaway = 3
  HasDeadline = TRUE
  BudgetChunk = 2
  WarningsPerCall = 1
  MaxWarnings = 0
  MayTrace = TRUE
INVARIANTS
  NoStatementTracedTwice
PROPERTIES
  BudgetIsOneCounter
  HostCallsEnd
