SPECIFICATION Spec
CONSTANTS
  Builtin = {b}
  NoBuiltin = NoBuiltin
  MaxArgs = 1
  Reentry = 2
  Runaway = 3
  HasDeadline = FALSE
  BudgetChunk = 2
  WarningsPerCall = 1
  MaxWarnings = 2
  MayTrace = FALSE
INVARIANTS
  BuiltinKeepsContext
  AbortReachesItsCall
PROPERTIES
  CollectsWhenIdle
  CallReportsWarnings
