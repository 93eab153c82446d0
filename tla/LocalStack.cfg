SPECIFICATION Spec
CONSTANTS
  f = f
  h = h
  Func = {f, h}
  Base <- MCBase
  Words <- MCWords
  Params <- MCParams
  GlobalWords = 2
  LsWords = 3
  CallDepth = 2
  Reentry = 2
  MaxSleeping = 1
  SwitchReset = FALSE
  Val = {0, 1}
  Statements = 2
  MaxPush = 1
  NoFunc = NoFunc
INVARIANTS
  LayoutIntact
  ResumeNeverFails
PROPERTIES
  LocalsRestored
  CallerContextRestored
  ResumeRebuilds
