SPECIFICATION Spec
CONSTANTS
  Word16 = 16
  Word32 = 2048
  NumParms = 1
  NameBytesMax = 50
  NameBytes <- MCNameBytes
  PointerFlag = 1024
  Main = "main"
  Files = {"addon", "vectors", "huge", "too long"}
  FileOf <- MCFileOf
  ProgsLimit = 3
  EBase = 256
  LsWords = 2
  CallDepth = 3
  Reentry = 2
  StrideWords = 8
  FunctionTag = 8
  Configured = {}
  BuiltinNumbers = {1}
  BuiltinNames = {"own"}
  HostFields = {"extra"}
  CvarOf <- MCCvarOf
  Val = {0, 1}
  Passed = {1}
  ForeignBuiltins = FALSE
INVARIANTS
  SharedIsLatest
  LoadedCodeStaysInside
  FieldsConsistent
  ExternsLinked
