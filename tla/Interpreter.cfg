CONSTANTS
    ByteBits = 4
    WordBytes = 2
    EBase = 72
    Stride = 8
    FieldBytes = 6
    HBase = 88
    Window = 66
    WindowMask = 63
    BitAnd <- ToyAnd
    FloatOp <- ToyOp
    FloatTest <- ToyTest
    FloatOf <- ToyFloat
    Trunc <- ToyTrunc
    View = "window"
    FastPaths = TRUE
    GBase = 2
    NumGlobals = 15
    LsBase = 32
    LsTop = 2
    LsWords = 8
    NumStatements = 2
    MaxTempGrowth = 8
    TempRoom = 4
    LoadI64Zero3 = TRUE
    NeSRawStrcmp = TRUE
    Statements <- ToyStatements
    Starts <- ToyStarts
    Statics <- ToyStatics
    Callees <- ToyCallees
    RandomWords = {0, 255}
    Step = 1
SPECIFICATION Spec
PROPERTIES FastPathsExact ProtectedFieldsKept LoopsCharged StoppedStaysPut
CHECK_DEADLOCK FALSE
