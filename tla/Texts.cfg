SPECIFICATION Spec
CONSTANTS
    FirstTexts <- MCFirstTexts
    ReadTexts <- MCReadTexts
    Pieces <- MCPieces
    InfoPieces <- MCInfoPieces
    Numbers <- MCNumbers
    Patterns <- MCPatterns
    MaxCalls = 2
    MaxLen = 8
    Plenty = 1000
    IntBits = 8
    TempBuf = 9
    ReplaceMax = 20
    ConcatMax = 9
    ShortNeedle = 1
    TokenMax = 6
    CStringMax = 5
    TokenBytes = 3
    InfoFieldMax = 7
    InfoMax = 15
    InfoPairMax = 8
    InfoKeyMax = 6
    LongBits = 12
    HeapBase = 100
    HeapMax = 48
    HeapAlign = 4
    JsonDepth = 3
    JsonLen = 1
INVARIANTS
    QuotesReadBack TokensTile CharactersCounted SearchesExact PackedStringsKept NumbersParsed TreesReadBack
CHECK_DEADLOCK FALSE
