SPECIFICATION Spec
CONSTANTS
    Keys <- MCKeys
    Texts <- MCTexts
    Lines <- MCLines
    HashOf <- MCHashOf
    Types = {0, 1}
    StringType = 1
    DefaultType = 3
    Sizes = {1, 4}
    MinBuckets = 2
    DefaultBuckets = 1
    MaxBuckets = 2
    GamestateBuckets = 2
    BucketBytes = 1
    EntryBytes = 2
    SlotBytes = 1
    TokenBytes = 2
    TablesLimit = 1
    BuffersLimit = 2
    EntriesLimit = 2
    MaxSetIndex = 2
    ContainerLimit = 9
INVARIANT BudgetBalances
PROPERTY TablesAreStacks
