SPECIFICATION Spec
CONSTANTS
  Align = 2
  MaxHeap = 8
  MaxAlloc = 3
  Val = {0, 1}
  Requests = {0, 1, 3, 4}
INVARIANTS
  BlocksTile
PROPERTIES
  HeapKeepsBlocks
