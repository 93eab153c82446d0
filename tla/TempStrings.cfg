SPECIFICATION Spec
CONSTANTS
  Aligned = {a}
  Elsewhere = {e}
  InitialSlots = 2
  MaxSlots = 3
  MaxBytes = 20
  MaxGrowth = 9
  Lengths = {2, 7}
  Unit = 4
  MaxRef = 2
  MaxNesting = 2
  MaxPins = 1
INVARIANTS
  LimitsExact
PROPERTY
  StringsKept
