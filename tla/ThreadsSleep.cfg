SPECIFICATION Spec
CONSTANTS
  MaxEdicts = 1
  FirstSpawnable = 1
  Early = 1
  Quiet = 1
  SerialMod = 4
  MaxClock = 0
  MaxTakes = 1
  ThreadLimit = 2
  ThreadBytes = 2
  Sizes = {1, 2}
  Delays = {0, 1}
  MaxTime = 1
  MaxAsleep = 3
  MaxDepth = 2
INVARIANTS
  SleeperDoesNotRun
