SPECIFICATION FairSpec
CONSTANTS
  MaxEdicts = 2
  FirstSpawnable = 1
  Early = 1
  Quiet = 1
  SerialMod = 4
  MaxClock = 0
  MaxTakes = 3
  ThreadLimit = 2
  ThreadBytes = 3
  Sizes = {1}
  Delays = {0, 1}
  MaxTime = 1
  MaxAsleep = 3
  MaxDepth = 2
INVARIANTS
  PassRunsDueInOrder
PROPERTIES
  SleepersKept
  ResumedSelfIsSame
  PassEnds
