SPECIFICATION WalkSpec
CONSTANTS
  MaxEdicts = 4
  FirstSpawnable = 2
  Early = 1
  Quiet = 1
  SerialMod = 8
  MaxClock = 3
  MaxTakes = 3
PROPERTIES
  SlotsRespected
  WalkMissesNone
  WalkAddsLiveInOrder
