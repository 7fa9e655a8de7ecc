\* The tracker of one GPU, with ticks that miss it and a clock that leaps.
SPECIFICATION Spec
CONSTANTS
  Owners = {o1, o2}
  Steps = {1, 2}
  Leaps = {0, 3}
  IdleSeconds = 3
  UnclaimedGrace = 1
  MemDelta = 1
  TotalMemory = 7
  MemReserve = 4
  MaxOwnerMemory = 3
INVARIANTS
  TypeOK
  QuietWhenWatched
  OwnersAreSettled
  SpotAloneKeepsItsGpu
PROPERTIES
  CreepIsNoticed
