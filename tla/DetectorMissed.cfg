\* A GPU that was not listed for a while is lent at its first sighting.
SPECIFICATION Spec
CONSTANTS
  Owners = {o1, o2}
  Steps = {1, 2}
  IdleSeconds = 3
  UnclaimedGrace = 1
  MemDelta = 1
  TotalMemory = 7
  MemReserve = 4
  MaxOwnerMemory = 3
  Leaps = {0}
INVARIANTS
  QuietBeforeLending
