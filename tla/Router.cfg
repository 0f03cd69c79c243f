CONSTANTS
  a = a
  b = b
  c = c
  Me = Me
  Elsewhere = Elsewhere
  INVALID_ADDR = INVALID_ADDR
  Neighbors = {a, b, c}
  TableSize = 2
  Eetx = {0, 60}
  EvictThreshold = 55
  Worlds <- AllWorlds
SPECIFICATION Spec
SYMMETRY Symmetry
INVARIANTS TypeOK ParentIsRouted EvictionFollows ParentPinned PinsReturned RouteAnnounced BeaconTimerRuns Advertised
PROPERTIES NoFlapping
