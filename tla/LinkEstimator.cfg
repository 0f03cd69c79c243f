CONSTANTS
  a = a
  b = b
  c = c
  NoAddr = NoAddr
  Neighbors = {a, b, c}
  NEIGHBOR_TABLE_SIZE = 2
  EVICT_EETX_THRESHOLD = 20
  Worlds <- AllWorlds
SPECIFICATION Spec
INVARIANTS TypeOK OneSlotEach EetxBounded FooterFair
PROPERTIES AckNeverHurts ImplementsLinkTable
