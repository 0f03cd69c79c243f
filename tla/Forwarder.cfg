CONSTANTS
  Worlds <- AllWorlds
  Clients = {c1}
  FORWARD_COUNT = 2
  MAX_RETRIES = 2
  CACHE_SIZE = 1
  Packets = {p1, p2}
  Parents <- MCParents
  ParentLists <- MCParentLists
  pa = pa
  pb = pb
  None = None
SPECIFICATION Spec
SYMMETRY Symmetry
INVARIANTS TypeOK Ownership RoomForEveryEntry InflightIsOurs NoTwoCopies Wakeup GuardsLink InTime SendDoneIsDue
PROPERTIES SendsToNextHop
