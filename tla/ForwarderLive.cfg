CONSTANTS
  Worlds <- LiveWorlds
  Clients = {c1}
  FORWARD_COUNT = 2
  MAX_RETRIES = 2
  CACHE_SIZE = 1
  Packets = {p1}
  Parents <- MCParents
  ParentLists <- MCParentLists
  pa = pa
  pb = pb
  None = None
SPECIFICATION FairSpec
PROPERTIES EntriesReturn
