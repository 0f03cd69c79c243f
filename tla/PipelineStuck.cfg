CONSTANTS
  Worlds <- LateWorld
SPECIFICATION FairSpec
PROPERTIES LockFreed
