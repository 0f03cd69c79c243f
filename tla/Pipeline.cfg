CONSTANTS
  INVALID_ADDR = INVALID_ADDR
  MaxSent = 2
  Worlds <- AllWorlds
SPECIFICATION PathSpec
INVARIANTS PathTypeOK Serialized Diffused NextHop
PROPERTIES ForwarderTold FreedOrAbandoned
