SPECIFICATION BackSpec
CONSTANTS
  SmallestSize = 8
  Capacity = 4
  Sizes = {1, 2, 4}
  MaxPackets = 4
  Wirings = {TRUE, FALSE}
INVARIANTS TypeOK AssertsHold PacketsIntact MemoryIsSound
PROPERTIES ImplementsLanes EveryPacketLeaves
CHECK_DEADLOCK FALSE
