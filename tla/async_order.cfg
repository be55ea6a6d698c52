SPECIFICATION BackSpec
CONSTANTS
  SmallestSize = 8
  Capacity = 4
  Sizes = {1, 2, 4}
  MaxPackets = 4
  Wirings = {FALSE}
INVARIANTS PacketsInOrder
CHECK_DEADLOCK FALSE
