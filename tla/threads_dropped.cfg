SPECIFICATION Spec
CONSTANTS
  c1 = c1
  c2 = c2
  Conns = {c1, c2}
  Casts <- JustTwo
INVARIANT OnlyOwnTroubleDrops
CHECK_DEADLOCK FALSE
