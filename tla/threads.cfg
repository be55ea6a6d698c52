SPECIFICATION Spec
CONSTANTS
  c1 = c1
  c2 = c2
  Conns = {c1, c2}
  Casts <- TwoOrBusy
INVARIANTS TypeOK PollersPointToHeld CallbacksArePaired DropsNeedASlowPeer
PROPERTIES InvalidIsReleased GonePeerIsReleased RequestIsServed
CHECK_DEADLOCK FALSE
