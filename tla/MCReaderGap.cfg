\* One matched writer of three changes, any of which may be lost or late.
CONSTANTS
  Writers = {w1}
  NoWriter = NoWriter
  Participants = {}
  ProxySlots = 1
  MaxSN = 3
  MaxHB = 1
  MaxReceived = 3
SPECIFICATION Spec
INVARIANT
  NothingSkipped
CHECK_DEADLOCK FALSE
