\* Two subscribers, three writers of two participants; a table of two entries.
CONSTANTS
  a = a
  b = b
  c = c
  rt = rt
  ru = ru
  NoWriter = NoWriter
  NoReader = NoReader
  Writers = {a, b, c}
  Participants = {{a}, {b, c}}
  Creations <- Order
  Topic <- Topics
  ProxySlots = 1
  MaxUnmatched = 1
  MaxMappings = 2
SPECIFICATION Spec
CONSTRAINT NotTorn
INVARIANTS
  TableIsAMap
  OnlyItsTopic
CHECK_DEADLOCK FALSE
