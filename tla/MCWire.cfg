\* Every shape of packet on every way to two participants, two packets in turn.
CONSTANTS
  Unwritten = Unwritten
  IP_ADDRESS <- Device
  MaxLocators = 5
  MaxNameLength = 9
  NumParticipants = 2
  Prefix <- OwnPrefix
  Readers <- OwnReaders
  Writers <- OwnWriters
  Matched <- KnownWriters
  Groups <- OwnGroups
  Compositions <- Shapes
  Destinations <- Ways
  MaxPackets = 2
SPECIFICATION Spec
INVARIANTS
  NoGap
  RightParticipant
  Understood
  AnnouncedIsUnderstood
CHECK_DEADLOCK FALSE
