\* Progress of the writer and reader threads: one reader that may go away and
\* return, and ACKNACKs of every shape.
CONSTANTS
  Readers = {r1}
  NoReader = NoReader
  Participants = {}
  Configs <- LiveConfigs
  Kinds = {"plain"}
  SIZE = 2
  ProxySlots = 1
  QueueLength = 2
  FragSize = 2
  MaxSN = 2
  MaxRejects = 1
  MaxCount = 1
  MaxBits = 1
  MaxHB = 0
SPECIFICATION FairSpec
PROPERTIES
  PushedEventually
  AnsweredEventually
CHECK_DEADLOCK FALSE
