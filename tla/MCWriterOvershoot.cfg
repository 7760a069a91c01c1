\* KEEP_LAST with room for two changes and the default of overwriting: next is
\* moved by newChange and by the workloads.
CONSTANTS
  Readers = {r1}
  NoReader = NoReader
  Participants = {}
  Configs <- OverwriteConfigs
  Kinds = {"plain"}
  SIZE = 2
  ProxySlots = 1
  QueueLength = 2
  FragSize = 2
  MaxSN = 4
  MaxRejects = 1
  MaxCount = 0
  MaxBits = 0
  MaxHB = 0
SPECIFICATION Spec
INVARIANT
  SentToAll
CHECK_DEADLOCK FALSE
