\* The settings with which workloads and changes match one to one: two readers
\* come and go while the queue, the history and the proxy pool run full.  And every
\* kind of history with and without resource limits, with one reader and heartbeats.
CONSTANTS
  Readers = {r1, r2}
  NoReader = NoReader
  Participants = {{r1, r2}}
  Configs <- WriterConfigs
  Kinds = {"plain", "fragmented"}
  SIZE = 2
  ProxySlots = 2
  QueueLength = 2
  FragSize = 2
  MaxSN = 3
  MaxRejects = 1
  MaxCount = 0
  MaxBits = 0
  MaxHB = 2
SPECIFICATION Spec
SYMMETRY Symmetry
CONSTRAINT Focus
INVARIANTS
  TypeOK
  PushNeverLags
  PushInStep
  EveryoneServed
  LateJoinersServed
  LimitsRespected
  StaleHeartbeatsSafe
PROPERTY
  KeepAllKeeps
CHECK_DEADLOCK FALSE
