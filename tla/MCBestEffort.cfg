\* Readers that are matched on two threads and removed on a third, and changes
\* overwritten while they are pushed; one thread for each queue, as configured.
CONSTANTS
  Nothing = Nothing
  Writer = Writer
  WriterThreads = {wt}
  ReaderThreads = {rt}
  Workloads = {Writer}
  Packets <- Arrivals
  Traffic <- Arriving
  Stopped = {"announcer"}
  MaxPackets = 2
  Roles = {"user", "announcer"}
  SIZE = 2
  HistorySize = 1
  ProxySlots = 2
  MaxSN = 2
SPECIFICATION FairSpec
INVARIANTS
  TypeOK
  NoSleepOnWork
  NoSleepPastStop
  NothingSentAgain
PROPERTIES
  QueuesAreFifo
  StaysAnnounced
  StopEndsThreads
CHECK_DEADLOCK FALSE
