\* The endpoints of MCDiscovery, one slot in every pool.
CONSTANTS
  p1 = p1
  w1 = w1
  w2 = w2
  r1 = r1
  gw = gw
  gr = gr
  NoEndpoint = NoEndpoint
  ZeroPrefix = ZeroPrefix
  Participants = {p1}
  RemoteWriters = {gw}
  RemoteReaders = {gr}
  LocalWriters = {w1, w2}
  LocalReaders = {r1}
  Owner <- Owners
  Topic <- Topics
  Hash <- Hashes
  Reliable = {gw, gr, w1, w2, r1}
  TransientLocal = {}
  ProxySlots = 1
  MaxRemotes = 1
  MaxUnmatched = 2
  SameSubnet = {p1}
  Publications <- Published
  Subscriptions <- Subscribed
  Creations <- Order
  StatefulSlots = 1
  StatelessSlots = 0
SPECIFICATION Spec
INVARIANTS
  TypeOK
  NobodyWaitsForAPartner
  NoMatchMissed
  SomebodyGoesOn
CHECK_DEADLOCK FALSE
