\* Matches on the reader thread and removals on the SPDP thread, one by one and
\* crossing, of the proxies of three readers with one address and one with none.
CONSTANTS
  r1 = r1
  r2 = r2
  r3 = r3
  r4 = r4
  g = g
  NoGroup = NoGroup
  NoReader = NoReader
  Readers = {r1, r2, r3, r4}
  Host <- Hosts
  Entity <- Entities
  Group <- Groups
  Participants = {{r1, r3}, {r2}}
  Matchers = {"rx"}
  ProxySlots = 3
SPECIFICATION Spec
INVARIANT EveryoneCovered
