\* Two writers of one participant come and go in two proxy slots; every order,
\* repetition and loss of two changes and two heartbeats of each.
CONSTANTS
  Writers = {w1, w2}
  NoWriter = NoWriter
  Participants = {{w1, w2}}
  ProxySlots = 2
  MaxSN = 2
  MaxHB = 2
  MaxReceived = 3
SPECIFICATION Spec
SYMMETRY Symmetry
INVARIANTS
  TypeOK
  InOrderOnce
  NeverAsksAgain
  NothingRefusedUnseen
  EarlyDataNotRepeated
CHECK_DEADLOCK FALSE
