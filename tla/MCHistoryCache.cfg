\* Four slots for three changes; the low word wraps twice within nine
\* sequence numbers.
CONSTANTS
  Data = {d1, d2}
  NoData = NoData
  SIZE = 3
  LowRange = 4
  MaxSN = 9
SPECIFICATION Spec
INVARIANTS
  WindowConsecutive
  LookupExact
PROPERTY
  ImplementsHistory
CHECK_DEADLOCK FALSE
