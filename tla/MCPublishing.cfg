\* Every class, published up to twice, each fragmented message sent twice.
CONSTANTS
  Classes <- AllClasses
  Values <- AllValues
  MaxPublished = 2
  MaxSends = 2
SPECIFICATION Spec
INVARIANTS
  RoundTrip
  Aligned
  InsideBuffer
  FragmentsMakeTheSample
CHECK_DEADLOCK FALSE
