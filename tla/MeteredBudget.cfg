CONSTANTS
  Cap = 3
  Sizes = {1, 2}
  LastDay = 2
  MaxSends = 4
SPECIFICATION MeterSpec
INVARIANTS
  CapHolds
  Accounted
PROPERTY
  FailsClosed
CHECK_DEADLOCK FALSE
