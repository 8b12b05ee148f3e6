SPECIFICATION Spec
CONSTANTS
  Debounce = 2
  Double = 3
  Reject = 3
  ReleaseMin = 2
  GasWait = 3
  ReleaseMax = 4
  OfferMax = 2
  ArmMax = 5
  VerifyMax = 3
INVARIANTS
  RejectionSticks
  OneTerminalRecord
  OfferIsEarned
  FirstPressOnly
