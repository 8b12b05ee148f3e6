SPECIFICATION PairSpec
CONSTANTS
  SoftDisableFrames = 1
  BrakeGraceFrames = 2
  PandaGraceFrames = 5
  QuietGraceFrames = 0
  MismatchLimit = 4
  OffRequestHold = 1
  CarStates = {}
  PandaSamples = {}
  SystemEvents = {{}, {"doorOpen"}}
  RelatchTicks = 3
  PollTicks = 2
  SecondTicks = 4
  MaxMissed = 1
  PandaFaults = TRUE
INVARIANTS
  NeverSteersBlocked
  UnaskedIsBounded
  BlockedIsBounded
