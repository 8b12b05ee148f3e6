SPECIFICATION Spec
CONSTANTS
  SoftDisableFrames = 2
  BrakeGraceFrames = 2
  PandaGraceFrames = 3
  QuietGraceFrames = 3
  MismatchLimit = 3
  OffRequestHold = 2
  CarStates <- MCDriver
  PandaSamples <- MCPandas
  SystemEvents = {{}, {"doorOpen"}}
  DisengageOnAccelerator = {TRUE, FALSE}
INVARIANTS
  NoSilentLoss
  OffMeansOff
  SupersetOfStock
  OffRequestEnds
PROPERTIES
  QuietWhileSteering
  LateralMismatchRevokes
