SPECIFICATION Spec
CONSTANTS
  BrakeGraceFrames = 2
  PandaGraceFrames = 4
  EventSets = {{}, {"pcmDisable", "pedalPressed"}, {"buttonCancel", "pcmDisable"}, {"tooDistracted"}}
INVARIANTS
  LateralHasCause
  NoReturnAfterStandDown
  BrakeKeepsSteering
PROPERTIES
  ImplementsAuthority
