SPECIFICATION MCSpec
CONSTANT SoftDisableFrames = 20
PROPERTY FullSoftDisableWarning
PROPERTY SoftDisableEnds
