CONSTANTS
  NumSegs = 2
  toggles = {}
  MaxFailures = 1
  MaxReboots = 1
  PreserveCount = 1
  MaxIssues = 1
  MaxFaults = 1
SPECIFICATION Spec
INVARIANTS
  UploadedIsWhole
  LossIsReported
PROPERTIES
  OpenFilesStay
  LossIsLastResort
CHECK_DEADLOCK FALSE
