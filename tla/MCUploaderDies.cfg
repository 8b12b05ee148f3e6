CONSTANTS
  NumSegs = 1
  toggles = {}
  MaxFailures = 0
  MaxReboots = 1
  PreserveCount = 1
  MaxIssues = 0
  MaxFaults = 1
SPECIFICATION Spec
INVARIANT
  UploaderSurvives
CHECK_DEADLOCK FALSE
