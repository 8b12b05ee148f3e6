CONSTANTS
  Versions <- MCVersions
  Branches <- MCBranches
  BranchOf <- MCBranchOf
  AgnosOf <- MCAgnosOf
  Factory = "v1"
  MaxFaults = 1
  MaxEvents = 2
  MaxReboots = 2
  MaxLosses = 1
SPECIFICATION Spec
INVARIANTS
  StagedIsInstallable
  RunsWhole
  PromiseKept
  NoLostRequest
PROPERTY
  UpdateArrives
CHECK_DEADLOCK FALSE
