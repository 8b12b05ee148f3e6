CONSTANTS
  Nets <- MCNets
  Members <- MCMembers
  Mobile <- MCMobile
  Cost <- MCCost
  Order <- MCOrder
  NoNet <- MCNoNet
  Hotspot <- MCHotspot
  GraceTicks = 2
  PinTicks = 3
  AbsentScans = 2
  UpgradeTicks = 2
  HoldTicks = 2
  Backoff <- MCBackoff
  Faults = {"active", "usable", "scan", "cost", "pick", "saved"}
  DhcpTicks = 1
  MaxFaults = 1
  MaxEvents = 0
SPECIFICATION MCSpec
PROPERTY
  ErrorIsNotAbsence
CHECK_DEADLOCK FALSE
