SPECIFICATION MCSpec
CONSTANTS
  Table <- MCTable
  Restarted <- MCRestarted
  Readings <- MCReadings
  JoinTicks = 1
  HoldTicks = 2
  Capable = TRUE
  CycleTicks = 1
  DisconnectTicks = 0
  OffroadTicks = 0
  SeedTicks = 1
  MaxEvents = 2
  MaxCrashes = 1
INVARIANTS DriveIsRecorded ParkIsNotRecorded CoolsDownFirst DeathIsReported OnroadEnds
CHECK_DEADLOCK FALSE
