SPECIFICATION SetupSpec
CONSTANTS
  InitialOption = 0
  MaxOption = 0
  InitialDefault = 2
  MaxDefault = 30
  MaxFailures = 7
  InitModem = TRUE
  TimeoutOption = 20
  TimeoutDefault = 120
  RetryDelay = 2
  OpenTimes = {3}
  CommandTimes = {0, 5}
  Outages = {0, 130}
INVARIANTS
  DelayDoubles
  ConnectsInTime
  TimeoutHonoured
  StopsInTime
