SPECIFICATION FairSpec
CONSTANTS
  Handlers = {h1}
  Watchdog = watchdog
  Nobody = nobody
  Threshold = 3
  InitModem = TRUE
  MaxCommands = 2
  MaxSession = 3
INVARIANTS
  OneCommandAtATime
  NoCommandDuringInit
  ExecutorOffersOpenPort
  AlertsJustified
PROPERTIES
  ActionAnswered
  OutageReported
