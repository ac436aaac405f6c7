SPECIFICATION FairSpec
CONSTANTS
  modem = modem
  other = other
  Devices = {modem, other}
  Pinned = {modem, other}
  MaxCalls = 2
  AltSettings <- MCAltSettings
  Interfaces <- MCInterfaces
  Chunks <- MCChunks
INVARIANTS
  NothingLeaked
  FirstAnsweringInterface
  ListReports
PROPERTY
  CallReturns
