SPECIFICATION FairSpec
CONSTANTS
  Handlers = {h1, h2}
  ActionIDs <- SessionActions
  InitModem = TRUE
  MaxSms = 1
  ListMax = 1
  MaxFaults = 2
  None = none
INVARIANTS
  PushWhileListening
  ListingsReadable
PROPERTIES
  PushReturns
  StoredIsReadable
