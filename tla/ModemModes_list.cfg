SPECIFICATION FairSpec
CONSTANTS
  Handlers = {h1}
  ActionIDs <- ListActions
  InitModem = TRUE
  MaxSms = 2
  ListMax = 1
  MaxFaults = 0
  None = none
PROPERTIES
  StoredIsReadable
