SPECIFICATION FairSpec
CONSTANTS
  EventsCap = 1
  RawLinesCap = 1
  ImportantCap = 1
  RawCap = 1
  InitModem = TRUE
  TelegramRaw = TRUE
  MaxSms = 1
  MaxSession = 2
PROPERTIES
  ShutdownCompletes
  DeadLinkReleased
  SmsResolved
  ClosedReported
