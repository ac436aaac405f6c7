SPECIFICATION Spec
CONSTANTS
  EventsCap = 2
  RawLinesCap = 2
  ImportantCap = 2
  RawCap = 1
  InitModem = TRUE
  TelegramRaw = TRUE
  MaxSms = 3
  MaxSession = 2
INVARIANTS
  NotifiedInOrder
  LinkHeldInSession
  NoFalseClosedAlert
PROPERTIES
  NoSilentLoss
  ImplementsFeed
