SPECIFICATION Spec
CONSTANTS
  suffixLen = 12
  cmglItemMax = 14
  smsBodyMax = 15
  fromPreviewMax = 13
  watchdogReasonMax = 16
  Frame = 4
  maxText = 32
  Label = 1
  MaxLen = 5
  ValueSizes <- SomeSizes
  Tokens <- SomeTokens
  Senders <- SomeSenders
  Listings <- AllListings
INVARIANTS
  MessageAccepted
  TruncationIsTold
  ListFaithful
  NoDeadEnd
