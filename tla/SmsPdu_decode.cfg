SPECIFICATION Spec
CONSTANTS
  Messages <- MCMessages
  Junk <- MCJunk
INVARIANTS
  RoundTrip
  PartialReadSafe
