SPECIFICATION Spec
CONSTANTS
  Messages <- HeaderMessages
  Junk <- MCJunk
INVARIANT
  RoundTrip
