SPECIFICATION FairStreamSpec
CONSTANTS
  StageSize = 3
  BufSize = 2
  MaxBytes = 6
INVARIANTS
  StreamIntact
  FailureIsTrue
PROPERTY
  ReaderReleased
