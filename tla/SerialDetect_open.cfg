SPECIFICATION FairSpec
CONSTANTS
  Ports = {1, 2, 3}
  Linux = TRUE
  Configured = {0, 2}
  MaxCalls = 2
  MaxChanges = 1
  PortName <- MCPortName
  Links <- MCLinks
  TTYInfo <- MCTTYInfo
  Reply <- MCReply
INVARIANTS
  OnlyLinkOpen
  BestChosen
  AnswerIsLine
PROPERTY
  DetectionEnds
