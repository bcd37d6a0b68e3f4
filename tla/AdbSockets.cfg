CONSTANTS
  MaxStreams = 2
  Size = 2
  Payload = 2
  Room = 1
  MaxSessions = 1

SPECIFICATION FairSpec

INVARIANTS
  TypeOK
  FlowControl
  NoOldSession
  SuccessMeansWhole

PROPERTIES
  BacklogDelivered
  Answered

\* The process exits after a sideload, and the host may do nothing more.
CHECK_DEADLOCK FALSE
