CONSTANTS
  Absent = Absent
  Commands <- MCCommands
  MaxRequests = 3
  MaxCrashes = 2
  MaxFaults = 2
  MaxLines = 2

SPECIFICATION FairSpec

INVARIANTS
  TypeOK
  CommandKept
  SuccessMeansErased
  NothingRepeats
  ErasesOnRequest

PROPERTY ReturnsControl
