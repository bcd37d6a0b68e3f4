CONSTANTS
  None = None
  MaxLog = 3
  MaxSessions = 6
  MaxLogLines = 2

SPECIFICATION LogSpec

INVARIANTS
  LogTypeOK
  NewestFirst
  LogComplete

PROPERTY DropsOnlyOldest

\* The sessions are bounded.
CHECK_DEADLOCK FALSE
