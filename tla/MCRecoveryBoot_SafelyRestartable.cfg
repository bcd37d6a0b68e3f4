CONSTANTS
  Absent = Absent
  Commands <- MCReset
  MaxRequests = 1
  MaxCrashes = 1
  MaxFaults = 0
  MaxLines = 1

SPECIFICATION Spec

INVARIANT SafelyRestartable
