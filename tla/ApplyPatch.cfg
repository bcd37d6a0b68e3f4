CONSTANTS
  N = 5
  Partitions = {2, 4}
  Elsewhere = {3, 4}
  Asserted = {1, 2, 4}
  MaxFaults = 4

SPECIFICATION FairSpec

INVARIANTS
  TypeOK
  SourceSurvives
  SuccessMeansTarget

PROPERTIES
  Completes
  Atomic

\* A script that has succeeded is not run again.
CHECK_DEADLOCK FALSE
