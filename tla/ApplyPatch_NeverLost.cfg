CONSTANTS
  N = 1
  Partitions = {1}
  Elsewhere = {}
  Asserted = {1}
  MaxFaults = 1

SPECIFICATION Spec

INVARIANT NeverLost

CHECK_DEADLOCK FALSE
