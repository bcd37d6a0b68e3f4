CONSTANTS
  QueueMax = 3
  MaxKeys = 5

SPECIFICATION FairSpec

INVARIANTS
  TypeOK
  CompletionPending
  ResultIsOwn

PROPERTY InstallReported

\* A UI thread whose notification was lost sleeps on.
CHECK_DEADLOCK FALSE
