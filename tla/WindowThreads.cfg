CONSTANTS Helpers = {h1, h2, h3}

SPECIFICATION FairSpec

INVARIANTS
  TypeOK
  CountIsExact
  ThreadsClosedOrMishap

PROPERTY WaitEnds

\* A window is made once; when it is freed its helpers end.
CHECK_DEADLOCK FALSE
