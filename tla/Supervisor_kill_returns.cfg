\* One stub and a thread in kill, everything scheduled fairly.
SPECIFICATION FairSpec
CONSTANTS
  Stub = {s1}
  StubPid = {p1}
  ExternalPid = {e1}
  Waiter = {}
  Killer = {k1}
  ReuseHeld = FALSE
  None = None
PROPERTIES
  KillReturns
\* Once every stub is dead, every message handled and every thread blocked,
\* nothing is left to do.
CHECK_DEADLOCK FALSE
