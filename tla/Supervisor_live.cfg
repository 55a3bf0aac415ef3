\* Two stubs and nobody in waitpid or kill: liveness of the bus thread.
SPECIFICATION FairSpec
CONSTANTS
  Stub = {s1, s2}
  StubPid = {p1, p2}
  ExternalPid = {e1, e2}
  Waiter = {}
  Killer = {}
  ReuseHeld = FALSE
  None = None
CONSTRAINT OwnPids
PROPERTIES
  StubAnswered
  KeepsTheBooks
  BooksSettle
\* Once every stub is dead, every message handled and every thread blocked,
\* nothing is left to do.
CHECK_DEADLOCK FALSE
