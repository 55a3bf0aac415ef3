\* Two stubs that have the same pid, one after the other, and a thread that
\* calls waitpid.
SPECIFICATION Spec
CONSTANTS
  Stub = {s1, s2}
  StubPid = {p1}
  ExternalPid = {e1, e2}
  Waiter = {w1}
  Killer = {}
  ReuseHeld = TRUE
  None = None
INVARIANTS
  AssertionHolds
\* Once every stub is dead, every message handled and every thread blocked,
\* nothing is left to do.
CHECK_DEADLOCK FALSE
