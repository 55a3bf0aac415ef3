\* One stub; nobody in waitpid or kill.
SPECIFICATION Spec
CONSTANTS
  Stub = {s1}
  StubPid = {p1}
  ExternalPid = {e1}
  Waiter = {}
  Killer = {}
  ReuseHeld = FALSE
  None = None
INVARIANTS
  StaysAlive
\* Once every stub is dead, every message handled and every thread blocked,
\* nothing is left to do.
CHECK_DEADLOCK FALSE
