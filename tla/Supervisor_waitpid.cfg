\* Two stubs and a thread that calls waitpid and kill; numbers the supervisor
\* has done with may be used again.
SPECIFICATION Spec
CONSTANTS
  Stub = {s1, s2}
  StubPid = {p1, p2}
  ExternalPid = {e1, e2}
  Waiter = {t1}
  Killer = {t1}
  ReuseHeld = FALSE
  None = None
SYMMETRY Symmetry
INVARIANTS
  TypeOK
  TablesAgree
  RightInternal
  NobodyStranded
\* Once every stub is dead, every message handled and every thread blocked,
\* nothing is left to do.
CHECK_DEADLOCK FALSE
