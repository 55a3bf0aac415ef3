\* One stub and a thread in kill; both namespaces have the same two numbers.
SPECIFICATION Spec
CONSTANTS
  Stub = {s1}
  StubPid = {n1, n2}
  ExternalPid = {n1, n2}
  Waiter = {}
  Killer = {k1}
  ReuseHeld = FALSE
  None = None
INVARIANTS
  SignalNamesProcess
\* Once every stub is dead, every message handled and every thread blocked,
\* nothing is left to do.
CHECK_DEADLOCK FALSE
