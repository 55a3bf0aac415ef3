\* Three threads that call and fork, a stub that asks; main may return and the daemon hang up.
SPECIFICATION Spec
CONSTANTS
  Thread = {main, t1, t2}
  Main = main
  Request = {r1}
  MaxForks = 2
  MainReturns = TRUE
  HangsUp = TRUE
  None = None
SYMMETRY Symmetry
INVARIANTS
  TypeOK
  NeverSleepsOnWork
  ForkIsQuiet
  NeverTerminates
  NobodyStranded
PROPERTIES
  ServesCalls
\* The application may end.
CHECK_DEADLOCK FALSE
