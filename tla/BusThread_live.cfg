\* Two threads that call and fork, and a stub that asks.
SPECIFICATION FairSpec
CONSTANTS
  Thread = {main, t1}
  Main = main
  Request = {r1}
  MaxForks = 1
  MainReturns = FALSE
  HangsUp = FALSE
  None = None
PROPERTIES
  CallsEnd
  ForkReturns
\* The application may end.
CHECK_DEADLOCK FALSE
