\* Three processes and two pids; the host asks nothing of a
\* process that it asked to be reaped.
SPECIFICATION Spec
CONSTANTS
  Child = {c1, c2, c3}
  Pid = {p1, p2}
  ExitCode = {0, 1, 200}
  Signal = {9, 11}
  HostForgets = TRUE
  None = None
SYMMETRY Symmetry
INVARIANTS
  TypeOK
  KnownTracked
  ReplyExpected
  StatusTrue
  NobodyStranded
PROPERTIES
  OnlyCondemnedKilled
\* The zygote ends when the host does.
CHECK_DEADLOCK FALSE
