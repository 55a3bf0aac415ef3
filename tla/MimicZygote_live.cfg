\* Two processes, and a host that may ask about one that it asked to be
\* reaped.
SPECIFICATION FairSpec
CONSTANTS
  Child = {c1, c2}
  Pid = {p1, p2}
  ExitCode = {0}
  Signal = {9}
  HostForgets = FALSE
  None = None
PROPERTIES
  ReapedInTheEnd
  HostAnswered
\* The zygote ends when the host does.
CHECK_DEADLOCK FALSE
