\* An application that restarts once, and then one sandboxed process.
SPECIFICATION FairSpec
CONSTANTS
  Limit = 7
  kZypakSupervisorFd = 3
  kMaxFileDescriptors = 3
  Client = client
  Other = {other}
  Path = {path1, path2}
  MaxRestarts = 1
INVARIANTS
  SandboxedDescriptors
  RequestStaysPrivate
  SameStrategy
  RightPreloads
  Redirected
  NobodyStranded
PROPERTIES
  ClientAnswered
  NothingStaysBehind
\* Every program may have ended.
CHECK_DEADLOCK FALSE
