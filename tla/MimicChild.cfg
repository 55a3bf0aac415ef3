\* One process of the mimic strategy, from the fork request to calls of its
\* threads: up to two files and the sandbox service among nine descriptors.
SPECIFICATION MCFairSpec
CONSTANTS
  Limit = 9
  MaxKey = 6
  kMaxFileDescriptors = 3
  Service = Service
  Stdio = Stdio
  NoFile = NoFile
  Thread = {t1, t2}
  Time = {1, 2}
  Zone = {"UTC", "CET"}
  Urandom = Urandom
  Static = Static
INVARIANTS
  OnlyTheFiles
  RandomAvailable
  ZoneStands
  NobodyStranded
PROPERTIES
  OwnTime
  LocaltimeReturns
\* The process may end, and the program stop.
CHECK_DEADLOCK FALSE
