------------------------------- MODULE FdMap -------------------------------
(***************************************************************************)
(* The descriptors of one sandboxed process of the mimic zygote, from the  *)
(* host's fork request to the exec of the program: HandleFork makes an     *)
(* FdMap of what it received, flatpak-spawn forwards the descriptors under *)
(* the numbers they have, and zypak-helper moves each to the number the    *)
(* program expects it at.                                                  *)
(*                                                                         *)
(* A step is one system call on a descriptor, or the handling of one       *)
(* request up to the fork.  A file of the host is known by its key.       *)
(***************************************************************************)
EXTENDS Integers, Sequences

CONSTANTS
  Limit,                \* descriptors are the numbers below it
  MaxKey,               \* the host names what it passes by keys up to it
  kMaxFileDescriptors,  \* the most that Socket::Read takes with a message
  Service,              \* the host's sandbox service
  Stdio,                \* standard input, output and error
  NoFile                \* a descriptor that is not open

kZygoteHostFd     == 3
kSandboxServiceFd == 4
kBaseDescriptor   == 3

ASSUME LimitAssumption == Limit \in Nat /\ Limit > kSandboxServiceFd
ASSUME KeyAssumption == MaxKey \in Nat /\ kMaxFileDescriptors \in Nat
ASSUME FileAssumption ==
  /\ Service \notin 0 .. MaxKey
  /\ Stdio \notin 0 .. MaxKey
  /\ NoFile \notin (0 .. MaxKey) \cup {Service, Stdio}

Fd  == 0 .. Limit - 1
Key == 0 .. MaxKey

VARIABLES
  phase,       \* how far the launch has come, or how it ended
  request,     \* the keys of the files that the host passed after the pid oracle
  table,       \* the open descriptors of the process that will be the program
  fd_map,      \* the assignments that HandleFork or the helper holds
  args,        \* the arguments of zypak-helper before "-"
  target_fds,  \* the targets assigned by the helper
  position     \* the assignment it is at

fdVars == <<phase, request, table, fd_map, args, target_fds, position>>

Request == {r \in UNION {[1..n -> Key] : n \in 0 .. kMaxFileDescriptors} :
              \A i, j \in DOMAIN r : i # j => r[i] # r[j]}

Open(f)   == f \in Fd /\ table[f] # NoFile
Entries   == 1 .. Len(fd_map)

-----------------------------------------------------------------------------
(* The host's keys are distinct; it may pass as many descriptors as the      *)
(* kernel lets it, the pid oracle first.                                     *)
FdInit ==
  /\ phase = "reading"
  /\ request \in Request
  /\ table = [f \in Fd |-> IF f < kZygoteHostFd THEN Stdio ELSE NoFile]
  /\ fd_map = <<>>
  /\ args = <<>>
  /\ target_fds = {}
  /\ position = 1

(* With the oracle there is one descriptor more than the keys.  Socket::Read *)
(* fails on a message whose descriptors did not all fit, and the zygote ends. *)
AllReceived == Len(request) + 1 <= kMaxFileDescriptors

ReadTooMany ==
  /\ phase = "reading"
  /\ ~AllReceived
  /\ phase' = "zygote_ended"
  /\ UNCHANGED <<request, table, fd_map, args, target_fds, position>>

(* The kernel numbers descriptors from the lowest free one: what was         *)
(* received first, then the dup of the service.  Which are free depends on   *)
(* what else the zygote has open.                                            *)
FreshFds(n) == {s \in [1..n -> {f \in Fd : f > kSandboxServiceFd}] :
                  \A i, j \in 1..n : i < j => s[i] < s[j]}

Assignment(fd, target) == [fd |-> fd, target |-> target]

(* Every number but the first, which is the pid oracle's, goes to its key;   *)
(* the last, the dup of the service, is first in the map.                    *)
MapOf(fds, keys) ==
  <<Assignment(fds[Len(keys) + 2], kSandboxServiceFd)>>
    \o [i \in 1 .. Len(keys) |-> Assignment(fds[i + 1], keys[i] + kBaseDescriptor)]

FileOf(i) == IF i = 1 THEN Service ELSE request[i - 1]

HandleFork(fds) ==
  /\ phase = "reading"
  /\ AllReceived
  /\ fd_map' = MapOf(fds, request)
  /\ phase' = "forked"
  /\ UNCHANGED <<request, table, args, target_fds, position>>

(* dup of the service descriptor, or the fork, fails: no process.            *)
HandleForkFails ==
  /\ phase = "reading"
  /\ AllReceived
  /\ phase' = "refused"
  /\ UNCHANGED <<request, table, fd_map, args, target_fds, position>>

Serialize(a)   == <<a.target, a.fd>>
Deserialize(s) == Assignment(s[2], s[1])

(* flatpak-spawn --forward-fd=N for each, and BuildCommandWrapper: the       *)
(* process in the sandbox has its standard descriptors and the forwarded.    *)
FlatpakSpawn ==
  /\ phase = "forked"
  /\ args' = [i \in Entries |-> Serialize(fd_map[i])]
  /\ table' = [f \in Fd |->
       IF \E i \in Entries : fd_map[i].fd = f
         THEN FileOf(CHOOSE i \in Entries : fd_map[i].fd = f)
         ELSE table[f]]
  /\ fd_map' = <<>>
  /\ phase' = "helper"
  /\ UNCHANGED <<request, target_fds, position>>

(* The helper reads all arguments before it assigns anything.                *)
ParseFdMap ==
  /\ phase = "helper"
  /\ fd_map' = [i \in 1 .. Len(args) |-> Deserialize(args[i])]
  /\ phase' = "assigning"
  /\ UNCHANGED <<request, table, args, target_fds, position>>

-----------------------------------------------------------------------------
(* ApplyFdMapFromArgs, one assignment.                                       *)

Overwrites_Mutant(a) == a.target \in target_fds
Overwrites(a) == a.fd \in target_fds \/ a.target \in target_fds

Dup2Fails(a) == a.fd # a.target /\ (~Open(a.fd) \/ a.target \notin Fd)

(* dup2, and close of the original.                                          *)
Moved_Mutant(a) == IF a.fd = a.target THEN table ELSE [table EXCEPT ![a.target] = table[a.fd]]
Moved(a) == IF a.fd = a.target THEN table
              ELSE [table EXCEPT ![a.target] = table[a.fd], ![a.fd] = NoFile]

Assign ==
  /\ phase = "assigning"
  /\ position \in Entries
  /\ LET a == fd_map[position] IN
       /\ ~Overwrites(a)
       /\ ~Dup2Fails(a)
       /\ table' = Moved(a)
       /\ target_fds' = target_fds \cup {a.target}
  /\ position' = position + 1
  /\ UNCHANGED <<phase, request, fd_map, args>>

(* "Duplicate/overwriting fd assignment", or dup2 fails: the helper exits.   *)
AssignFails ==
  /\ phase = "assigning"
  /\ position \in Entries
  /\ Overwrites(fd_map[position]) \/ Dup2Fails(fd_map[position])
  /\ phase' = "failed"
  /\ UNCHANGED <<request, table, fd_map, args, target_fds, position>>

(* The memory of the helper is gone with the exec.                           *)
Exec ==
  /\ phase = "assigning"
  /\ position \notin Entries
  /\ phase' = "program"
  /\ fd_map' = <<>>
  /\ args' = <<>>
  /\ target_fds' = {}
  /\ position' = 1
  /\ UNCHANGED <<request, table>>

FdNext ==
  \/ ReadTooMany
  \/ \E fds \in FreshFds(Len(request) + 2) : HandleFork(fds)
  \/ HandleForkFails
  \/ FlatpakSpawn
  \/ ParseFdMap
  \/ Assign
  \/ AssignFails
  \/ Exec

FdSpec == FdInit /\ [][FdNext]_fdVars

-----------------------------------------------------------------------------
(* The program starts with the sandbox service at 4 and every file the host  *)
(* passed at the number of its key: no dup2 has overwritten a source that    *)
(* was still to be assigned, although sources and targets share their        *)
(* numbers (ApplyFdMapFromArgs, FdAssignment::Assign).                       *)
Delivered ==
  phase = "program" =>
    /\ table[kSandboxServiceFd] = Service
    /\ \A i \in DOMAIN request : table[request[i] + kBaseDescriptor] = request[i]

(* It starts with nothing else: no number under which a file travelled is    *)
(* left open (fd_map.h: "the original file descriptor will be closed").      *)
NothingElse ==
  phase = "program" =>
    \A f \in Fd : table[f] # NoFile =>
      \/ f < kZygoteHostFd
      \/ f = kSandboxServiceFd
      \/ \E i \in DOMAIN request : f = request[i] + kBaseDescriptor

(* The program starts with the files it is to have, each in its place, and   *)
(* with no others (ApplyFdMapFromArgs, FdAssignment::Assign).                *)
OnlyTheFiles == Delivered /\ NothingElse
=============================================================================
