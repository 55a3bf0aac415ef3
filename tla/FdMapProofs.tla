---------------------------- MODULE FdMapProofs ----------------------------
(***************************************************************************)
(* The descriptor maps do what they promise, for any number of descriptors *)
(* and whatever keys the host uses: a program that starts has every file   *)
(* the host passed where it expects it, and no other.                      *)
(*                                                                         *)
(* The invariant is about the helper half way through its assignments.     *)
(* What has been assigned is in place.  What is still to be assigned is    *)
(* where it arrived, unless a target has overwritten it; and that is what  *)
(* the helper refuses to go on with.                                       *)
(***************************************************************************)
EXTENDS FdMap, SequenceTheorems, TLAPS

Number == 1 .. Len(request) + 1

TargetOf(i) == IF i = 1 THEN kSandboxServiceFd ELSE request[i - 1] + kBaseDescriptor

(* A map that HandleFork may have made: each file has a number of its own,  *)
(* beyond those that the targets of the strategy itself have.               *)
MapOK(m) ==
  /\ m \in [Number -> [fd : Fd, target : Int]]
  /\ \A i \in Number : m[i].target = TargetOf(i) /\ m[i].fd > kSandboxServiceFd
  /\ \A i, j \in Number : i # j => m[i].fd # m[j].fd

(* The descriptors of the zygote's child before anything is forwarded, and  *)
(* those of the helper when it starts.                                      *)
StdioOnly == table = [f \in Fd |-> IF f < kZygoteHostFd THEN Stdio ELSE NoFile]

Forwarded(m) ==
  /\ \A i \in Number : table[m[i].fd] = FileOf(i)
  /\ \A f \in Fd : table[f] # NoFile => f < kZygoteHostFd \/ \E i \in Number : f = m[i].fd

(* Half way through the assignments.                                        *)
Done == {i \in Number : i < position}
Left == {i \in Number : i >= position}

HalfAssigned ==
  /\ position \in Int
  /\ 1 <= position /\ position <= Len(request) + 2
  /\ target_fds = {TargetOf(i) : i \in Done}
  /\ \A i \in Done : TargetOf(i) \in Fd /\ table[TargetOf(i)] = FileOf(i)
  /\ \A i \in Left : fd_map[i].fd \notin target_fds => table[fd_map[i].fd] = FileOf(i)
  /\ \A f \in Fd : table[f] # NoFile =>
       \/ f < kZygoteHostFd
       \/ f \in target_fds
       \/ \E i \in Left : f = fd_map[i].fd

(* All of them done.                                                        *)
Assigned ==
  /\ \A i \in Number : TargetOf(i) \in Fd /\ table[TargetOf(i)] = FileOf(i)
  /\ \A f \in Fd : table[f] # NoFile =>
       f < kZygoteHostFd \/ \E i \in Number : f = TargetOf(i)

(* The inductive invariant.                                                 *)
FdInv ==
  /\ request \in Seq(Key) /\ Len(request) \in Nat
  /\ table \in [Fd -> Key \cup {Service, Stdio, NoFile}]
  /\ phase = "reading"   => StdioOnly /\ position = 1 /\ target_fds = {}
  /\ phase = "forked"    => StdioOnly /\ position = 1 /\ target_fds = {} /\ MapOK(fd_map)
  /\ phase = "helper"    => /\ position = 1 /\ target_fds = {}
                            /\ \E m : /\ MapOK(m) /\ Forwarded(m)
                                      /\ args = [i \in Number |-> Serialize(m[i])]
  /\ phase = "assigning" => MapOK(fd_map) /\ HalfAssigned
  /\ phase = "program"   => Assigned

-----------------------------------------------------------------------------
(* What the steps are made of.                                              *)

(* The files are none of them the mark of a closed descriptor.              *)
LEMMA FilesAreFiles ==
  ASSUME request \in Seq(Key), Len(request) \in Nat, NEW i \in Number
  PROVE  FileOf(i) \in Key \cup {Service} /\ FileOf(i) # NoFile
<1>1. i # 1 => i - 1 \in 1 .. Len(request)
  BY DEF Number
<1>2. i # 1 => request[i - 1] \in Key
  BY <1>1
<1> QED
  BY <1>1, <1>2, FileAssumption DEF FileOf, Key

(* The targets are numbers.                                                 *)
LEMMA TargetsAreNumbers ==
  ASSUME request \in Seq(Key), Len(request) \in Nat, NEW i \in Number
  PROVE  TargetOf(i) \in Int
<1>1. i # 1 => i - 1 \in 1 .. Len(request)
  BY DEF Number
<1>2. i # 1 => request[i - 1] \in Key
  BY <1>1
<1> QED
  BY <1>1, <1>2, KeyAssumption DEF TargetOf, Key, kSandboxServiceFd, kBaseDescriptor

(* A function on 1 .. n is a sequence of length n.                          *)
LEMMA FunctionIsSeq ==
  ASSUME NEW n \in Nat, NEW S, NEW f \in [1 .. n -> S]
  PROVE  f \in Seq(S) /\ Len(f) = n
<1>1. f \in Seq(S)
  BY SeqDef
<1>2. Len(f) \in Nat /\ DOMAIN f = 1 .. Len(f)
  BY <1>1, LenProperties
<1>3. 1 .. Len(f) = 1 .. n
  BY <1>2
<1>4. Len(f) = n
  BY <1>2, <1>3
<1> QED
  BY <1>1, <1>4

(* HandleFork makes such a map.                                             *)
LEMMA MapOfOK ==
  ASSUME request \in Seq(Key), Len(request) \in Nat, NEW fds \in FreshFds(Len(request) + 2)
  PROVE  MapOK(MapOf(fds, request))
<1> DEFINE n == Len(request)
           first == <<Assignment(fds[n + 2], kSandboxServiceFd)>>
           rest == [i \in 1 .. n |-> Assignment(fds[i + 1], request[i] + kBaseDescriptor)]
           m == MapOf(fds, request)
<1>1. /\ fds \in [1 .. n + 2 -> {f \in Fd : f > kSandboxServiceFd}]
      /\ \A i, j \in 1 .. n + 2 : i < j => fds[i] < fds[j]
  BY DEF FreshFds
<1>2. \A i \in 1 .. n : request[i] \in Key
  OBVIOUS
<1>3. first \in Seq([fd : Fd, target : Int]) /\ Len(first) = 1
  BY <1>1 DEF Assignment, kSandboxServiceFd
<1>4. rest \in Seq([fd : Fd, target : Int]) /\ Len(rest) = n
  <2>1. ASSUME NEW i \in 1 .. n PROVE rest[i] \in [fd : Fd, target : Int]
    <3>1. i + 1 \in 1 .. n + 2 /\ request[i] + 3 \in Int
      BY <1>2, KeyAssumption DEF Key
    <3> QED
      BY <1>1, <3>1 DEF Assignment, kBaseDescriptor
  <2>2. rest \in [1 .. n -> [fd : Fd, target : Int]]
    BY <2>1
  <2> HIDE DEF rest
  <2>4. n \in Nat
    OBVIOUS
  <2> HIDE DEF n
  <2> QED
    BY <2>2, <2>4, FunctionIsSeq, Zenon
<1>5. m = first \o rest
  BY DEF MapOf
<1>6. m = [i \in Number |-> IF i = 1 THEN first[1] ELSE rest[i - 1]]
  BY <1>3, <1>4, <1>5 DEF Number
<1>7. ASSUME NEW i \in Number
      PROVE  /\ m[i].fd = fds[IF i = 1 THEN n + 2 ELSE i]
             /\ m[i].target = TargetOf(i)
             /\ m[i] = [fd |-> m[i].fd, target |-> m[i].target]
  <2>1. CASE i = 1
    <3>1. m[i] = Assignment(fds[n + 2], kSandboxServiceFd)
      BY <1>6, <2>1
    <3> QED
      BY <3>1, <2>1 DEF Assignment, TargetOf
  <2>2. CASE i # 1
    <3>1. i - 1 \in 1 .. n /\ (i - 1) + 1 = i
      BY <2>2 DEF Number
    <3>2. m[i] = Assignment(fds[(i - 1) + 1], request[i - 1] + kBaseDescriptor)
      BY <1>6, <2>2, <3>1
    <3> QED
      BY <3>1, <3>2, <2>2 DEF Assignment, TargetOf
  <2> QED
    BY <2>1, <2>2
<1> HIDE DEF m, first, rest
<1>8. ASSUME NEW i \in Number
      PROVE  m[i].fd \in Fd /\ m[i].fd > kSandboxServiceFd /\ m[i].target = TargetOf(i)
  <2>1. (IF i = 1 THEN n + 2 ELSE i) \in 1 .. n + 2
    BY DEF Number
  <2>2. fds[IF i = 1 THEN n + 2 ELSE i] \in {f \in Fd : f > kSandboxServiceFd}
    BY <1>1, <2>1
  <2> QED
    BY <1>7, <2>2
<1>9. m \in [Number -> [fd : Fd, target : Int]]
  <2>1. ASSUME NEW i \in Number PROVE m[i] \in [fd : Fd, target : Int]
    <3>1. m[i].fd \in Fd /\ m[i].target \in Int
      BY <1>8, TargetsAreNumbers
    <3>2. m[i] = [fd |-> m[i].fd, target |-> m[i].target]
      BY <1>7
    <3> QED
      BY <3>1, <3>2
  <2>2. m = [i \in Number |-> m[i]]
    BY <1>6
  <2> QED
    BY <2>1, <2>2
<1>10. \A i \in Number : m[i].target = TargetOf(i) /\ m[i].fd > kSandboxServiceFd
  BY <1>8
<1>11. ASSUME NEW i \in Number, NEW j \in Number, i # j PROVE m[i].fd # m[j].fd
  <2> DEFINE a == IF i = 1 THEN n + 2 ELSE i
             b == IF j = 1 THEN n + 2 ELSE j
  <2>1. a \in 1 .. n + 2 /\ b \in 1 .. n + 2 /\ a # b
    BY <1>11 DEF Number
  <2>2. m[i].fd = fds[a] /\ m[j].fd = fds[b]
    BY <1>7
  <2>3. fds[a] \in Int /\ fds[b] \in Int
    BY <1>1, <2>1, LimitAssumption DEF Fd
  <2> HIDE DEF a, b
  <2>4. fds[a] < fds[b] \/ fds[b] < fds[a]
    BY <1>1, <2>1
  <2> QED
    BY <2>2, <2>3, <2>4
<1> QED
  BY <1>9, <1>10, <1>11 DEF MapOK, m
(* A map has an assignment for each file.                                   *)
LEMMA MapLength ==
  ASSUME request \in Seq(Key), Len(request) \in Nat, NEW m, MapOK(m)
  PROVE  1 .. Len(m) = Number
<1>1. m \in [1 .. Len(request) + 1 -> [fd : Fd, target : Int]]
  BY DEF MapOK, Number
<1>2. Len(request) + 1 \in Nat
  OBVIOUS
<1>3. Len(m) = Len(request) + 1
  BY <1>1, <1>2, FunctionIsSeq, Zenon
<1> QED
  BY <1>3 DEF Number

-----------------------------------------------------------------------------
(* The steps, one lemma for each that does more than end the launch.        *)

LEMMA SpawnStep ==
  ASSUME FdInv, FlatpakSpawn
  PROVE  FdInv'
<1>1. /\ phase = "forked" /\ phase' = "helper"
      /\ StdioOnly /\ position = 1 /\ target_fds = {}
      /\ request \in Seq(Key) /\ Len(request) \in Nat
      /\ UNCHANGED <<request, target_fds, position>>
  BY DEF FdInv, FlatpakSpawn
<1>2. PICK m : m = fd_map /\ MapOK(m)
  BY <1>1 DEF FdInv
<1>3. Entries = Number
  BY <1>1, <1>2, MapLength DEF Entries
<1>4. args' = [i \in Number |-> Serialize(m[i])]
  BY <1>2, <1>3 DEF FlatpakSpawn
<1>5. table' = [f \in Fd |-> IF \E i \in Number : m[i].fd = f
                               THEN FileOf(CHOOSE i \in Number : m[i].fd = f)
                               ELSE table[f]]
  BY <1>2, <1>3 DEF FlatpakSpawn
<1>6. ASSUME NEW i \in Number PROVE m[i].fd \in Fd /\ table'[m[i].fd] = FileOf(i)
  <2>1. m[i].fd \in Fd
    BY <1>2 DEF MapOK
  <2>2. (CHOOSE j \in Number : m[j].fd = m[i].fd) = i
    BY <1>2 DEF MapOK
  <2> QED
    BY <1>5, <2>1, <2>2
<1>7. ASSUME NEW f \in Fd, ~ \E i \in Number : m[i].fd = f
      PROVE  table'[f] = IF f < kZygoteHostFd THEN Stdio ELSE NoFile
  BY <1>1, <1>5, <1>7 DEF StdioOnly
<1>8. table' \in [Fd -> Key \cup {Service, Stdio, NoFile}]
  <2>1. ASSUME NEW f \in Fd PROVE table'[f] \in Key \cup {Service, Stdio, NoFile}
    <3>1. CASE \E i \in Number : m[i].fd = f
      BY <1>1, <1>6, <3>1, FilesAreFiles
    <3>2. CASE ~ \E i \in Number : m[i].fd = f
      BY <1>7, <3>2
    <3> QED
      BY <3>1, <3>2
  <2> QED
    BY <1>5, <2>1
<1>9. \A i \in Number : FileOf(i)' = FileOf(i)
  BY <1>1 DEF FileOf
<1>10. MapOK(m)' /\ Number' = Number
  BY <1>1, <1>2 DEF MapOK, Number, TargetOf
<1>11. Forwarded(m)'
  BY <1>6, <1>7, <1>9, <1>10 DEF Forwarded
<1> QED
  BY <1>1, <1>4, <1>8, <1>10, <1>11 DEF FdInv

LEMMA ParseStep ==
  ASSUME FdInv, ParseFdMap
  PROVE  FdInv'
<1>1. /\ phase = "helper" /\ phase' = "assigning"
      /\ position = 1 /\ target_fds = {}
      /\ request \in Seq(Key) /\ Len(request) \in Nat
      /\ table \in [Fd -> Key \cup {Service, Stdio, NoFile}]
      /\ UNCHANGED <<request, table, target_fds, position>>
  BY DEF FdInv, ParseFdMap
<1>2. PICK m : MapOK(m) /\ Forwarded(m) /\ args = [i \in Number |-> Serialize(m[i])]
  BY <1>1 DEF FdInv
<1>3. 1 .. Len(args) = Number
  <2>1. args \in [1 .. Len(request) + 1 -> {Serialize(m[i]) : i \in Number}]
    BY <1>2 DEF Number
  <2>2. Len(request) + 1 \in Nat
    BY <1>1
  <2>3. Len(args) = Len(request) + 1
    BY <2>1, <2>2, FunctionIsSeq, Zenon
  <2> QED
    BY <2>3 DEF Number
<1>4. fd_map' = m
  <2>1. ASSUME NEW i \in Number PROVE Deserialize(args[i]) = m[i]
    <3>1. m[i] \in [fd : Fd, target : Int]
      BY <1>2 DEF MapOK
    <3>2. args[i] = <<m[i].target, m[i].fd>>
      BY <1>2 DEF Serialize
    <3> QED
      BY <3>1, <3>2 DEF Deserialize, Assignment
  <2>2. fd_map' = [i \in Number |-> Deserialize(args[i])]
    BY <1>3 DEF ParseFdMap
  <2>3. m = [i \in Number |-> m[i]]
    BY <1>2 DEF MapOK
  <2> QED
    BY <2>1, <2>2, <2>3
<1>5. Number' = Number /\ \A i \in Number : FileOf(i)' = FileOf(i) /\ TargetOf(i)' = TargetOf(i)
  BY <1>1 DEF Number, FileOf, TargetOf
<1>6. MapOK(fd_map)'
  BY <1>2, <1>4, <1>5 DEF MapOK
<1>7. Done' = {} /\ Left' = Number
  BY <1>1, <1>5 DEF Done, Left, Number
<1>8. HalfAssigned'
  BY <1>1, <1>2, <1>4, <1>5, <1>7 DEF HalfAssigned, Forwarded
<1> QED
  BY <1>1, <1>6, <1>8 DEF FdInv

LEMMA AssignStep ==
  ASSUME FdInv, Assign
  PROVE  FdInv'
<1> DEFINE p == position
           a == fd_map[position]
<1>1. /\ phase = "assigning" /\ phase' = "assigning"
      /\ request \in Seq(Key) /\ Len(request) \in Nat
      /\ table \in [Fd -> Key \cup {Service, Stdio, NoFile}]
      /\ MapOK(fd_map) /\ HalfAssigned
      /\ UNCHANGED <<request, fd_map>>
      /\ position' = position + 1
  BY DEF FdInv, Assign
<1>2. Entries = Number
  BY <1>1, MapLength DEF Entries
<1>3. /\ p \in Number /\ p \in Int
      /\ ~Overwrites(a) /\ ~Dup2Fails(a)
      /\ table' = Moved(a)
      /\ target_fds' = target_fds \cup {a.target}
  BY <1>1, <1>2 DEF Assign, HalfAssigned
<1>4. /\ a.fd \in Fd /\ a.target = TargetOf(p)
      /\ \A i \in Number : i # p => fd_map[i].fd # a.fd
  BY <1>1, <1>3 DEF MapOK
<1>5. a.target \in Fd
  BY <1>3, <1>4 DEF Dup2Fails
<1>6. a.fd \notin target_fds /\ a.target \notin target_fds
  BY <1>3 DEF Overwrites
<1>7. Number' = Number /\ \A i \in Number : FileOf(i)' = FileOf(i) /\ TargetOf(i)' = TargetOf(i)
  BY <1>1 DEF Number, FileOf, TargetOf
<1>8. Done' = Done \cup {p} /\ Left' = Left \ {p} /\ p \in Left /\ p \notin Done
  BY <1>1, <1>3, <1>7 DEF Done, Left, Number
<1>9. table[a.fd] = FileOf(p)
  BY <1>1, <1>6, <1>8 DEF HalfAssigned
<1> HIDE DEF a, p
<1>10. /\ table'[a.target] = FileOf(p)
       /\ a.fd # a.target => table'[a.fd] = NoFile
       /\ \A f \in Fd : f # a.fd /\ f # a.target => table'[f] = table[f]
  BY <1>1, <1>3, <1>4, <1>5, <1>9 DEF Moved
<1>11. table' \in [Fd -> Key \cup {Service, Stdio, NoFile}]
  BY <1>1, <1>3, <1>4, <1>5 DEF Moved
<1>12. MapOK(fd_map)'
  BY <1>1, <1>7 DEF MapOK
<1>13. /\ position' \in Int
       /\ 1 <= position' /\ position' <= Len(request) + 2
  BY <1>1, <1>3 DEF HalfAssigned, Number, p
<1>14. target_fds' = {TargetOf(i) : i \in Done'}
  BY <1>1, <1>3, <1>4, <1>8 DEF HalfAssigned
<1>15. ASSUME NEW i \in Done' PROVE TargetOf(i) \in Fd /\ table'[TargetOf(i)] = FileOf(i)
  <2>1. CASE i = p
    BY <1>4, <1>5, <1>10, <2>1
  <2>2. CASE i \in Done
    <3>1. TargetOf(i) \in target_fds /\ TargetOf(i) \in Fd /\ table[TargetOf(i)] = FileOf(i)
      BY <1>1, <2>2 DEF HalfAssigned
    <3> QED
      BY <1>6, <1>10, <3>1
  <2> QED
    BY <1>8, <2>1, <2>2
<1>16. ASSUME NEW i \in Left', fd_map[i].fd \notin target_fds'
       PROVE  table'[fd_map[i].fd] = FileOf(i)
  <2>1. i \in Left /\ i # p /\ i \in Number
    BY <1>8 DEF Left
  <2>2. fd_map[i].fd # a.fd /\ fd_map[i].fd # a.target /\ fd_map[i].fd \in Fd
    BY <1>1, <1>3, <1>4, <1>16, <2>1 DEF MapOK
  <2>3. table[fd_map[i].fd] = FileOf(i)
    BY <1>1, <1>3, <1>16, <2>1 DEF HalfAssigned
  <2> QED
    BY <1>10, <2>2, <2>3
<1>17. ASSUME NEW f \in Fd, table'[f] # NoFile
       PROVE  f < kZygoteHostFd \/ f \in target_fds' \/ \E i \in Left' : f = fd_map[i].fd
  <2>1. CASE f = a.target
    BY <1>3, <2>1
  <2>2. CASE f # a.target
    <3>1. f # a.fd
      BY <1>10, <1>17, <2>2
    <3>2. table[f] # NoFile
      BY <1>10, <1>17, <2>2, <3>1
    <3>3. f < kZygoteHostFd \/ f \in target_fds \/ \E i \in Left : f = fd_map[i].fd
      BY <1>1, <3>2 DEF HalfAssigned
    <3> QED
      BY <1>3, <1>8, <3>1, <3>3 DEF a, p
  <2> QED
    BY <2>1, <2>2
<1>18. HalfAssigned'
  <2>1. \A i \in Number : (FileOf(i)' = FileOf(i)) /\ (TargetOf(i)' = TargetOf(i))
    BY <1>7
  <2>2. Done' \subseteq Number /\ Left' \subseteq Number
    BY <1>7 DEF Done, Left
  <2> QED
    BY <1>1, <1>13, <1>14, <1>15, <1>16, <1>17, <2>1, <2>2 DEF HalfAssigned
<1> QED
  BY <1>1, <1>11, <1>12, <1>18 DEF FdInv

LEMMA ExecStep ==
  ASSUME FdInv, Exec
  PROVE  FdInv'
<1>1. /\ phase = "assigning" /\ phase' = "program"
      /\ request \in Seq(Key) /\ Len(request) \in Nat
      /\ table \in [Fd -> Key \cup {Service, Stdio, NoFile}]
      /\ MapOK(fd_map) /\ HalfAssigned
      /\ UNCHANGED <<request, table>>
      /\ position \notin Entries
  BY DEF FdInv, Exec
<1>2. Done = Number /\ Left = {}
  <2>1. Entries = Number
    BY <1>1, MapLength DEF Entries
  <2> QED
    BY <1>1, <2>1 DEF HalfAssigned, Done, Left, Number
<1>3. Assigned
  BY <1>1, <1>2 DEF HalfAssigned, Assigned
<1>4. Number' = Number /\ \A i \in Number : FileOf(i)' = FileOf(i) /\ TargetOf(i)' = TargetOf(i)
  BY <1>1 DEF Number, FileOf, TargetOf
<1>5. Assigned'
  BY <1>1, <1>3, <1>4 DEF Assigned
<1> QED
  BY <1>1, <1>5 DEF FdInv

(* The other steps end the launch, or make the map.                         *)
LEMMA FdInvStep ==
  ASSUME FdInv, [FdNext]_fdVars
  PROVE  FdInv'
<1>1. CASE UNCHANGED fdVars
  <2>1. UNCHANGED <<phase, request, table, fd_map, args, target_fds, position>>
    BY <1>1 DEF fdVars
  <2>2. Number' = Number /\ \A i : FileOf(i)' = FileOf(i) /\ TargetOf(i)' = TargetOf(i)
    BY <2>1 DEF Number, FileOf, TargetOf
  <2>3. Done' = Done /\ Left' = Left
    BY <2>1, <2>2 DEF Done, Left
  <2>4. (HalfAssigned => HalfAssigned') /\ (Assigned => Assigned')
    BY <2>1, <2>2, <2>3 DEF HalfAssigned, Assigned, Done
  <2>5. \A m : (MapOK(m) => MapOK(m)') /\ (Forwarded(m) => Forwarded(m)')
    BY <2>1, <2>2 DEF MapOK, Forwarded
  <2>6. MapOK(fd_map) => MapOK(fd_map)'
    BY <2>1, <2>2 DEF MapOK
  <2>7. StdioOnly => StdioOnly'
    BY <2>1 DEF StdioOnly
  <2>8. phase = "helper" => \E m : MapOK(m)' /\ Forwarded(m)' /\ args' = [i \in Number' |-> Serialize(m[i])]
    BY <2>1, <2>2, <2>5 DEF FdInv
  <2> QED
    BY <2>1, <2>4, <2>6, <2>7, <2>8 DEF FdInv
<1>2. CASE ReadTooMany \/ HandleForkFails \/ AssignFails
  BY <1>2 DEF ReadTooMany, HandleForkFails, AssignFails, FdInv
<1>3. ASSUME NEW fds \in FreshFds(Len(request) + 2), HandleFork(fds) PROVE FdInv'
  <2>1. /\ phase = "reading" /\ phase' = "forked" /\ fd_map' = MapOf(fds, request)
        /\ UNCHANGED <<request, table, args, target_fds, position>>
    BY <1>3 DEF HandleFork
  <2>2. MapOK(MapOf(fds, request))
    BY MapOfOK DEF FdInv
  <2>3. MapOK(fd_map)'
    BY <2>1, <2>2 DEF MapOK, Number, TargetOf
  <2> QED
    BY <2>1, <2>3 DEF FdInv, StdioOnly
<1> QED
  BY <1>1, <1>2, <1>3, SpawnStep, ParseStep, AssignStep, ExecStep DEF FdNext

LEMMA FdInvInit == FdInit => FdInv
<1> SUFFICES ASSUME FdInit PROVE FdInv
  OBVIOUS
<1>1. PICK n \in 0 .. kMaxFileDescriptors : request \in [1 .. n -> Key]
  BY DEF FdInit, Request
<1>2. n \in Nat
  BY KeyAssumption
<1>3. request \in Seq(Key) /\ Len(request) = n
  BY <1>1, <1>2, FunctionIsSeq, Zenon
<1> QED
  BY <1>2, <1>3 DEF FdInit, FdInv, StdioOnly

LEMMA FdInvImplies == FdInv => Delivered /\ NothingElse
<1> SUFFICES ASSUME FdInv, phase = "program"
             PROVE  Delivered /\ NothingElse
  BY DEF Delivered, NothingElse
<1>1. Assigned /\ request \in Seq(Key) /\ Len(request) \in Nat /\ DOMAIN request = 1 .. Len(request)
  BY DEF FdInv
<1>2. 1 \in Number /\ TargetOf(1) = kSandboxServiceFd /\ FileOf(1) = Service
  BY <1>1 DEF Number, TargetOf, FileOf
<1>3. ASSUME NEW i \in DOMAIN request
      PROVE  /\ i + 1 \in Number
             /\ TargetOf(i + 1) = request[i] + kBaseDescriptor
             /\ FileOf(i + 1) = request[i]
  BY <1>1 DEF Number, TargetOf, FileOf
<1>4. Delivered
  BY <1>1, <1>2, <1>3 DEF Assigned, Delivered
<1>5. ASSUME NEW i \in Number, i # 1
      PROVE  i - 1 \in DOMAIN request /\ TargetOf(i) = request[i - 1] + kBaseDescriptor
  BY <1>1, <1>5 DEF Number, TargetOf
<1>6. NothingElse
  BY <1>1, <1>2, <1>5 DEF Assigned, NothingElse
<1> QED
  BY <1>4, <1>6

-----------------------------------------------------------------------------
(* Every file that the host passed is where the program expects it, and no   *)
(* number under which a file travelled is left open.                         *)
THEOREM FilesDelivered == FdSpec => []OnlyTheFiles
<1>1. FdInv /\ [FdNext]_fdVars => FdInv'
  BY FdInvStep
<1>2. FdInv => OnlyTheFiles
  BY FdInvImplies DEF OnlyTheFiles
<1> QED
  BY FdInvInit, <1>1, <1>2, PTL DEF FdSpec
=============================================================================
