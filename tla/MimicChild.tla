---------------------------- MODULE MimicChild ----------------------------
(***************************************************************************)
(* A sandboxed process of the mimic strategy and what is preloaded into it *)
(* (preload/child/mimic_strategy): FdStorage keeps two descriptors from    *)
(* before the program's main, localtime asks the host's sandbox service    *)
(* for the time, and /dev/urandom can still be opened when the program has *)
(* confined itself.  The process starts as FdMap leaves it.                *)
(*                                                                         *)
(* External are the program, which calls these functions from any of its   *)
(* threads and confines itself when it likes, and the sandbox service,     *)
(* which takes requests in order, may answer less than was asked, and may  *)
(* end at any moment.                                                      *)
(***************************************************************************)
EXTENDS FdMap, FiniteSets

CONSTANTS
  Thread,
  Time,     \* what localtime may be asked for
  Zone,     \* the time zones there are
  Urandom,  \* /dev/urandom
  Static    \* the struct tm of localtime, which has one for all threads

ASSUME UrandomAssumption == Urandom \notin Key \cup {Service, Stdio, NoFile}
ASSUME StaticAssumption == Static \notin Thread

VARIABLES
  sandbox_service_fd_, urandom_fd_,  \* FdStorage, once it is initialised
  confined,          \* no file can be opened any more
  random,            \* what the program got for /dev/urandom
  pc,                \* what each thread does in localtime
  asked,             \* the call it makes there
  result,            \* each struct tm: a thread's own for localtime_r, and Static
  local_end,         \* what has arrived at its end of the socket pair
  remote_end,        \* who has the other end open: this process, the service
  queue,             \* requests that the service has not read
  service,           \* whether the service is there
  g_timezones,       \* the names kept for localtime_r
  timezone_storage   \* the name kept for localtime

fdStorageVars == <<sandbox_service_fd_, urandom_fd_>>
callVars      == <<pc, asked, result>>
socketVars    == <<local_end, remote_end, queue, service>>
zoneVars      == <<g_timezones, timezone_storage>>
childVars == <<fdStorageVars, confined, random, callVars, socketVars, zoneVars>>
vars      == <<fdVars, childVars>>

kInvalidFd == -1
Untried    == "untried"
Denied     == "denied"

(* How much of a time is in a reply or a struct tm, and a struct tm after    *)
(* memset; tm_zone points into g_timezones, to timezone_storage or nowhere.  *)
Fields     == {"nothing", "some", "all"}
Null       == [in |-> "nowhere", zone |-> "none"]
NoTime     == [time |-> 0, fields |-> "nothing", tm_zone |-> Null]
NoCall     == [time |-> 0, reentrant |-> FALSE]

ChildInit ==
  /\ sandbox_service_fd_ = kInvalidFd
  /\ urandom_fd_ = kInvalidFd
  /\ confined = FALSE
  /\ random = Untried
  /\ pc = [t \in Thread |-> "idle"]
  /\ asked = [t \in Thread |-> NoCall]
  /\ result = [tm \in Thread \cup {Static} |-> NoTime]
  /\ local_end = [t \in Thread |-> <<>>]
  /\ remote_end = [t \in Thread |-> {}]
  /\ queue = <<>>
  /\ service = TRUE
  /\ g_timezones = {}
  /\ timezone_storage = "none"

Init == FdInit /\ ChildInit

(* From the exec on, constructors may run; the main override follows.        *)
BeforeMain == phase \in {"program", "constructors"}
InMain     == phase = "main"

-----------------------------------------------------------------------------
(* FdStorage and /dev/urandom.                                               *)

Free == {f \in Fd : table[f] = NoFile}
Lowest(S) == CHOOSE f \in S : \A g \in S : f <= g

(* The main override, before the program's main.                             *)
FdStorageInit ==
  /\ BeforeMain
  /\ Free # {}
  /\ phase' = "main"
  /\ sandbox_service_fd_' = kSandboxServiceFd
  /\ urandom_fd_' = Lowest(Free)
  /\ table' = [table EXCEPT ![Lowest(Free)] = Urandom]
  /\ UNCHANGED <<request, fd_map, args, target_fds, position, confined, random, callVars,
                 socketVars, zoneVars>>

(* dup of the stored descriptor if there is one, else the system call.       *)
OpenFails_Mutant == confined
OpenFails == urandom_fd_ = kInvalidFd /\ confined

(* The program, or a constructor before main, opens it once and keeps it.    *)
OpenUrandom ==
  /\ BeforeMain \/ InMain
  /\ random = Untried
  /\ OpenFails \/ Free # {}
  /\ phase' = IF InMain THEN phase ELSE "constructors"
  /\ IF OpenFails
       THEN /\ random' = Denied
            /\ UNCHANGED table
       ELSE LET file == IF urandom_fd_ = kInvalidFd THEN Urandom ELSE table[urandom_fd_] IN
            /\ random' = file
            /\ table' = [table EXCEPT ![Lowest(Free)] = file]
  /\ UNCHANGED <<request, fd_map, args, target_fds, position, fdStorageVars, confined,
                 callVars, socketVars, zoneVars>>

Confine ==
  /\ InMain
  /\ ~confined
  /\ confined' = TRUE
  /\ UNCHANGED <<fdVars, fdStorageVars, random, callVars, socketVars, zoneVars>>

-----------------------------------------------------------------------------
(* localtime and localtime_r.                                                *)

Kept(zone) == [in |-> "g_timezones", zone |-> zone]
Stored     == [in |-> "timezone_storage", zone |-> "none"]

(* What a caller reads through tm_zone.                                      *)
NameAt(p) ==
  CASE p.in = "g_timezones" /\ p.zone \in g_timezones -> p.zone
    [] p.in = "timezone_storage" -> timezone_storage
    [] OTHER -> "none"

(* localtime_r keeps each name for good; localtime has one place for it.     *)
Keeps_Mutant(call) == FALSE
Keeps(call) == call.reentrant

(* Where a call leaves its result.                                           *)
Tm_Mutant(t) == Static
Tm(t) == IF asked[t].reentrant THEN t ELSE Static

(* As with the C library's, the program may call localtime from one thread   *)
(* after another but not from two at once.                                   *)
MayCall(reentrant) ==
  reentrant \/ \A t \in Thread : pc[t] \in {"idle", "done"} \/ asked[t].reentrant

Localtime(t, time, reentrant) ==
  /\ InMain
  /\ pc[t] = "idle"
  /\ MayCall(reentrant)
  /\ pc' = [pc EXCEPT ![t] = "asking"]
  /\ asked' = [asked EXCEPT ![t] = [time |-> time, reentrant |-> reentrant]]
  /\ result' = [result EXCEPT ![Tm(t)'] = NoTime]
  /\ UNCHANGED <<fdVars, fdStorageVars, confined, random, socketVars, zoneVars>>

(* The reply comes over a socket pair that the call opens.                   *)
ReplySocket_Mutant(t) == CHOOSE u \in Thread : TRUE
ReplySocket(t) == t

SandboxRequest(t) == [remote_end |-> ReplySocket(t), time |-> asked[t].time]

(* The request carries the remote end, which is then closed here.            *)
Holders_Mutant == {"child", "service"}
Holders == {"service"}

SendSandboxRequest(t) ==
  /\ pc[t] = "asking"
  /\ table[sandbox_service_fd_] = Service
  /\ service
  /\ queue' = Append(queue, SandboxRequest(t))
  /\ remote_end' = [remote_end EXCEPT ![t] = Holders]
  /\ pc' = [pc EXCEPT ![t] = "reading"]
  /\ UNCHANGED <<fdVars, fdStorageVars, confined, random, asked, result, local_end, service,
                 zoneVars>>

(* No socket pair, or the write fails: the struct stays all zero.            *)
SendFails(t) ==
  /\ pc[t] = "asking"
  /\ pc' = [pc EXCEPT ![t] = "done"]
  /\ UNCHANGED <<fdVars, fdStorageVars, confined, random, asked, result, socketVars, zoneVars>>

(* A reply may end before the name of the zone, which is then not set, or    *)
(* within the time, of which the fields read so far are set.                 *)
ReadSandboxReply(t) ==
  /\ pc[t] = "reading"
  /\ local_end[t] # <<>>
  /\ LET reply == Head(local_end[t])
         named == reply.zone # "none"
         keeps == named /\ Keeps(asked[t])
         stores == named /\ ~Keeps(asked[t]) IN
       /\ result' = [result EXCEPT ![Tm(t)] =
            [time |-> IF reply.fields = "nothing" THEN 0 ELSE reply.time,
             fields |-> reply.fields,
             tm_zone |-> IF keeps THEN Kept(reply.zone) ELSE IF stores THEN Stored ELSE Null]]
       /\ g_timezones' = IF keeps THEN g_timezones \cup {reply.zone} ELSE g_timezones
       /\ timezone_storage' = IF stores THEN reply.zone ELSE timezone_storage
  /\ pc' = [pc EXCEPT ![t] = "done"]
  /\ UNCHANGED <<fdVars, fdStorageVars, confined, random, asked, socketVars>>

(* End of file: nobody has the other end any more.                           *)
ReadEndOfFile(t) ==
  /\ pc[t] = "reading"
  /\ local_end[t] = <<>>
  /\ remote_end[t] = {}
  /\ pc' = [pc EXCEPT ![t] = "done"]
  /\ UNCHANGED <<fdVars, fdStorageVars, confined, random, asked, result, socketVars, zoneVars>>

(* recvmsg fails: the struct stays all zero.                                 *)
ReadFails(t) ==
  /\ pc[t] = "reading"
  /\ pc' = [pc EXCEPT ![t] = "done"]
  /\ UNCHANGED <<fdVars, fdStorageVars, confined, random, asked, result, socketVars, zoneVars>>

-----------------------------------------------------------------------------
(* The sandbox service (external).                                           *)

Reply(time) == {reply \in [time : {time}, fields : Fields, zone : Zone \cup {"none"}] :
                  reply.zone # "none" => reply.fields = "all"}

ServiceAnswers ==
  /\ service
  /\ queue # <<>>
  /\ LET r == Head(queue) IN \E reply \in Reply(r.time) :
       /\ local_end' = [local_end EXCEPT ![r.remote_end] =
                          Append(@, reply)]
       /\ remote_end' = [remote_end EXCEPT ![r.remote_end] = @ \ {"service"}]
  /\ queue' = Tail(queue)
  /\ UNCHANGED <<fdVars, fdStorageVars, confined, random, callVars, service, zoneVars>>

ServiceEnds ==
  /\ service
  /\ service' = FALSE
  /\ queue' = <<>>
  /\ remote_end' = [t \in Thread |-> remote_end[t] \ {"service"}]
  /\ UNCHANGED <<fdVars, fdStorageVars, confined, random, callVars, local_end, zoneVars>>

-----------------------------------------------------------------------------
CallSteps(t) ==
  SendSandboxRequest(t) \/ SendFails(t) \/ ReadSandboxReply(t) \/ ReadEndOfFile(t)

Next ==
  \/ FdNext /\ UNCHANGED childVars
  \/ FdStorageInit
  \/ OpenUrandom
  \/ Confine
  \/ \E t \in Thread :
       \/ \E time \in Time, reentrant \in BOOLEAN : Localtime(t, time, reentrant)
       \/ CallSteps(t)
       \/ ReadFails(t)
  \/ ServiceAnswers
  \/ ServiceEnds

Spec == Init /\ [][Next]_vars

(* Threads run, and the service reads its queue for as long as it exists.    *)
Fairness ==
  /\ \A t \in Thread : WF_vars(CallSteps(t))
  /\ WF_vars(ServiceAnswers)

FairSpec == Spec /\ Fairness

-----------------------------------------------------------------------------
(* A call returns with the time it asked for, or with no time, though        *)
(* threads ask at once (SendSandboxRequestAndReadReply); and what it has     *)
(* returned stays: that of localtime_r for good, that of localtime until     *)
(* another thread calls localtime.                                           *)
Returned(t) == pc[t] # "done" /\ pc'[t] = "done"

InLocaltime == \E u \in Thread : pc[u] \in {"asking", "reading"} /\ ~asked[u].reentrant

OwnTime ==
  [][\A t \in Thread :
       /\ Returned(t) => result'[Tm(t)].fields = "nothing" \/ result'[Tm(t)].time = asked[t].time
       /\ pc[t] = "done" /\ (asked[t].reentrant \/ ~(InLocaltime \/ InLocaltime')) =>
            result'[Tm(t)] = result[Tm(t)]]_vars

(* The name that localtime_r returned keeps naming the zone that was         *)
(* answered, whatever other threads ask afterwards and wherever the          *)
(* application has moved (GetTimeFromSandboxService).                        *)
ZoneStands ==
  \A t \in Thread :
    pc[t] = "done" /\ asked[t].reentrant /\ result[t].fields # "nothing" =>
      NameAt(result[t].tm_zone) = Head(local_end[t]).zone

(* /dev/urandom can be opened at any time, before main and after the program *)
(* has confined itself (open_urandom.cc).                                    *)
RandomAvailable == random \in {Untried, Urandom}

(* A thread that reads has its answer there, or the end of the file, or the  *)
(* service is going to come to its question: the service alone has the other *)
(* end, and only for as long as the question is in its queue                 *)
(* (SendSandboxRequestAndReadReply).                                         *)
NobodyStranded ==
  \A t \in Thread : pc[t] = "reading" =>
    \/ local_end[t] # <<>>
    \/ remote_end[t] = {}
    \/ service /\ remote_end[t] = {"service"} /\ \E i \in DOMAIN queue : queue[i].remote_end = t

(* A call returns although the service may end before it answers:            *)
(* remote_end.reset() leaves the service the only one who could.             *)
LocaltimeReturns == \A t \in Thread : pc[t] = "asking" ~> pc[t] = "done"
=============================================================================
