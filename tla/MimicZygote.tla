---------------------------- MODULE MimicZygote ----------------------------
(***************************************************************************)
(* The mimic zygote (sandbox/mimic_strategy): one thread that takes the    *)
(* place of Chromium's zygote, answers the commands of the host process    *)
(* over one socket, and runs each process to be forked as a flatpak-spawn. *)
(*                                                                         *)
(* External are the host, which is Chromium's browser process, and the     *)
(* kernel.  The host waits for the reply to a command before it sends      *)
(* another; a reap has no reply.  A fork is a handshake: the host waits    *)
(* for the new process to write to a socket, the pid oracle, tells the     *)
(* zygote the pid it saw, or -1, and then waits for the reply.             *)
(*                                                                         *)
(* A step of the zygote is one handler of its event loop, up to a call     *)
(* that may block.                                                         *)
(***************************************************************************)
EXTENDS Naturals, Sequences

CONSTANTS
  Child,        \* the processes that the host asks for
  Pid,          \* the numbers that the kernel has for them
  ExitCode,     \* what a process exits with
  Signal,       \* what it may be killed by
  HostForgets,  \* whether the host asks nothing more about a process that it
                \* asked to be reaped
  None          \* no process, no pid

ASSUME NoneAssumption == None \notin Child \cup Pid
ASSUME CodeAssumption == ExitCode \subseteq 0..255 /\ Signal \subseteq 1..64
ASSUME ForgetsAssumption == HostForgets \in BOOLEAN

VARIABLES
  zygote,     \* what the zygote is doing
  current,    \* the process its handler is busy with
  children_,  \* the pids it keeps track of
  timer,      \* the reap timer for each process
  proc,       \* what the kernel makes of each process
  pid,        \* its pid
  death,      \* how the sandboxed process ended
  wstatus,    \* what waitpid says of it
  commands,   \* what the host has sent and the zygote not read
  replies,    \* what the zygote has sent and the host not read
  host,       \* what the host is waiting for
  about,      \* the process that is about
  ping,       \* whether it has the process's ping to read
  known,      \* processes that the host believes to exist
  condemned   \* processes that the host wants to be gone

zygoteVars == <<zygote, current>>
procVars   == <<proc, pid, death, wstatus>>
hostVars   == <<host, about, ping, known, condemned>>
vars == <<zygote, current, children_, timer, proc, pid, death, wstatus, commands, replies,
          host, about, ping, known, condemned>>

(* An exit, a death by a signal, and W_STOPCODE.                             *)
Exited(n)   == [how |-> "exited", n |-> n]
Signaled(n) == [how |-> "signaled", n |-> n]
Stopped(n)  == [how |-> "stopped", n |-> n]

Death == {Exited(n) : n \in ExitCode} \cup {Signaled(n) : n \in Signal}

(* flatpak-spawn ends with the status of the sandboxed process: a signal it  *)
(* reports as an exit code above 128.                                        *)
Shown(d) == IF d.how = "signaled" THEN Exited(128 + d.n) ELSE d

SIGINT == 2
SIGKILL == 9
SIGTERM == 15

(* How a process may have ended, what waitpid may say of it (0 where it says *)
(* nothing), and what the host may be told that it said.                     *)
Ended      == Death \cup {Signaled(SIGKILL)}
WaitStatus == Ended \cup {Shown(d) : d \in Death} \cup {Exited(0)}
ToldStatus == WaitStatus \cup {Stopped(n) : n \in 1..127}

Command == [type: {"fork", "realpid", "reap", "status"}, of: Child, flag: BOOLEAN]
           \cup [type: {"sandbox"}, of: {None}, flag: BOOLEAN]
Reply == [type: {"forked"}, of: Child \cup {None}]
         \cup [type: {"sandbox"}, of: {None}]
         \cup [type: {"status"}, of: Child, known_dead: BOOLEAN,
               status: {"normal", "abnormal", "killed", "crashed", "running"},
               wstatus: ToldStatus]

-----------------------------------------------------------------------------
(* The kernel's table of the zygote's processes.                             *)

Held      == {"born", "running", "killed", "zombie"}
Holds(c, p) == pid[c] = p /\ proc[c] \in Held
Holders(p)  == {c \in Child : Holds(c, p)}

(* SIGKILL, to whoever has the number; the death itself comes later.         *)
Kill(p) == [c \in Child |-> IF Holds(c, p) /\ proc[c] \in {"born", "running"}
                              THEN "killed" ELSE proc[c]]

(* waitpid has collected the process with the number.                        *)
Collected(p) == [c \in Child |-> IF Holds(c, p) THEN "gone" ELSE proc[c]]

Zombie(p) == \E c \in Holders(p) : proc[c] = "zombie"

-----------------------------------------------------------------------------
Init ==
  /\ zygote = "loop"
  /\ current = None
  /\ children_ = {}
  /\ timer = [c \in Child |-> "none"]
  /\ proc = [c \in Child |-> "none"]
  /\ pid = [c \in Child |-> None]
  /\ death = [c \in Child |-> None]
  /\ wstatus = [c \in Child |-> Exited(0)]
  /\ commands = <<>>
  /\ replies = <<>>
  /\ host = "idle"
  /\ about = None
  /\ ping = FALSE
  /\ known = {}
  /\ condemned = {}

Running == zygote # "ended"

-----------------------------------------------------------------------------
(* HandleMessage, for one command.                                           *)

Receives(type) ==
  /\ zygote = "loop"
  /\ commands # <<>>
  /\ Head(commands).type = type
  /\ commands' = Tail(commands)

Answer(reply) == replies' = Append(replies, reply)

Forked_Mutant(c) == [type |-> "forked", of |-> pid[c]]
Forked(c) == [type |-> "forked", of |-> c]

(* What HandleFork writes to the host when it gives up early, and what       *)
(* SendChildInfoToHost writes when it gives up on the process.               *)
EarlyReply_Mutant == Append(replies, Forked(None))
EarlyReply == replies

DiscardReply_Mutant == replies
DiscardReply == Append(replies, Forked(None))

(* HandleFork up to the read in TestChildPidFromHost.  The process has been  *)
(* forked; the zygote keeps its copy of the pid oracle open.                 *)
HandleFork(p) ==
  /\ Receives("fork")
  /\ Holders(p) = {}
  /\ LET c == Head(commands).of IN
       /\ proc' = [proc EXCEPT ![c] = "born"]
       /\ pid' = [pid EXCEPT ![c] = p]
       /\ current' = c
  /\ zygote' = "handshake"
  /\ UNCHANGED <<children_, timer, death, wstatus, replies, hostVars>>

(* HandleFork returns nothing: the message makes no sense, dup, fork or the  *)
(* launch failed.                                                            *)
HandleForkFails ==
  /\ Receives("fork")
  /\ replies' = EarlyReply
  /\ UNCHANGED <<zygoteVars, children_, timer, procVars, hostVars>>

(* The read of a command fails, say for more descriptors than there is room  *)
(* for.                                                                      *)
ReadFails ==
  /\ Receives("fork")
  /\ zygote' = "ended"
  /\ UNCHANGED <<current, children_, timer, procVars, replies, hostVars>>

(* TestChildPidFromHost in SendChildInfoToHost: the host saw the process, so *)
(* its pid is sent back and inserted.  Any other command in the place of the *)
(* host's pid would fail an assertion; a host that waits sends none.         *)
ChildAccepted ==
  /\ zygote = "handshake"
  /\ commands # <<>>
  /\ Head(commands).type = "realpid"
  /\ Head(commands).flag
  /\ commands' = Tail(commands)
  /\ Answer(Forked(current))
  /\ children_' = children_ \cup {pid[current]}
  /\ zygote' = "loop"
  /\ current' = None
  /\ UNCHANGED <<timer, procVars, hostVars>>

(* The host answers -1, or is gone and nothing can be read: the process is   *)
(* killed and waited for.                                                    *)
ChildRejected ==
  /\ zygote = "handshake"
  /\ \/ /\ commands # <<>>
        /\ Head(commands).type = "realpid"
        /\ ~Head(commands).flag
        /\ commands' = Tail(commands)
     \/ /\ commands = <<>>
        /\ host = "gone"
        /\ UNCHANGED commands
  /\ proc' = Kill(pid[current])
  /\ zygote' = "discard"
  /\ UNCHANGED <<current, children_, timer, pid, death, wstatus, replies, hostVars>>

(* The process has been waited for and the host is told -1; yet HandleFork   *)
(* returns the pid, which is inserted.                                       *)
ChildDiscarded ==
  /\ zygote = "discard"
  /\ Zombie(pid[current])
  /\ proc' = Collected(pid[current])
  /\ replies' = DiscardReply
  /\ children_' = children_ \cup {pid[current]}
  /\ zygote' = "loop"
  /\ current' = None
  /\ UNCHANGED <<timer, pid, death, wstatus, commands, hostVars>>

(* HandleReap starts a timer for a pid it keeps track of.                    *)
HandleReap ==
  /\ Receives("reap")
  /\ LET c == Head(commands).of IN
       timer' = IF pid[c] \in children_ THEN [timer EXCEPT ![c] = "first"] ELSE timer
  /\ UNCHANGED <<zygoteVars, children_, procVars, replies, hostVars>>

(* The timer after a failed wait.                                            *)
Rearmed_Mutant == "none"
Rearmed == "again"

(* ReapTimerHandler: after a failed wait the process is killed, once, and    *)
(* the timer starts again.                                                   *)
ReapTimerWaits(c) ==
  /\ zygote = "loop"
  /\ timer[c] # "none"
  /\ Zombie(pid[c])
  /\ proc' = Collected(pid[c])
  /\ timer' = [timer EXCEPT ![c] = "none"]
  /\ UNCHANGED <<zygoteVars, children_, pid, death, wstatus, commands, replies, hostVars>>

ReapTimerKills(c) ==
  /\ zygote = "loop"
  /\ timer[c] = "first"
  /\ ~Zombie(pid[c])
  /\ proc' = Kill(pid[c])
  /\ timer' = [timer EXCEPT ![c] = Rearmed]
  /\ UNCHANGED <<zygoteVars, children_, pid, death, wstatus, commands, replies, hostVars>>

(* GetTerminationStatusForSignal, and the status that goes with what waitpid *)
(* said: an exit code above 128 is taken for a signal.                       *)
StatusForSignal(n) == IF n \in {SIGINT, SIGKILL, SIGTERM} THEN "killed" ELSE "crashed"

SignalOfCode_Mutant(n) == n - 127
SignalOfCode(n) == n - 128

TerminationStatus(w) ==
  CASE w.how = "signaled"            -> StatusForSignal(w.n)
    [] w.how = "exited" /\ w.n = 0   -> "normal"
    [] w.how = "exited" /\ w.n > 128 -> StatusForSignal(SignalOfCode(w.n))
    [] OTHER                         -> "abnormal"

(* What the host is told that waitpid said: for a code above 128 that the    *)
(* process was stopped by the signal.                                        *)
WStatusTold(w) ==
  IF w.how = "exited" /\ w.n > 128 THEN Stopped(SignalOfCode(w.n)) ELSE w

Status(c, known_dead, status, told) ==
  [type |-> "status", of |-> c, known_dead |-> known_dead, status |-> status,
   wstatus |-> told]

(* What HandleTerminationStatusRequest forgets once it has a status, and     *)
(* whom it kills before it waits.                                            *)
Tracked_Mutant(p, status) == children_ \ {p}
Tracked(p, status) == IF status = "running" THEN children_ ELSE children_ \ {p}

KillKnownDead_Mutant(p, known_dead) == Kill(p)
KillKnownDead(p, known_dead) == IF known_dead THEN Kill(p) ELSE proc

(* For a pid that it does not keep track of, and for one whose wait fails,   *)
(* the status is normal.                                                     *)
StatusUnknown ==
  /\ Receives("status")
  /\ LET c == Head(commands).of IN
       /\ Holders(pid[c]) = {} \/ pid[c] \notin children_
       /\ Answer(Status(c, Head(commands).flag, "normal", Exited(0)))
       /\ children_' = Tracked(pid[c], "normal")
  /\ UNCHANGED <<zygoteVars, timer, procVars, hostVars>>

(* WNOHANG while the process runs.                                           *)
StatusRunning ==
  /\ Receives("status")
  /\ ~Head(commands).flag
  /\ LET c == Head(commands).of IN
       /\ pid[c] \in children_
       /\ Holders(pid[c]) # {}
       /\ ~Zombie(pid[c])
       /\ Answer(Status(c, FALSE, "running", Exited(0)))
       /\ proc' = KillKnownDead(pid[c], FALSE)
       /\ children_' = Tracked(pid[c], "running")
  /\ UNCHANGED <<zygoteVars, timer, pid, death, wstatus, hostVars>>

Collect(c, known_dead) ==
  \E x \in Holders(pid[c]) :
    LET status == TerminationStatus(wstatus[x]) IN
      /\ Answer(Status(c, known_dead, status, WStatusTold(wstatus[x])))
      /\ proc' = Collected(pid[c])
      /\ children_' = Tracked(pid[c], status)

StatusDead ==
  /\ Receives("status")
  /\ ~Head(commands).flag
  /\ pid[Head(commands).of] \in children_
  /\ Zombie(pid[Head(commands).of])
  /\ Collect(Head(commands).of, FALSE)
  /\ UNCHANGED <<zygoteVars, timer, pid, death, wstatus, hostVars>>

(* A process known to be dead is killed first and then waited for.           *)
StatusKnownDead ==
  /\ Receives("status")
  /\ Head(commands).flag
  /\ LET c == Head(commands).of IN
       /\ pid[c] \in children_
       /\ Holders(pid[c]) # {}
       /\ proc' = KillKnownDead(pid[c], TRUE)
       /\ current' = c
  /\ zygote' = "collect"
  /\ UNCHANGED <<children_, timer, pid, death, wstatus, replies, hostVars>>

KnownDeadCollected ==
  /\ zygote = "collect"
  /\ Zombie(pid[current])
  /\ Collect(current, TRUE)
  /\ zygote' = "loop"
  /\ current' = None
  /\ UNCHANGED <<timer, pid, death, wstatus, commands, hostVars>>

HandleSandboxStatusRequest ==
  /\ Receives("sandbox")
  /\ Answer([type |-> "sandbox", of |-> None])
  /\ UNCHANGED <<zygoteVars, children_, timer, procVars, hostVars>>

(* "Got kForkRealPID in main command runner".                                *)
RealPidInLoop ==
  /\ Receives("realpid")
  /\ zygote' = "ended"
  /\ UNCHANGED <<current, children_, timer, procVars, replies, hostVars>>

(* The host has hung up: the source is dropped, whatever is left to read,    *)
(* and its destroy handler ends the loop.                                    *)
HostIsGone ==
  /\ zygote = "loop"
  /\ host = "gone"
  /\ zygote' = "ended"
  /\ UNCHANGED <<current, children_, timer, procVars, commands, replies, hostVars>>

-----------------------------------------------------------------------------
(* The processes.                                                            *)

(* ExecZygoteChild writes to the pid oracle and executes flatpak-spawn.      *)
ChildPings(c) ==
  /\ proc[c] = "born"
  /\ proc' = [proc EXCEPT ![c] = "running"]
  /\ ping' = (ping \/ (host = "ping" /\ about = c))
  /\ UNCHANGED <<zygoteVars, children_, timer, pid, death, wstatus, commands, replies,
                 host, about, known, condemned>>

Dies(c, d, w) ==
  /\ proc' = [proc EXCEPT ![c] = "zombie"]
  /\ death' = [death EXCEPT ![c] = d]
  /\ wstatus' = [wstatus EXCEPT ![c] = w]
  /\ UNCHANGED <<zygoteVars, children_, timer, pid, commands, replies, hostVars>>

(* Either the sandboxed process ends and flatpak-spawn with it, or           *)
(* flatpak-spawn itself does, perhaps before its ping.                       *)
ChildEnds(c) ==
  \E d \in Death :
    \/ proc[c] = "running" /\ Dies(c, d, Shown(d))
    \/ proc[c] \in {"born", "running"} /\ Dies(c, d, d)

KilledChildEnds(c) == proc[c] = "killed" /\ Dies(c, Signaled(SIGKILL), Signaled(SIGKILL))

-----------------------------------------------------------------------------
(* The host.                                                                 *)

Sends(type, c, flag) ==
  commands' = Append(commands, [type |-> type, of |-> c, flag |-> flag])

Asks(c) ==
  /\ host = "idle"
  /\ about' = c
  /\ UNCHANGED <<zygoteVars, children_, timer, procVars, replies>>

HostForks(c) ==
  /\ Asks(c)
  /\ c \notin known \cup condemned
  /\ pid[c] = None
  /\ Sends("fork", c, FALSE)
  /\ host' = "ping"
  /\ UNCHANGED <<ping, known, condemned>>

(* Nobody has the other end of the pid oracle any more.                      *)
OracleClosed ==
  /\ zygote \notin {"handshake", "discard"}
  /\ \A i \in DOMAIN commands : commands[i].type # "fork"
  /\ proc[about] # "born"

HostSendsPid(seen) ==
  /\ host = "ping"
  /\ ping \/ OracleClosed
  /\ seen => ping
  /\ Sends("realpid", about, seen)
  /\ host' = "fork"
  /\ ping' = FALSE
  /\ condemned' = IF seen THEN condemned ELSE condemned \cup {about}
  /\ UNCHANGED <<zygoteVars, children_, timer, procVars, replies, about, known>>

HostAsksStatus(c, known_dead) ==
  /\ Asks(c)
  /\ c \in known
  /\ Sends("status", c, known_dead)
  /\ host' = "status"
  /\ condemned' = IF known_dead THEN condemned \cup {c} ELSE condemned
  /\ UNCHANGED <<ping, known>>

HostAsksSandbox ==
  /\ Asks(None)
  /\ Sends("sandbox", None, FALSE)
  /\ host' = "sandbox"
  /\ UNCHANGED <<ping, known, condemned>>

HostReaps(c) ==
  /\ host = "idle"
  /\ c \in known \ condemned
  /\ Sends("reap", c, FALSE)
  /\ condemned' = condemned \cup {c}
  /\ known' = IF HostForgets THEN known \ {c} ELSE known
  /\ UNCHANGED <<zygoteVars, children_, timer, procVars, replies, host, about, ping>>

HostReads ==
  /\ host \in {"fork", "status", "sandbox"}
  /\ replies # <<>>
  /\ LET r == Head(replies) IN
       known' = CASE r.type = "forked" -> known \cup ({r.of} \ {None})
                  [] r.type = "status" /\ r.status # "running" -> known \ {r.of}
                  [] OTHER -> known
  /\ replies' = Tail(replies)
  /\ host' = "idle"
  /\ about' = None
  /\ UNCHANGED <<zygoteVars, children_, timer, procVars, commands, ping, condemned>>

HostDies ==
  /\ host # "gone"
  /\ host' = "gone"
  /\ about' = None
  /\ ping' = FALSE
  /\ UNCHANGED <<zygoteVars, children_, timer, procVars, commands, replies, known, condemned>>

-----------------------------------------------------------------------------
HandleMessage ==
  \/ \E p \in Pid : HandleFork(p)
  \/ HandleForkFails \/ ReadFails
  \/ HandleReap
  \/ StatusUnknown \/ StatusRunning \/ StatusDead \/ StatusKnownDead
  \/ HandleSandboxStatusRequest
  \/ RealPidInLoop
  \/ HostIsGone

(* The rest of a handler that blocks.                                        *)
ZygoteContinues ==
  ChildAccepted \/ ChildRejected \/ ChildDiscarded \/ KnownDeadCollected

ReapTimer(c) == ReapTimerWaits(c) \/ ReapTimerKills(c)

HostContinues ==
  /\ Running
  /\ (\E seen \in BOOLEAN : HostSendsPid(seen)) \/ HostReads

Next ==
  \/ HandleMessage \/ ZygoteContinues
  \/ \E c \in Child :
       \/ ReapTimer(c)
       \/ ChildPings(c) \/ ChildEnds(c) \/ KilledChildEnds(c)
  \/ /\ Running
     /\ \/ \E c \in Child :
             \/ HostForks(c) \/ HostReaps(c)
             \/ \E known_dead \in BOOLEAN : HostAsksStatus(c, known_dead)
        \/ HostAsksSandbox
        \/ HostDies
  \/ HostContinues

Spec == Init /\ [][Next]_vars

(* Fairness.  The zygote runs its handlers, and sd-event passes over no      *)
(* timer for ever (strong, since a handler that blocks keeps it waiting).  A *)
(* forked process gets to its ping or ends, and a killed one ends.  A host   *)
(* that is alive goes on with what it began.                                 *)
Fairness ==
  /\ WF_vars(HandleMessage)
  /\ WF_vars(ZygoteContinues)
  /\ \A c \in Child : /\ SF_vars(ReapTimer(c))
                      /\ WF_vars(ChildPings(c))
                      /\ WF_vars(KilledChildEnds(c))
  /\ WF_vars(HostContinues)

FairSpec == Spec /\ Fairness

-----------------------------------------------------------------------------
(* Every variable has its type.                                              *)
TypeOK ==
  /\ zygote \in {"loop", "handshake", "discard", "collect", "ended"}
  /\ current \in Child \cup {None}
  /\ zygote \in {"handshake", "discard", "collect"} => current # None /\ pid[current] # None
  /\ children_ \subseteq Pid
  /\ timer \in [Child -> {"none", "first", "again"}]
  /\ proc \in [Child -> Held \cup {"none", "gone"}]
  /\ pid \in [Child -> Pid \cup {None}]
  /\ death \in [Child -> Ended \cup {None}]
  /\ wstatus \in [Child -> WaitStatus]
  /\ commands \in Seq(Command)
  /\ replies \in Seq(Reply)
  /\ host \in {"idle", "ping", "fork", "status", "sandbox", "gone"}
  /\ about \in Child \cup {None}
  /\ host \in {"ping", "fork", "status"} => about # None
  /\ ping \in BOOLEAN
  /\ known \subseteq Child
  /\ condemned \subseteq Child

(* The zygote keeps track of every process that the host believes to exist,  *)
(* and has not collected it behind the host's back, unless the host is about *)
(* to be told.  Only the termination status takes a pid out of children_.    *)
KnownTracked ==
  \A c \in known :
    \/ host \in {"status", "gone"}
    \/ pid[c] \in children_ /\ c \in Holders(pid[c])

(* A process is killed only if the host had rejected it, had asked for it to *)
(* be reaped or had called it dead, or is gone: never another one that has   *)
(* got its pid since.                                                        *)
OnlyCondemnedKilled ==
  [][\A c \in Child : proc[c] # "killed" /\ proc'[c] = "killed"
       => c \in condemned \/ host = "gone"]_vars

(* A reply is one that the host waits for, and there is no second one.       *)
ReplyExpected ==
  host # "gone" /\ replies # <<>> =>
    /\ Len(replies) = 1
    /\ CASE Head(replies).type = "forked"  -> host = "fork"
         [] Head(replies).type = "status"  -> host = "status" /\ Head(replies).of = about
         [] Head(replies).type = "sandbox" -> host = "sandbox"

(* How a process ended.  An exit code above 128 is taken for a signal, which *)
(* it probably is (status.cc): a process that exits with one is not told     *)
(* from one that was killed.                                                 *)
Meant(d) == IF d.how = "exited" /\ d.n > 128 THEN Signaled(d.n - 128) ELSE d

Truth(d) ==
  CASE d = Exited(0)       -> "normal"
    [] d.how = "exited" /\ d # Exited(0) -> "abnormal"
    [] d.how = "signaled"  -> IF d.n \in {SIGINT, SIGKILL, SIGTERM} THEN "killed" ELSE "crashed"

(* The wait statuses that name that end.                                     *)
Names(d) == {d} \cup (IF d.how = "signaled" THEN {Stopped(d.n)} ELSE {})

(* A status is that of the process asked about, whether or not its death was *)
(* translated into an exit code on the way; the wait status that comes with  *)
(* it names the same code or signal; and a process that the host knows to be *)
(* dead is never said to run.                                                *)
StatusTrue ==
  \A i \in DOMAIN replies :
    LET r == replies[i] IN
      r.type = "status" =>
        IF r.status = "running"
          THEN ~r.known_dead
          ELSE /\ proc[r.of] = "gone"
               /\ r.status = Truth(Meant(death[r.of]))
               /\ r.wstatus \in Names(Meant(death[r.of]))

(* The process died before its ping while the zygote, which keeps its own    *)
(* copy of the pid oracle, waits for the host: each waits for the other, for *)
(* as long as the host lives.                                                *)
PingLost == host = "ping" /\ zygote = "handshake" /\ ~ping /\ proc[about] = "zombie"

(* A process that the host has asked to be reaped is collected in the end,   *)
(* dead or alive, as long as the zygote runs and does not wait for the host  *)
(* over a lost ping.                                                         *)
ReapedInTheEnd ==
  \A c \in Child : timer[c] # "none" ~> proc[c] = "gone" \/ ~Running \/ PingLost

(* A host that waits has its command queued, or the zygote at work on it, or *)
(* the reply or the end of file there.                                       *)
Queued(type, c) ==
  \E i \in DOMAIN commands : commands[i].type = type /\ commands[i].of = c

AtWork(at) == zygote \in at /\ current = about

HostServed ==
  /\ host = "ping" =>
       \/ Queued("fork", about) \/ ping \/ OracleClosed \/ PingLost
       \/ AtWork({"handshake"}) /\ proc[about] = "born"
  /\ host = "fork" => replies # <<>> \/ Queued("realpid", about) \/ AtWork({"discard"})
  /\ host \in {"status", "sandbox"} => replies # <<>> \/ Queued(host, about) \/ AtWork({"collect"})

(* A zygote that blocks does so on a host that still has to tell the pid, or *)
(* on a process that is dead or killed.                                      *)
ZygoteServed ==
  /\ zygote = "handshake" =>
       host = "gone" \/ (current = about /\ (host = "ping" \/ Queued("realpid", current)))
  /\ zygote \in {"discard", "collect"} =>
       \E c \in Holders(pid[current]) : proc[c] \in {"killed", "zombie"}

(* A process that the host wants to be gone and that still lives is one that *)
(* the zygote has yet to hear of or has a timer for.                         *)
Condemns(m) ==
  m.type = "reap" \/ (m.type = "status" /\ m.flag) \/ (m.type = "realpid" /\ ~m.flag)

Announced(c) == \E i \in DOMAIN commands : commands[i].of = c /\ Condemns(commands[i])

CondemnedPursued ==
  \A c \in condemned : proc[c] \in {"born", "running"} => timer[c] # "none" \/ Announced(c)

(* While both are there neither the host nor the zygote waits for what       *)
(* nobody is going to do, but for the lost ping, and no condemned process    *)
(* is forgotten (HandleFork, HandleReap, HandleTerminationStatusRequest).    *)
NobodyStranded ==
  Running /\ host # "gone" => HostServed /\ ZygoteServed /\ CondemnedPursued

(* The host is answered, unless the zygote ends or the ping was lost.        *)
HostAnswered ==
  \A h \in {"ping", "fork", "status", "sandbox"} :
    host = h ~> host # h \/ ~Running \/ PingLost
=============================================================================
