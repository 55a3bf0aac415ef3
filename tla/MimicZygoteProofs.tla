-------------------------- MODULE MimicZygoteProofs --------------------------
(***************************************************************************)
(* The safety of the mimic zygote, for any number of processes and pids.   *)
(***************************************************************************)
EXTENDS MimicZygote, TLAPS

-----------------------------------------------------------------------------
(* Commands and replies as values.                                           *)

LEMMA HeadOfCommands ==
  ASSUME TypeOK, commands # <<>>
  PROVE  /\ Head(commands) \in Command
         /\ Tail(commands) \in Seq(Command)
         /\ Head(commands).flag \in BOOLEAN
         /\ Head(commands).type # "sandbox" => Head(commands).of \in Child
  <1>1. Head(commands) \in Command /\ Tail(commands) \in Seq(Command)
    BY DEF TypeOK
  <1> QED BY <1>1 DEF Command

LEMMA CommandAppended ==
  ASSUME TypeOK, NEW c \in Child, NEW flag \in BOOLEAN,
         NEW type \in {"fork", "realpid", "reap", "status"}
  PROVE  Append(commands, [type |-> type, of |-> c, flag |-> flag]) \in Seq(Command)
  <1>1. [type |-> type, of |-> c, flag |-> flag] \in Command
    BY DEF Command
  <1> QED BY <1>1 DEF TypeOK

LEMMA ReplyAppended ==
  ASSUME TypeOK, NEW r \in Reply
  PROVE  Append(replies, r) \in Seq(Reply)
  BY DEF TypeOK

LEMMA ForkedIsReply ==
  ASSUME NEW c \in Child \cup {None}
  PROVE  Forked(c) \in Reply
  BY DEF Reply, Forked

LEMMA StatusIsReply ==
  ASSUME NEW c \in Child, NEW flag \in BOOLEAN,
         NEW status \in {"normal", "abnormal", "killed", "crashed", "running"},
         NEW told \in ToldStatus
  PROVE  Status(c, flag, status, told) \in Reply
  BY DEF Reply, Status

(* What the kernel may make of its table.                                    *)
LEMMA KernelTables ==
  ASSUME TypeOK, NEW p
  PROVE  /\ Kill(p) \in [Child -> Held \cup {"none", "gone"}]
         /\ Collected(p) \in [Child -> Held \cup {"none", "gone"}]
  BY DEF TypeOK, Kill, Collected, Held

LEMMA StatusIsOne ==
  ASSUME NEW w
  PROVE  TerminationStatus(w) \in {"normal", "abnormal", "killed", "crashed"}
  BY DEF TerminationStatus, StatusForSignal

LEMMA ToldIsOne ==
  /\ \A w \in WaitStatus : WStatusTold(w) \in ToldStatus
  /\ Exited(0) \in ToldStatus
  <1>1. ASSUME NEW n \in 0 .. 255
        PROVE  n > 128 => n - 128 \in 1 .. 127
    OBVIOUS
  <1>2. ASSUME NEW w \in WaitStatus, w.how = "exited"
        PROVE  w.n \in 0 .. 255
    BY <1>2, CodeAssumption DEF WaitStatus, Ended, Death, Shown, Exited, Signaled
  <1>3. ASSUME NEW w \in WaitStatus
        PROVE  WStatusTold(w) \in ToldStatus
    BY <1>1, <1>2 DEF WStatusTold, SignalOfCode, ToldStatus
  <1> QED BY <1>3 DEF ToldStatus, WaitStatus

-----------------------------------------------------------------------------
(* The type invariant is inductive.                                          *)

LEMMA TypeInit == Init => TypeOK
  <1>1. Exited(0) \in WaitStatus
    BY DEF WaitStatus
  <1>2. Init => wstatus \in [Child -> WaitStatus]
    BY <1>1 DEF Init
  <1>3. Init => /\ timer \in [Child -> {"none", "first", "again"}]
                /\ proc \in [Child -> Held \cup {"none", "gone"}]
                /\ pid \in [Child -> Pid \cup {None}]
                /\ death \in [Child -> Ended \cup {None}]
    BY DEF Init
  <1>4. Init => commands \in Seq(Command) /\ replies \in Seq(Reply)
    BY DEF Init
  <1> QED BY <1>2, <1>3, <1>4 DEF Init, TypeOK

LEMMA TypeOfFork ==
  ASSUME TypeOK, (\E p \in Pid : HandleFork(p)) \/ HandleForkFails \/ ReadFails \/ HandleReap
  PROVE  TypeOK'
  <1>1. ASSUME NEW p \in Pid, HandleFork(p)
        PROVE  TypeOK'
    BY <1>1, HeadOfCommands, NoneAssumption DEF TypeOK, HandleFork, Receives, hostVars, Held
  <1>2. CASE HandleForkFails
    BY <1>2, HeadOfCommands DEF TypeOK, HandleForkFails, Receives, EarlyReply, zygoteVars, procVars,
                                hostVars
  <1>3. CASE ReadFails
    BY <1>3, HeadOfCommands DEF TypeOK, ReadFails, Receives, procVars, hostVars
  <1>4. CASE HandleReap
    BY <1>4, HeadOfCommands DEF TypeOK, HandleReap, Receives, zygoteVars, procVars, hostVars
  <1> QED BY <1>1, <1>2, <1>3, <1>4

LEMMA TypeOfHandshake ==
  ASSUME TypeOK, ChildAccepted \/ ChildRejected \/ ChildDiscarded
  PROVE  TypeOK'
  <1>1. CASE ChildAccepted
    <2>1. replies' \in Seq(Reply)
      BY <1>1, ForkedIsReply, ReplyAppended DEF TypeOK, ChildAccepted, Answer
    <2>2. children_' \subseteq Pid
      BY <1>1, NoneAssumption DEF TypeOK, ChildAccepted
    <2> QED BY <1>1, <2>1, <2>2, HeadOfCommands DEF TypeOK, ChildAccepted, procVars, hostVars
  <1>2. CASE ChildRejected
    BY <1>2, HeadOfCommands, KernelTables DEF TypeOK, ChildRejected, hostVars
  <1>3. CASE ChildDiscarded
    <2>1. replies' \in Seq(Reply)
      BY <1>3, ForkedIsReply, ReplyAppended DEF ChildDiscarded, DiscardReply
    <2>2. children_' \subseteq Pid
      BY <1>3, NoneAssumption DEF TypeOK, ChildDiscarded
    <2>3. proc' \in [Child -> Held \cup {"none", "gone"}]
      BY <1>3, KernelTables DEF ChildDiscarded
    <2> QED BY <1>3, <2>1, <2>2, <2>3 DEF TypeOK, ChildDiscarded, hostVars
  <1> QED BY <1>1, <1>2, <1>3

LEMMA TypeOfCollect ==
  ASSUME TypeOK, NEW c \in Child, NEW flag \in BOOLEAN, Collect(c, flag)
  PROVE  /\ replies' \in Seq(Reply)
         /\ proc' \in [Child -> Held \cup {"none", "gone"}]
         /\ children_' \subseteq Pid
  <1>1. PICK x \in Holders(pid[c]) :
          /\ Answer(Status(c, flag, TerminationStatus(wstatus[x]), WStatusTold(wstatus[x])))
          /\ proc' = Collected(pid[c])
          /\ children_' = Tracked(pid[c], TerminationStatus(wstatus[x]))
    BY DEF Collect
  <1>2. Status(c, flag, TerminationStatus(wstatus[x]), WStatusTold(wstatus[x])) \in Reply
    <2>1. wstatus[x] \in WaitStatus
      BY DEF TypeOK, Holders
    <2> QED BY <2>1, StatusIsReply, StatusIsOne, ToldIsOne
  <1>3. replies' \in Seq(Reply)
    BY <1>1, <1>2, ReplyAppended DEF Answer
  <1> QED BY <1>1, <1>3, KernelTables DEF TypeOK, Tracked

LEMMA TypeOfStatus ==
  ASSUME TypeOK,
         StatusUnknown \/ StatusRunning \/ StatusDead \/ StatusKnownDead \/ KnownDeadCollected
  PROVE  TypeOK'
  <1>1. CASE StatusUnknown
    <2>1. replies' \in Seq(Reply)
      BY <1>1, HeadOfCommands, StatusIsReply, ToldIsOne, ReplyAppended DEF StatusUnknown, Receives, Answer
    <2> QED BY <1>1, <2>1, HeadOfCommands
            DEF TypeOK, StatusUnknown, Receives, Tracked, zygoteVars, procVars, hostVars
  <1>2. CASE StatusRunning
    <2>1. replies' \in Seq(Reply)
      BY <1>2, HeadOfCommands, StatusIsReply, ToldIsOne, ReplyAppended DEF StatusRunning, Receives, Answer
    <2> QED BY <1>2, <2>1, HeadOfCommands
            DEF TypeOK, StatusRunning, Receives, Tracked, KillKnownDead, zygoteVars, hostVars
  <1>3. CASE StatusDead
    BY <1>3, HeadOfCommands, TypeOfCollect DEF TypeOK, StatusDead, Receives, zygoteVars, hostVars
  <1>4. CASE StatusKnownDead
    BY <1>4, HeadOfCommands, KernelTables, NoneAssumption
       DEF TypeOK, StatusKnownDead, Receives, KillKnownDead, hostVars
  <1>5. CASE KnownDeadCollected
    BY <1>5, TypeOfCollect DEF TypeOK, KnownDeadCollected, hostVars
  <1> QED BY <1>1, <1>2, <1>3, <1>4, <1>5

LEMMA TypeOfEnd ==
  ASSUME TypeOK, HandleSandboxStatusRequest \/ RealPidInLoop \/ HostIsGone
  PROVE  TypeOK'
  <1>1. CASE HandleSandboxStatusRequest
    <2>1. [type |-> "sandbox", of |-> None] \in Reply
      BY DEF Reply
    <2>2. replies' \in Seq(Reply)
      BY <1>1, <2>1, ReplyAppended DEF HandleSandboxStatusRequest, Answer
    <2> QED BY <1>1, <2>2, HeadOfCommands
            DEF TypeOK, HandleSandboxStatusRequest, Receives, zygoteVars, procVars, hostVars
  <1>2. CASE RealPidInLoop
    BY <1>2, HeadOfCommands DEF TypeOK, RealPidInLoop, Receives, procVars, hostVars
  <1>3. CASE HostIsGone
    BY <1>3 DEF TypeOK, HostIsGone, procVars, hostVars
  <1> QED BY <1>1, <1>2, <1>3

LEMMA TypeOfProcess ==
  ASSUME TypeOK, NEW c \in Child,
         ReapTimer(c) \/ ChildPings(c) \/ ChildEnds(c) \/ KilledChildEnds(c)
  PROVE  TypeOK'
  <1>1. CASE ReapTimer(c)
    BY <1>1, KernelTables
       DEF TypeOK, ReapTimer, ReapTimerWaits, ReapTimerKills, Rearmed, zygoteVars, hostVars
  <1>2. CASE ChildPings(c)
    BY <1>2 DEF TypeOK, ChildPings, Held, zygoteVars, hostVars
  <1>3. ASSUME NEW d \in Ended, NEW w \in WaitStatus, Dies(c, d, w)
        PROVE  TypeOK'
    BY <1>3 DEF TypeOK, Dies, Held, zygoteVars, hostVars
  <1>4. CASE ChildEnds(c)
    BY <1>3, <1>4 DEF ChildEnds, Ended, WaitStatus
  <1>5. CASE KilledChildEnds(c)
    BY <1>3, <1>5 DEF KilledChildEnds, Ended, WaitStatus
  <1> QED BY <1>1, <1>2, <1>4, <1>5

LEMMA TypeOfHost ==
  ASSUME TypeOK, NEW c \in Child, NEW flag \in BOOLEAN,
         HostForks(c) \/ HostReaps(c) \/ HostAsksStatus(c, flag) \/ HostSendsPid(flag)
  PROVE  TypeOK'
  <1>1. CASE HostForks(c)
    <2>1. commands' \in Seq(Command)
      BY <1>1, CommandAppended DEF HostForks, Sends
    <2> QED BY <1>1, <2>1, NoneAssumption DEF TypeOK, HostForks, Asks, zygoteVars, procVars
  <1>2. CASE HostReaps(c)
    <2>1. commands' \in Seq(Command)
      BY <1>2, CommandAppended DEF HostReaps, Sends
    <2> QED BY <1>2, <2>1 DEF TypeOK, HostReaps, zygoteVars, procVars
  <1>3. CASE HostAsksStatus(c, flag)
    <2>1. commands' \in Seq(Command)
      BY <1>3, CommandAppended DEF HostAsksStatus, Sends
    <2> QED BY <1>3, <2>1, NoneAssumption DEF TypeOK, HostAsksStatus, Asks, zygoteVars, procVars
  <1>4. CASE HostSendsPid(flag)
    <2>1. about \in Child
      BY <1>4 DEF TypeOK, HostSendsPid
    <2>2. commands' \in Seq(Command)
      BY <1>4, <2>1, CommandAppended DEF HostSendsPid, Sends
    <2> QED BY <1>4, <2>1, <2>2 DEF TypeOK, HostSendsPid, zygoteVars, procVars
  <1> QED BY <1>1, <1>2, <1>3, <1>4

LEMMA TypeOfHostAlone ==
  ASSUME TypeOK, HostAsksSandbox \/ HostReads \/ HostDies
  PROVE  TypeOK'
  <1>1. CASE HostAsksSandbox
    <2>1. [type |-> "sandbox", of |-> None, flag |-> FALSE] \in Command
      BY DEF Command
    <2> QED BY <1>1, <2>1 DEF TypeOK, HostAsksSandbox, Asks, Sends, zygoteVars, procVars
  <1>2. CASE HostReads
    <2>1. Head(replies) \in Reply /\ Tail(replies) \in Seq(Reply)
      BY <1>2 DEF TypeOK, HostReads
    <2>2. Head(replies).of \in Child \cup {None}
      BY <2>1 DEF Reply
    <2>3. known' \subseteq Child
      BY <1>2, <2>2 DEF TypeOK, HostReads
    <2> QED BY <1>2, <2>1, <2>3 DEF TypeOK, HostReads, zygoteVars, procVars
  <1>3. CASE HostDies
    BY <1>3 DEF TypeOK, HostDies, zygoteVars, procVars
  <1> QED BY <1>1, <1>2, <1>3

LEMMA TypeStep == TypeOK /\ [Next]_vars => TypeOK'
  <1> SUFFICES ASSUME TypeOK, [Next]_vars
               PROVE  TypeOK'
    OBVIOUS
  <1>1. CASE HandleMessage
    BY <1>1, TypeOfFork, TypeOfStatus, TypeOfEnd DEF HandleMessage
  <1>2. CASE ZygoteContinues
    BY <1>2, TypeOfHandshake, TypeOfStatus DEF ZygoteContinues
  <1>3. ASSUME NEW c \in Child,
               ReapTimer(c) \/ ChildPings(c) \/ ChildEnds(c) \/ KilledChildEnds(c)
        PROVE  TypeOK'
    BY <1>3, TypeOfProcess
  <1>4. ASSUME NEW c \in Child, NEW flag \in BOOLEAN,
               HostForks(c) \/ HostReaps(c) \/ HostAsksStatus(c, flag)
        PROVE  TypeOK'
    BY <1>4, TypeOfHost
  <1>5. CASE HostAsksSandbox \/ HostDies
    BY <1>5, TypeOfHostAlone
  <1>6. CASE HostContinues
    <2>1. CASE HostReads
      BY <2>1, TypeOfHostAlone
    <2>2. ASSUME NEW seen \in BOOLEAN, HostSendsPid(seen)
          PROVE  TypeOK'
      <3>1. about \in Child
        BY <2>2 DEF TypeOK, HostSendsPid
      <3> QED BY <2>2, <3>1, TypeOfHost
    <2> QED BY <1>6, <2>1, <2>2 DEF HostContinues
  <1>7. CASE UNCHANGED vars
    BY <1>7 DEF TypeOK, vars
  <1> QED BY <1>1, <1>2, <1>3, <1>4, <1>5, <1>6, <1>7 DEF Next

(* Every variable of the zygote, of its processes and of the host keeps its  *)
(* type.                                                                     *)
THEOREM TypeCorrect == Spec => []TypeOK
  <1>1. Init => TypeOK
    BY TypeInit
  <1>2. TypeOK /\ [Next]_vars => TypeOK'
    BY TypeStep
  <1> QED BY <1>1, <1>2, PTL DEF Spec

-----------------------------------------------------------------------------
(* The kernel: a process has a pid once it was forked, a pid is that of at   *)
(* most one process at a time, and what waitpid says of a process that has   *)
(* ended is translated into how it ended.                                    *)

ForkedHavePids == \A c \in Child : proc[c] = "none" <=> pid[c] = None

OneHolder == \A c, x \in Child : \A p \in Pid : c \in Holders(p) /\ x \in Holders(p) => c = x

(* A wait status tells the truth about a death.                              *)
Tells(w, d) ==
  /\ TerminationStatus(w) = Truth(Meant(d))
  /\ WStatusTold(w) \in Names(Meant(d))

DeathsTold ==
  \A c \in Child : proc[c] \in {"zombie", "gone"} =>
    /\ death[c] \in Ended
    /\ Tells(wstatus[c], death[c])

KernelInv == ForkedHavePids /\ OneHolder /\ DeathsTold

LEMMA DeathIsTold ==
  /\ \A d \in Ended : Tells(d, d)
  /\ \A d \in Death : Tells(Shown(d), d)
  <1>1. ASSUME NEW n \in 1 .. 127
        PROVE  /\ Tells(Exited(128 + n), Signaled(n))
               /\ Tells(Exited(128 + n), Exited(128 + n))
               /\ Tells(Signaled(n), Signaled(n))
    <2>1. Signaled(n).how = "signaled" /\ Signaled(n).n = n /\ Meant(Signaled(n)) = Signaled(n)
      BY DEF Signaled, Meant
    <2>2. /\ Exited(128 + n).how = "exited" /\ Exited(128 + n).n = 128 + n
          /\ SignalOfCode(128 + n) = n
      BY DEF Exited, SignalOfCode
    <2>3. Meant(Exited(128 + n)) = Signaled(n)
      BY <2>2 DEF Meant
    <2>4. Truth(Signaled(n)) = StatusForSignal(n) /\ Names(Signaled(n)) = {Signaled(n), Stopped(n)}
      <3>1. Signaled(n) # Exited(0)
        BY DEF Signaled, Exited
      <3> QED BY <2>1, <3>1 DEF Truth, StatusForSignal, Names
    <2>5. /\ TerminationStatus(Exited(128 + n)) = StatusForSignal(n)
          /\ WStatusTold(Exited(128 + n)) = Stopped(n)
      BY <2>2 DEF TerminationStatus, WStatusTold
    <2>6. TerminationStatus(Signaled(n)) = StatusForSignal(n) /\ WStatusTold(Signaled(n)) = Signaled(n)
      BY <2>1 DEF TerminationStatus, WStatusTold
    <2> QED BY <2>1, <2>3, <2>4, <2>5, <2>6 DEF Tells
  <1>2. ASSUME NEW n \in 0 .. 128
        PROVE  Tells(Exited(n), Exited(n))
    <2>1. Exited(n).how = "exited" /\ Exited(n).n = n /\ Meant(Exited(n)) = Exited(n)
      BY DEF Exited, Meant
    <2>2. WStatusTold(Exited(n)) = Exited(n) /\ Exited(n) \in Names(Exited(n))
      BY <2>1 DEF WStatusTold, Names
    <2>3. TerminationStatus(Exited(n)) = Truth(Exited(n))
      <3>1. n # 0 => Exited(n) # Exited(0)
        BY DEF Exited
      <3> QED BY <2>1, <3>1 DEF TerminationStatus, Truth
    <2> QED BY <2>1, <2>2, <2>3 DEF Tells
  <1>3. ASSUME NEW d \in Death
        PROVE  Tells(d, d) /\ Tells(Shown(d), d)
    <2>1. ASSUME NEW n \in ExitCode, d = Exited(n)
          PROVE  Tells(d, d) /\ Tells(Shown(d), d)
      <3>1. n \in 0 .. 255
        BY CodeAssumption
      <3>2. Shown(d) = d
        BY <2>1 DEF Shown, Exited
      <3>3. CASE n \in 0 .. 128
        BY <1>2, <2>1, <3>2, <3>3
      <3>4. CASE n \notin 0 .. 128
        <4>1. n - 128 \in 1 .. 127 /\ n = 128 + (n - 128)
          BY <3>1, <3>4
        <4> QED BY <1>1, <2>1, <3>2, <4>1
      <3> QED BY <3>3, <3>4
    <2>2. ASSUME NEW n \in Signal, d = Signaled(n)
          PROVE  Tells(d, d) /\ Tells(Shown(d), d)
      <3>1. n \in 1 .. 127
        BY CodeAssumption
      <3>2. Shown(d) = Exited(128 + n)
        BY <2>2 DEF Shown, Signaled
      <3> QED BY <1>1, <2>2, <3>1, <3>2
    <2> QED BY <2>1, <2>2 DEF Death
  <1>4. Tells(Signaled(SIGKILL), Signaled(SIGKILL))
    BY <1>1 DEF SIGKILL
  <1> QED BY <1>3, <1>4 DEF Ended

LEMMA KernelSame ==
  ASSUME KernelInv, UNCHANGED procVars
  PROVE  KernelInv'
  BY DEF KernelInv, ForkedHavePids, OneHolder, DeathsTold, Holders, Holds, procVars

(* A number has one holder, which is a zombie if any is.                     *)
LEMMA OnlyZombie ==
  ASSUME TypeOK, KernelInv, NEW p, Zombie(p), NEW c \in Holders(p)
  PROVE  c \in Child /\ proc[c] = "zombie"
  BY DEF TypeOK, KernelInv, ForkedHavePids, OneHolder, Zombie, Holders, Holds, Held

LEMMA KernelKill ==
  ASSUME TypeOK, KernelInv, NEW p, UNCHANGED <<pid, death, wstatus>>,
         proc' = Kill(p) \/ (proc' = Collected(p) /\ Zombie(p))
  PROVE  KernelInv'
  <1>1. \A c \in Child :
          \/ proc'[c] = proc[c]
          \/ proc'[c] = "killed" /\ proc[c] \in {"born", "running"}
          \/ proc'[c] = "gone" /\ proc[c] = "zombie"
    BY OnlyZombie DEF Kill, Collected, Holds, Holders
  <1>2. ForkedHavePids' /\ DeathsTold'
    BY <1>1 DEF KernelInv, ForkedHavePids, DeathsTold
  <1>3. \A c \in Child : \A q : c \in Holders(q)' => c \in Holders(q)
    BY <1>1 DEF Holders, Holds, Held
  <1>4. OneHolder'
    BY <1>3 DEF KernelInv, OneHolder
  <1> QED BY <1>2, <1>4 DEF KernelInv

LEMMA KernelDies ==
  ASSUME TypeOK, KernelInv, NEW c \in Child, proc[c] \in {"born", "running", "killed"},
         NEW d \in Ended, NEW w, Dies(c, d, w), Tells(w, d)
  PROVE  KernelInv'
  BY DEF TypeOK, KernelInv, ForkedHavePids, OneHolder, DeathsTold, Holders, Holds, Held, Dies

LEMMA KernelCollect ==
  ASSUME TypeOK, KernelInv, NEW c, NEW flag, Collect(c, flag), Zombie(pid[c]),
         UNCHANGED <<pid, death, wstatus>>
  PROVE  KernelInv'
  <1>1. proc' = Collected(pid[c])
    BY DEF Collect
  <1> QED BY <1>1, KernelKill

LEMMA KernelStep == TypeOK /\ KernelInv /\ [Next]_vars => KernelInv'
  <1> SUFFICES ASSUME TypeOK, KernelInv, [Next]_vars
               PROVE  KernelInv'
    OBVIOUS
  <1>1. ASSUME NEW p \in Pid, HandleFork(p)
        PROVE  KernelInv'
    BY <1>1, HeadOfCommands, NoneAssumption
       DEF TypeOK, HandleFork, Receives, KernelInv, ForkedHavePids, OneHolder, DeathsTold, Holders,
           Holds, Held
  <1>2. CASE HandleForkFails \/ ReadFails \/ HandleReap \/ StatusUnknown \/ HandleSandboxStatusRequest
             \/ RealPidInLoop \/ HostIsGone
    BY <1>2, KernelSame DEF HandleForkFails, ReadFails, HandleReap, StatusUnknown,
                            HandleSandboxStatusRequest, RealPidInLoop, HostIsGone
  <1>3. CASE StatusRunning
    <2>1. proc' = proc
      BY <1>3 DEF StatusRunning, KillKnownDead
    <2> QED BY <1>3, <2>1, KernelSame DEF StatusRunning, procVars
  <1>4. CASE StatusDead \/ KnownDeadCollected
    BY <1>4, KernelCollect DEF StatusDead, KnownDeadCollected
  <1>5. CASE StatusKnownDead \/ ChildRejected \/ ChildDiscarded
    BY <1>5, KernelKill DEF StatusKnownDead, ChildRejected, ChildDiscarded, KillKnownDead
  <1>6. CASE ChildAccepted
    BY <1>6, KernelSame DEF ChildAccepted
  <1>7. ASSUME NEW c \in Child, ReapTimer(c)
        PROVE  KernelInv'
    BY <1>7, KernelKill DEF ReapTimer, ReapTimerWaits, ReapTimerKills
  <1>8. ASSUME NEW c \in Child, ChildPings(c)
        PROVE  KernelInv'
    BY <1>8 DEF TypeOK, ChildPings, KernelInv, ForkedHavePids, OneHolder, DeathsTold, Holders, Holds,
                Held
  <1>9. ASSUME NEW c \in Child, ChildEnds(c) \/ KilledChildEnds(c)
        PROVE  KernelInv'
    BY <1>9, KernelDies, DeathIsTold DEF ChildEnds, KilledChildEnds, Ended
  <1>10. ASSUME NEW c \in Child, NEW flag \in BOOLEAN,
                HostForks(c) \/ HostReaps(c) \/ HostAsksStatus(c, flag) \/ HostSendsPid(flag)
         PROVE  KernelInv'
    BY <1>10, KernelSame DEF HostForks, HostReaps, HostAsksStatus, HostSendsPid, Asks
  <1>11. CASE HostAsksSandbox \/ HostReads \/ HostDies
    BY <1>11, KernelSame DEF HostAsksSandbox, HostReads, HostDies, Asks
  <1>12. ASSUME NEW seen \in BOOLEAN, HostSendsPid(seen)
         PROVE  KernelInv'
    BY <1>12, KernelSame DEF HostSendsPid
  <1>13. CASE UNCHANGED vars
    BY <1>13, KernelSame DEF vars, procVars
  <1> QED BY <1>1, <1>2, <1>3, <1>4, <1>5, <1>6, <1>7, <1>8, <1>9, <1>10, <1>11, <1>12, <1>13
          DEF Next, HandleMessage, ZygoteContinues, HostContinues

LEMMA KernelAlways == Spec => []KernelInv
  <1>1. Init => KernelInv
    BY NoneAssumption DEF Init, KernelInv, ForkedHavePids, OneHolder, DeathsTold, Holders, Holds, Held
  <1>2. TypeOK /\ KernelInv /\ [Next]_vars => KernelInv'
    BY KernelStep
  <1> QED BY <1>1, <1>2, TypeCorrect, PTL DEF Spec

-----------------------------------------------------------------------------
(* The protocol: at most one command waits for a reply, it is the last in    *)
(* the queue, and the zygote is at the place that the host waits for.        *)

OnlyReaps == \A i \in DOMAIN commands : commands[i].type = "reap"

OnlyLastAsks ==
  \A i \in DOMAIN commands : commands[i].type # "reap" => i = Len(commands)

ForksAreNew == \A c \in Child : Queued("fork", c) => proc[c] = "none"

AtRest == zygote \in {"loop", "ended"}

Silent(type) == replies = <<>> /\ AtRest /\ Queued(type, about)
Told(type)   == Len(replies) = 1 /\ Head(replies).type = type /\ AtRest /\ commands = <<>>

PingAwaited ==
  /\ about # None
  /\ replies = <<>>
  /\ \/ AtRest /\ proc[about] = "none" /\ (Queued("fork", about) \/ commands = <<>>)
     \/ zygote = "handshake" /\ current = about /\ commands = <<>>

ForkAwaited ==
  /\ about # None
  /\ \/ replies = <<>> /\ zygote = "loop" /\ Queued("realpid", about)
     \/ replies = <<>> /\ zygote = "ended" /\ (commands = <<>> \/ Queued("realpid", about))
     \/ replies = <<>> /\ zygote = "handshake" /\ current = about /\ Queued("realpid", about)
     \/ replies = <<>> /\ zygote = "discard" /\ current = about /\ commands = <<>>
     \/ Told("forked")

StatusAwaited ==
  /\ about # None
  /\ \/ Silent("status")
     \/ replies = <<>> /\ zygote = "collect" /\ current = about /\ commands = <<>>
     \/ Told("status") /\ Head(replies).of = about

ProtocolInv ==
  /\ OnlyLastAsks
  /\ ForksAreNew
  /\ host = "idle" => replies = <<>> /\ AtRest /\ OnlyReaps
  /\ host = "ping" => PingAwaited
  /\ host = "fork" => ForkAwaited
  /\ host = "status" => StatusAwaited
  /\ host = "sandbox" => Silent("sandbox") \/ Told("sandbox")

LEMMA LastTaken ==
  ASSUME TypeOK, OnlyLastAsks, commands # <<>>, Head(commands).type # "reap"
  PROVE  /\ Tail(commands) = <<>>
         /\ Queued(Head(commands).type, Head(commands).of)
         /\ \A type, c : Queued(type, c) => type = Head(commands).type /\ c = Head(commands).of
         /\ \A i \in DOMAIN commands : commands[i] = Head(commands)
         /\ ~OnlyReaps
  <1>1. commands \in Seq(Command) /\ commands # <<>>
    BY DEF TypeOK
  <1>2. /\ Head(commands) = commands[1] /\ 1 \in DOMAIN commands
        /\ DOMAIN commands = 1 .. Len(commands)
        /\ Tail(commands) \in Seq(Command) /\ Len(Tail(commands)) = Len(commands) - 1
    BY <1>1
  <1>3. Len(commands) = 1
    BY <1>1, <1>2 DEF OnlyLastAsks
  <1>4. \A s \in Seq(Command) : Len(s) = 0 => s = <<>>
    OBVIOUS
  <1>6. Len(Tail(commands)) = 0
    BY <1>2, <1>3
  <1>7. Tail(commands) = <<>>
    BY <1>2, <1>4, <1>6
  <1>5. \A i \in DOMAIN commands : i = 1
    BY <1>2, <1>3
  <1> QED BY <1>1, <1>2, <1>5, <1>7 DEF Queued, OnlyReaps

LEMMA Received ==
  ASSUME TypeOK, OnlyLastAsks, NEW type, Receives(type), type # "reap"
  PROVE  /\ zygote = "loop"
         /\ commands' = <<>>
         /\ Queued(type, Head(commands).of)
         /\ \A other, c : Queued(other, c) => other = type /\ c = Head(commands).of
         /\ ~OnlyReaps
  BY LastTaken DEF Receives

LEMMA ReceivedReap ==
  ASSUME TypeOK, OnlyLastAsks, Receives("reap")
  PROVE  /\ zygote = "loop"
         /\ commands # <<>>
         /\ Queued("reap", Head(commands).of)
         /\ OnlyLastAsks'
         /\ OnlyReaps => OnlyReaps'
         /\ \A type, c : Queued(type, c)' => Queued(type, c)
         /\ \A type, c : Queued(type, c) /\ type # "reap" => Queued(type, c)'
         /\ 1 \in DOMAIN commands /\ Head(commands) = commands[1]
         /\ \A i \in DOMAIN commands' :
              i + 1 \in DOMAIN commands /\ i + 1 # 1 /\ commands'[i] = commands[i + 1]
         /\ \A i, j \in DOMAIN commands' : i + 1 = j + 1 => i = j
  <1>1. /\ commands \in Seq(Command) /\ commands # <<>>
        /\ Head(commands) = commands[1] /\ 1 \in DOMAIN commands
        /\ commands' = Tail(commands) /\ Head(commands).type = "reap"
    BY DEF TypeOK, Receives
  <1>2. /\ DOMAIN commands = 1 .. Len(commands) /\ Len(commands) \in Nat
        /\ Len(commands') = Len(commands) - 1
        /\ DOMAIN commands' = 1 .. Len(commands) - 1
        /\ \A i \in DOMAIN commands' : commands'[i] = commands[i + 1] /\ i + 1 \in DOMAIN commands
    BY <1>1
  <1>3. \A i \in DOMAIN commands : i # 1 => i - 1 \in DOMAIN commands' /\ commands'[i - 1] = commands[i]
    BY <1>2
  <1>4. OnlyLastAsks' /\ (OnlyReaps => OnlyReaps')
    BY <1>2 DEF OnlyLastAsks, OnlyReaps
  <1>5. \A type, c : Queued(type, c)' => Queued(type, c)
    BY <1>2 DEF Queued
  <1>6. ASSUME NEW type, NEW c, Queued(type, c), type # "reap"
        PROVE  Queued(type, c)'
    <2>1. PICK i \in DOMAIN commands : commands[i].type = type /\ commands[i].of = c
      BY <1>6 DEF Queued
    <2>2. i # 1
      BY <1>1, <1>6, <2>1
    <2> QED BY <1>3, <2>1, <2>2 DEF Queued
  <1>7. \A i \in DOMAIN commands' : i + 1 # 1 /\ \A j \in DOMAIN commands' : i + 1 = j + 1 => i = j
    BY <1>2
  <1> QED BY <1>1, <1>2, <1>4, <1>5, <1>6, <1>7 DEF Receives, Queued

LEMMA Sent ==
  ASSUME TypeOK, OnlyReaps, NEW type, NEW c, NEW flag, Sends(type, c, flag)
  PROVE  /\ OnlyLastAsks'
         /\ Queued(type, c)'
         /\ \A other, x : Queued(other, x)' <=> Queued(other, x) \/ (other = type /\ x = c)
         /\ type = "reap" => OnlyReaps'
         /\ \A i \in DOMAIN commands' :
              \/ i \in DOMAIN commands /\ commands'[i] = commands[i]
              \/ i = Len(commands) + 1 /\ commands'[i] = [type |-> type, of |-> c, flag |-> flag]
  <1>1. /\ DOMAIN commands = 1 .. Len(commands) /\ Len(commands) \in Nat
        /\ Len(commands') = Len(commands) + 1
        /\ DOMAIN commands' = 1 .. Len(commands) + 1
        /\ \A i \in DOMAIN commands : commands'[i] = commands[i]
        /\ commands'[Len(commands) + 1] = [type |-> type, of |-> c, flag |-> flag]
    BY DEF TypeOK, Sends
  <1>2. \A i \in DOMAIN commands' : i \in DOMAIN commands \/ i = Len(commands) + 1
    BY <1>1
  <1>3. DOMAIN commands \subseteq DOMAIN commands' /\ Len(commands) + 1 \in DOMAIN commands'
    BY <1>1
  <1>4. OnlyLastAsks' /\ (type = "reap" => OnlyReaps')
    BY <1>1, <1>2 DEF OnlyLastAsks, OnlyReaps
  <1>5. Queued(type, c)'
    BY <1>1, <1>3 DEF Queued
  <1>6. \A other, x : Queued(other, x)' => Queued(other, x) \/ (other = type /\ x = c)
    BY <1>1, <1>2 DEF Queued
  <1>7. \A other, x : Queued(other, x) => Queued(other, x)'
    BY <1>1, <1>3 DEF Queued
  <1> QED BY <1>1, <1>2, <1>4, <1>5, <1>6, <1>7

LEMMA SilenceIsEmpty ==
  ASSUME commands = <<>>
  PROVE  /\ OnlyReaps /\ OnlyLastAsks
         /\ \A type, c : ~Queued(type, c)
  BY DEF OnlyReaps, OnlyLastAsks, Queued

(* A command that is received, but for a reap, is the one whose reply the    *)
(* host waits for.                                                           *)
LEMMA Expected ==
  ASSUME TypeOK, ProtocolInv, host # "gone", NEW type, Receives(type), type # "reap"
  PROVE  /\ replies = <<>>
         /\ type = "fork" => host = "ping" /\ about = Head(commands).of
         /\ type = "realpid" => host = "fork"
         /\ type = "status" => host = "status" /\ about = Head(commands).of
         /\ type = "sandbox" => host = "sandbox"
  <1>1. /\ zygote = "loop" /\ commands # <<>> /\ ~OnlyReaps
        /\ \A other, c : Queued(other, c) => other = type /\ c = Head(commands).of
    BY Received DEF ProtocolInv, Receives
  <1>2. CASE host = "idle"
    BY <1>1, <1>2 DEF ProtocolInv
  <1>3. CASE host = "ping"
    BY <1>1, <1>3 DEF ProtocolInv, PingAwaited
  <1>4. CASE host = "fork"
    BY <1>1, <1>4 DEF ProtocolInv, ForkAwaited, Told
  <1>5. CASE host = "status"
    BY <1>1, <1>5 DEF ProtocolInv, StatusAwaited, Silent, Told
  <1>6. CASE host = "sandbox"
    BY <1>1, <1>6 DEF ProtocolInv, Silent, Told
  <1> QED BY <1>2, <1>3, <1>4, <1>5, <1>6 DEF TypeOK

(* A ping to read is that of a process in the handshake, where one that has  *)
(* not written it yet is new or has ended.                                   *)
PingInv ==
  /\ ping => host = "ping" /\ zygote = "handshake"
  /\ host = "ping" /\ zygote = "handshake" =>
       \/ proc[about] \in {"born", "zombie"}
       \/ proc[about] = "running" /\ ping

(* Steps that concern the processes alone.                                   *)
LEMMA ProtocolSame ==
  ASSUME TypeOK, ProtocolInv, UNCHANGED <<zygote, current, commands, replies, host, about>>,
         \A c \in Child : proc[c] = "none" => proc'[c] = "none"
  PROVE  ProtocolInv'
  <1>1. host = "ping" => about \in Child
    BY DEF TypeOK, ProtocolInv, PingAwaited
  <1> QED BY <1>1 DEF ProtocolInv, OnlyLastAsks, ForksAreNew, Queued, OnlyReaps, AtRest, Silent, Told,
                      PingAwaited, ForkAwaited, StatusAwaited

LEMMA NobodyIsMade ==
  ASSUME TypeOK, NEW c \in Child, proc[c] = "none", NEW p
  PROVE  Kill(p)[c] = "none" /\ Collected(p)[c] = "none"
  BY DEF Kill, Collected, Holds, Held

LEMMA ProtocolProcess ==
  ASSUME TypeOK, ProtocolInv, NEW c \in Child,
         ReapTimer(c) \/ ChildPings(c) \/ ChildEnds(c) \/ KilledChildEnds(c)
  PROVE  ProtocolInv'
  <1>1. CASE ReapTimer(c)
    BY <1>1, ProtocolSame, NobodyIsMade
       DEF ReapTimer, ReapTimerWaits, ReapTimerKills, zygoteVars, hostVars
  <1>2. CASE ChildPings(c)
    <2>1. \A x \in Child : proc[x] = "none" => proc'[x] = "none"
      BY <1>2 DEF TypeOK, ChildPings
    <2> QED BY <1>2, <2>1, ProtocolSame DEF ChildPings, zygoteVars, hostVars
  <1>3. ASSUME NEW d, NEW w, Dies(c, d, w), proc[c] # "none"
        PROVE  ProtocolInv'
    <2>1. \A x \in Child : proc[x] = "none" => proc'[x] = "none"
      BY <1>3 DEF TypeOK, Dies
    <2> QED BY <1>3, <2>1, ProtocolSame DEF Dies, zygoteVars, hostVars
  <1>4. CASE ChildEnds(c) \/ KilledChildEnds(c)
    BY <1>3, <1>4 DEF ChildEnds, KilledChildEnds
  <1> QED BY <1>1, <1>2, <1>4

LEMMA ProtocolFork ==
  ASSUME TypeOK, ProtocolInv, (\E p \in Pid : HandleFork(p)) \/ HandleForkFails \/ ReadFails
  PROVE  ProtocolInv'
  <1>1. /\ Receives("fork") /\ Head(commands).of \in Child /\ commands' = <<>>
        /\ UNCHANGED <<host, about, replies>>
    BY Received, HeadOfCommands DEF ProtocolInv, HandleFork, HandleForkFails, ReadFails, EarlyReply,
         hostVars, Receives
  <1>2. host # "gone" => replies = <<>> /\ host = "ping" /\ about = Head(commands).of
    BY <1>1, Expected
  <1>3. OnlyLastAsks' /\ ForksAreNew'
    BY <1>1 DEF OnlyLastAsks, ForksAreNew, Queued
  <1>4. \/ AtRest' /\ UNCHANGED proc
        \/ zygote' = "handshake" /\ current' = Head(commands).of
    BY DEF HandleFork, HandleForkFails, ReadFails, AtRest, Receives, zygoteVars, procVars
  <1>5. host = "ping" => PingAwaited'
    <2>1. host = "ping" => proc[about] = "none"
      BY <1>1, Received DEF ProtocolInv, PingAwaited, AtRest
    <2> QED BY <1>1, <1>2, <1>4, <2>1 DEF ProtocolInv, PingAwaited
  <1> QED BY <1>1, <1>2, <1>3, <1>5 DEF ProtocolInv, TypeOK

LEMMA ProtocolReap ==
  ASSUME TypeOK, ProtocolInv, HandleReap
  PROVE  ProtocolInv'
  <1>1. /\ OnlyLastAsks' /\ (OnlyReaps => OnlyReaps')
        /\ zygote = "loop" /\ commands # <<>>
        /\ \A type, c : Queued(type, c)' => Queued(type, c)
        /\ \A type, c : Queued(type, c) /\ type # "reap" => Queued(type, c)'
    BY ReceivedReap DEF ProtocolInv, HandleReap
  <1>2. UNCHANGED <<zygote, current, replies, host, about, proc>>
    BY DEF HandleReap, zygoteVars, procVars, hostVars
  <1>3. ForksAreNew'
    BY <1>1, <1>2 DEF ProtocolInv, ForksAreNew
  <1>4. host = "ping" => PingAwaited'
    BY <1>1, <1>2 DEF ProtocolInv, PingAwaited, AtRest
  <1>5. host = "fork" => ForkAwaited'
    BY <1>1, <1>2 DEF ProtocolInv, ForkAwaited, AtRest, Told
  <1>6. host = "status" => StatusAwaited'
    BY <1>1, <1>2 DEF ProtocolInv, StatusAwaited, AtRest, Silent, Told
  <1>7. host = "sandbox" => Silent("sandbox")' \/ Told("sandbox")'
    BY <1>1, <1>2 DEF ProtocolInv, AtRest, Silent, Told
  <1> QED BY <1>1, <1>2, <1>3, <1>4, <1>5, <1>6, <1>7 DEF ProtocolInv, AtRest

LEMMA ProtocolHandshake ==
  ASSUME TypeOK, ProtocolInv, ChildAccepted \/ ChildRejected \/ ChildDiscarded
  PROVE  ProtocolInv'
  <1>1. UNCHANGED <<host, about>>
    BY DEF ChildAccepted, ChildRejected, ChildDiscarded, hostVars
  <1>2. host # "gone" => host = "fork" /\ ForkAwaited
    BY DEF TypeOK, ProtocolInv, AtRest, PingAwaited, StatusAwaited, Silent, Told, ChildAccepted,
           ChildRejected, ChildDiscarded
  <1>3. commands' = commands \/ commands' = <<>>
    BY LastTaken DEF ProtocolInv, ChildAccepted, ChildRejected, ChildDiscarded
  <1>4. \A c \in Child : proc[c] = "none" => proc'[c] = "none"
    BY NobodyIsMade DEF ChildAccepted, ChildRejected, ChildDiscarded, procVars
  <1>5. OnlyLastAsks' /\ ForksAreNew'
    BY <1>3, <1>4, SilenceIsEmpty DEF ProtocolInv, OnlyLastAsks, ForksAreNew, Queued
  <1>6. ASSUME host = "fork"
        PROVE  ForkAwaited'
    <2>1. CASE ChildAccepted
      <3>1. replies = <<>> /\ commands' = <<>>
        BY <1>2, <1>6, <2>1, LastTaken DEF ForkAwaited, AtRest, Told, ChildAccepted, ProtocolInv
      <3> QED BY <1>1, <1>2, <1>6, <2>1, <3>1
              DEF ForkAwaited, Told, AtRest, ChildAccepted, Answer, Forked
    <2>2. CASE ChildRejected
      BY <1>1, <1>2, <1>6, <2>2, LastTaken DEF ForkAwaited, AtRest, Told, ChildRejected, ProtocolInv
    <2>3. CASE ChildDiscarded
      BY <1>1, <1>2, <1>6, <2>3 DEF ForkAwaited, Told, AtRest, ChildDiscarded, DiscardReply, Forked
    <2> QED BY <2>1, <2>2, <2>3
  <1> QED BY <1>1, <1>2, <1>5, <1>6 DEF ProtocolInv, TypeOK

LEMMA ProtocolStatus ==
  ASSUME TypeOK, ProtocolInv, StatusUnknown \/ StatusRunning \/ StatusDead \/ StatusKnownDead
  PROVE  ProtocolInv'
  <1>1. /\ Receives("status") /\ Head(commands).of \in Child /\ commands' = <<>> /\ zygote = "loop"
    BY Received, HeadOfCommands DEF ProtocolInv, StatusUnknown, StatusRunning, StatusDead,
         StatusKnownDead, Receives
  <1>2. UNCHANGED <<host, about>>
    BY DEF StatusUnknown, StatusRunning, StatusDead, StatusKnownDead, hostVars
  <1>3. host # "gone" => replies = <<>> /\ host = "status" /\ about = Head(commands).of
    BY <1>1, Expected
  <1>4. OnlyLastAsks' /\ ForksAreNew'
    BY <1>1 DEF OnlyLastAsks, ForksAreNew, Queued
  <1>5. CASE StatusKnownDead
    BY <1>1, <1>2, <1>3, <1>4, <1>5, NoneAssumption
       DEF StatusKnownDead, ProtocolInv, StatusAwaited, TypeOK
  <1>6. CASE StatusUnknown \/ StatusRunning \/ StatusDead
    <2>1. zygote' = "loop"
      BY <1>1, <1>6 DEF StatusUnknown, StatusRunning, StatusDead, zygoteVars
    <2>2. \E flag, status, told :
            replies' = Append(replies, Status(Head(commands).of, flag, status, told))
      BY <1>6 DEF StatusUnknown, StatusRunning, StatusDead, Answer, Collect
    <2>3. host # "gone" => Told("status")' /\ Head(replies').of = about
      BY <1>1, <1>3, <2>1, <2>2 DEF Told, AtRest, Status
    <2> QED BY <1>1, <1>2, <1>3, <1>4, <2>3, NoneAssumption DEF ProtocolInv, StatusAwaited, TypeOK
  <1> QED BY <1>5, <1>6

LEMMA ProtocolCollected ==
  ASSUME TypeOK, ProtocolInv, KnownDeadCollected
  PROVE  ProtocolInv'
  <1>1. UNCHANGED <<host, about, commands>> /\ zygote = "collect" /\ zygote' = "loop"
    BY DEF KnownDeadCollected, hostVars
  <1>2. host # "gone" => /\ host = "status" /\ about # None /\ replies = <<>>
                         /\ current = about /\ commands = <<>>
    BY <1>1 DEF TypeOK, ProtocolInv, AtRest, PingAwaited, ForkAwaited, StatusAwaited, Silent, Told
  <1>3. \E status, told : replies' = Append(replies, Status(current, TRUE, status, told))
    BY DEF KnownDeadCollected, Collect, Answer
  <1>4. host # "gone" => Told("status")' /\ Head(replies').of = about
    BY <1>1, <1>2, <1>3 DEF Told, AtRest, Status
  <1>5. \A c \in Child : proc[c] = "none" => proc'[c] = "none"
    BY NobodyIsMade DEF KnownDeadCollected, Collect
  <1>6. OnlyLastAsks' /\ ForksAreNew'
    BY <1>1, <1>5 DEF ProtocolInv, OnlyLastAsks, ForksAreNew, Queued
  <1> QED BY <1>1, <1>2, <1>4, <1>6 DEF ProtocolInv, StatusAwaited, TypeOK

LEMMA ProtocolOthers ==
  ASSUME TypeOK, ProtocolInv, HandleSandboxStatusRequest \/ RealPidInLoop \/ HostIsGone
  PROVE  ProtocolInv'
  <1>1. CASE HandleSandboxStatusRequest
    <2>1. commands' = <<>> /\ zygote' = "loop" /\ UNCHANGED <<host, about>>
      BY <1>1, Received DEF ProtocolInv, HandleSandboxStatusRequest, zygoteVars, hostVars
    <2>2. host # "gone" => replies = <<>> /\ host = "sandbox"
      BY <1>1, Expected DEF HandleSandboxStatusRequest
    <2>3. host # "gone" => Told("sandbox")'
      BY <1>1, <2>1, <2>2 DEF HandleSandboxStatusRequest, Answer, Told, AtRest
    <2> QED BY <2>1, <2>2, <2>3, SilenceIsEmpty DEF ProtocolInv, OnlyLastAsks, ForksAreNew, Queued
  <1>2. CASE RealPidInLoop
    <2>1. commands' = <<>> /\ zygote' = "ended" /\ UNCHANGED <<host, about, replies>>
      BY <1>2, Received DEF ProtocolInv, RealPidInLoop, hostVars
    <2>2. host # "gone" => replies = <<>> /\ host = "fork" /\ about # None
      BY <1>2, Expected DEF RealPidInLoop, ProtocolInv, ForkAwaited
    <2>3. host # "gone" => ForkAwaited'
      BY <2>1, <2>2 DEF ForkAwaited, AtRest
    <2> QED BY <2>1, <2>2, <2>3, SilenceIsEmpty DEF ProtocolInv, OnlyLastAsks, ForksAreNew, Queued
  <1>3. CASE HostIsGone
    BY <1>3 DEF HostIsGone, ProtocolInv, OnlyLastAsks, ForksAreNew, Queued, procVars, hostVars
  <1> QED BY <1>1, <1>2, <1>3

LEMMA ProtocolAsks ==
  ASSUME TypeOK, KernelInv, ProtocolInv, NEW c \in Child, NEW flag \in BOOLEAN,
         HostForks(c) \/ HostAsksStatus(c, flag) \/ HostReaps(c)
  PROVE  ProtocolInv'
  <1>1. host = "idle" /\ replies = <<>> /\ AtRest /\ OnlyReaps
    BY DEF HostForks, HostAsksStatus, HostReaps, Asks, ProtocolInv
  <1>2. UNCHANGED <<zygote, current, replies, proc>>
    BY DEF HostForks, HostAsksStatus, HostReaps, Asks, zygoteVars, procVars
  <1>3. \A x : ~Queued("fork", x)
    BY <1>1 DEF OnlyReaps, Queued
  <1>4. CASE HostForks(c)
    <2>1. /\ OnlyLastAsks' /\ Queued("fork", c)'
          /\ \A other, x : Queued(other, x)' <=> Queued(other, x) \/ (other = "fork" /\ x = c)
      BY <1>1, <1>4, Sent DEF HostForks
    <2>2. proc[c] = "none"
      BY <1>4 DEF HostForks, KernelInv, ForkedHavePids
    <2>3. ForksAreNew'
      BY <1>2, <1>3, <2>1, <2>2 DEF ForksAreNew
    <2>4. PingAwaited'
      BY <1>1, <1>2, <1>4, <2>1, <2>2, NoneAssumption DEF HostForks, Asks, PingAwaited, AtRest
    <2> QED BY <1>4, <2>1, <2>3, <2>4 DEF HostForks, ProtocolInv
  <1>5. CASE HostAsksStatus(c, flag)
    <2>1. /\ OnlyLastAsks' /\ Queued("status", c)'
          /\ \A other, x : Queued(other, x)' <=> Queued(other, x) \/ (other = "status" /\ x = c)
      BY <1>1, <1>5, Sent DEF HostAsksStatus
    <2>2. ForksAreNew'
      BY <1>3, <2>1 DEF ForksAreNew
    <2>3. StatusAwaited'
      BY <1>1, <1>2, <1>5, <2>1, NoneAssumption DEF HostAsksStatus, Asks, StatusAwaited, Silent, AtRest
    <2> QED BY <1>5, <2>1, <2>2, <2>3 DEF HostAsksStatus, ProtocolInv
  <1>6. CASE HostReaps(c)
    <2>1. /\ OnlyLastAsks' /\ OnlyReaps'
          /\ \A other, x : Queued(other, x)' <=> Queued(other, x) \/ (other = "reap" /\ x = c)
      BY <1>1, <1>6, Sent DEF HostReaps
    <2>2. ForksAreNew'
      BY <1>3, <2>1 DEF ForksAreNew
    <2> QED BY <1>1, <1>2, <1>6, <2>1, <2>2 DEF HostReaps, ProtocolInv, AtRest
  <1> QED BY <1>4, <1>5, <1>6

LEMMA ProtocolSandbox ==
  ASSUME TypeOK, ProtocolInv, HostAsksSandbox
  PROVE  ProtocolInv'
  <1>1. /\ host = "idle" /\ replies = <<>> /\ AtRest /\ OnlyReaps
        /\ UNCHANGED <<zygote, replies, proc>>
    BY DEF HostAsksSandbox, Asks, ProtocolInv, zygoteVars, procVars
  <1>2. /\ OnlyLastAsks' /\ Queued("sandbox", None)'
        /\ \A other, x : Queued(other, x)' <=> Queued(other, x) \/ (other = "sandbox" /\ x = None)
    BY <1>1, Sent DEF HostAsksSandbox
  <1>3. ForksAreNew'
    BY <1>1, <1>2 DEF ForksAreNew, OnlyReaps, Queued
  <1> QED BY <1>1, <1>2, <1>3 DEF HostAsksSandbox, Asks, ProtocolInv, Silent, AtRest

LEMMA ProtocolPid ==
  ASSUME TypeOK, ProtocolInv, PingInv, NEW seen \in BOOLEAN, HostSendsPid(seen)
  PROVE  ProtocolInv' /\ commands = <<>>
  <1>1. /\ host = "ping" /\ host' = "fork" /\ about # None /\ about \in Child /\ replies = <<>>
        /\ UNCHANGED <<zygote, current, replies, proc, about>>
    BY DEF HostSendsPid, ProtocolInv, PingAwaited, zygoteVars, procVars, TypeOK
  <1>2. commands = <<>>
    <2>1. ~Queued("fork", about)
      <3>1. SUFFICES ASSUME Queued("fork", about)
                     PROVE  FALSE
        OBVIOUS
      <3>3. OracleClosed
        BY <1>1, <3>1, SilenceIsEmpty DEF HostSendsPid, PingInv, ProtocolInv, PingAwaited, AtRest
      <3> QED BY <3>1, <3>3 DEF OracleClosed, Queued
    <2> QED BY <1>1, <2>1 DEF ProtocolInv, PingAwaited
  <1>3. OnlyReaps
    BY <1>2, SilenceIsEmpty
  <1>4. /\ OnlyLastAsks' /\ Queued("realpid", about)'
        /\ \A other, x : Queued(other, x)' <=> Queued(other, x) \/ (other = "realpid" /\ x = about)
    BY <1>3, Sent DEF HostSendsPid
  <1>5. ForksAreNew'
    BY <1>2, <1>4, SilenceIsEmpty DEF ForksAreNew
  <1>6. ForkAwaited'
    BY <1>1, <1>4 DEF ProtocolInv, PingAwaited, ForkAwaited, AtRest
  <1> QED BY <1>1, <1>2, <1>4, <1>5, <1>6 DEF ProtocolInv

LEMMA ProtocolReads ==
  ASSUME TypeOK, ProtocolInv, HostReads \/ HostDies
  PROVE  ProtocolInv'
  <1>1. CASE HostReads
    <2>1. replies' = <<>> /\ commands = <<>> /\ AtRest
      BY <1>1 DEF TypeOK, HostReads, ProtocolInv, ForkAwaited, StatusAwaited, Silent, Told
    <2>2. UNCHANGED <<zygote, commands, proc>> /\ host' = "idle"
      BY <1>1 DEF HostReads, zygoteVars, procVars
    <2> QED BY <2>1, <2>2 DEF ProtocolInv, OnlyLastAsks, ForksAreNew, Queued, OnlyReaps, AtRest
  <1>2. CASE HostDies
    BY <1>2 DEF HostDies, ProtocolInv, OnlyLastAsks, ForksAreNew, Queued, procVars
  <1> QED BY <1>1, <1>2

LEMMA ProtocolStep == TypeOK /\ KernelInv /\ ProtocolInv /\ PingInv /\ [Next]_vars => ProtocolInv'
  <1> SUFFICES ASSUME TypeOK, KernelInv, ProtocolInv, PingInv, [Next]_vars
               PROVE  ProtocolInv'
    OBVIOUS
  <1>1. CASE HandleMessage
    BY <1>1, ProtocolFork, ProtocolReap, ProtocolStatus, ProtocolOthers DEF HandleMessage
  <1>2. CASE ZygoteContinues
    BY <1>2, ProtocolHandshake, ProtocolCollected DEF ZygoteContinues
  <1>3. ASSUME NEW c \in Child,
               ReapTimer(c) \/ ChildPings(c) \/ ChildEnds(c) \/ KilledChildEnds(c)
        PROVE  ProtocolInv'
    BY <1>3, ProtocolProcess
  <1>4. ASSUME NEW c \in Child, NEW flag \in BOOLEAN,
               HostForks(c) \/ HostReaps(c) \/ HostAsksStatus(c, flag)
        PROVE  ProtocolInv'
    BY <1>4, ProtocolAsks
  <1>5. CASE HostAsksSandbox
    BY <1>5, ProtocolSandbox
  <1>6. CASE HostDies \/ HostReads
    BY <1>6, ProtocolReads
  <1>7. ASSUME NEW seen \in BOOLEAN, HostSendsPid(seen)
        PROVE  ProtocolInv'
    BY <1>7, ProtocolPid
  <1>8. CASE UNCHANGED vars
    BY <1>8, ProtocolSame DEF vars
  <1> QED BY <1>1, <1>2, <1>3, <1>4, <1>5, <1>6, <1>7, <1>8 DEF Next, HostContinues

LEMMA PingStep == TypeOK /\ ProtocolInv /\ PingInv /\ [Next]_vars => PingInv'
  <1> SUFFICES ASSUME TypeOK, ProtocolInv, PingInv, [Next]_vars
               PROVE  PingInv'
    OBVIOUS
  <1>1. CASE HandleMessage
    <2>1. zygote = "loop" /\ ~ping /\ UNCHANGED <<ping, host, about>>
      BY <1>1 DEF HandleMessage, HandleFork, HandleForkFails, ReadFails, HandleReap, StatusUnknown,
                  StatusRunning, StatusDead, StatusKnownDead, HandleSandboxStatusRequest,
                  RealPidInLoop, HostIsGone, Receives, hostVars, PingInv
    <2>2. ASSUME NEW p \in Pid, HandleFork(p), host = "ping"
          PROVE  proc'[about] = "born"
      <3>1. about = Head(commands).of /\ Head(commands).of \in Child
        BY <2>2, HeadOfCommands, Expected DEF HandleFork, Receives
      <3> QED BY <2>2, <3>1 DEF TypeOK, HandleFork
    <2>3. CASE ~\E p \in Pid : HandleFork(p)
      <3>1. zygote' # "handshake"
        BY <1>1, <2>1, <2>3
           DEF HandleMessage, HandleForkFails, ReadFails, HandleReap, StatusUnknown, StatusRunning,
               StatusDead, StatusKnownDead, HandleSandboxStatusRequest, RealPidInLoop, HostIsGone,
               zygoteVars
      <3> QED BY <2>1, <3>1 DEF PingInv
    <2> QED BY <2>1, <2>2, <2>3 DEF PingInv
  <1>2. CASE ZygoteContinues
    <2>1. zygote' # "handshake" /\ UNCHANGED <<ping, host>>
      BY <1>2 DEF ZygoteContinues, ChildAccepted, ChildRejected, ChildDiscarded, KnownDeadCollected,
                  hostVars
    <2>2. ~ping
      BY <1>2 DEF ZygoteContinues, ChildAccepted, ChildRejected, ChildDiscarded, KnownDeadCollected,
                  PingInv, ProtocolInv, PingAwaited, AtRest
    <2> QED BY <2>1, <2>2 DEF PingInv
  <1>3. ASSUME NEW c \in Child, ReapTimer(c)
        PROVE  PingInv'
    BY <1>3 DEF ReapTimer, ReapTimerWaits, ReapTimerKills, zygoteVars, hostVars, PingInv
  <1>4. ASSUME NEW c \in Child, ChildPings(c)
        PROVE  PingInv'
    BY <1>4 DEF TypeOK, ProtocolInv, PingAwaited, AtRest, ChildPings, zygoteVars, PingInv
  <1>5. ASSUME NEW c \in Child, NEW d, NEW w, Dies(c, d, w)
        PROVE  PingInv'
    BY <1>5 DEF TypeOK, Dies, zygoteVars, hostVars, PingInv
  <1>6. ASSUME NEW c \in Child, ChildEnds(c) \/ KilledChildEnds(c)
        PROVE  PingInv'
    BY <1>5, <1>6 DEF ChildEnds, KilledChildEnds
  <1>7. ASSUME NEW c \in Child, NEW flag \in BOOLEAN,
               HostForks(c) \/ HostReaps(c) \/ HostAsksStatus(c, flag)
        PROVE  PingInv'
    <2>1. host = "idle" /\ zygote # "handshake" /\ UNCHANGED <<zygote, ping>>
      BY <1>7 DEF HostForks, HostReaps, HostAsksStatus, Asks, zygoteVars, ProtocolInv, AtRest
    <2> QED BY <2>1 DEF PingInv
  <1>8. ASSUME NEW seen \in BOOLEAN, HostSendsPid(seen)
        PROVE  PingInv'
    BY <1>8 DEF HostSendsPid, PingInv
  <1>9. CASE HostAsksSandbox \/ HostReads \/ HostDies
    <2>1. CASE HostAsksSandbox \/ HostReads
      <3>1. host # "ping" /\ host' # "ping" /\ ping' = ping
        BY <2>1 DEF HostAsksSandbox, Asks, HostReads
      <3> QED BY <3>1 DEF PingInv
    <2>2. CASE HostDies
      BY <2>2 DEF HostDies, PingInv
    <2> QED BY <1>9, <2>1, <2>2
  <1>10. CASE UNCHANGED vars
    BY <1>10 DEF vars, PingInv
  <1> QED BY <1>1, <1>2, <1>3, <1>4, <1>6, <1>7, <1>8, <1>9, <1>10 DEF Next, HostContinues

LEMMA ProtocolAlways == Spec => []ProtocolInv /\ []PingInv
  <1>1. Init => ProtocolInv /\ PingInv
    BY SilenceIsEmpty DEF Init, ProtocolInv, ForksAreNew, AtRest, PingInv
  <1>2. TypeOK /\ KernelInv /\ ProtocolInv /\ PingInv /\ [Next]_vars => ProtocolInv' /\ PingInv'
    BY ProtocolStep, PingStep
  <1> QED BY <1>1, <1>2, TypeCorrect, KernelAlways, PTL DEF Spec

(* The host never reads a reply to something else than it asked, nor two:    *)
(* neither processes that end nor reaps, timers or forks that fail disturb   *)
(* the order of commands and replies.                                        *)
THEOREM RepliesExpected == Spec => []ReplyExpected
  <1>1. TypeOK /\ ProtocolInv => ReplyExpected
    BY DEF TypeOK, ProtocolInv, ReplyExpected, PingAwaited, ForkAwaited, StatusAwaited, Silent, Told
  <1> QED BY <1>1, TypeCorrect, ProtocolAlways, PTL
-----------------------------------------------------------------------------
(* What is tracked, for a host that asks nothing more about a process that   *)
(* it asked to be reaped.                                                    *)

Alive(c) == pid[c] \in children_ /\ c \in Holders(pid[c])

NotReaped(c) == timer[c] = "none" /\ ~Queued("reap", c)

(* Who is believed to exist does, and nobody else is about to collect it.    *)
KnownKept ==
  \A c \in known :
    /\ proc[c] # "none"
    /\ NotReaped(c)
    /\ host # "gone" => Alive(c) \/ (host = "status" /\ c = about)

QueuedExist ==
  \A c \in Child :
    /\ Queued("status", c) => c \in known /\ Alive(c)
    /\ Queued("reap", c) => c \in condemned \ known /\ Alive(c) /\ timer[c] = "none"

ReapsDiffer ==
  \A i, j \in DOMAIN commands :
    commands[i].type = "reap" /\ commands[j].type = "reap" /\ commands[i].of = commands[j].of
      => i = j

TimersRight ==
  \A c \in Child : timer[c] # "none" => c \in condemned \ known /\ c \in Holders(pid[c])

(* The process of a handler that blocks.                                     *)
CurrentHeld ==
  /\ zygote \in {"handshake", "discard"} =>
       /\ current \in Holders(pid[current])
       /\ current \notin known
       /\ NotReaped(current)
  /\ zygote = "collect" =>
       /\ Alive(current)
       /\ current \in known \cap condemned
       /\ commands = <<>>

(* Only a process that the host has seen is believed to exist.               *)
SeenOnce ==
  /\ host = "ping" => about \notin known \cup condemned
  /\ host = "fork" =>
       /\ about \notin known
       /\ \A i \in DOMAIN commands :
            commands[i].type = "realpid" /\ commands[i].flag => about \notin condemned
       /\ \A i \in DOMAIN replies :
            replies[i].of # None => /\ replies[i].of = about
                                    /\ about \notin condemned
                                    /\ Alive(about)

(* Whom the host gives up it has condemned.                                  *)
GivenUp ==
  \A i \in DOMAIN commands :
    /\ commands[i].type = "realpid" => commands[i].flag \/ commands[i].of \in condemned
    /\ commands[i].type = "realpid" /\ zygote = "handshake" => commands[i].of = current
    /\ commands[i].type = "status" /\ commands[i].flag => commands[i].of \in condemned

(* Who is asked about is known, and who is said to run is still there.       *)
AskedAbout ==
  host = "status" =>
    /\ about \in known
    /\ \A i \in DOMAIN replies : replies[i].status = "running" => Alive(about)

TrackInv ==
  /\ KnownKept /\ QueuedExist /\ ReapsDiffer /\ TimersRight /\ CurrentHeld /\ SeenOnce /\ GivenUp
  /\ AskedAbout /\ StatusTrue

(* Kill and waitpid change nothing for the others.                           *)
LEMMA Killed ==
  ASSUME TypeOK, NEW p, proc' = Kill(p), pid' = pid
  PROVE  /\ \A c \in Child : c \in Holders(pid[c])' <=> c \in Holders(pid[c])
         /\ \A c \in Child : proc[c] = "gone" => proc'[c] = "gone"
         /\ \A c \in Child : proc[c] # "none" => proc'[c] # "none"
  BY DEF TypeOK, Kill, Holders, Holds, Held

LEMMA CollectedOne ==
  ASSUME TypeOK, KernelInv, NEW c \in Child, c \in Holders(pid[c]),
         proc' = Collected(pid[c]), pid' = pid
  PROVE  /\ proc'[c] = "gone"
         /\ \A x \in Child : x # c /\ x \in Holders(pid[x]) =>
              pid[x] # pid[c] /\ x \in Holders(pid[x])'
         /\ \A x \in Child : proc[x] = "gone" => proc'[x] = "gone"
         /\ \A x \in Child : proc[x] # "none" => proc'[x] # "none"
  <1>1. pid[c] \in Pid
    BY NoneAssumption DEF TypeOK, KernelInv, ForkedHavePids, Holders, Holds, Held
  <1>2. \A x \in Child : x # c => ~Holds(x, pid[c])
    BY <1>1 DEF KernelInv, OneHolder, Holders
  <1> QED BY <1>2 DEF TypeOK, Collected, Holders, Holds, Held

(* Steps that leave what is tracked, known and answered alone.               *)
LEMMA TrackSame ==
  ASSUME TypeOK, TrackInv,
         UNCHANGED <<children_, pid, replies, host, about, known, condemned>>,
         commands' = commands \/ commands' = <<>>,
         UNCHANGED <<zygote, current>> \/ zygote' \in {"loop", "ended"},
         \A c \in Child : timer'[c] = "none" <=> timer[c] = "none",
         \A c \in Child : c \in Holders(pid[c]) => c \in Holders(pid[c])',
         \A c \in Child : proc[c] = "gone" => proc'[c] = "gone" /\ death'[c] = death[c],
         \A c \in Child : proc[c] # "none" => proc'[c] # "none"
  PROVE  TrackInv'
  <1>1. \A type, c : Queued(type, c)' => Queued(type, c)
    BY DEF Queued
  <1>2. \A c \in Child : (Alive(c) => Alive(c)') /\ (NotReaped(c) => NotReaped(c)')
    BY <1>1 DEF Alive, NotReaped
  <1>3. about \in Child \cup {None} /\ current \in Child \cup {None} /\ known \subseteq Child
    BY DEF TypeOK
  <1>4. KnownKept'
    BY <1>2, <1>3 DEF TrackInv, KnownKept
  <1>5. QueuedExist' /\ ReapsDiffer'
    BY <1>1, <1>2 DEF TrackInv, QueuedExist, ReapsDiffer
  <1>6. TimersRight'
    BY DEF TrackInv, TimersRight
  <1>7. CurrentHeld'
    BY <1>2, <1>3 DEF TrackInv, CurrentHeld, TypeOK
  <1>8. SeenOnce'
    BY <1>2, <1>3 DEF TrackInv, SeenOnce
  <1>9. GivenUp'
    BY DEF TrackInv, GivenUp
  <1>10. AskedAbout'
    BY <1>2, <1>3 DEF TrackInv, AskedAbout
  <1>11. StatusTrue'
    BY DEF TypeOK, TrackInv, StatusTrue, Reply
  <1> QED BY <1>4, <1>5, <1>6, <1>7, <1>8, <1>9, <1>10, <1>11 DEF TrackInv

LEMMA TrackQuiet ==
  ASSUME TypeOK, KernelInv, ProtocolInv, TrackInv,
         HandleForkFails \/ ReadFails \/ RealPidInLoop \/ HostIsGone \/ UNCHANGED vars
  PROVE  TrackInv'
  <1>1. commands' = commands \/ commands' = <<>>
    BY Received DEF ProtocolInv, HandleForkFails, ReadFails, RealPidInLoop, HostIsGone, vars
  <1>2. UNCHANGED <<children_, pid, proc, death, timer, replies, host, about, known, condemned>>
    BY DEF HandleForkFails, ReadFails, RealPidInLoop, HostIsGone, vars, EarlyReply, procVars, hostVars
  <1>3. UNCHANGED <<zygote, current>> \/ zygote' \in {"loop", "ended"}
    BY DEF HandleForkFails, ReadFails, RealPidInLoop, HostIsGone, vars, zygoteVars
  <1>4. \A c \in Child : c \in Holders(pid[c]) => c \in Holders(pid[c])'
    BY <1>2 DEF Holders, Holds
  <1> QED BY <1>1, <1>2, <1>3, <1>4, TrackSame

LEMMA TrackProcess ==
  ASSUME TypeOK, TrackInv, NEW c \in Child,
         ReapTimerKills(c) \/ ChildPings(c) \/ ChildEnds(c) \/ KilledChildEnds(c)
  PROVE  TrackInv'
  <1>1. CASE ReapTimerKills(c)
    <2>1. \A x \in Child : timer'[x] = "none" <=> timer[x] = "none"
      BY <1>1 DEF TypeOK, ReapTimerKills, Rearmed
    <2> QED BY <1>1, <2>1, Killed, TrackSame DEF ReapTimerKills, zygoteVars, hostVars
  <1>2. CASE ChildPings(c)
    <2>1. /\ \A x \in Child : x \in Holders(pid[x]) => x \in Holders(pid[x])'
          /\ \A x \in Child : proc[x] = "gone" => proc'[x] = "gone" /\ death'[x] = death[x]
          /\ \A x \in Child : proc[x] # "none" => proc'[x] # "none"
      BY <1>2 DEF TypeOK, ChildPings, Holders, Holds, Held
    <2> QED BY <1>2, <2>1, TrackSame DEF ChildPings, zygoteVars, hostVars
  <1>3. ASSUME NEW d, NEW w, Dies(c, d, w), proc[c] \in {"born", "running", "killed"}
        PROVE  TrackInv'
    <2>1. /\ \A x \in Child : x \in Holders(pid[x]) => x \in Holders(pid[x])'
          /\ \A x \in Child : proc[x] = "gone" => proc'[x] = "gone" /\ death'[x] = death[x]
          /\ \A x \in Child : proc[x] # "none" => proc'[x] # "none"
      BY <1>3 DEF TypeOK, Dies, Holders, Holds, Held
    <2> QED BY <1>3, <2>1, TrackSame DEF Dies, zygoteVars, hostVars
  <1>4. CASE ChildEnds(c) \/ KilledChildEnds(c)
    BY <1>3, <1>4 DEF ChildEnds, KilledChildEnds
  <1> QED BY <1>1, <1>2, <1>4

(* A process whose timer runs is collected.                                  *)
LEMMA TrackTimer ==
  ASSUME TypeOK, KernelInv, ProtocolInv, TrackInv, NEW c \in Child, ReapTimerWaits(c)
  PROVE  TrackInv'
  <1>1. c \in condemned \ known /\ c \in Holders(pid[c]) /\ ~Queued("reap", c)
    BY DEF TrackInv, TimersRight, QueuedExist, ReapTimerWaits
  <1>2. /\ zygote = "loop" /\ proc' = Collected(pid[c])
        /\ timer' = [timer EXCEPT ![c] = "none"]
        /\ UNCHANGED <<zygote, current, children_, pid, death, commands, replies, host, about, known,
                       condemned>>
    BY DEF ReapTimerWaits, zygoteVars, hostVars
  <1>3. /\ proc'[c] = "gone"
        /\ \A x \in Child : x # c /\ x \in Holders(pid[x]) => x \in Holders(pid[x])'
        /\ \A x \in Child : proc[x] = "gone" => proc'[x] = "gone"
        /\ \A x \in Child : proc[x] # "none" => proc'[x] # "none"
    BY <1>1, <1>2, CollectedOne
  <1>4. \A x \in Child : x # c => (Alive(x) => Alive(x)')
    BY <1>2, <1>3 DEF Alive
  <1>5. \A x \in Child : timer'[x] = IF x = c THEN "none" ELSE timer[x]
    BY <1>2 DEF TypeOK
  <1>6. \A x \in Child : NotReaped(x) => NotReaped(x)'
    BY <1>2, <1>5 DEF NotReaped, Queued
  <1>7. known \subseteq Child /\ about \in Child \cup {None}
    BY DEF TypeOK
  <1>8. KnownKept'
    BY <1>1, <1>2, <1>3, <1>4, <1>6, <1>7 DEF TrackInv, KnownKept
  <1>9. QueuedExist' /\ ReapsDiffer'
    BY <1>1, <1>2, <1>4, <1>5 DEF TrackInv, QueuedExist, ReapsDiffer, Queued
  <1>10. TimersRight'
    BY <1>2, <1>3, <1>5 DEF TrackInv, TimersRight
  <1>11. CurrentHeld' /\ GivenUp'
    BY <1>2 DEF TrackInv, CurrentHeld, GivenUp
  <1>12. SeenOnce'
    BY <1>1, <1>2, <1>4, <1>7, NoneAssumption DEF TrackInv, SeenOnce, Alive, TypeOK, ProtocolInv,
       ForkAwaited
  <1>13. AskedAbout'
    BY <1>1, <1>2, <1>4, <1>7 DEF TrackInv, AskedAbout
  <1>14. StatusTrue'
    BY <1>2, <1>3 DEF TypeOK, TrackInv, StatusTrue, Reply
  <1> QED BY <1>8, <1>9, <1>10, <1>11, <1>12, <1>13, <1>14 DEF TrackInv

(* A new process has nothing to do with those that exist.                    *)
LEMMA TrackFork ==
  ASSUME TypeOK, KernelInv, ProtocolInv, TrackInv, NEW p \in Pid, HandleFork(p)
  PROVE  TrackInv'
  <1>0. PICK c : c = Head(commands).of
    OBVIOUS
  <1>1. c \in Child /\ commands' = <<>> /\ Queued("fork", c)
    BY <1>0, HeadOfCommands, Received DEF ProtocolInv, HandleFork, Receives
  <1>2. /\ proc' = [proc EXCEPT ![c] = "born"] /\ pid' = [pid EXCEPT ![c] = p]
        /\ zygote' = "handshake" /\ current' = c
        /\ UNCHANGED <<children_, timer, death, replies, host, about, known, condemned>>
    BY <1>0 DEF HandleFork, hostVars
  <1>3. proc[c] = "none" /\ c \notin Holders(pid[c])
    BY <1>1 DEF ProtocolInv, ForksAreNew, Holders, Holds, Held
  <1>4. c \notin known /\ timer[c] = "none" /\ host # "status"
    BY <1>1, <1>3, Expected DEF TrackInv, KnownKept, TimersRight, HandleFork
  <1>5. \A x \in Child : /\ x # c => (x \in Holders(pid[x]) => x \in Holders(pid[x])')
                         /\ x # c => proc'[x] = proc[x]
    BY <1>1, <1>2 DEF TypeOK, Holders, Holds
  <1>6. proc'[c] = "born" /\ pid'[c] = p /\ c \in Holders(pid[c])'
    BY <1>1, <1>2 DEF TypeOK, Holders, Holds, Held
  <1>7. \A x \in Child : x # c => (Alive(x) => Alive(x)')
    BY <1>2, <1>5 DEF Alive, TypeOK
  <1>8. \A type, x : ~Queued(type, x)'
    BY <1>1 DEF Queued
  <1>9. known \subseteq Child
    BY DEF TypeOK
  <1>10. KnownKept'
    BY <1>2, <1>4, <1>5, <1>7, <1>8, <1>9 DEF TrackInv, KnownKept, NotReaped
  <1>11. QueuedExist' /\ ReapsDiffer' /\ GivenUp'
    BY <1>1, <1>8 DEF QueuedExist, ReapsDiffer, GivenUp
  <1>12. TimersRight'
    BY <1>2, <1>4, <1>5 DEF TrackInv, TimersRight
  <1>13. CurrentHeld'
    BY <1>1, <1>2, <1>4, <1>6, <1>8 DEF CurrentHeld, NotReaped
  <1>14. SeenOnce' /\ AskedAbout'
    BY <1>1, <1>2, <1>4, Expected DEF TrackInv, SeenOnce, AskedAbout, HandleFork
  <1>15. StatusTrue'
    BY <1>1, <1>2, <1>3, <1>5 DEF TypeOK, TrackInv, StatusTrue, Reply
  <1> QED BY <1>10, <1>11, <1>12, <1>13, <1>14, <1>15 DEF TrackInv

(* The process of a handshake becomes one to keep track of.                  *)
LEMMA TrackAccepted ==
  ASSUME TypeOK, KernelInv, ProtocolInv, TrackInv, ChildAccepted
  PROVE  TrackInv'
  <1>0. PICK c : c = current
    OBVIOUS
  <1>1. /\ c \in Child /\ c \in Holders(pid[c]) /\ c \notin known /\ NotReaped(c)
        /\ commands' = <<>>
    BY <1>0, LastTaken DEF TypeOK, TrackInv, CurrentHeld, ProtocolInv, ChildAccepted
  <1>2. /\ replies' = Append(replies, Forked(c)) /\ children_' = children_ \cup {pid[c]}
        /\ zygote' = "loop"
        /\ UNCHANGED <<timer, proc, pid, death, host, about, known, condemned>>
    BY <1>0 DEF ChildAccepted, Answer, procVars, hostVars
  <1>3. host # "gone" => host = "fork" /\ c = about /\ replies = <<>> /\ about \notin condemned
    BY <1>0, LastTaken DEF TypeOK, ProtocolInv, AtRest, PingAwaited, ForkAwaited, StatusAwaited, Silent, Told,
       ChildAccepted, TrackInv, SeenOnce
  <1>4. \A x \in Child : Alive(x) => Alive(x)'
    BY <1>2 DEF Alive, Holders, Holds
  <1>5. Alive(c)'
    BY <1>1, <1>2 DEF Alive, Holders, Holds
  <1>6. \A type, x : ~Queued(type, x)'
    BY <1>1 DEF Queued
  <1>7. known \subseteq Child
    BY DEF TypeOK
  <1>8. KnownKept'
    BY <1>2, <1>4, <1>6, <1>7 DEF TrackInv, KnownKept, NotReaped
  <1>9. QueuedExist' /\ ReapsDiffer' /\ GivenUp'
    BY <1>1, <1>6 DEF QueuedExist, ReapsDiffer, GivenUp
  <1>10. TimersRight' /\ CurrentHeld'
    BY <1>2 DEF TrackInv, TimersRight, CurrentHeld, Holders, Holds
  <1>11. SeenOnce'
    <2>1. host = "fork" => replies' = <<Forked(c)>>
      BY <1>2, <1>3
    <2>2. Forked(c).of = c
      BY DEF Forked
    <2> QED BY <1>1, <1>2, <1>3, <1>5, <2>1, <2>2 DEF TrackInv, SeenOnce
  <1>12. AskedAbout'
    BY <1>2, <1>3 DEF AskedAbout
  <1>13. StatusTrue'
    BY <1>2 DEF TypeOK, TrackInv, StatusTrue, Forked
  <1> QED BY <1>8, <1>9, <1>10, <1>11, <1>12, <1>13 DEF TrackInv

LEMMA TrackRejected ==
  ASSUME TypeOK, KernelInv, ProtocolInv, TrackInv, ChildRejected
  PROVE  TrackInv'
  <1>1. /\ current \in Child /\ current \in Holders(pid[current]) /\ current \notin known
        /\ NotReaped(current) /\ zygote' = "discard"
        /\ commands' = commands \/ commands' = <<>>
    BY LastTaken DEF TypeOK, TrackInv, CurrentHeld, ProtocolInv, ChildRejected
  <1>2. /\ proc' = Kill(pid[current])
        /\ UNCHANGED <<current, children_, timer, pid, death, replies, host, about, known, condemned>>
    BY DEF ChildRejected, hostVars
  <1>3. /\ \A c \in Child : c \in Holders(pid[c])' <=> c \in Holders(pid[c])
        /\ \A c \in Child : proc[c] = "gone" => proc'[c] = "gone"
        /\ \A c \in Child : proc[c] # "none" => proc'[c] # "none"
    BY <1>2, Killed
  <1>4. \A type, c : Queued(type, c)' => Queued(type, c)
    BY <1>1 DEF Queued
  <1>5. \A c \in Child : (Alive(c) => Alive(c)') /\ (NotReaped(c) => NotReaped(c)')
    BY <1>2, <1>3, <1>4 DEF Alive, NotReaped
  <1>6. known \subseteq Child /\ about \in Child \cup {None}
    BY DEF TypeOK
  <1>7. KnownKept' /\ QueuedExist' /\ ReapsDiffer'
    BY <1>1, <1>2, <1>3, <1>4, <1>5, <1>6 DEF TrackInv, KnownKept, QueuedExist, ReapsDiffer
  <1>8. TimersRight' /\ CurrentHeld' /\ GivenUp'
    BY <1>1, <1>2, <1>3, <1>5 DEF TrackInv, TimersRight, CurrentHeld, GivenUp
  <1>9. SeenOnce' /\ AskedAbout'
    BY <1>1, <1>2, <1>5, <1>6, NoneAssumption DEF TrackInv, SeenOnce, AskedAbout
  <1>10. StatusTrue'
    BY <1>2, <1>3 DEF TypeOK, TrackInv, StatusTrue, Reply
  <1> QED BY <1>7, <1>8, <1>9, <1>10 DEF TrackInv

LEMMA TrackDiscarded ==
  ASSUME TypeOK, KernelInv, ProtocolInv, TrackInv, ChildDiscarded
  PROVE  TrackInv'
  <1>0. PICK c : c = current
    OBVIOUS
  <1>1. /\ c \in Child /\ c \in Holders(pid[c]) /\ c \notin known /\ NotReaped(c)
    BY <1>0 DEF TypeOK, TrackInv, CurrentHeld, ChildDiscarded
  <1>2. /\ replies' = Append(replies, Forked(None)) /\ children_' = children_ \cup {pid[c]}
        /\ proc' = Collected(pid[c]) /\ zygote' = "loop"
        /\ UNCHANGED <<timer, pid, death, commands, host, about, known, condemned>>
    BY <1>0 DEF ChildDiscarded, DiscardReply, hostVars
  <1>3. host # "gone" => host = "fork" /\ c = about /\ replies = <<>>
    BY <1>0 DEF TypeOK, ProtocolInv, AtRest, PingAwaited, ForkAwaited, StatusAwaited, Silent, Told,
       ChildDiscarded
  <1>4. /\ proc'[c] = "gone"
        /\ \A x \in Child : x # c /\ x \in Holders(pid[x]) => x \in Holders(pid[x])'
        /\ \A x \in Child : proc[x] = "gone" => proc'[x] = "gone"
        /\ \A x \in Child : proc[x] # "none" => proc'[x] # "none"
    BY <1>1, <1>2, CollectedOne
  <1>5. \A x \in Child : x # c => (Alive(x) => Alive(x)')
    BY <1>2, <1>4 DEF Alive
  <1>6. \A type, x : Queued(type, x)' <=> Queued(type, x)
    BY <1>2 DEF Queued
  <1>7. known \subseteq Child
    BY DEF TypeOK
  <1>8. KnownKept'
    BY <1>1, <1>2, <1>4, <1>5, <1>6, <1>7 DEF TrackInv, KnownKept, NotReaped
  <1>9. QueuedExist' /\ ReapsDiffer'
    BY <1>1, <1>2, <1>5, <1>6 DEF TrackInv, QueuedExist, ReapsDiffer, NotReaped
  <1>10. TimersRight' /\ CurrentHeld' /\ GivenUp'
    BY <1>1, <1>2, <1>4 DEF TrackInv, TimersRight, CurrentHeld, GivenUp, NotReaped
  <1>11. SeenOnce'
    <2>1. host = "fork" => replies' = <<Forked(None)>>
      BY <1>2, <1>3
    <2>2. Forked(None).of = None
      BY DEF Forked
    <2> QED BY <1>1, <1>2, <1>3, <2>1, <2>2 DEF TrackInv, SeenOnce
  <1>12. AskedAbout'
    BY <1>2, <1>3 DEF AskedAbout
  <1>13. StatusTrue'
    BY <1>2, <1>4 DEF TypeOK, TrackInv, StatusTrue, Forked, Reply
  <1> QED BY <1>8, <1>9, <1>10, <1>11, <1>12, <1>13 DEF TrackInv

(* A reap in the queue becomes a timer.                                      *)
LEMMA TrackReap ==
  ASSUME TypeOK, KernelInv, ProtocolInv, TrackInv, HandleReap
  PROVE  TrackInv'
  <1>0. PICK c : c = Head(commands).of
    OBVIOUS
  <1>1. /\ 1 \in DOMAIN commands /\ Head(commands) = commands[1] /\ commands[1].type = "reap"
        /\ \A i \in DOMAIN commands' :
              i + 1 \in DOMAIN commands /\ i + 1 # 1 /\ commands'[i] = commands[i + 1]
        /\ \A i, j \in DOMAIN commands' : i + 1 = j + 1 => i = j
        /\ \A type, x : Queued(type, x)' => Queued(type, x)
        /\ Queued("reap", c)
    BY <1>0, ReceivedReap DEF HandleReap, ProtocolInv, Receives
  <1>2. c \in Child
    BY <1>0, HeadOfCommands DEF HandleReap, Receives
  <1>3. c \in condemned \ known /\ Alive(c)
    BY <1>1, <1>2 DEF TrackInv, QueuedExist
  <1>4. /\ timer' = [timer EXCEPT ![c] = "first"]
        /\ UNCHANGED <<zygote, current, children_, proc, pid, death, replies, host, about, known,
                       condemned>>
    BY <1>0, <1>3 DEF HandleReap, Alive, zygoteVars, procVars, hostVars
  <1>5. \A x \in Child : timer'[x] = IF x = c THEN "first" ELSE timer[x]
    BY <1>4 DEF TypeOK
  <1>6. \A x \in Child : (Alive(x)' <=> Alive(x)) /\ (x \in Holders(pid[x])' <=> x \in Holders(pid[x]))
    BY <1>4 DEF Alive, Holders, Holds
  <1>7. ~Queued("reap", c)'
    BY <1>0, <1>1 DEF TrackInv, ReapsDiffer, Queued
  <1>8. zygote = "loop" /\ known \subseteq Child /\ about \in Child \cup {None}
    BY DEF TypeOK, HandleReap, Receives
  <1>9. KnownKept'
    BY <1>1, <1>3, <1>4, <1>5, <1>6, <1>8 DEF TrackInv, KnownKept, NotReaped
  <1>10. QueuedExist'
    BY <1>1, <1>4, <1>5, <1>6, <1>7 DEF TrackInv, QueuedExist
  <1>11. ReapsDiffer'
    <2>1. ASSUME NEW i \in DOMAIN commands', NEW j \in DOMAIN commands',
                 commands'[i].type = "reap", commands'[j].type = "reap",
                 commands'[i].of = commands'[j].of
          PROVE  i = j
      <3>1. i + 1 = j + 1
        BY <1>1, <2>1 DEF TrackInv, ReapsDiffer
      <3> QED BY <1>1, <3>1
    <2> QED BY <2>1 DEF ReapsDiffer
  <1>12. TimersRight' /\ CurrentHeld'
    BY <1>3, <1>4, <1>5, <1>6, <1>8 DEF TrackInv, TimersRight, CurrentHeld, Alive
  <1>13. SeenOnce' /\ GivenUp'
    BY <1>1, <1>4, <1>6, <1>8, NoneAssumption DEF TrackInv, SeenOnce, GivenUp
  <1>14. AskedAbout'
    BY <1>4, <1>6, <1>8 DEF TrackInv, AskedAbout
  <1>15. StatusTrue'
    BY <1>4 DEF TrackInv, StatusTrue
  <1> QED BY <1>9, <1>10, <1>11, <1>12, <1>13, <1>14, <1>15 DEF TrackInv

(* A process asked about, which is there, is collected.                      *)
LEMMA TrackCollect ==
  ASSUME TypeOK, KernelInv, ProtocolInv, TrackInv, NEW c \in Child, NEW flag \in BOOLEAN,
         Collect(c, flag), Alive(c), Zombie(pid[c]), c \in known, commands' = <<>>,
         host # "gone" => host = "status" /\ about = c /\ replies = <<>>,
         zygote' = "loop", UNCHANGED <<timer, pid, death, wstatus, host, about, known, condemned>>
  PROVE  TrackInv'
  <1>1. c \in Holders(pid[c]) /\ pid[c] \in Pid
    BY NoneAssumption DEF TypeOK, Alive
  <1>2. \A x \in Holders(pid[c]) : x = c
    BY <1>1 DEF KernelInv, OneHolder, Holders
  <1>3. proc[c] = "zombie"
    BY <1>1, OnlyZombie
  <1>4. PICK status, told :
          /\ status = Truth(Meant(death[c]))
          /\ told \in Names(Meant(death[c]))
          /\ status \in {"normal", "abnormal", "killed", "crashed"}
          /\ replies' = Append(replies, Status(c, flag, status, told))
          /\ proc' = Collected(pid[c])
          /\ children_' = children_ \ {pid[c]}
    <2>1. /\ TerminationStatus(wstatus[c]) = Truth(Meant(death[c]))
          /\ WStatusTold(wstatus[c]) \in Names(Meant(death[c]))
      BY <1>3 DEF KernelInv, DeathsTold, Tells
    <2>2. TerminationStatus(wstatus[c]) \in {"normal", "abnormal", "killed", "crashed"}
      BY StatusIsOne
    <2> QED BY <1>2, <2>1, <2>2 DEF Collect, Answer, Tracked
  <1>5. /\ proc'[c] = "gone"
        /\ \A x \in Child : x # c /\ x \in Holders(pid[x]) =>
              pid[x] # pid[c] /\ x \in Holders(pid[x])'
        /\ \A x \in Child : proc[x] = "gone" => proc'[x] = "gone"
        /\ \A x \in Child : proc[x] # "none" => proc'[x] # "none"
    BY <1>1, <1>4, CollectedOne
  <1>6. \A x \in Child : x # c => (Alive(x) => Alive(x)')
    BY <1>4, <1>5 DEF Alive
  <1>7. \A type, x : ~Queued(type, x)'
    BY DEF Queued
  <1>8. known \subseteq Child
    BY DEF TypeOK
  <1>9. KnownKept'
    BY <1>5, <1>6, <1>7, <1>8 DEF TrackInv, KnownKept, NotReaped
  <1>10. QueuedExist' /\ ReapsDiffer' /\ GivenUp'
    BY <1>7 DEF QueuedExist, ReapsDiffer, GivenUp
  <1>11. TimersRight' /\ CurrentHeld'
    BY <1>5 DEF TrackInv, TimersRight, CurrentHeld
  <1>12. SeenOnce'
    BY DEF TrackInv, SeenOnce, TypeOK
  <1>13. AskedAbout'
    <2>1. host = "status" => replies' = <<Status(c, flag, status, told)>>
      BY <1>4
    <2>2. Status(c, flag, status, told).status # "running"
      BY <1>4 DEF Status
    <2> QED BY <2>1, <2>2 DEF TrackInv, AskedAbout
  <1>14. StatusTrue'
    <2>1. ASSUME NEW i \in DOMAIN replies, replies[i].type = "status",
                 replies[i].status # "running"
          PROVE  proc'[replies[i].of] = "gone" /\ replies[i].of \in Child
      BY <1>5, <2>1 DEF TypeOK, TrackInv, StatusTrue, Reply
    <2>2. /\ Status(c, flag, status, told).type = "status" /\ Status(c, flag, status, told).of = c
          /\ Status(c, flag, status, told).status = status
          /\ Status(c, flag, status, told).wstatus = told
      BY DEF Status
    <2>3. \A i \in DOMAIN replies' :
            \/ i \in DOMAIN replies /\ replies'[i] = replies[i]
            \/ replies'[i] = Status(c, flag, status, told)
      BY <1>4 DEF TypeOK
    <2> QED BY <1>4, <1>5, <2>1, <2>2, <2>3 DEF TrackInv, StatusTrue
  <1> QED BY <1>9, <1>10, <1>11, <1>12, <1>13, <1>14 DEF TrackInv

LEMMA TrackStatus ==
  ASSUME TypeOK, KernelInv, ProtocolInv, TrackInv, StatusUnknown \/ StatusDead \/ KnownDeadCollected
  PROVE  TrackInv'
  <1>1. CASE StatusUnknown
    <2>1. Head(commands).of \in Child /\ Queued("status", Head(commands).of)
      BY <1>1, HeadOfCommands, Received DEF ProtocolInv, StatusUnknown, Receives
    <2>2. Alive(Head(commands).of)
      BY <2>1 DEF TrackInv, QueuedExist
    <2> QED BY <1>1, <2>2 DEF StatusUnknown, Alive
  <1>2. CASE StatusDead
    <2>0. PICK c : c = Head(commands).of
      OBVIOUS
    <2>1. c \in Child /\ Queued("status", c) /\ commands' = <<>> /\ zygote = "loop"
      BY <1>2, <2>0, HeadOfCommands, Received DEF ProtocolInv, StatusDead, Receives
    <2>2. Alive(c) /\ c \in known
      BY <2>1 DEF TrackInv, QueuedExist
    <2>3. host # "gone" => host = "status" /\ about = c /\ replies = <<>>
      BY <1>2, <2>0, Expected DEF StatusDead
    <2>4. /\ Collect(c, FALSE) /\ Zombie(pid[c]) /\ zygote' = "loop"
          /\ UNCHANGED <<timer, pid, death, wstatus, host, about, known, condemned>>
      BY <1>2, <2>0, <2>1 DEF StatusDead, zygoteVars, hostVars
    <2> QED BY <2>1, <2>2, <2>3, <2>4, TrackCollect
  <1>3. CASE KnownDeadCollected
    <2>0. PICK c : c = current
      OBVIOUS
    <2>1. c \in Child /\ Alive(c) /\ c \in known /\ commands' = <<>>
      BY <1>3, <2>0 DEF TypeOK, TrackInv, CurrentHeld, KnownDeadCollected
    <2>2. host # "gone" => host = "status" /\ about = c /\ replies = <<>>
      BY <1>3, <2>0 DEF TypeOK, ProtocolInv, AtRest, PingAwaited, ForkAwaited, StatusAwaited, Silent,
         Told, KnownDeadCollected
    <2>3. /\ Collect(c, TRUE) /\ Zombie(pid[c]) /\ zygote' = "loop"
          /\ UNCHANGED <<timer, pid, death, wstatus, host, about, known, condemned>>
      BY <1>3, <2>0 DEF KnownDeadCollected, hostVars
    <2> QED BY <2>1, <2>2, <2>3, TrackCollect
  <1> QED BY <1>1, <1>2, <1>3

(* A status that says that the process runs, or the one about the sandbox.   *)
LEMMA TrackAnswered ==
  ASSUME TypeOK, KernelInv, ProtocolInv, TrackInv, StatusRunning \/ HandleSandboxStatusRequest
  PROVE  TrackInv'
  <1>1. /\ zygote = "loop" /\ commands' = <<>>
        /\ UNCHANGED <<zygote, current, children_, timer, proc, pid, death, host, about, known, condemned>>
    BY Received DEF ProtocolInv, StatusRunning, HandleSandboxStatusRequest, KillKnownDead, Tracked, zygoteVars,
       procVars, hostVars
  <1>2. \A type, x : ~Queued(type, x)'
    BY <1>1 DEF Queued
  <1>3. \A x \in Child : (Alive(x) => Alive(x)') /\ (NotReaped(x) => NotReaped(x)')
    BY <1>1, <1>2 DEF Alive, NotReaped, Holders, Holds
  <1>4. known \subseteq Child
    BY DEF TypeOK
  <1>5. KnownKept' /\ QueuedExist' /\ ReapsDiffer' /\ GivenUp'
    BY <1>1, <1>2, <1>3, <1>4 DEF TrackInv, KnownKept, QueuedExist, ReapsDiffer, GivenUp
  <1>6. TimersRight' /\ CurrentHeld'
    BY <1>1 DEF TrackInv, TimersRight, CurrentHeld, Holders, Holds
  <1>7. CASE StatusRunning
    <2>0. PICK c : c = Head(commands).of
      OBVIOUS
    <2>1. c \in Child /\ Queued("status", c)
      BY <1>7, <2>0, HeadOfCommands, Received DEF ProtocolInv, StatusRunning, Receives
    <2>2. Alive(c) /\ Alive(c)'
      BY <1>3, <2>1 DEF TrackInv, QueuedExist
    <2>3. host # "gone" => host = "status" /\ about = c /\ replies = <<>>
      BY <1>7, <2>0, Expected DEF StatusRunning
    <2>4. replies' = Append(replies, Status(c, FALSE, "running", Exited(0)))
      BY <1>7, <2>0 DEF StatusRunning, Answer
    <2>5. SeenOnce' /\ AskedAbout'
      BY <1>1, <2>2, <2>3, <2>4 DEF TrackInv, SeenOnce, AskedAbout
    <2>6. StatusTrue'
      BY <1>1, <2>4 DEF TypeOK, TrackInv, StatusTrue, Status
    <2> QED BY <1>5, <1>6, <2>5, <2>6 DEF TrackInv
  <1>8. CASE HandleSandboxStatusRequest
    <2>1. host # "gone" => host = "sandbox"
      BY <1>8, Expected DEF HandleSandboxStatusRequest
    <2>2. replies' = Append(replies, [type |-> "sandbox", of |-> None])
      BY <1>8 DEF HandleSandboxStatusRequest, Answer
    <2>3. SeenOnce' /\ AskedAbout'
      BY <1>1, <2>1 DEF TrackInv, SeenOnce, AskedAbout
    <2>4. StatusTrue'
      BY <1>1, <2>2 DEF TypeOK, TrackInv, StatusTrue
    <2> QED BY <1>5, <1>6, <2>3, <2>4 DEF TrackInv
  <1> QED BY <1>7, <1>8

LEMMA TrackKnownDead ==
  ASSUME TypeOK, KernelInv, ProtocolInv, TrackInv, StatusKnownDead
  PROVE  TrackInv'
  <1>0. PICK c : c = Head(commands).of
    OBVIOUS
  <1>1. c \in Child /\ Queued("status", c) /\ commands' = <<>>
    BY <1>0, HeadOfCommands, Received DEF ProtocolInv, StatusKnownDead, Receives
  <1>2. Alive(c) /\ c \in known
    BY <1>1 DEF TrackInv, QueuedExist
  <1>3. c \in condemned
    BY <1>0, LastTaken DEF ProtocolInv, StatusKnownDead, Receives, TrackInv, GivenUp, Queued
  <1>4. /\ proc' = Kill(pid[c]) /\ zygote' = "collect" /\ current' = c
        /\ UNCHANGED <<children_, timer, pid, death, replies, host, about, known, condemned>>
    BY <1>0 DEF StatusKnownDead, KillKnownDead, hostVars
  <1>5. /\ \A x \in Child : x \in Holders(pid[x])' <=> x \in Holders(pid[x])
        /\ \A x \in Child : proc[x] = "gone" => proc'[x] = "gone"
        /\ \A x \in Child : proc[x] # "none" => proc'[x] # "none"
    BY <1>4, Killed
  <1>6. \A type, x : ~Queued(type, x)'
    BY <1>1 DEF Queued
  <1>7. \A x \in Child : (Alive(x) => Alive(x)') /\ (NotReaped(x) => NotReaped(x)')
    BY <1>4, <1>5, <1>6 DEF Alive, NotReaped
  <1>8. known \subseteq Child /\ about \in Child \cup {None}
    BY DEF TypeOK
  <1>9. KnownKept' /\ QueuedExist' /\ ReapsDiffer' /\ GivenUp'
    BY <1>1, <1>4, <1>5, <1>6, <1>7, <1>8 DEF TrackInv, KnownKept, QueuedExist, ReapsDiffer, GivenUp
  <1>10. TimersRight' /\ CurrentHeld'
    BY <1>1, <1>2, <1>3, <1>4, <1>5, <1>7 DEF TrackInv, TimersRight, CurrentHeld
  <1>11. SeenOnce' /\ AskedAbout'
    BY <1>1, <1>4, <1>7, <1>8, NoneAssumption DEF TrackInv, SeenOnce, AskedAbout
  <1>12. StatusTrue'
    BY <1>4, <1>5 DEF TypeOK, TrackInv, StatusTrue, Reply
  <1> QED BY <1>9, <1>10, <1>11, <1>12 DEF TrackInv

(* A command of the host changes nothing for the processes.                  *)
LEMMA TrackForks ==
  ASSUME TypeOK, KernelInv, ProtocolInv, TrackInv, NEW c \in Child, HostForks(c)
  PROVE  TrackInv'
  <1>1. /\ host = "idle" /\ OnlyReaps /\ AtRest /\ replies = <<>>
        /\ host' = "ping" /\ about' = c /\ c \notin known \cup condemned
        /\ Sends("fork", c, FALSE)
        /\ UNCHANGED <<zygote, current, children_, timer, proc, pid, death, replies, known, condemned>>
    BY DEF HostForks, Asks, ProtocolInv, zygoteVars, procVars
  <1>2. /\ \A other, x : Queued(other, x)' <=> Queued(other, x) \/ (other = "fork" /\ x = c)
        /\ \A i \in DOMAIN commands' :
              \/ i \in DOMAIN commands /\ commands'[i] = commands[i]
              \/ commands'[i] = [type |-> "fork", of |-> c, flag |-> FALSE]
    BY <1>1, Sent
  <1>3. \A x \in Child : (Alive(x) => Alive(x)') /\ (NotReaped(x) => NotReaped(x)')
    BY <1>1, <1>2 DEF Alive, NotReaped, Holders, Holds
  <1>4. known \subseteq Child
    BY DEF TypeOK
  <1>5. KnownKept' /\ QueuedExist' /\ ReapsDiffer'
    BY <1>1, <1>2, <1>3, <1>4 DEF TrackInv, KnownKept, QueuedExist, ReapsDiffer
  <1>6. TimersRight' /\ CurrentHeld' /\ GivenUp'
    BY <1>1, <1>2 DEF TrackInv, TimersRight, CurrentHeld, GivenUp, Holders, Holds, AtRest
  <1>7. SeenOnce' /\ AskedAbout'
    BY <1>1 DEF SeenOnce, AskedAbout
  <1>8. StatusTrue'
    BY <1>1 DEF StatusTrue
  <1> QED BY <1>5, <1>6, <1>7, <1>8 DEF TrackInv

LEMMA TrackReaps ==
  ASSUME HostForgets, TypeOK, KernelInv, ProtocolInv, TrackInv, NEW c \in Child, HostReaps(c)
  PROVE  TrackInv'
  <1>1. /\ host = "idle" /\ OnlyReaps /\ AtRest /\ replies = <<>>
        /\ c \in known \ condemned /\ known' = known \ {c} /\ condemned' = condemned \cup {c}
        /\ Sends("reap", c, FALSE)
        /\ UNCHANGED <<zygote, current, children_, timer, proc, pid, death, replies, host, about>>
    BY DEF HostReaps, ProtocolInv, zygoteVars, procVars
  <1>2. /\ \A other, x : Queued(other, x)' <=> Queued(other, x) \/ (other = "reap" /\ x = c)
        /\ \A i \in DOMAIN commands' :
              \/ i \in DOMAIN commands /\ commands'[i] = commands[i]
              \/ i = Len(commands) + 1 /\ commands'[i] = [type |-> "reap", of |-> c, flag |-> FALSE]
    BY <1>1, Sent
  <1>3. \A x \in Child : /\ Alive(x) => Alive(x)'
                         /\ x # c /\ NotReaped(x) => NotReaped(x)'
    BY <1>1, <1>2 DEF Alive, NotReaped, Holders, Holds
  <1>4. Alive(c) /\ timer[c] = "none" /\ ~Queued("reap", c) /\ known \subseteq Child
    BY <1>1 DEF TypeOK, TrackInv, KnownKept, NotReaped
  <1>5. KnownKept'
    BY <1>1, <1>3, <1>4 DEF TrackInv, KnownKept
  <1>6. QueuedExist'
    <2>1. \A x : ~Queued("status", x)
      BY <1>1 DEF OnlyReaps, Queued
    <2> QED BY <1>1, <1>2, <1>3, <1>4, <2>1 DEF TrackInv, QueuedExist
  <1>7. ReapsDiffer'
    BY <1>2, <1>4 DEF TrackInv, ReapsDiffer, Queued
  <1>8. TimersRight' /\ CurrentHeld' /\ GivenUp'
    BY <1>1, <1>2 DEF TrackInv, TimersRight, CurrentHeld, GivenUp, Holders, Holds, AtRest
  <1>9. SeenOnce' /\ AskedAbout'
    BY <1>1 DEF SeenOnce, AskedAbout
  <1>10. StatusTrue'
    BY <1>1 DEF StatusTrue
  <1> QED BY <1>5, <1>6, <1>7, <1>8, <1>9, <1>10 DEF TrackInv

LEMMA TrackAsks ==
  ASSUME TypeOK, KernelInv, ProtocolInv, TrackInv, NEW c \in Child, NEW flag \in BOOLEAN,
         HostAsksStatus(c, flag)
  PROVE  TrackInv'
  <1>1. /\ host = "idle" /\ OnlyReaps /\ AtRest /\ replies = <<>>
        /\ host' = "status" /\ about' = c /\ c \in known
        /\ condemned' = IF flag THEN condemned \cup {c} ELSE condemned
        /\ Sends("status", c, flag)
        /\ UNCHANGED <<zygote, current, children_, timer, proc, pid, death, replies, known>>
    BY DEF HostAsksStatus, Asks, ProtocolInv, zygoteVars, procVars
  <1>2. /\ \A other, x : Queued(other, x)' <=> Queued(other, x) \/ (other = "status" /\ x = c)
        /\ \A i \in DOMAIN commands' :
              \/ i \in DOMAIN commands /\ commands'[i] = commands[i]
              \/ commands'[i] = [type |-> "status", of |-> c, flag |-> flag]
    BY <1>1, Sent
  <1>3. \A x \in Child : (Alive(x) => Alive(x)') /\ (NotReaped(x) => NotReaped(x)')
    BY <1>1, <1>2 DEF Alive, NotReaped, Holders, Holds
  <1>4. Alive(c) /\ known \subseteq Child
    BY <1>1 DEF TypeOK, TrackInv, KnownKept
  <1>5. KnownKept' /\ QueuedExist' /\ ReapsDiffer'
    BY <1>1, <1>2, <1>3, <1>4 DEF TrackInv, KnownKept, QueuedExist, ReapsDiffer
  <1>6. TimersRight' /\ CurrentHeld' /\ GivenUp'
    BY <1>1, <1>2 DEF TrackInv, TimersRight, CurrentHeld, GivenUp, Holders, Holds, AtRest
  <1>7. SeenOnce' /\ AskedAbout'
    BY <1>1 DEF SeenOnce, AskedAbout
  <1>8. StatusTrue'
    BY <1>1 DEF StatusTrue
  <1> QED BY <1>5, <1>6, <1>7, <1>8 DEF TrackInv

LEMMA TrackSandbox ==
  ASSUME TypeOK, KernelInv, ProtocolInv, TrackInv, HostAsksSandbox
  PROVE  TrackInv'
  <1>1. /\ host = "idle" /\ OnlyReaps /\ AtRest /\ replies = <<>>
        /\ host' = "sandbox" /\ Sends("sandbox", None, FALSE)
        /\ UNCHANGED <<zygote, current, children_, timer, proc, pid, death, replies, known, condemned>>
    BY DEF HostAsksSandbox, Asks, ProtocolInv, zygoteVars, procVars
  <1>2. /\ \A other, x : Queued(other, x)' <=> Queued(other, x) \/ (other = "sandbox" /\ x = None)
        /\ \A i \in DOMAIN commands' :
              \/ i \in DOMAIN commands /\ commands'[i] = commands[i]
              \/ commands'[i] = [type |-> "sandbox", of |-> None, flag |-> FALSE]
    BY <1>1, Sent
  <1>3. \A x \in Child : (Alive(x) => Alive(x)') /\ (NotReaped(x) => NotReaped(x)')
    BY <1>1, <1>2 DEF Alive, NotReaped, Holders, Holds
  <1>4. known \subseteq Child
    BY DEF TypeOK
  <1>5. KnownKept' /\ QueuedExist' /\ ReapsDiffer'
    BY <1>1, <1>2, <1>3, <1>4 DEF TrackInv, KnownKept, QueuedExist, ReapsDiffer
  <1>6. TimersRight' /\ CurrentHeld' /\ GivenUp'
    BY <1>1, <1>2 DEF TrackInv, TimersRight, CurrentHeld, GivenUp, Holders, Holds, AtRest
  <1>7. SeenOnce' /\ AskedAbout'
    BY <1>1 DEF SeenOnce, AskedAbout
  <1>8. StatusTrue'
    BY <1>1 DEF StatusTrue
  <1> QED BY <1>5, <1>6, <1>7, <1>8 DEF TrackInv

(* Whom the host has not seen, or gives up, it does not believe to exist.    *)
LEMMA TrackPid ==
  ASSUME TypeOK, KernelInv, ProtocolInv, PingInv, TrackInv, NEW seen \in BOOLEAN, HostSendsPid(seen)
  PROVE  TrackInv'
  <1>1. /\ host = "ping" /\ host' = "fork" /\ about # None /\ about \in Child
        /\ replies = <<>> /\ commands = <<>>
        /\ zygote = "handshake" => current = about
        /\ Sends("realpid", about, seen)
        /\ condemned' = IF seen THEN condemned ELSE condemned \cup {about}
        /\ UNCHANGED <<zygote, current, children_, timer, proc, pid, death, replies, known, about>>
    BY ProtocolPid DEF HostSendsPid, TypeOK, ProtocolInv, PingAwaited, AtRest, zygoteVars, procVars
  <1>2. /\ \A other, x : Queued(other, x)' <=> (other = "realpid" /\ x = about)
        /\ \A i \in DOMAIN commands' :
              commands'[i] = [type |-> "realpid", of |-> about, flag |-> seen]
    BY <1>1, SilenceIsEmpty, Sent
  <1>3. \A x \in Child : (Alive(x) => Alive(x)') /\ (NotReaped(x) => NotReaped(x)')
    BY <1>1, <1>2 DEF Alive, NotReaped, Holders, Holds
  <1>4. known \subseteq Child /\ about \notin known \cup condemned /\ zygote # "collect"
    BY <1>1 DEF TypeOK, TrackInv, SeenOnce, ProtocolInv, PingAwaited, AtRest
  <1>5. KnownKept' /\ QueuedExist' /\ ReapsDiffer'
    BY <1>1, <1>2, <1>3, <1>4 DEF TrackInv, KnownKept, QueuedExist, ReapsDiffer
  <1>6. TimersRight'
    BY <1>1 DEF TrackInv, TimersRight, Holders, Holds
  <1>7. CurrentHeld'
    BY <1>1, <1>3, <1>4 DEF TypeOK, TrackInv, CurrentHeld, Holders, Holds
  <1>8. GivenUp'
    BY <1>1, <1>2 DEF GivenUp
  <1>9. SeenOnce' /\ AskedAbout'
    BY <1>1, <1>2, <1>4 DEF SeenOnce, AskedAbout
  <1>10. StatusTrue'
    BY <1>1 DEF StatusTrue
  <1> QED BY <1>5, <1>6, <1>7, <1>8, <1>9, <1>10 DEF TrackInv

(* What the host makes of a reply.                                           *)
LEMMA TrackReads ==
  ASSUME TypeOK, KernelInv, ProtocolInv, TrackInv, HostReads
  PROVE  TrackInv'
  <1>0. PICK r : r = Head(replies)
    OBVIOUS
  <1>1. /\ replies' = <<>> /\ commands = <<>> /\ AtRest
        /\ r.type = host \/ (r.type = "forked" /\ host = "fork")
        /\ host \in {"fork", "status", "sandbox"}
        /\ host = "status" => r.of = about /\ about # None
        /\ 1 \in DOMAIN replies /\ replies[1] = r
    BY <1>0 DEF TypeOK, HostReads, ProtocolInv, ForkAwaited, StatusAwaited, Silent, Told
  <1>2. /\ host' = "idle" /\ about' = None
        /\ known' = CASE r.type = "forked" -> known \cup ({r.of} \ {None})
                      [] r.type = "status" /\ r.status # "running" -> known \ {r.of}
                      [] OTHER -> known
        /\ UNCHANGED <<zygote, current, children_, timer, proc, pid, death, commands, condemned>>
    BY <1>0 DEF HostReads, zygoteVars, procVars
  <1>3. \A type, x : ~Queued(type, x) /\ ~Queued(type, x)'
    BY <1>1, <1>2 DEF Queued
  <1>4. \A x : (Alive(x)' <=> Alive(x)) /\ (NotReaped(x)' <=> NotReaped(x))
    BY <1>2, <1>3 DEF Alive, NotReaped, Holders, Holds
  <1>5. known \subseteq Child /\ r \in Reply
    BY <1>0, <1>1 DEF TypeOK
  <1>6. \A x \in known' :
          \/ x \in known /\ Alive(x)
          \/ Alive(x) /\ x \in Child /\ x \notin condemned
    <2>1. CASE host = "fork"
      <3>1. known' = known \cup ({r.of} \ {None}) /\ r.of \in Child \cup {None}
        BY <1>1, <1>2, <1>5, <2>1 DEF Reply
      <3>2. r.of # None => Alive(r.of) /\ r.of \notin condemned
        BY <1>1, <2>1 DEF TrackInv, SeenOnce
      <3>3. \A x \in known : Alive(x)
        BY <2>1 DEF TrackInv, KnownKept
      <3> QED BY <3>1, <3>2, <3>3
    <2>2. CASE host = "status"
      <3>1. \A x \in known : x # about => Alive(x)
        BY <2>2 DEF TrackInv, KnownKept
      <3>2. r.type = "status" /\ r.of = about
        BY <1>1, <2>2
      <3>3. CASE r.status = "running"
        <4>1. Alive(about) /\ known' = known
          BY <1>1, <1>2, <2>2, <3>2, <3>3 DEF TrackInv, AskedAbout
        <4> QED BY <3>1, <4>1
      <3>4. CASE r.status # "running"
        <4>1. known' = known \ {about}
          BY <1>2, <3>2, <3>4
        <4> QED BY <3>1, <4>1
      <3> QED BY <3>3, <3>4
    <2>3. CASE host = "sandbox"
      <3>1. known' = known
        BY <1>1, <1>2, <2>3
      <3>2. \A x \in known : Alive(x)
        BY <2>3 DEF TrackInv, KnownKept
      <3> QED BY <3>1, <3>2
    <2> QED BY <1>1, <2>1, <2>2, <2>3
  <1>7. \A x \in Child : Alive(x) => proc[x] # "none"
    BY DEF Alive, Holders, Holds, Held
  <1>8. \A x \in known' : timer[x] = "none"
    BY <1>3, <1>5, <1>6 DEF TrackInv, KnownKept, NotReaped, TimersRight
  <1>9. KnownKept'
    BY <1>2, <1>3, <1>4, <1>5, <1>6, <1>7, <1>8 DEF KnownKept, NotReaped
  <1>10. TimersRight'
    BY <1>2, <1>8 DEF TrackInv, TimersRight, Holders, Holds
  <1>11. QueuedExist' /\ ReapsDiffer' /\ GivenUp' /\ CurrentHeld' /\ SeenOnce' /\ AskedAbout'
    BY <1>1, <1>2, <1>3 DEF QueuedExist, ReapsDiffer, GivenUp, CurrentHeld, SeenOnce, AskedAbout, AtRest
  <1>12. StatusTrue'
    BY <1>1 DEF StatusTrue
  <1> QED BY <1>9, <1>10, <1>11, <1>12 DEF TrackInv

LEMMA TrackDies ==
  ASSUME TypeOK, TrackInv, HostDies
  PROVE  TrackInv'
  <1>1. /\ host' = "gone"
        /\ UNCHANGED <<zygote, current, children_, timer, proc, pid, death, commands, replies, known,
                       condemned>>
    BY DEF HostDies, zygoteVars, procVars
  <1>2. /\ \A type, x : Queued(type, x)' <=> Queued(type, x)
        /\ \A x : (Alive(x)' <=> Alive(x)) /\ (NotReaped(x)' <=> NotReaped(x))
    BY <1>1 DEF Queued, Alive, NotReaped, Holders, Holds
  <1>3. KnownKept' /\ QueuedExist' /\ ReapsDiffer' /\ GivenUp'
    BY <1>1, <1>2 DEF TrackInv, KnownKept, QueuedExist, ReapsDiffer, GivenUp
  <1>4. TimersRight' /\ CurrentHeld' /\ StatusTrue'
    BY <1>1, <1>2 DEF TrackInv, TimersRight, CurrentHeld, StatusTrue, Holders, Holds
  <1>5. SeenOnce' /\ AskedAbout'
    BY <1>1 DEF SeenOnce, AskedAbout
  <1> QED BY <1>3, <1>4, <1>5 DEF TrackInv

LEMMA TrackStep ==
  ASSUME HostForgets
  PROVE  TypeOK /\ KernelInv /\ ProtocolInv /\ PingInv /\ TrackInv /\ [Next]_vars => TrackInv'
  <1> SUFFICES ASSUME TypeOK, KernelInv, ProtocolInv, PingInv, TrackInv, [Next]_vars
               PROVE  TrackInv'
    OBVIOUS
  <1>1. CASE HandleMessage
    BY <1>1, TrackFork, TrackQuiet, TrackReap, TrackStatus, TrackAnswered, TrackKnownDead
       DEF HandleMessage
  <1>2. CASE ZygoteContinues
    BY <1>2, TrackAccepted, TrackRejected, TrackDiscarded, TrackStatus DEF ZygoteContinues
  <1>3. ASSUME NEW c \in Child,
               ReapTimer(c) \/ ChildPings(c) \/ ChildEnds(c) \/ KilledChildEnds(c)
        PROVE  TrackInv'
    BY <1>3, TrackTimer, TrackProcess DEF ReapTimer
  <1>4. ASSUME NEW c \in Child, NEW flag \in BOOLEAN,
               HostForks(c) \/ HostReaps(c) \/ HostAsksStatus(c, flag)
        PROVE  TrackInv'
    BY <1>4, TrackForks, TrackReaps, TrackAsks
  <1>5. CASE HostAsksSandbox \/ HostDies \/ HostReads
    BY <1>5, TrackSandbox, TrackDies, TrackReads
  <1>6. ASSUME NEW seen \in BOOLEAN, HostSendsPid(seen)
        PROVE  TrackInv'
    BY <1>6, TrackPid
  <1>7. CASE UNCHANGED vars
    BY <1>7, TrackQuiet
  <1> QED BY <1>1, <1>2, <1>3, <1>4, <1>5, <1>6, <1>7 DEF Next, HostContinues

LEMMA TrackAlways ==
  ASSUME HostForgets
  PROVE  Spec => []TrackInv
  <1>1. Init => TrackInv
    BY DEF Init, TrackInv, KnownKept, QueuedExist, ReapsDiffer, TimersRight, CurrentHeld, SeenOnce,
           GivenUp, AskedAbout, StatusTrue, Queued
  <1>2. TypeOK /\ KernelInv /\ ProtocolInv /\ PingInv /\ TrackInv /\ [Next]_vars => TrackInv'
    BY TrackStep
  <1> QED BY <1>1, <1>2, TypeCorrect, KernelAlways, ProtocolAlways, PTL DEF Spec

(* What the host believes to exist the zygote keeps track of, and has not    *)
(* collected behind its back.                                                *)
THEOREM KnownAreTracked ==
  ASSUME HostForgets
  PROVE  Spec => []KnownTracked
  <1>1. TypeOK /\ TrackInv => KnownTracked
    BY DEF TypeOK, TrackInv, KnownKept, KnownTracked, Alive
  <1> QED BY <1>1, TypeCorrect, TrackAlways, PTL

(* A termination status, and the wait status that comes with it, tell how    *)
(* the process that was asked about ended, for every exit code and signal,   *)
(* and never how another ended that has its pid; an exit code above 128      *)
(* counts as the signal that the zygote takes it for.                        *)
THEOREM StatusesTrue ==
  ASSUME HostForgets
  PROVE  Spec => []StatusTrue
  <1>1. TrackInv => StatusTrue
    BY DEF TrackInv
  <1> QED BY <1>1, TrackAlways, PTL

-----------------------------------------------------------------------------
(* Who is killed.                                                            *)

LEMMA KillHitsHolder ==
  ASSUME TypeOK, KernelInv, NEW x \in Child, x \in Holders(pid[x]), proc' = Kill(pid[x]),
         NEW c \in Child, proc[c] # "killed", proc'[c] = "killed"
  PROVE  c = x
  <1>1. pid[x] \in Pid
    BY NoneAssumption DEF TypeOK, KernelInv, ForkedHavePids, Holders, Holds, Held
  <1>2. c \in Holders(pid[x])
    BY DEF Kill, Holders
  <1> QED BY <1>1, <1>2 DEF KernelInv, OneHolder

LEMMA KillStep ==
  ASSUME TypeOK, KernelInv, ProtocolInv, TrackInv, [Next]_vars,
         NEW c \in Child, proc[c] # "killed", proc'[c] = "killed"
  PROVE  c \in condemned \/ host = "gone"
  <1>1. CASE ChildRejected
    <2>1. /\ zygote = "handshake" /\ current \in Child /\ proc' = Kill(pid[current])
          /\ current \in Holders(pid[current])
      BY <1>1 DEF TypeOK, TrackInv, CurrentHeld, ChildRejected
    <2>2. c = current
      BY <2>1, KillHitsHolder
    <2>3. host # "gone" => commands # <<>> /\ Head(commands).type = "realpid" /\ ~Head(commands).flag
      BY <1>1 DEF ChildRejected
    <2>4. commands # <<>> => 1 \in DOMAIN commands /\ commands[1] = Head(commands)
      BY DEF TypeOK
    <2> QED BY <2>1, <2>2, <2>3, <2>4 DEF TrackInv, GivenUp
  <1>2. CASE StatusKnownDead
    <2>0. PICK x : x = Head(commands).of
      OBVIOUS
    <2>1. x \in Child /\ Queued("status", x)
      BY <1>2, <2>0, HeadOfCommands, Received DEF ProtocolInv, StatusKnownDead, Receives
    <2>2. Alive(x) /\ proc' = Kill(pid[x])
      BY <1>2, <2>0, <2>1 DEF TrackInv, QueuedExist, StatusKnownDead, KillKnownDead
    <2>3. c = x
      BY <2>1, <2>2, KillHitsHolder DEF Alive
    <2>4. 1 \in DOMAIN commands /\ commands[1] = Head(commands)
      BY <1>2 DEF TypeOK, StatusKnownDead, Receives
    <2> QED BY <1>2, <2>0, <2>3, <2>4 DEF TrackInv, GivenUp, StatusKnownDead, Receives
  <1>3. ASSUME NEW x \in Child, ReapTimerKills(x)
        PROVE  c \in condemned
    <2>1. x \in condemned /\ x \in Holders(pid[x]) /\ proc' = Kill(pid[x])
      BY <1>3 DEF TrackInv, TimersRight, ReapTimerKills
    <2> QED BY <2>1, KillHitsHolder
  <1>4. ASSUME NEW p, proc' = Collected(p)
        PROVE  FALSE
    BY <1>4 DEF TypeOK, Collected
  <1>5. CASE HandleMessage /\ ~StatusKnownDead
    <2>1. ASSUME NEW p \in Pid, HandleFork(p)
          PROVE  FALSE
      BY <2>1 DEF TypeOK, HandleFork
    <2>2. ~StatusDead
      BY <1>4 DEF StatusDead, Collect
    <2>3. proc' = proc
      BY <1>5, <2>1, <2>2 DEF HandleMessage, HandleForkFails, ReadFails, HandleReap, StatusUnknown,
         StatusRunning, HandleSandboxStatusRequest, RealPidInLoop, HostIsGone, KillKnownDead, procVars
    <2> QED BY <2>3
  <1>6. CASE ZygoteContinues /\ ~ChildRejected
    BY <1>4, <1>6 DEF ZygoteContinues, ChildAccepted, ChildDiscarded, KnownDeadCollected, Collect, procVars
  <1>7. ASSUME NEW x \in Child,
               ReapTimerWaits(x) \/ ChildPings(x) \/ ChildEnds(x) \/ KilledChildEnds(x)
        PROVE  FALSE
    BY <1>4, <1>7 DEF TypeOK, ReapTimerWaits, ChildPings, ChildEnds, KilledChildEnds, Dies
  <1>8. ASSUME NEW x \in Child, NEW flag \in BOOLEAN,
               HostForks(x) \/ HostReaps(x) \/ HostAsksStatus(x, flag)
        PROVE  FALSE
    BY <1>8 DEF HostForks, HostReaps, HostAsksStatus, Asks, procVars
  <1>9. ASSUME NEW seen \in BOOLEAN, HostSendsPid(seen)
        PROVE  FALSE
    BY <1>9 DEF HostSendsPid, procVars
  <1>10. CASE HostAsksSandbox \/ HostReads \/ HostDies \/ UNCHANGED vars
    BY <1>10 DEF HostAsksSandbox, Asks, HostReads, HostDies, procVars, vars
  <1> QED BY <1>1, <1>2, <1>3, <1>5, <1>6, <1>7, <1>8, <1>9, <1>10 DEF Next, HostContinues, ReapTimer

(* Nobody is killed whom the host has not given up, even where the kernel    *)
(* gives the pid of a process to another as soon as it may.                  *)
THEOREM OnlyCondemnedAreKilled ==
  ASSUME HostForgets
  PROVE  Spec => OnlyCondemnedKilled
  <1>1. TypeOK /\ KernelInv /\ ProtocolInv /\ TrackInv /\ [Next]_vars
        => [\A c \in Child : proc[c] # "killed" /\ proc'[c] = "killed"
              => c \in condemned \/ host = "gone"]_vars
    BY KillStep
  <1> QED BY <1>1, TypeCorrect, KernelAlways, ProtocolAlways, TrackAlways, PTL
          DEF Spec, OnlyCondemnedKilled

-----------------------------------------------------------------------------
(* Nobody waits for what nobody is going to do.                              *)

(* What the kernel still holds for the zygote is tracked, or about to be.    *)
HeldTracked ==
  \A c \in Child : c \in Holders(pid[c]) =>
    pid[c] \in children_ \/ (zygote \in {"handshake", "discard"} /\ current = c)

(* A handler that blocks does so on a process that is there, and a dead or   *)
(* killed one but for the handshake.                                         *)
BlockedOnHeld ==
  /\ zygote = "handshake" => current \in Holders(pid[current])
  /\ zygote \in {"discard", "collect"} =>
       \E c \in Holders(pid[current]) : proc[c] \in {"killed", "zombie"}

(* Nobody gives up a process that it has just asked for.                     *)
NewWanted == host = "ping" => about \notin condemned

ServeInv ==
  /\ HeldTracked /\ BlockedOnHeld /\ NewWanted
  /\ Running /\ host # "gone" => CondemnedPursued

(* Who is held stays so, unless it is waited for; who has ended is not       *)
(* brought back.                                                             *)
LEMMA OfKill ==
  ASSUME TypeOK, NEW p, proc' = Kill(p), pid' = pid
  PROVE  /\ \A c, q : c \in Holders(q)' <=> c \in Holders(q)
         /\ \A c \in Child : proc'[c] \in {"born", "running"} => proc[c] \in {"born", "running"}
         /\ \A c \in Holders(p)' : proc'[c] \in {"killed", "zombie"}
         /\ \A c \in Child : proc[c] \in {"killed", "zombie"} => proc'[c] = proc[c]
  BY DEF TypeOK, Kill, Holders, Holds, Held

LEMMA OfCollected ==
  ASSUME TypeOK, NEW p, proc' = Collected(p), pid' = pid
  PROVE  /\ Holders(p)' = {}
         /\ \A c, q : c \in Holders(q)' => c \in Holders(q)
         /\ \A c \in Child : proc'[c] \in {"born", "running"} => proc[c] \in {"born", "running"}
  BY DEF TypeOK, Collected, Holders, Holds, Held

LEMMA OfReceived ==
  ASSUME TypeOK, OnlyLastAsks, NEW type, Receives(type), type # "reap"
  PROVE  /\ zygote = "loop" /\ commands' = <<>> /\ commands # <<>>
         /\ \A c : Announced(c) => c = Head(commands).of /\ Condemns(Head(commands))
         /\ \A c : ~Announced(c)'
  <1>1. \A i \in DOMAIN commands : commands[i] = Head(commands)
    BY LastTaken DEF Receives
  <1>2. zygote = "loop" /\ commands' = <<>> /\ commands # <<>>
    BY Received DEF Receives
  <1> QED BY <1>1, <1>2 DEF Announced

LEMMA OfReap ==
  ASSUME TypeOK, OnlyLastAsks, Receives("reap")
  PROVE  \A c : Announced(c) /\ c # Head(commands).of => Announced(c)'
  <1>1. commands \in Seq(Command) /\ commands # <<>> /\ commands' = Tail(commands)
    BY DEF TypeOK, Receives
  <1>2. \A i \in DOMAIN commands : i # 1 => i - 1 \in DOMAIN commands' /\ commands'[i - 1] = commands[i]
    BY <1>1
  <1>3. commands[1] = Head(commands)
    BY <1>1
  <1> QED BY <1>2, <1>3 DEF Announced

LEMMA OfSent ==
  ASSUME TypeOK, NEW type, NEW c, NEW flag, Sends(type, c, flag)
  PROVE  /\ \A x : Announced(x) => Announced(x)'
         /\ Condemns([type |-> type, of |-> c, flag |-> flag]) => Announced(c)'
  <1>1. /\ DOMAIN commands = 1 .. Len(commands) /\ Len(commands) \in Nat
        /\ DOMAIN commands' = 1 .. Len(commands) + 1
        /\ \A i \in DOMAIN commands : commands'[i] = commands[i]
        /\ commands'[Len(commands) + 1] = [type |-> type, of |-> c, flag |-> flag]
    BY DEF TypeOK, Sends
  <1>2. \A i \in DOMAIN commands : i \in DOMAIN commands'
    BY <1>1
  <1>3. Len(commands) + 1 \in DOMAIN commands'
    BY <1>1
  <1> QED BY <1>1, <1>2, <1>3 DEF Announced

(* Steps that take nothing from anybody and condemn nobody.                  *)
LEMMA ServeSame ==
  ASSUME ServeInv, TypeOK, pid' = pid, condemned' = condemned,
         children_ \subseteq children_', UNCHANGED <<zygote, current>>,
         host' = "ping" => host = "ping" /\ about' = about,
         host' # "gone" => host # "gone",
         \A c, p : c \in Holders(p)' <=> c \in Holders(p),
         \A c \in Child : proc'[c] \in {"born", "running"} => proc[c] \in {"born", "running"},
         \A c \in Child : proc[c] \in {"killed", "zombie"} => proc'[c] \in {"killed", "zombie"},
         \A c \in Child : timer[c] # "none" => timer'[c] # "none",
         \A c : Announced(c) => Announced(c)'
  PROVE  ServeInv'
  <1>1. HeldTracked'
    BY DEF ServeInv, HeldTracked
  <1>2. BlockedOnHeld'
    BY DEF ServeInv, BlockedOnHeld, Holders
  <1>3. Running' /\ host' # "gone" => CondemnedPursued'
    BY DEF ServeInv, Running, CondemnedPursued, TypeOK
  <1> QED BY <1>1, <1>2, <1>3 DEF ServeInv, NewWanted

LEMMA ServeProcess ==
  ASSUME TypeOK, ServeInv, NEW c \in Child,
         ReapTimer(c) \/ ChildPings(c) \/ ChildEnds(c) \/ KilledChildEnds(c)
  PROVE  ServeInv'
  <1>1. CASE ReapTimerKills(c)
    <2>1. \A x \in Child : timer[x] # "none" => timer'[x] # "none"
      BY <1>1 DEF TypeOK, ReapTimerKills, Rearmed
    <2> QED BY <1>1, <2>1, OfKill, ServeSame DEF ReapTimerKills, zygoteVars, hostVars, Announced
  <1>2. CASE ReapTimerWaits(c)
    <2>1. /\ zygote = "loop" /\ proc' = Collected(pid[c])
          /\ UNCHANGED <<zygote, current, children_, pid, commands, host, about, condemned>>
      BY <1>2 DEF ReapTimerWaits, zygoteVars, hostVars
    <2>2. HeldTracked' /\ BlockedOnHeld'
      BY <2>1, OfCollected DEF ServeInv, HeldTracked, BlockedOnHeld
    <2>3. proc'[c] \notin {"born", "running"}
      BY <2>1 DEF Collected, Holds, Held
    <2>4. \A x \in Child : x # c => timer'[x] = timer[x]
      BY <1>2 DEF TypeOK, ReapTimerWaits
    <2>5. \A x \in Child : proc'[x] \in {"born", "running"} => proc[x] \in {"born", "running"}
      BY <2>1, OfCollected
    <2>6. Running' /\ host' # "gone" => CondemnedPursued'
      BY <2>1, <2>3, <2>4, <2>5 DEF ServeInv, Running, CondemnedPursued, Announced, TypeOK
    <2> QED BY <2>1, <2>2, <2>6 DEF ServeInv, NewWanted
  <1>3. CASE ChildPings(c)
    <2>1. /\ \A x, p : x \in Holders(p)' <=> x \in Holders(p)
          /\ \A x \in Child : proc'[x] \in {"born", "running"} => proc[x] \in {"born", "running"}
          /\ \A x \in Child : proc[x] \in {"killed", "zombie"} => proc'[x] \in {"killed", "zombie"}
      BY <1>3 DEF TypeOK, ChildPings, Holders, Holds, Held
    <2> QED BY <1>3, <2>1, ServeSame DEF ChildPings, zygoteVars, hostVars, Announced
  <1>4. ASSUME NEW d, NEW w, Dies(c, d, w), proc[c] \in {"born", "running", "killed"}
        PROVE  ServeInv'
    <2>1. /\ \A x, p : x \in Holders(p)' <=> x \in Holders(p)
          /\ \A x \in Child : proc'[x] \in {"born", "running"} => proc[x] \in {"born", "running"}
          /\ \A x \in Child : proc[x] \in {"killed", "zombie"} => proc'[x] \in {"killed", "zombie"}
      BY <1>4 DEF TypeOK, Dies, Holders, Holds, Held
    <2> QED BY <1>4, <2>1, ServeSame DEF Dies, zygoteVars, hostVars, Announced
  <1>5. CASE ChildEnds(c) \/ KilledChildEnds(c)
    BY <1>4, <1>5 DEF ChildEnds, KilledChildEnds
  <1> QED BY <1>1, <1>2, <1>3, <1>5 DEF ReapTimer

LEMMA ServeFork ==
  ASSUME TypeOK, KernelInv, ProtocolInv, ServeInv,
         (\E p \in Pid : HandleFork(p)) \/ HandleForkFails \/ ReadFails
  PROVE  ServeInv'
  <1>0. PICK c : c = Head(commands).of
    OBVIOUS
  <1>1. /\ Receives("fork") /\ c \in Child
        /\ UNCHANGED <<children_, timer, host, about, condemned>>
    BY <1>0, HeadOfCommands
       DEF HandleFork, HandleForkFails, ReadFails, hostVars, Receives
  <1>2. /\ zygote = "loop"
        /\ \A x : ~Announced(x)' /\ ~Announced(x)
    BY <1>1, OfReceived DEF ProtocolInv, Condemns, Receives
  <1>3. host # "gone" => host = "ping" /\ about = c
    BY <1>0, <1>1, Expected
  <1>4. ASSUME NEW p \in Pid, HandleFork(p)
        PROVE  ServeInv'
    <2>1. /\ proc' = [proc EXCEPT ![c] = "born"] /\ pid' = [pid EXCEPT ![c] = p]
          /\ current' = c /\ zygote' = "handshake"
      BY <1>0, <1>4 DEF HandleFork
    <2>2. \A x \in Child : x # c => proc'[x] = proc[x] /\ pid'[x] = pid[x]
      BY <2>1 DEF TypeOK
    <2>3. c \in Holders(pid[c])'
      BY <1>1, <2>1 DEF TypeOK, Holders, Holds, Held
    <2>4. HeldTracked'
      BY <1>1, <1>2, <2>1, <2>2 DEF ServeInv, HeldTracked, Holders, Holds
    <2>5. BlockedOnHeld'
      BY <2>1, <2>3 DEF BlockedOnHeld
    <2>6. host # "gone" => c \notin condemned
      BY <1>3 DEF ServeInv, NewWanted
    <2>7. host # "gone" => CondemnedPursued'
      BY <1>1, <1>2, <2>2, <2>6 DEF ServeInv, Running, CondemnedPursued, TypeOK
    <2> QED BY <1>1, <2>4, <2>5, <2>7 DEF ServeInv, NewWanted
  <1>5. CASE HandleForkFails \/ ReadFails
    <2>1. UNCHANGED <<proc, pid>> /\ zygote' \in {"loop", "ended"}
      BY <1>2, <1>5 DEF HandleForkFails, ReadFails, zygoteVars, procVars
    <2> QED BY <1>1, <1>2, <2>1
            DEF ServeInv, HeldTracked, BlockedOnHeld, NewWanted, Running, CondemnedPursued, Holders,
                Holds
  <1> QED BY <1>4, <1>5

LEMMA ServeHandshake ==
  ASSUME TypeOK, KernelInv, ProtocolInv, ServeInv, ChildAccepted \/ ChildRejected \/ ChildDiscarded
  PROVE  ServeInv'
  <1>1. UNCHANGED <<timer, pid, host, about, condemned>> /\ current \in Child
    BY DEF TypeOK, ChildAccepted, ChildRejected, ChildDiscarded, hostVars, procVars
  <1>2. CASE ChildAccepted
    <2>1. /\ commands # <<>> /\ Head(commands).type = "realpid" /\ Head(commands).flag
          /\ zygote = "handshake" /\ zygote' = "loop" /\ proc' = proc
          /\ children_' = children_ \cup {pid[current]}
      BY <1>2 DEF ChildAccepted, procVars
    <2>2. \A c : ~Announced(c)
      BY <2>1, LastTaken DEF ProtocolInv, Announced, Condemns
    <2>3. HeldTracked' /\ BlockedOnHeld'
      BY <1>1, <2>1 DEF ServeInv, HeldTracked, BlockedOnHeld, Holders, Holds
    <2>4. host # "gone" => CondemnedPursued'
      BY <1>1, <2>1, <2>2 DEF ServeInv, Running, CondemnedPursued
    <2> QED BY <1>1, <2>3, <2>4 DEF ServeInv, NewWanted
  <1>3. CASE ChildRejected
    <2>1. /\ zygote = "handshake" /\ zygote' = "discard" /\ current' = current
          /\ proc' = Kill(pid[current]) /\ children_' = children_
          /\ host = "gone" \/ (commands # <<>> /\ Head(commands).type = "realpid")
      BY <1>3 DEF ChildRejected
    <2>2. HeldTracked'
      BY <1>1, <2>1, OfKill DEF ServeInv, HeldTracked
    <2>3. current \in Holders(pid[current])' /\ proc'[current] \in {"killed", "zombie"}
      BY <1>1, <2>1, OfKill DEF ServeInv, BlockedOnHeld
    <2>4. BlockedOnHeld'
      BY <1>1, <2>1, <2>3 DEF BlockedOnHeld
    <2>5. ASSUME host # "gone"
          PROVE  \A c : Announced(c) => c = current
      <3>1. current = about /\ Queued("realpid", about)
        BY <2>1, <2>5, SilenceIsEmpty
           DEF TypeOK, ProtocolInv, AtRest, PingAwaited, ForkAwaited, StatusAwaited, Silent, Told
      <3> QED BY <2>1, <2>5, <3>1, LastTaken DEF ProtocolInv, Announced
    <2>6. host # "gone" => CondemnedPursued'
      BY <1>1, <2>1, <2>3, <2>5, OfKill DEF ServeInv, Running, CondemnedPursued, TypeOK
    <2> QED BY <1>1, <2>2, <2>4, <2>6 DEF ServeInv, NewWanted
  <1>4. CASE ChildDiscarded
    <2>1. /\ zygote = "discard" /\ zygote' = "loop" /\ commands' = commands
          /\ proc' = Collected(pid[current]) /\ children_' = children_ \cup {pid[current]}
      BY <1>4 DEF ChildDiscarded
    <2>2. HeldTracked' /\ BlockedOnHeld'
      BY <1>1, <2>1, OfCollected DEF ServeInv, HeldTracked, BlockedOnHeld
    <2>3. host # "gone" => CondemnedPursued'
      BY <1>1, <2>1, OfCollected DEF ServeInv, Running, CondemnedPursued, Announced, TypeOK
    <2> QED BY <1>1, <2>2, <2>3 DEF ServeInv, NewWanted
  <1> QED BY <1>2, <1>3, <1>4

LEMMA ServeReap ==
  ASSUME TypeOK, ProtocolInv, ServeInv, HandleReap
  PROVE  ServeInv'
  <1>0. PICK c : c = Head(commands).of
    OBVIOUS
  <1>1. /\ Receives("reap") /\ c \in Child /\ zygote = "loop"
        /\ UNCHANGED <<zygote, current, children_, proc, pid, host, about, condemned>>
    BY <1>0, HeadOfCommands DEF HandleReap, Receives, zygoteVars, procVars, hostVars
  <1>2. \A x \in Child : timer[x] # "none" => timer'[x] # "none"
    BY <1>0, <1>1 DEF TypeOK, HandleReap
  <1>3. proc[c] \in {"born", "running"} => timer'[c] # "none"
    <2>1. proc[c] \in {"born", "running"} => pid[c] \in children_
      BY <1>1 DEF ServeInv, HeldTracked, Holders, Holds, Held
    <2> QED BY <1>0, <1>1, <2>1 DEF TypeOK, HandleReap
  <1>4. \A x : Announced(x) /\ x # c => Announced(x)'
    BY <1>0, <1>1, OfReap DEF ProtocolInv
  <1>5. host # "gone" => CondemnedPursued'
    BY <1>1, <1>2, <1>3, <1>4 DEF ServeInv, Running, CondemnedPursued, TypeOK
  <1> QED BY <1>1, <1>5 DEF ServeInv, HeldTracked, BlockedOnHeld, NewWanted, Holders, Holds

LEMMA ServeStatus ==
  ASSUME TypeOK, ProtocolInv, ServeInv, StatusUnknown \/ StatusRunning \/ StatusDead \/ StatusKnownDead
  PROVE  ServeInv'
  <1>0. PICK c : c = Head(commands).of
    OBVIOUS
  <1>1. /\ Receives("status") /\ c \in Child
        /\ UNCHANGED <<timer, pid, host, about, condemned>>
    BY <1>0, HeadOfCommands
       DEF StatusUnknown, StatusRunning, StatusDead, StatusKnownDead, Receives, procVars, hostVars
  <1>2. /\ zygote = "loop"
        /\ \A x : ~Announced(x)'
        /\ \A x : Announced(x) => x = c /\ Condemns(Head(commands))
    BY <1>0, <1>1, OfReceived DEF ProtocolInv
  <1>3. Condemns(Head(commands)) <=> Head(commands).flag
    BY <1>1, HeadOfCommands DEF Condemns, Receives
  <1>4. CASE StatusUnknown
    <2>1. /\ zygote' = "loop" /\ proc' = proc /\ children_' = children_ \ {pid[c]}
          /\ Holders(pid[c]) = {} \/ pid[c] \notin children_
      BY <1>0, <1>2, <1>4 DEF StatusUnknown, Tracked, zygoteVars, procVars
    <2>2. Holders(pid[c]) = {}
      BY <1>1, <1>2, <2>1 DEF ServeInv, HeldTracked, Holders, Holds
    <2>3. HeldTracked' /\ BlockedOnHeld'
      BY <1>1, <1>2, <2>1, <2>2 DEF ServeInv, HeldTracked, BlockedOnHeld, Holders, Holds
    <2>4. proc[c] \notin {"born", "running"}
      BY <1>1, <2>2 DEF Holders, Holds, Held
    <2>5. host # "gone" => CondemnedPursued'
      BY <1>1, <1>2, <2>1, <2>4 DEF ServeInv, Running, CondemnedPursued
    <2> QED BY <1>1, <2>3, <2>5 DEF ServeInv, NewWanted
  <1>5. CASE StatusRunning
    <2>1. /\ zygote' = "loop" /\ proc' = proc /\ children_' = children_ /\ ~Head(commands).flag
      BY <1>2, <1>5 DEF StatusRunning, Tracked, KillKnownDead, zygoteVars
    <2>2. HeldTracked' /\ BlockedOnHeld'
      BY <1>1, <1>2, <2>1 DEF ServeInv, HeldTracked, BlockedOnHeld, Holders, Holds
    <2>3. host # "gone" => CondemnedPursued'
      BY <1>1, <1>2, <1>3, <2>1 DEF ServeInv, Running, CondemnedPursued
    <2> QED BY <1>1, <2>2, <2>3 DEF ServeInv, NewWanted
  <1>6. CASE StatusDead
    <2>1. /\ zygote' = "loop" /\ proc' = Collected(pid[c]) /\ ~Head(commands).flag
          /\ \A p \in children_ : p # pid[c] => p \in children_'
      BY <1>0, <1>2, <1>6 DEF StatusDead, Collect, Tracked, zygoteVars
    <2>2. HeldTracked'
      BY <1>1, <1>2, <2>1, OfCollected DEF ServeInv, HeldTracked
    <2>3. host # "gone" => CondemnedPursued'
      BY <1>1, <1>2, <1>3, <2>1, OfCollected DEF ServeInv, Running, CondemnedPursued, TypeOK
    <2> QED BY <1>1, <2>1, <2>2, <2>3 DEF ServeInv, NewWanted, BlockedOnHeld
  <1>7. CASE StatusKnownDead
    <2>1. /\ zygote' = "collect" /\ current' = c /\ proc' = Kill(pid[c]) /\ children_' = children_
          /\ Holders(pid[c]) # {}
      BY <1>0, <1>7 DEF StatusKnownDead, KillKnownDead
    <2>2. HeldTracked'
      BY <1>1, <1>2, <2>1, OfKill DEF ServeInv, HeldTracked
    <2>3. BlockedOnHeld'
      BY <1>1, <2>1, OfKill DEF BlockedOnHeld
    <2>4. proc'[c] \notin {"born", "running"}
      BY <1>1, <2>1 DEF Kill, Holds, Held
    <2>5. host # "gone" => CondemnedPursued'
      BY <1>1, <1>2, <2>1, <2>4, OfKill DEF ServeInv, Running, CondemnedPursued, TypeOK
    <2> QED BY <1>1, <2>2, <2>3, <2>5 DEF ServeInv, NewWanted
  <1> QED BY <1>4, <1>5, <1>6, <1>7

LEMMA ServeEnd ==
  ASSUME TypeOK, ProtocolInv, ServeInv,
         KnownDeadCollected \/ HandleSandboxStatusRequest \/ RealPidInLoop \/ HostIsGone
  PROVE  ServeInv'
  <1>1. UNCHANGED <<timer, pid, host, about, condemned>>
    BY DEF KnownDeadCollected, HandleSandboxStatusRequest, RealPidInLoop, HostIsGone, procVars, hostVars
  <1>2. CASE KnownDeadCollected
    <2>1. /\ zygote = "collect" /\ zygote' = "loop" /\ proc' = Collected(pid[current])
          /\ \A p \in children_ : p # pid[current] => p \in children_'
          /\ commands' = commands
      BY <1>2 DEF KnownDeadCollected, Collect, Tracked
    <2>2. HeldTracked' /\ BlockedOnHeld'
      BY <1>1, <2>1, OfCollected DEF ServeInv, HeldTracked, BlockedOnHeld
    <2>3. host # "gone" => CondemnedPursued'
      BY <1>1, <2>1, OfCollected DEF ServeInv, Running, CondemnedPursued, Announced, TypeOK
    <2> QED BY <1>1, <2>2, <2>3 DEF ServeInv, NewWanted
  <1>3. CASE HandleSandboxStatusRequest
    <2>1. /\ zygote = "loop" /\ Receives("sandbox")
          /\ UNCHANGED <<zygote, current, children_, proc>>
      BY <1>3 DEF HandleSandboxStatusRequest, Receives, zygoteVars, procVars
    <2>2. \A c : ~Announced(c)
      BY <2>1, OfReceived DEF ProtocolInv, Condemns, Receives
    <2>3. host # "gone" => CondemnedPursued'
      BY <1>1, <2>1, <2>2 DEF ServeInv, Running, CondemnedPursued
    <2> QED BY <1>1, <2>1, <2>3 DEF ServeInv, NewWanted, HeldTracked, BlockedOnHeld, Holders, Holds
  <1>4. CASE RealPidInLoop \/ HostIsGone
    <2>1. /\ zygote = "loop" /\ zygote' = "ended" /\ UNCHANGED <<children_, proc>>
      BY <1>4 DEF RealPidInLoop, HostIsGone, Receives, procVars
    <2> QED BY <1>1, <2>1 DEF ServeInv, NewWanted, HeldTracked, BlockedOnHeld, Holders, Holds, Running
  <1> QED BY <1>2, <1>3, <1>4

LEMMA ServeHost ==
  ASSUME TypeOK, ProtocolInv, ServeInv, NEW c \in Child, NEW flag \in BOOLEAN,
         HostForks(c) \/ HostReaps(c) \/ HostAsksStatus(c, flag) \/ HostSendsPid(flag)
  PROVE  ServeInv'
  <1>1. UNCHANGED <<zygote, current, children_, timer, pid, proc>> /\ host # "gone"
    BY DEF HostForks, HostReaps, HostAsksStatus, HostSendsPid, Asks, zygoteVars, procVars
  <1>2. HeldTracked' /\ BlockedOnHeld'
    BY <1>1 DEF ServeInv, HeldTracked, BlockedOnHeld, Holders, Holds
  <1>3. NewWanted'
    BY DEF HostForks, HostReaps, HostAsksStatus, HostSendsPid, Asks, NewWanted
  <1>4. \A x : Announced(x) => Announced(x)'
    BY OfSent DEF HostForks, HostReaps, HostAsksStatus, HostSendsPid
  <1>5. \A x \in condemned' : x \in condemned \/ Announced(x)'
    BY OfSent DEF HostForks, HostReaps, HostAsksStatus, HostSendsPid, Condemns
  <1>6. Running' => CondemnedPursued'
    BY <1>1, <1>4, <1>5 DEF ServeInv, Running, CondemnedPursued
  <1> QED BY <1>2, <1>3, <1>6 DEF ServeInv

LEMMA ServeHostRest ==
  ASSUME TypeOK, ServeInv, HostAsksSandbox \/ HostReads \/ HostDies \/ UNCHANGED vars
  PROVE  ServeInv'
  <1>1. /\ UNCHANGED <<zygote, current, children_, timer, pid, proc, condemned>>
        /\ host' = "ping" => host = "ping" /\ about' = about
        /\ host' # "gone" => host # "gone"
    BY DEF HostAsksSandbox, Asks, HostReads, HostDies, vars, zygoteVars, procVars
  <1>2. \A x : Announced(x) => Announced(x)'
    <2>1. CASE HostAsksSandbox
      BY <2>1, OfSent DEF HostAsksSandbox
    <2>2. CASE HostReads \/ HostDies \/ UNCHANGED vars
      BY <2>2 DEF HostReads, HostDies, vars, Announced
    <2> QED BY <2>1, <2>2
  <1> QED BY <1>1, <1>2, ServeSame DEF Holders, Holds

LEMMA ServeAlways == Spec => []ServeInv
  <1>1. Init => ServeInv
    BY DEF Init, ServeInv, HeldTracked, BlockedOnHeld, NewWanted, CondemnedPursued, Holders, Holds, Held
  <1>2. TypeOK /\ KernelInv /\ ProtocolInv /\ ServeInv /\ [Next]_vars => ServeInv'
    <2> SUFFICES ASSUME TypeOK, KernelInv, ProtocolInv, ServeInv, [Next]_vars
                 PROVE  ServeInv'
      OBVIOUS
    <2>1. CASE HandleMessage
      BY <2>1, ServeFork, ServeReap, ServeStatus, ServeEnd DEF HandleMessage
    <2>2. CASE ZygoteContinues
      BY <2>2, ServeHandshake, ServeEnd DEF ZygoteContinues
    <2>3. ASSUME NEW c \in Child,
                 ReapTimer(c) \/ ChildPings(c) \/ ChildEnds(c) \/ KilledChildEnds(c)
          PROVE  ServeInv'
      BY <2>3, ServeProcess
    <2>4. ASSUME NEW c \in Child, NEW flag \in BOOLEAN,
                 HostForks(c) \/ HostReaps(c) \/ HostAsksStatus(c, flag)
          PROVE  ServeInv'
      BY <2>4, ServeHost
    <2>5. ASSUME NEW seen \in BOOLEAN, HostSendsPid(seen)
          PROVE  ServeInv'
      <3>1. about \in Child
        BY <2>5 DEF HostSendsPid, TypeOK
      <3> QED BY <2>5, <3>1, ServeHost
    <2>6. CASE HostAsksSandbox \/ HostReads \/ HostDies \/ UNCHANGED vars
      BY <2>6, ServeHostRest
    <2> QED BY <2>1, <2>2, <2>3, <2>4, <2>5, <2>6 DEF Next, HostContinues
  <1> QED BY <1>1, <1>2, TypeCorrect, KernelAlways, ProtocolAlways, PTL DEF Spec

(* While zygote and host are there, whoever of them waits has its command    *)
(* queued, its answer there or the other at work on it, and every process    *)
(* the host has condemned is dead, has its timer or its command in the       *)
(* queue: for any host, also for one that asks again about what it reaped.   *)
THEOREM NobodyEverStranded == Spec => []NobodyStranded
  <1>1. ASSUME TypeOK, ProtocolInv, PingInv, ServeInv
        PROVE  NobodyStranded
    <2>1. Running /\ host # "gone" => HostServed
      BY <1>1, SilenceIsEmpty
         DEF TypeOK, ProtocolInv, PingAwaited, ForkAwaited, StatusAwaited, Silent, Told, AtRest,
             HostServed, AtWork, OracleClosed, Running, PingInv, PingLost
    <2>2. host # "gone" => ZygoteServed
      <3>1. host # "gone" /\ zygote = "handshake" =>
              current = about /\ (host = "ping" \/ Queued("realpid", current))
        BY <1>1 DEF TypeOK, ProtocolInv, PingAwaited, ForkAwaited, StatusAwaited, Silent, Told, AtRest
      <3> QED BY <1>1, <3>1 DEF ZygoteServed, ServeInv, BlockedOnHeld
    <2> QED BY <1>1, <2>1, <2>2 DEF NobodyStranded, ServeInv
  <1> QED BY <1>1, TypeCorrect, ProtocolAlways, ServeAlways, PTL
=============================================================================
