-------------------------- MODULE SupervisorProofs --------------------------
(***************************************************************************)
(* Proofs about Supervisor, for any number of stubs, pids and threads.     *)
(*                                                                         *)
(* Throughout, ~ReuseHeld says that the kernels give a number away again   *)
(* only when the supervisor has done with whoever had it; what needs it     *)
(* says so, and README.md says how it fails otherwise.  TypeOK and          *)
(* NobodyStranded hold whatever the kernels do.  For TablesAgree and        *)
(* RightInternal the invariant IInv is proved inductive below, one conjunct *)
(* of it per lemma.                                                         *)
(***************************************************************************)
EXTENDS Supervisor, SequenceTheorems, TLAPS

(* No exit status is ever recorded, and the descriptor kept for the stub is *)
(* invalid: it is the moved-from one.                                       *)
NotifyExitInvalid ==
  \A p \in StubPid : Registered(p) =>
    stub_pids_data[p].notify_exit = None /\ ~stub_pids_data[p].exit_status

(* Of two stubs, or two processes, with the same number the supervisor has  *)
(* done with at least one.                                                  *)
StubGone(s)    == stub[s] = "gone" /\ Over(s)
ProcessGone(s) == child[s] \in ProcessEnded /\ Over(s)

PidsDistinct ==
  \A s, x \in Stub : s # x =>
    /\ pid[s] # None /\ pid[s] = pid[x] => StubGone(s) \/ StubGone(x)
    /\ ext[s] # None /\ ext[s] = ext[x] => ProcessGone(s) \/ ProcessGone(x)

(* A stub has its pid before it can ask; a process has one once spawned.   *)
PidsGiven ==
  \A s \in Stub :
    /\ stub[s] = "unborn" <=> pid[s] = None
    /\ stub[s] \in {"unborn", "born"} => request[s] = "none"
    /\ request[s] \in {"none", "asked", "taken", "queued"} => child[s] = "none"
    /\ child[s] \in ProcessRunning \cup ProcessEnded <=> ext[s] # None

(* A message about a process carries its external pid; a call that expired *)
(* never completes.                                                        *)
MessageOK(m) ==
  /\ m.type = "reply" /\ m.ext # None => m.ext = ext[m.of]
  /\ m.type \in {"started", "exited"} => m.ext # None /\ m.ext = ext[m.of]
  /\ m.type = "timeout" => request[m.of] \in {"expired", "failed"}

InboxOK == \A i \in 1..Len(inbox) : MessageOK(inbox[i])

(* What the bus thread is busy with fits where it is.                      *)
JobOK ==
  /\ bus \in {"fulfill", "register"} =>
       /\ job \in {Request(s) : s \in Stub}
       /\ request[job.of] = IF bus = "fulfill" THEN "taken" ELSE "queued"
  /\ bus = "handle" =>
       /\ job \in Message
       /\ job.type # "signalled"
       /\ MessageOK(job)
       /\ job.type = "reply" => request[job.of] = "replied"

(* A message about a process that another one's number went to is handled   *)
(* before the reply that says so: it has been sent before.                  *)
About(m, e) == m.type \in {"started", "exited"} /\ m.ext = e

RepliesLast ==
  \A i, k \in 1..Len(inbox) :
    /\ i < k
    /\ inbox[i].type = "reply" /\ inbox[i].ext # None
    /\ request[inbox[i].of] = "called"
    /\ About(inbox[k], inbox[i].ext)
    => inbox[k].of = inbox[i].of

(* The process of s is in the table, or is about to be.                     *)
Learned(s) == request[s] = "done" \/ (InHand("reply", s) /\ job.ext # None)

LearnedOnly ==
  \A s \in Stub : Learned(s) =>
    /\ ext[s] # None
    /\ \A i \in 1..Len(inbox) : About(inbox[i], ext[s]) => inbox[i].of = s
    /\ bus = "handle" /\ About(job, ext[s]) => job.of = s

OrderOK == RepliesLast /\ LearnedOnly

(* Only a completed call puts an external pid into the table, and only its *)
(* own.                                                                    *)
MappingsOK ==
  \A e \in ExternalPid : external_to_stub_pids[e] # None =>
    \E s \in Stub : /\ pid[s] = external_to_stub_pids[e]
                    /\ ext[s] = e
                    /\ request[s] = "done"

EntriesOK ==
  \A p \in StubPid : Registered(p) =>
    LET data == stub_pids_data[p] IN
      data.internal # None =>
        /\ data.external # None
        /\ pid[data.internal] = p
        /\ ext[data.internal] = data.external
        /\ request[data.internal] = "done"

(* The inductive invariant.                                                *)
IInv ==
  /\ PidsDistinct
  /\ PidsGiven
  /\ InboxOK
  /\ JobOK
  /\ OrderOK
  /\ MappingsOK
  /\ EntriesOK
  /\ TablesMatch
  /\ AssertionHolds

-----------------------------------------------------------------------------
(* Typing.                                                                  *)

(* Sending a message keeps the inbox a sequence of messages.                *)
LEMMA SendType ==
  ASSUME NEW m \in Message, inbox \in Seq(Message), inbox' = Append(inbox, m)
  PROVE  inbox' \in Seq(Message)
  BY AppendProperties

(* The oldest message is one, and so is every later one.                    *)
LEMMA TakeType ==
  ASSUME inbox \in Seq(Message), inbox # <<>>
  PROVE  Head(inbox) \in Message /\ Tail(inbox) \in Seq(Message)
  BY HeadTailProperties

(* A record with a thread's position and pid is a thread's state.           *)
LEMMA NotifyAllType ==
  ASSUME app \in [Thread -> ThreadState],
         \A t \in Thread : app[t].at \in {"waiting", "woken"} => app[t].pid \in StubPid
  PROVE  /\ NotifyAll(app) \in [Thread -> ThreadState]
         /\ \A t \in Thread :
              NotifyAll(app)[t].at \in {"waiting", "woken"} => NotifyAll(app)[t].pid \in StubPid
  BY DEF NotifyAll, ThreadState

(* The operators on the tables return tables.                               *)
LEMMA EraseType ==
  ASSUME stub_pids_data \in [StubPid -> StubPidData \cup {None}], NEW p
  PROVE  Erase(p) \in [StubPid -> StubPidData \cup {None}]
  BY DEF Erase

(* Setting an entry's external pid keeps the table of entries typed.        *)
LEMMA SetExternalType ==
  ASSUME stub_pids_data \in [StubPid -> StubPidData \cup {None}],
         NEW p \in StubPid \cup {None}, NEW e \in ExternalPid \cup {None}, Registered(p)
  PROVE  SetExternal(p, e) \in [StubPid -> StubPidData \cup {None}]
<1>1. CASE p \in StubPid
  <2>1. stub_pids_data[p] \in StubPidData
    BY <1>1 DEF Registered
  <2>2. [stub_pids_data[p] EXCEPT !.external = e] \in StubPidData
    BY <2>1 DEF StubPidData
  <2> QED
    BY <1>1, <2>2 DEF SetExternal
<1>2. CASE p \notin StubPid
  BY <1>2 DEF SetExternal
<1> QED
  BY <1>1, <1>2

(* Emplacing a mapping keeps the table of external pids typed.              *)
LEMMA EmplaceExternalType ==
  ASSUME external_to_stub_pids \in [ExternalPid -> StubPid \cup {None}],
         NEW e, NEW p \in StubPid \cup {None}
  PROVE  EmplaceExternal(e, p) \in [ExternalPid -> StubPid \cup {None}]
  BY DEF EmplaceExternal

(* Every step keeps the types.                                              *)
LEMMA TypeStep == TypeOK /\ [Next]_vars => TypeOK'
<1> SUFFICES ASSUME TypeOK, [Next]_vars PROVE TypeOK'
  OBVIOUS
<1> USE NoneAssumption DEF TypeOK, Thread, stubVars, tableVars, portalVars
<1>1. ASSUME NEW s \in Stub, OpenSpawnRequest(s) PROVE TypeOK'
  BY <1>1 DEF OpenSpawnRequest
<1>2. ASSUME NEW s \in Stub, SendSpawnRequest(s) PROVE TypeOK'
  BY <1>2 DEF SendSpawnRequest
<1>3. ASSUME NEW s \in Stub, StubFails(s) PROVE TypeOK'
  BY <1>3 DEF StubFails
<1>4. ASSUME NEW s \in Stub, ReadExitReply(s) PROVE TypeOK'
  BY <1>4 DEF ReadExitReply
<1>5. ASSUME NEW s \in Stub, HandleSpawnRequest(s) PROVE TypeOK'
  BY <1>5 DEF HandleSpawnRequest, Request
<1>6. ASSUME NEW s \in Stub, RejectSpawnRequest(s) PROVE TypeOK'
  BY <1>6 DEF RejectSpawnRequest, HangUp
<1>7. ASSUME NEW s \in Stub, SendSpawn(s) PROVE TypeOK'
  BY <1>7 DEF SendSpawn, ProcessRunning, ProcessEnded
<1>8. ASSUME NEW ok \in BOOLEAN, FulfillSpawnRequest(ok) PROVE TypeOK'
  <2>1. job.of \in Stub
    BY <1>8 DEF FulfillSpawnRequest, Request
  <2> QED
    BY <1>8, <2>1 DEF FulfillSpawnRequest, HangUp
<1>9. ASSUME RegisterStub PROVE TypeOK'
  <2> DEFINE p == pid[job.of]
             data == IF Registered(p) THEN stub_pids_data[p] ELSE NewStubPidData
             entry == [data EXCEPT !.notify_exit = None]
  <2>1. stub_pids_data' = [stub_pids_data EXCEPT ![p] = entry]
    BY <1>9 DEF RegisterStub, CommunicationFd
  <2>2. CASE p \in StubPid
    <3>1. data \in StubPidData
      BY <2>2 DEF Registered, StubPidData, NewStubPidData
    <3>2. entry \in StubPidData
      <4> HIDE DEF data
      <4> QED
        BY <3>1 DEF StubPidData
    <3>3. stub_pids_data' \in [StubPid -> StubPidData \cup {None}]
      <4> HIDE DEF entry
      <4> QED
        BY <2>1, <3>2
    <3> QED
      BY <1>9, <3>3 DEF RegisterStub
  <2>3. CASE p \notin StubPid
    <3>1. stub_pids_data' = stub_pids_data
      <4> HIDE DEF entry, p
      <4> QED
        BY <2>1, <2>3
    <3> QED
      BY <1>9, <3>1 DEF RegisterStub
  <2> QED
    BY <2>2, <2>3
<1>10. ASSUME NEW t \in Killer, SendSpawnSignal(t) PROVE TypeOK'
  BY <1>10 DEF SendSpawnSignal, ThreadState, Idle
<1>11. ASSUME DispatchReply PROVE TypeOK'
  <2>1. Head(inbox) \in Message /\ Tail(inbox) \in Seq(Message)
    BY <1>11, TakeType DEF DispatchReply
  <2> QED
    BY <1>11, <2>1 DEF DispatchReply, ThreadState, Idle
<1>12. ASSUME DispatchEvent PROVE TypeOK'
  <2>1. Head(inbox) \in Message /\ Tail(inbox) \in Seq(Message)
    BY <1>12, TakeType DEF DispatchEvent
  <2> QED
    BY <1>12, <2>1 DEF DispatchEvent, ThreadState, Idle
<1>13. ASSUME DispatchSignalled PROVE TypeOK'
  <2>1. Head(inbox) \in Message /\ Tail(inbox) \in Seq(Message)
    BY <1>13, TakeType DEF DispatchSignalled
  <2> DEFINE t == Head(inbox).of
  <2>2. app' = [app EXCEPT ![t].at = "answered"]
    BY <1>13 DEF DispatchSignalled
  <2>3. /\ app' \in [Thread -> ThreadState]
        /\ \A x \in Thread : app'[x].at \in {"waiting", "woken"} => app'[x].pid \in StubPid
    <3> DEFINE d == [app[t] EXCEPT !.at = "answered"]
    <3>1. app' = [app EXCEPT ![t] = d]
      BY <2>2
    <3>2. t \in Thread => d \in ThreadState /\ d.at = "answered"
      BY DEF ThreadState
    <3> HIDE DEF t, d
    <3>3. app' \in [Thread -> ThreadState]
      BY <3>1, <3>2
    <3>4. ASSUME NEW x \in Thread, app'[x].at \in {"waiting", "woken"}
          PROVE  app'[x].pid \in StubPid
      BY <3>1, <3>2, <3>4
    <3> QED
      BY <3>3, <3>4
  <2> QED
    BY <1>13, <2>1, <2>3 DEF DispatchSignalled
<1>14. ASSUME HandleSpawnReplyError PROVE TypeOK'
  <2>1. stub_pids_data' \in [StubPid -> StubPidData \cup {None}]
    BY <1>14, EraseType DEF HandleSpawnReplyError
  <2> QED
    BY <1>14, <2>1 DEF HandleSpawnReplyError
<1>15. ASSUME HandleSpawnReply PROVE TypeOK'
  <2> DEFINE p == pid[job.of]
  <2>1. job \in Message /\ job.type = "reply"
    BY <1>15 DEF HandleSpawnReply
  <2>2. job.of \in Stub /\ job.ext \in ExternalPid \cup {None}
    BY <2>1 DEF Message
  <2>3. p \in StubPid \cup {None}
    BY <2>2
  <2>4. /\ stub_pids_data' \in [StubPid -> StubPidData \cup {None}]
        /\ external_to_stub_pids' \in [ExternalPid -> StubPid \cup {None}]
    <3>1. CASE Registered(p)
      <4>1. /\ SetExternal(p, job.ext) \in [StubPid -> StubPidData \cup {None}]
            /\ EmplaceExternal(job.ext, p) \in [ExternalPid -> StubPid \cup {None}]
        BY <2>2, <2>3, <3>1, SetExternalType, EmplaceExternalType
      <4> QED
        BY <1>15, <3>1, <4>1 DEF HandleSpawnReply
    <3>2. CASE ~Registered(p)
      BY <1>15, <3>2 DEF HandleSpawnReply
    <3> QED
      BY <3>1, <3>2
  <2> QED
    BY <1>15, <2>4 DEF HandleSpawnReply
<1>16. ASSUME HandleSpawnStarted PROVE TypeOK'
  <2> DEFINE q == external_to_stub_pids[job.ext]
  <2>1. job \in Message /\ job.type = "started"
    BY <1>16 DEF HandleSpawnStarted
  <2>2. job.of \in Stub /\ job.ext \in ExternalPid
    BY <2>1 DEF Message
  <2>3. stub_pids_data' \in [StubPid -> StubPidData \cup {None}]
    <3>1. CASE FindsStubPidData(job.ext)
      <4>1. stub_pids_data[q] # None
        BY <3>1 DEF FindsStubPidData, Registered
      <4>2. q \in StubPid
        BY <2>2, <3>1 DEF FindsStubPidData
      <4>3. [stub_pids_data[q] EXCEPT !.internal = job.of] \in StubPidData
        BY <2>2, <4>1, <4>2 DEF StubPidData
      <4> QED
        BY <1>16, <3>1, <4>3 DEF HandleSpawnStarted, EntryOf, InternalPid
    <3>2. CASE ~FindsStubPidData(job.ext)
      BY <1>16, <3>2 DEF HandleSpawnStarted
    <3> QED
      BY <3>1, <3>2
  <2>4. /\ app' \in [Thread -> ThreadState]
        /\ \A t \in Thread : app'[t].at \in {"waiting", "woken"} => app'[t].pid \in StubPid
    BY <1>16, NotifyAllType DEF HandleSpawnStarted
  <2> QED
    BY <1>16, <2>3, <2>4 DEF HandleSpawnStarted
<1>17. ASSUME HandleSpawnExited PROVE TypeOK'
  <2> DEFINE q == external_to_stub_pids[job.ext]
             fd == stub_pids_data[q].notify_exit
  <2>1. job.ext \in ExternalPid
    BY <1>17 DEF HandleSpawnExited, Message
  <2>2. /\ stub_pids_data' \in [StubPid -> StubPidData \cup {None}]
        /\ ended' \in SUBSET Stub
    <3>1. CASE FindsStubPidData(job.ext) /\ fd # None
      <4>1. stub_pids_data[q] \in StubPidData
        BY <2>1, <3>1 DEF FindsStubPidData, Registered
      <4>2. /\ fd \in Stub
            /\ [stub_pids_data[q] EXCEPT !.exit_status = TRUE] \in StubPidData
        BY <3>1, <4>1 DEF StubPidData
      <4> QED
        BY <1>17, <3>1, <4>2 DEF HandleSpawnExited
    <3>2. CASE ~(FindsStubPidData(job.ext) /\ fd # None)
      BY <1>17, <3>2 DEF HandleSpawnExited
    <3> QED
      BY <3>1, <3>2
  <2>3. /\ app' \in [Thread -> ThreadState]
        /\ \A t \in Thread : app'[t].at \in {"waiting", "woken"} => app'[t].pid \in StubPid
    BY <1>17, NotifyAllType DEF HandleSpawnExited
  <2> QED
    BY <1>17, <2>2, <2>3 DEF HandleSpawnExited
<1>18. ASSUME HandlerAborts PROVE TypeOK'
  BY <1>18 DEF HandlerAborts
<1>19. ASSUME NEW s \in Stub, NEW e \in ExternalPid, PortalSpawns(s, e) PROVE TypeOK'
  <2> DEFINE m == [type |-> "reply", of |-> s, ext |-> e]
  <2>1. m \in Message
    BY DEF Message
  <2>2. inbox' \in Seq(Message)
    BY <1>19, <2>1, SendType DEF PortalSpawns, Send
  <2> QED
    BY <1>19, <2>2 DEF PortalSpawns, ProcessRunning, ProcessEnded
<1>20. ASSUME NEW s \in Stub, PortalRefuses(s) PROVE TypeOK'
  <2> DEFINE m == [type |-> "reply", of |-> s, ext |-> None]
  <2>1. m \in Message
    BY DEF Message
  <2>2. inbox' \in Seq(Message)
    BY <1>20, <2>1, SendType DEF PortalRefuses, Send
  <2> QED
    BY <1>20, <2>2 DEF PortalRefuses, ProcessRunning, ProcessEnded
<1>21. ASSUME NEW s \in Stub, CallTimesOut(s) PROVE TypeOK'
  <2> DEFINE m == [type |-> "timeout", of |-> s, ext |-> None]
  <2>1. m \in Message
    BY DEF Message
  <2>2. inbox' \in Seq(Message)
    BY <1>21, <2>1, SendType DEF CallTimesOut, Send
  <2> QED
    BY <1>21, <2>2 DEF CallTimesOut
<1>22. ASSUME NEW s \in Stub, PortalStarted(s) PROVE TypeOK'
  <2> DEFINE m == [type |-> "started", of |-> s, ext |-> ext[s]]
  <2>1. m \in Message
    BY <1>22 DEF PortalStarted, ProcessRunning, Message
  <2>2. inbox' \in Seq(Message)
    BY <1>22, <2>1, SendType DEF PortalStarted, Send
  <2> QED
    BY <1>22, <2>2 DEF PortalStarted, ProcessRunning
<1>23. ASSUME NEW s \in Stub, PortalExited(s) PROVE TypeOK'
  <2> DEFINE m == [type |-> "exited", of |-> s, ext |-> ext[s]]
  <2>1. m \in Message
    BY <1>23 DEF PortalExited, ProcessRunning, Message
  <2>2. inbox' \in Seq(Message)
    BY <1>23, <2>1, SendType DEF PortalExited, Send
  <2> QED
    BY <1>23, <2>2 DEF PortalExited, ProcessRunning, ProcessEnded
<1>24. ASSUME NEW t \in Killer, PortalSignalled(t) PROVE TypeOK'
  <2> DEFINE m == [type |-> "signalled", of |-> t, ext |-> None]
  <2>1. m \in Message
    BY DEF Message
  <2>2. inbox' \in Seq(Message)
    BY <1>24, <2>1, SendType DEF PortalSignalled, Send
  <2> QED
    BY <1>24, <2>2 DEF PortalSignalled, ThreadState, Idle
<1>25. ASSUME NEW s \in Stub, NEW p \in StubPid, Fork(s, p) PROVE TypeOK'
  BY <1>25 DEF Fork
<1>26. ASSUME NEW t \in Waiter, NEW p \in StubPid, GetExitStatus(t, p) PROVE TypeOK'
  <2>1. stub_pids_data' \in [StubPid -> StubPidData \cup {None}]
    BY <1>26, EraseType DEF GetExitStatus
  <2>2. ended' \in SUBSET Stub
    BY <1>26 DEF GetExitStatus, Exited, Registered, ReapedStub, StubPidData
  <2>3. /\ app' \in [Thread -> ThreadState]
        /\ \A x \in Thread : app'[x].at \in {"waiting", "woken"} => app'[x].pid \in StubPid
    BY <1>26, NotifyAllType DEF GetExitStatus, ThreadState, Idle
  <2> QED
    BY <1>26, <2>1, <2>2, <2>3 DEF GetExitStatus
<1>27. ASSUME NEW t \in Waiter, NEW p \in StubPid, EvaluatePredicate(t, p) PROVE TypeOK'
  <2>1. stub_pids_data' \in [StubPid -> StubPidData \cup {None}]
    BY <1>27, EraseType DEF EvaluatePredicate
  <2>2. ended' \in SUBSET Stub
    BY <1>27 DEF EvaluatePredicate, Exited, Registered, ReapedStub, StubPidData
  <2>3. /\ app' \in [Thread -> ThreadState]
        /\ \A x \in Thread : app'[x].at \in {"waiting", "woken"} => app'[x].pid \in StubPid
    BY <1>27 DEF EvaluatePredicate, ThreadState, Idle
  <2> QED
    BY <1>27, <2>1, <2>2, <2>3 DEF EvaluatePredicate
<1>28. ASSUME NEW t \in Waiter, NEW p \in StubPid, WaitForExitStatus(t, p) PROVE TypeOK'
  BY <1>28, <1>27 DEF WaitForExitStatus
<1>29. ASSUME NEW t \in Waiter, WakeUp(t) PROVE TypeOK'
  BY <1>29, <1>27 DEF WakeUp, ThreadState, Idle
<1>30. ASSUME NEW t \in Waiter, SpuriousWakeUp(t) PROVE TypeOK'
  BY <1>30 DEF SpuriousWakeUp, ThreadState, Idle
<1>31. ASSUME NEW t \in Waiter, KernelWaitpid(t) PROVE TypeOK'
  <2>1. /\ app' \in [Thread -> ThreadState]
        /\ \A x \in Thread : app'[x].at \in {"waiting", "woken"} => app'[x].pid \in StubPid
    BY <1>31 DEF KernelWaitpid, ThreadState, Idle
  <2>2. stub' \in [Stub -> {"unborn", "born", "opened", "waiting", "dead", "gone"}]
    BY <1>31 DEF KernelWaitpid
  <2>3. UNCHANGED <<pid, ended, request, bus, job, lock, tableVars, portalVars, inbox>>
    BY <1>31 DEF KernelWaitpid
  <2> QED
    BY <1>31, <2>1, <2>2, <2>3
<1>32. ASSUME NEW t \in Killer, NEW p \in StubPid, SendSignal(t, p) PROVE TypeOK'
  <2>1. PICK state \in ThreadState : /\ app' = [app EXCEPT ![t] = state]
                                     /\ state.at \in {"call", "kill"}
    BY <1>32 DEF SendSignal, ThreadState
  <2>2. /\ app' \in [Thread -> ThreadState]
        /\ \A x \in Thread : app'[x].at \in {"waiting", "woken"} => app'[x].pid \in StubPid
    BY <2>1
  <2>3. lock' \in Killer \cup {None}
    BY <1>32 DEF SendSignal
  <2> QED
    BY <1>32, <2>2, <2>3 DEF SendSignal
<1>33. ASSUME NEW t \in Killer, CallSpawnSignal(t) PROVE TypeOK'
  BY <1>33 DEF CallSpawnSignal, ThreadState, Idle
<1>34. ASSUME NEW t \in Killer, SendSignalReturns(t) PROVE TypeOK'
  BY <1>34 DEF SendSignalReturns, ThreadState, Idle
<1>35. ASSUME NEW t \in Killer, KernelKill(t) PROVE TypeOK'
  BY <1>35 DEF KernelKill, ThreadState, Idle
<1>36. CASE UNCHANGED vars
  BY <1>36 DEF vars, Request
<1> QED
  BY <1>1, <1>2, <1>3, <1>4, <1>5, <1>6, <1>7, <1>8, <1>9, <1>10, <1>11, <1>12, <1>13, <1>14, <1>15, <1>16, <1>17, <1>18, <1>19, <1>20, <1>21, <1>22, <1>23, <1>24, <1>25, <1>26, <1>27, <1>28, <1>29, <1>30, <1>31, <1>32, <1>33, <1>34, <1>35, <1>36
  DEF Next, StubStep, BusStep, PortalStep, CallEnds, AppStep, WaiterContinues, KillerContinues

(* The first state is typed.                                                *)
LEMMA InitType == Init => TypeOK
<1> SUFFICES ASSUME Init PROVE TypeOK
  OBVIOUS
<1>1. inbox \in Seq(Message)
  BY EmptySeq DEF Init
<1> QED
  BY <1>1, NoneAssumption DEF Init, TypeOK, Thread, ThreadState, Idle, ProcessRunning, ProcessEnded

(* Every variable keeps its type, whatever the kernels do with pids.        *)
THEOREM TypeCorrect == Spec => []TypeOK
  BY InitType, TypeStep, PTL DEF Spec

-----------------------------------------------------------------------------
(* No exit status is ever recorded.                                         *)

(* A step that leaves the entries alone, or only takes some away.           *)
LEMMA NoNewEntry ==
  ASSUME NotifyExitInvalid,
         \A p \in StubPid : stub_pids_data'[p] \in {stub_pids_data[p], None}
  PROVE  NotifyExitInvalid'
  BY DEF NotifyExitInvalid, Registered

(* Every step leaves the entries without exit status and descriptor: only   *)
(* RegisterStub writes a descriptor, and it writes the moved-from one.      *)
LEMMA ExitStep == TypeOK /\ NotifyExitInvalid /\ [Next]_vars => NotifyExitInvalid'
<1> SUFFICES ASSUME TypeOK, NotifyExitInvalid, [Next]_vars PROVE NotifyExitInvalid'
  OBVIOUS
<1>1. CASE UNCHANGED stub_pids_data
  BY <1>1, NoNewEntry
<1>2. ASSUME RegisterStub PROVE NotifyExitInvalid'
  <2> DEFINE p == pid[job.of]
             data == IF Registered(p) THEN stub_pids_data[p] ELSE NewStubPidData
             entry == [data EXCEPT !.notify_exit = None]
  <2>1. stub_pids_data' = [stub_pids_data EXCEPT ![p] = entry]
    BY <1>2 DEF RegisterStub, CommunicationFd
  <2>2. p \in StubPid => entry.notify_exit = None /\ ~entry.exit_status
    BY DEF NotifyExitInvalid, Registered, NewStubPidData, TypeOK, StubPidData
  <2> HIDE DEF entry, p
  <2> QED
    BY <2>1, <2>2 DEF NotifyExitInvalid, Registered, TypeOK
<1>3. ASSUME HandleSpawnReplyError PROVE NotifyExitInvalid'
  BY <1>3, NoNewEntry DEF HandleSpawnReplyError, Erase, TypeOK
<1>4. ASSUME HandleSpawnReply PROVE NotifyExitInvalid'
  <2> DEFINE p == pid[job.of]
  <2>1. CASE Registered(p)
    <3>1. stub_pids_data' = SetExternal(p, job.ext)
      BY <1>4, <2>1 DEF HandleSpawnReply
    <3> SUFFICES ASSUME NEW q \in StubPid, Registered(q)'
                 PROVE  /\ stub_pids_data'[q].notify_exit = None
                        /\ ~stub_pids_data'[q].exit_status
      BY DEF NotifyExitInvalid
    <3>2. /\ Registered(q)
          /\ stub_pids_data'[q].notify_exit = stub_pids_data[q].notify_exit
          /\ stub_pids_data'[q].exit_status = stub_pids_data[q].exit_status
      BY <2>1, <3>1 DEF SetExternal, Registered, TypeOK, StubPidData
    <3> QED
      BY <3>2 DEF NotifyExitInvalid
  <2>2. CASE ~Registered(p)
    BY <1>4, <2>2 DEF HandleSpawnReply, NotifyExitInvalid, Registered, tableVars
  <2> QED
    BY <2>1, <2>2
<1>5. ASSUME HandleSpawnStarted PROVE NotifyExitInvalid'
  BY <1>5 DEF HandleSpawnStarted, FindsStubPidData, EntryOf, NotifyExitInvalid, Registered, TypeOK, StubPidData
<1>6. ASSUME HandleSpawnExited PROVE NotifyExitInvalid'
  BY <1>6, NoNewEntry DEF HandleSpawnExited, FindsStubPidData, NotifyExitInvalid, Registered, TypeOK, Message
<1>7. ASSUME NEW t \in Waiter, NEW p \in StubPid, GetExitStatus(t, p) PROVE NotifyExitInvalid'
  BY <1>7, NoNewEntry DEF GetExitStatus, Erase, TypeOK
<1>8. ASSUME NEW t \in Waiter, NEW p, EvaluatePredicate(t, p) PROVE NotifyExitInvalid'
  BY <1>8, NoNewEntry DEF EvaluatePredicate, Erase, TypeOK
<1>9. CASE UNCHANGED vars
  BY <1>1, <1>9 DEF vars
<1> QED
  BY <1>1, <1>2, <1>3, <1>4, <1>5, <1>6, <1>7, <1>8, <1>9
  DEF Next, StubStep, BusStep, PortalStep, CallEnds, AppStep, WaiterContinues, KillerContinues,
      OpenSpawnRequest, SendSpawnRequest, StubFails, ReadExitReply, HandleSpawnRequest,
      RejectSpawnRequest, SendSpawn, FulfillSpawnRequest, SendSpawnSignal, DispatchReply,
      DispatchEvent, DispatchSignalled, HandlerAborts, PortalSpawns, PortalRefuses,
      CallTimesOut, PortalStarted, PortalExited, PortalSignalled, Fork, WaitForExitStatus,
      WakeUp, SpuriousWakeUp, KernelWaitpid, SendSignal, CallSpawnSignal,
      SendSignalReturns, KernelKill, tableVars

(* So waitpid never gets a sandboxed process's exit status.                 *)
LEMMA ExitStatusUnreachable == Spec => []NotifyExitInvalid
<1>1. Init => NotifyExitInvalid
  BY DEF Init, NotifyExitInvalid, Registered
<1> QED
  BY <1>1, ExitStep, TypeCorrect, PTL DEF Spec

-----------------------------------------------------------------------------
(* The inbox.                                                               *)

(* A message that is sent is in the inbox, with those that were.            *)
LEMMA Sent ==
  ASSUME TypeOK, NEW m \in Message, inbox' = Append(inbox, m)
  PROVE  /\ InInbox(m.type, m.of)'
         /\ \A u, v : InInbox(u, v) => InInbox(u, v)'
         /\ \A i \in 1..Len(inbox') :
              \/ i \in 1..Len(inbox) /\ inbox'[i] = inbox[i]
              \/ i = Len(inbox) + 1 /\ inbox'[i] = m
<1>1. /\ Len(inbox) \in Nat
      /\ Len(inbox') = Len(inbox) + 1
      /\ \A i \in 1..Len(inbox) : inbox'[i] = inbox[i]
      /\ inbox'[Len(inbox) + 1] = m
  BY AppendProperties, LenProperties DEF TypeOK
<1>2. InInbox(m.type, m.of)'
  <2>1. Len(inbox) + 1 \in 1..Len(inbox')
    BY <1>1
  <2> QED
    BY <1>1, <2>1 DEF InInbox
<1>3. ASSUME NEW u, NEW v, InInbox(u, v) PROVE InInbox(u, v)'
  <2>1. PICK i \in 1..Len(inbox) : inbox[i].type = u /\ inbox[i].of = v
    BY <1>3 DEF InInbox
  <2>2. i \in 1..Len(inbox') /\ inbox'[i] = inbox[i]
    BY <1>1
  <2> QED
    BY <2>1, <2>2 DEF InInbox
<1>4. ASSUME NEW i \in 1..Len(inbox')
      PROVE  \/ i \in 1..Len(inbox) /\ inbox'[i] = inbox[i]
             \/ i = Len(inbox) + 1 /\ inbox'[i] = m
  <2>1. i \in 1..Len(inbox) \/ i = Len(inbox) + 1
    BY <1>1
  <2> QED
    BY <1>1, <2>1
<1> QED
  BY <1>2, <1>3, <1>4

(* When the oldest is taken the others stay.                                *)
LEMMA Taken ==
  ASSUME TypeOK, inbox # <<>>, inbox' = Tail(inbox)
  PROVE  /\ Head(inbox) \in Message
         /\ 1 \in 1..Len(inbox) /\ Head(inbox) = inbox[1]
         /\ \A u, v : InInbox(u, v) => InInbox(u, v)' \/ (Head(inbox).type = u /\ Head(inbox).of = v)
         /\ \A i \in 1..Len(inbox') : i + 1 \in 1..Len(inbox) /\ inbox'[i] = inbox[i + 1]
<1>1. /\ Len(inbox) \in Nat
      /\ Len(inbox') = Len(inbox) - 1
      /\ \A i \in 1..Len(inbox') : inbox'[i] = inbox[i + 1]
  BY HeadTailProperties, LenProperties DEF TypeOK
<1>2. Head(inbox) = inbox[1] /\ 1 \in 1..Len(inbox) /\ Head(inbox) \in Message
  BY HeadTailProperties, LenProperties, EmptySeq DEF TypeOK
<1>3. ASSUME NEW u, NEW v, InInbox(u, v)
      PROVE  InInbox(u, v)' \/ (Head(inbox).type = u /\ Head(inbox).of = v)
  <2>1. PICK i \in 1..Len(inbox) : inbox[i].type = u /\ inbox[i].of = v
    BY <1>3 DEF InInbox
  <2>2. CASE i = 1
    BY <1>2, <2>1, <2>2
  <2>3. CASE i # 1
    <3>1. i - 1 \in 1..Len(inbox') /\ (i - 1) + 1 = i
      BY <1>1, <2>3
    <3>2. inbox'[i - 1] = inbox[i]
      BY <1>1, <3>1
    <3> QED
      BY <2>1, <3>1, <3>2 DEF InInbox
  <2> QED
    BY <2>2, <2>3
<1>4. \A i \in 1..Len(inbox') : i + 1 \in 1..Len(inbox)
  BY <1>1
<1> QED
  BY <1>1, <1>2, <1>3, <1>4

-----------------------------------------------------------------------------
(* The inductive invariant.                                                 *)

(* Pids are given once, and a request that is over stays so.                *)
Settles ==
  \A s \in Stub :
    /\ pid[s] # None => pid'[s] = pid[s]
    /\ ext[s] # None => ext'[s] = ext[s]
    /\ request[s] = "done" => request'[s] = "done"
    /\ request[s] \in {"expired", "failed"} => request'[s] \in {"expired", "failed"}

(* The oldest message is right, so the bus thread may be given it.          *)
LEMMA HeadOK ==
  ASSUME TypeOK, InboxOK, inbox # <<>>
  PROVE  Head(inbox) \in Message /\ MessageOK(Head(inbox))
<1>1. Head(inbox) = inbox[1] /\ 1 \in 1..Len(inbox)
  BY HeadTailProperties, LenProperties, EmptySeq DEF TypeOK
<1> QED
  BY <1>1, TakeType DEF TypeOK, InboxOK

(* What the bus thread is handling is about a stub that is not settled.     *)
LEMMA JobOf ==
  ASSUME TypeOK, JobOK
  PROVE  /\ bus = "fulfill" => job.of \in Stub /\ request[job.of] = "taken"
         /\ bus = "register" => job.of \in Stub /\ request[job.of] = "queued"
         /\ bus = "handle" =>
              /\ job.of \in Stub
              /\ job.type = "reply" => request[job.of] = "replied"
              /\ job.type = "timeout" => request[job.of] \in {"expired", "failed"}
              /\ job.type \in {"started", "exited"} => job.ext \in ExternalPid /\ job.ext = ext[job.of]
              /\ job.type = "reply" /\ job.ext # None => job.ext \in ExternalPid /\ job.ext = ext[job.of]
  BY DEF JobOK, Request, Message, MessageOK

(* Every step respects that.                                                *)
LEMMA SettleStep ==
  ASSUME TypeOK, IInv, [Next]_vars
  PROVE  Settles
<1> USE DEF Settles, IInv
<1>1. CASE UNCHANGED <<pid, ext, request>>
  BY <1>1
<1>2. ASSUME NEW s \in Stub, NEW v,
             request' = [request EXCEPT ![s] = v], UNCHANGED <<pid, ext>>,
             request[s] # "done",
             request[s] \in {"expired", "failed"} => v \in {"expired", "failed"}
      PROVE  Settles
  BY <1>2 DEF TypeOK
<1>3. ASSUME NEW s \in Stub, OpenSpawnRequest(s) PROVE Settles
  BY <1>2, <1>3 DEF OpenSpawnRequest, PidsGiven, portalVars
<1>4. ASSUME NEW s \in Stub, HandleSpawnRequest(s) \/ RejectSpawnRequest(s) \/ SendSpawn(s)
                             \/ CallTimesOut(s)
      PROVE  Settles
  BY <1>2, <1>4 DEF HandleSpawnRequest, RejectSpawnRequest, SendSpawn, CallTimesOut, stubVars,
    portalVars
<1>5. ASSUME NEW ok \in BOOLEAN, FulfillSpawnRequest(ok) PROVE Settles
  BY <1>1, <1>2, <1>5, JobOf DEF FulfillSpawnRequest, stubVars, portalVars
<1>6. CASE RegisterStub
  BY <1>1, <1>6 DEF RegisterStub, stubVars, portalVars
<1>7. CASE DispatchReply
  <2>1. Head(inbox).of \in Stub
    BY <1>7, HeadOK DEF DispatchReply, Message
  <2> QED
    BY <1>1, <1>2, <1>7, <2>1 DEF DispatchReply, AnswersPendingCall, stubVars, portalVars
<1>8. CASE HandleSpawnReplyError \/ HandleSpawnReply
  BY <1>2, <1>8, JobOf DEF HandleSpawnReplyError, HandleSpawnReply, stubVars, portalVars
<1>9. ASSUME NEW s \in Stub, NEW p \in StubPid, Fork(s, p) PROVE Settles
  BY <1>9 DEF Fork, PidsGiven, portalVars, TypeOK
<1>10. ASSUME NEW s \in Stub, NEW e \in ExternalPid, PortalSpawns(s, e) PROVE Settles
  BY <1>10 DEF PortalSpawns, PidsGiven, stubVars, TypeOK, ProcessRunning, ProcessEnded
<1>11. CASE UNCHANGED vars
  BY <1>1, <1>11 DEF vars
<1> QED
  BY <1>1, <1>3, <1>4, <1>5, <1>6, <1>7, <1>8, <1>9, <1>10, <1>11
  DEF Next, StubStep, BusStep, PortalStep, CallEnds, AppStep, WaiterContinues, KillerContinues,
      SendSpawnRequest, StubFails, ReadExitReply, SendSpawnSignal,
      DispatchEvent, DispatchSignalled, HandleSpawnStarted, HandleSpawnExited, HandlerAborts,
      PortalRefuses, PortalStarted, PortalExited, PortalSignalled, GetExitStatus,
      EvaluatePredicate, WaitForExitStatus, WakeUp, SpuriousWakeUp, KernelWaitpid, SendSignal,
      CallSpawnSignal, SendSignalReturns, KernelKill, stubVars, portalVars

(* So a message that is right stays right.                                  *)
LEMMA MessageStays ==
  ASSUME TypeOK, Settles, NEW m \in Message, MessageOK(m)
  PROVE  MessageOK(m)'
  BY NoneAssumption DEF Settles, MessageOK, Message, TypeOK

(* Every step keeps pids distinct and given in time: of the steps that change *)
(* pid, ext, stub, child or request, each is looked at on its own.          *)
LEMMA PidsStep ==
  ASSUME ~ReuseHeld, TypeOK, IInv, [Next]_vars
  PROVE  PidsDistinct' /\ PidsGiven'
<1> USE NoneAssumption DEF IInv, PidsDistinct, PidsGiven, StubGone, ProcessGone, Over
<1>1. CASE UNCHANGED <<stub, pid, request, child, ext>>
  BY <1>1
<1>2. ASSUME NEW s \in Stub, NEW v, request' = [request EXCEPT ![s] = v],
             stub[s] \notin {"unborn", "born"}, UNCHANGED <<stub, pid, child, ext>>,
             v \in {"none", "asked", "taken", "queued"} => child[s] = "none",
             Over(s) => v = "failed"
      PROVE  PidsDistinct' /\ PidsGiven'
  BY <1>2 DEF TypeOK
<1>3. ASSUME UNCHANGED <<pid, request, child, ext>>,
             \A s \in Stub : /\ stub'[s] = "unborn" <=> stub[s] = "unborn"
                             /\ stub'[s] = "born" => stub[s] = "born"
                             /\ stub[s] = "gone" => stub'[s] = "gone"
      PROVE  PidsDistinct' /\ PidsGiven'
  BY <1>3
<1>4. ASSUME NEW s \in Stub, OpenSpawnRequest(s) PROVE PidsDistinct' /\ PidsGiven'
  <2>1. /\ UNCHANGED <<pid, child, ext>>
        /\ stub[s] = "born" /\ request[s] = "none" /\ child[s] = "none"
        /\ \A x \in Stub : x # s => stub'[x] = stub[x] /\ request'[x] = request[x]
        /\ stub'[s] = "opened" /\ request'[s] = "asked"
    BY <1>4 DEF OpenSpawnRequest, portalVars, TypeOK
  <2>2. \A x \in Stub : (StubGone(x) => StubGone(x)') /\ (ProcessGone(x) => ProcessGone(x)')
    BY <2>1 DEF ProcessEnded
  <2> HIDE DEF StubGone, ProcessGone
  <2>3. PidsDistinct'
    BY <2>1, <2>2
  <2> QED
    BY <2>1, <2>3
<1>5. ASSUME NEW s \in Stub, SendSpawnRequest(s) \/ StubFails(s) \/ ReadExitReply(s)
      PROVE  PidsDistinct' /\ PidsGiven'
  <2>1. UNCHANGED <<pid, request, child, ext>>
    BY <1>5 DEF SendSpawnRequest, StubFails, ReadExitReply, portalVars
  <2>2. /\ stub[s] \notin {"unborn", "gone"}
        /\ \E v \in {"waiting", "dead"} : stub' = [stub EXCEPT ![s] = v]
    BY <1>5 DEF SendSpawnRequest, StubFails, ReadExitReply
  <2> QED
    BY <1>3, <2>1, <2>2 DEF TypeOK
<1>6. ASSUME NEW s \in Stub, HandleSpawnRequest(s) \/ RejectSpawnRequest(s) \/ CallTimesOut(s)
      PROVE  PidsDistinct' /\ PidsGiven'
  BY <1>2, <1>6 DEF HandleSpawnRequest, RejectSpawnRequest, CallTimesOut, stubVars, portalVars
<1>7. ASSUME NEW s \in Stub, SendSpawn(s) PROVE PidsDistinct' /\ PidsGiven'
  BY <1>7 DEF SendSpawn, stubVars, TypeOK, ProcessRunning, ProcessEnded
<1>8. ASSUME NEW ok \in BOOLEAN, FulfillSpawnRequest(ok) PROVE PidsDistinct' /\ PidsGiven'
  BY <1>1, <1>2, <1>8, JobOf DEF FulfillSpawnRequest, stubVars, portalVars
<1>9. CASE RegisterStub
  BY <1>1, <1>9 DEF RegisterStub, stubVars, portalVars
<1>10. CASE DispatchReply
  <2>1. Head(inbox).of \in Stub
    BY <1>10, HeadOK DEF DispatchReply, Message
  <2>2. /\ UNCHANGED <<stub, pid, child, ext>>
        /\ \/ UNCHANGED request
           \/ /\ request[Head(inbox).of] = "called"
              /\ request' = [request EXCEPT ![Head(inbox).of] = "replied"]
    BY <1>10 DEF DispatchReply, AnswersPendingCall, stubVars, portalVars
  <2>3. CASE UNCHANGED request
    BY <1>1, <2>2, <2>3
  <2>4. CASE ~UNCHANGED request
    BY <1>2, <2>1, <2>2, <2>4
  <2> QED
    BY <2>3, <2>4
<1>11. CASE HandleSpawnReplyError \/ HandleSpawnReply
  BY <1>2, <1>11, JobOf DEF HandleSpawnReplyError, HandleSpawnReply, stubVars, portalVars
<1>12. ASSUME NEW s \in Stub, NEW p \in StubPid, Fork(s, p) PROVE PidsDistinct' /\ PidsGiven'
  BY <1>12 DEF Fork, portalVars, TypeOK
<1>13. ASSUME NEW s \in Stub, NEW e \in ExternalPid, PortalSpawns(s, e) PROVE PidsDistinct' /\ PidsGiven'
  BY <1>13 DEF PortalSpawns, stubVars, TypeOK, ProcessRunning, ProcessEnded
<1>14. ASSUME NEW s \in Stub, PortalRefuses(s) \/ PortalStarted(s) \/ PortalExited(s)
       PROVE  PidsDistinct' /\ PidsGiven'
  <2>1. UNCHANGED <<stub, pid, request, ext>>
    BY <1>14 DEF PortalRefuses, PortalStarted, PortalExited, stubVars
  <2>2. \/ child[s] = "requested" /\ child' = [child EXCEPT ![s] = "refused"]
        \/ child[s] \in {"spawned", "started"} /\
             \E v \in {"started", "exited", "stillborn"} : child' = [child EXCEPT ![s] = v]
    BY <1>14 DEF PortalRefuses, PortalStarted, PortalExited, ProcessRunning
  <2> QED
    BY <2>1, <2>2 DEF TypeOK, ProcessRunning, ProcessEnded
<1>15. ASSUME NEW t \in Thread, KernelWaitpid(t) \/ KernelKill(t)
       PROVE  PidsDistinct' /\ PidsGiven'
  <2>1. UNCHANGED <<pid, request, child, ext>>
    BY <1>15 DEF KernelWaitpid, KernelKill, portalVars
  <2>2. \A s \in Stub : \/ stub'[s] = stub[s]
                        \/ /\ stub[s] \in StubRunning \cup {"dead"}
                           /\ stub'[s] \in {"gone", "dead"}
    <3>1. CASE KernelWaitpid(t)
      <4>1. stub' = [s \in Stub |-> IF pid[s] = app[t].pid /\ stub[s] = "dead"
                                      THEN "gone" ELSE stub[s]]
        BY <3>1 DEF KernelWaitpid
      <4> QED
        BY <4>1
    <3>2. CASE KernelKill(t)
      <4>1. stub' = [s \in Stub |-> IF pid[s] = app[t].pid /\ stub[s] \in StubRunning
                                      THEN "dead" ELSE stub[s]]
        BY <3>2 DEF KernelKill
      <4> QED
        BY <4>1
    <3> QED
      BY <1>15, <3>1, <3>2
  <2>3. ASSUME NEW s \in Stub, stub[s] = "unborn" PROVE stub'[s] = "unborn"
    BY <2>2, <2>3 DEF StubRunning
  <2>4. ASSUME NEW s \in Stub, stub'[s] = "unborn" PROVE stub[s] = "unborn"
    BY <2>2, <2>4
  <2>5. ASSUME NEW s \in Stub, stub'[s] = "born" PROVE stub[s] = "born"
    BY <2>2, <2>5
  <2>6. ASSUME NEW s \in Stub, stub[s] = "gone" PROVE stub'[s] = "gone"
    BY <2>2, <2>6 DEF StubRunning, KernelWaitpid, KernelKill
  <2> QED
    BY <1>3, <2>1, <2>3, <2>4, <2>5, <2>6
<1>16. CASE UNCHANGED vars
  BY <1>1, <1>16 DEF vars
<1> HIDE DEF IInv, PidsDistinct, PidsGiven, StubGone, ProcessGone, Over
<1> QED
  BY <1>1, <1>4, <1>5, <1>6, <1>7, <1>8, <1>9, <1>10, <1>11, <1>12, <1>13, <1>14, <1>15, <1>16
  DEF Next, StubStep, BusStep, PortalStep, CallEnds, AppStep, WaiterContinues, KillerContinues,
      SendSpawnSignal, DispatchEvent, DispatchSignalled, HandleSpawnStarted, HandleSpawnExited,
      HandlerAborts, PortalSignalled, GetExitStatus, EvaluatePredicate, WaitForExitStatus,
      WakeUp, SpuriousWakeUp, SendSignal, CallSpawnSignal, SendSignalReturns, stubVars,
      portalVars, Thread

(* Every step keeps the messages under way right, those it sends included.  *)
LEMMA InboxStep ==
  ASSUME TypeOK, IInv, [Next]_vars, Settles
  PROVE  InboxOK'
<1> USE DEF IInv
<1>1. ASSUME NEW i \in 1..Len(inbox) PROVE \E m \in Message : m = inbox[i] /\ MessageOK(m)'
  <2>1. inbox[i] \in Message /\ MessageOK(inbox[i])
    BY ElementOfSeq DEF TypeOK, InboxOK
  <2>2. PICK m \in Message : m = inbox[i]
    BY <2>1
  <2> QED
    BY <2>1, <2>2, MessageStays
<1>2. Len(inbox) \in Nat
  BY LenProperties DEF TypeOK
<1>3. CASE UNCHANGED inbox
  BY <1>1, <1>3 DEF InboxOK, MessageOK
<1>4. ASSUME inbox # <<>>, inbox' = Tail(inbox) PROVE InboxOK'
  <2>1. /\ Len(inbox') = Len(inbox) - 1
        /\ \A i \in 1..Len(inbox') : inbox'[i] = inbox[i + 1]
    BY <1>4, HeadTailProperties DEF TypeOK
  <2>2. ASSUME NEW i \in 1..Len(inbox') PROVE MessageOK(inbox[i])'
    <3>1. i + 1 \in 1..Len(inbox) /\ inbox'[i] = inbox[i + 1]
      BY <1>2, <2>1
    <3>2. PICK m \in Message : m = inbox[i + 1] /\ MessageOK(m)'
      BY <1>1, <3>1
    <3> QED
      BY <3>1, <3>2 DEF MessageOK
  <2> QED
    BY <2>2 DEF InboxOK
<1>5. ASSUME NEW m \in Message, inbox' = Append(inbox, m), MessageOK(m)' PROVE InboxOK'
  <2>1. /\ Len(inbox') = Len(inbox) + 1
        /\ \A i \in 1..Len(inbox) : inbox'[i] = inbox[i]
        /\ inbox'[Len(inbox) + 1] = m
    BY <1>5, AppendProperties DEF TypeOK
  <2>2. ASSUME NEW i \in 1..Len(inbox') PROVE MessageOK(inbox[i])'
    <3>1. CASE i \in 1..Len(inbox)
      BY <1>1, <2>1, <3>1 DEF MessageOK
    <3>2. CASE i = Len(inbox) + 1
      BY <1>5, <2>1, <3>2 DEF MessageOK
    <3> QED
      BY <1>2, <2>1, <3>1, <3>2
  <2> QED
    BY <2>2 DEF InboxOK
<1>6. CASE DispatchReply \/ DispatchEvent \/ DispatchSignalled
  BY <1>4, <1>6 DEF DispatchReply, DispatchEvent, DispatchSignalled
<1>7. ASSUME NEW s \in Stub, NEW e \in ExternalPid, PortalSpawns(s, e) PROVE InboxOK'
  <2> DEFINE m == [type |-> "reply", of |-> s, ext |-> e]
  <2>1. m \in Message
    BY DEF Message
  <2>2. MessageOK(m)'
    BY <1>7 DEF PortalSpawns, MessageOK, TypeOK
  <2> QED
    BY <1>5, <1>7, <2>1, <2>2 DEF PortalSpawns, Send
<1>8. ASSUME NEW s \in Stub, PortalRefuses(s) PROVE InboxOK'
  <2> DEFINE m == [type |-> "reply", of |-> s, ext |-> None]
  <2>1. m \in Message /\ MessageOK(m)'
    BY DEF Message, MessageOK
  <2> QED
    BY <1>5, <1>8, <2>1 DEF PortalRefuses, Send
<1>9. ASSUME NEW s \in Stub, NEW type \in {"started", "exited"}, child[s] \in ProcessRunning,
             Send(type, s, ext[s]), UNCHANGED ext
      PROVE  InboxOK'
  <2> DEFINE m == [type |-> type, of |-> s, ext |-> ext[s]]
  <2>1. ext[s] \in ExternalPid /\ ext[s] # None
    BY <1>9, NoneAssumption DEF PidsGiven, ProcessRunning, TypeOK
  <2>2. m \in Message
    BY <2>1 DEF Message
  <2>3. MessageOK(m)'
    BY <1>9, <2>1 DEF MessageOK
  <2> QED
    BY <1>5, <1>9, <2>2, <2>3 DEF Send
<1>10. ASSUME NEW s \in Stub, PortalStarted(s) \/ PortalExited(s) PROVE InboxOK'
  BY <1>9, <1>10 DEF PortalStarted, PortalExited, ProcessRunning
<1>11. ASSUME NEW s \in Stub, CallTimesOut(s) PROVE InboxOK'
  <2> DEFINE m == [type |-> "timeout", of |-> s, ext |-> None]
  <2>1. m \in Message /\ MessageOK(m)'
    BY <1>11 DEF CallTimesOut, Message, MessageOK, TypeOK
  <2> QED
    BY <1>5, <1>11, <2>1 DEF CallTimesOut, Send
<1>12. ASSUME NEW t \in Killer, PortalSignalled(t) PROVE InboxOK'
  <2> DEFINE m == [type |-> "signalled", of |-> t, ext |-> None]
  <2>1. m \in Message /\ MessageOK(m)'
    BY DEF Message, MessageOK, Thread
  <2> QED
    BY <1>5, <1>12, <2>1 DEF PortalSignalled, Send
<1>13. CASE UNCHANGED vars
  BY <1>3, <1>13 DEF vars
<1> HIDE DEF IInv
<1> QED
  BY <1>3, <1>6, <1>7, <1>8, <1>10, <1>11, <1>12, <1>13
  DEF Next, StubStep, BusStep, PortalStep, CallEnds, AppStep, WaiterContinues, KillerContinues,
      OpenSpawnRequest, SendSpawnRequest, StubFails, ReadExitReply, HandleSpawnRequest,
      RejectSpawnRequest, SendSpawn, FulfillSpawnRequest, RegisterStub, SendSpawnSignal,
      HandleSpawnReplyError, HandleSpawnReply, HandleSpawnStarted, HandleSpawnExited,
      HandlerAborts, Fork, GetExitStatus, EvaluatePredicate, WaitForExitStatus,
      WakeUp, SpuriousWakeUp, KernelWaitpid, SendSignal, CallSpawnSignal, SendSignalReturns,
      KernelKill

(* Every step leaves the bus thread with a job that fits: what it handles is *)
(* the message it took, and that stays right meanwhile.                     *)
LEMMA JobStep ==
  ASSUME TypeOK, IInv, [Next]_vars, Settles
  PROVE  JobOK'
<1> USE DEF IInv
<1>1. ASSUME bus' = "idle" \/ bus' = "aborted" PROVE JobOK'
  BY <1>1 DEF JobOK
<1>2. ASSUME NEW v \in {"fulfill", "register"}, bus' = v, NEW s \in Stub,
             job' = Request(s), request'[s] = IF v = "fulfill" THEN "taken" ELSE "queued"
      PROVE  JobOK'
  BY <1>2 DEF JobOK, Request
<1>3. ASSUME bus' = "handle", NEW m \in Message, job' = m, m.type # "signalled", MessageOK(m)',
             m.type = "reply" => request'[m.of] = "replied"
      PROVE  JobOK'
  BY <1>3 DEF JobOK, MessageOK
<1>4. ASSUME UNCHANGED <<bus, job>>, bus = "handle" /\ job.type = "reply" => UNCHANGED request,
             bus \in {"fulfill", "register"} => UNCHANGED request
      PROVE  JobOK'
  <2>1. CASE bus = "handle"
    <3>1. job \in Message /\ MessageOK(job) /\ job.type # "signalled"
      BY <2>1 DEF JobOK
    <3>2. PICK m \in Message : m = job
      BY <3>1
    <3>3. MessageOK(m)'
      BY <3>1, <3>2, MessageStays
    <3> QED
      BY <1>3, <1>4, <2>1, <3>1, <3>2, <3>3, JobOf
  <2>2. CASE bus \in {"fulfill", "register"}
    BY <1>4, <2>2 DEF JobOK
  <2> QED
    BY <1>1, <1>4, <2>1, <2>2 DEF TypeOK
<1>5. CASE UNCHANGED <<bus, job, request>>
  BY <1>4, <1>5
<1>6. ASSUME NEW s \in Stub, OpenSpawnRequest(s) \/ CallTimesOut(s) PROVE JobOK'
  <2>1. UNCHANGED <<bus, job>> /\ request[s] \in {"none", "called"}
    BY <1>6 DEF OpenSpawnRequest, CallTimesOut, PidsGiven
  <2>2. \E v \in {"asked", "expired"} : request' = [request EXCEPT ![s] = v]
    BY <1>6 DEF OpenSpawnRequest, CallTimesOut
  <2>3. \A x \in Stub : x # s => request'[x] = request[x]
    BY <2>2 DEF TypeOK
  <2>4. CASE bus = "handle"
    <3>1. job \in Message /\ MessageOK(job) /\ job.type # "signalled"
      BY <2>4 DEF JobOK
    <3>2. PICK m \in Message : m = job
      BY <3>1
    <3>3. MessageOK(m)'
      BY <3>1, <3>2, MessageStays
    <3>4. m.type = "reply" => m.of \in Stub /\ m.of # s /\ request[m.of] = "replied"
      BY <2>1, <2>4, <3>2, JobOf
    <3> QED
      BY <1>3, <2>1, <2>3, <2>4, <3>1, <3>2, <3>3, <3>4
  <2>5. CASE bus \in {"fulfill", "register"}
    BY <2>1, <2>3, <2>5, JobOf DEF JobOK
  <2> QED
    BY <1>1, <2>1, <2>4, <2>5 DEF TypeOK
<1>7. ASSUME NEW s \in Stub, HandleSpawnRequest(s) PROVE JobOK'
  BY <1>2, <1>7 DEF HandleSpawnRequest, TypeOK
<1>8. ASSUME NEW s \in Stub, RejectSpawnRequest(s) \/ SendSpawn(s) PROVE JobOK'
  BY <1>1, <1>8 DEF RejectSpawnRequest, SendSpawn
<1>9. ASSUME NEW ok \in BOOLEAN, FulfillSpawnRequest(ok) PROVE JobOK'
  <2>1. PICK s \in Stub : job = Request(s)
    BY <1>9 DEF FulfillSpawnRequest, JobOK
  <2>2. job.of = s
    BY <2>1 DEF Request
  <2> QED
    BY <1>1, <1>2, <1>9, <2>1, <2>2 DEF FulfillSpawnRequest, TypeOK
<1>10. CASE DispatchReply \/ DispatchEvent
  <2>1. Head(inbox) \in Message /\ MessageOK(Head(inbox))
    BY <1>10, HeadOK DEF DispatchReply, DispatchEvent
  <2>2. PICK m \in Message : m = Head(inbox)
    BY <2>1
  <2>3. MessageOK(m)'
    BY <2>1, <2>2, MessageStays
  <2>4. CASE DispatchReply
    <3>1. m.type = "reply" /\ m.of \in Stub /\ bus = "idle"
      BY <2>2, <2>4 DEF DispatchReply, Message
    <3>2. CASE AnswersPendingCall(m)
      <4>1. bus' = "handle" /\ job' = m /\ request' = [request EXCEPT ![m.of] = "replied"]
        BY <2>2, <2>4, <3>2 DEF DispatchReply
      <4> QED
        BY <1>3, <2>3, <3>1, <4>1 DEF TypeOK
    <3>3. CASE ~AnswersPendingCall(m)
      BY <1>1, <2>2, <2>4, <3>1, <3>3 DEF DispatchReply
    <3> QED
      BY <3>2, <3>3
  <2>5. CASE DispatchEvent
    BY <1>3, <2>2, <2>3, <2>5 DEF DispatchEvent
  <2> QED
    BY <1>10, <2>4, <2>5
<1>11. CASE UNCHANGED vars
  BY <1>5, <1>11 DEF vars
<1> HIDE DEF IInv
<1> QED
  BY <1>1, <1>5, <1>6, <1>7, <1>8, <1>9, <1>10, <1>11
  DEF Next, StubStep, BusStep, PortalStep, CallEnds, AppStep, WaiterContinues, KillerContinues,
      SendSpawnRequest, StubFails, ReadExitReply, RegisterStub, SendSpawnSignal,
      DispatchSignalled, HandleSpawnReplyError, HandleSpawnReply, HandleSpawnStarted,
      HandleSpawnExited, HandlerAborts, PortalSpawns, PortalRefuses, PortalStarted,
      PortalExited, PortalSignalled, Fork, GetExitStatus, EvaluatePredicate,
      WaitForExitStatus, WakeUp, SpuriousWakeUp, KernelWaitpid, SendSignal, CallSpawnSignal,
      SendSignalReturns, KernelKill

(* Every step keeps messages in that order: a new process gets the number   *)
(* of an old one only after the old one's last message.                     *)
LEMMA OrderStep ==
  ASSUME ~ReuseHeld, TypeOK, IInv, [Next]_vars, Settles
  PROVE  OrderOK'
<1> USE DEF OrderOK, RepliesLast, LearnedOnly
<1>1. ASSUME UNCHANGED <<inbox, ext>>,
             UNCHANGED <<bus, job>> \/ bus' # "handle",
             \A s \in Stub : request'[s] = "called" => request[s] = "called" \/ ext[s] = None,
             \A s \in Stub : request'[s] = "done" => Learned(s)
      PROVE  OrderOK'
  <2>1. \A i \in 1..Len(inbox) : inbox[i] \in Message /\ MessageOK(inbox[i])
    BY ElementOfSeq DEF TypeOK, IInv, InboxOK
  <2>2. RepliesLast'
    BY <1>1, <2>1 DEF IInv, MessageOK, Message, About
  <2>3. LearnedOnly'
    BY <1>1 DEF IInv, Learned, InHand, About
  <2> QED
    BY <2>2, <2>3
<1>2. CASE UNCHANGED <<inbox, ext, bus, job, request>>
  BY <1>1, <1>2 DEF Learned
<1>3. ASSUME NEW s \in Stub, SendSpawn(s) PROVE OrderOK'
  BY <1>1, <1>3 DEF SendSpawn, TypeOK, IInv, PidsGiven, ProcessRunning, ProcessEnded, Learned
<1>4. ASSUME NEW s \in Stub,
             OpenSpawnRequest(s) \/ HandleSpawnRequest(s) \/ RejectSpawnRequest(s)
      PROVE  OrderOK'
  BY <1>1, <1>4
  DEF OpenSpawnRequest, HandleSpawnRequest, RejectSpawnRequest, TypeOK, Learned, portalVars
<1>5. ASSUME NEW ok \in BOOLEAN, FulfillSpawnRequest(ok) PROVE OrderOK'
  BY <1>1, <1>5, JobOf DEF FulfillSpawnRequest, IInv, TypeOK, Learned, portalVars
<1>6. CASE HandleSpawnReply
  BY <1>1, <1>6, JobOf DEF HandleSpawnReply, SpawnFailed, IInv, TypeOK, Learned, InHand, portalVars
<1>7. CASE HandleSpawnReplyError
  BY <1>1, <1>7, JobOf DEF HandleSpawnReplyError, IInv, TypeOK, Learned, portalVars
<1>8. CASE RegisterStub \/ HandleSpawnStarted \/ HandleSpawnExited \/ HandlerAborts
  BY <1>1, <1>8
  DEF RegisterStub, HandleSpawnStarted, HandleSpawnExited, HandlerAborts, Learned, portalVars
<1>9. CASE DispatchReply \/ DispatchEvent \/ DispatchSignalled
  <2>1. /\ Head(inbox) \in Message
        /\ 1 \in 1..Len(inbox) /\ Head(inbox) = inbox[1]
        /\ \A i \in 1..Len(inbox') : i + 1 \in 1..Len(inbox) /\ inbox'[i] = inbox[i + 1]
    BY <1>9, Taken DEF DispatchReply, DispatchEvent, DispatchSignalled
  <2>2. MessageOK(Head(inbox))
    BY <1>9, HeadOK DEF IInv, DispatchReply, DispatchEvent, DispatchSignalled
  <2>3. PICK m \in Message : m = Head(inbox)
    BY <2>1
  <2>4. UNCHANGED ext /\ bus = "idle"
    BY <1>9 DEF DispatchReply, DispatchEvent, DispatchSignalled, portalVars
  <2>5. \/ /\ m.type = "reply" /\ m.of \in Stub /\ request[m.of] = "called"
           /\ request' = [request EXCEPT ![m.of] = "replied"] /\ bus' = "handle" /\ job' = m
        \/ UNCHANGED <<request, bus, job>>
        \/ m.type \in {"timeout", "started", "exited"} /\ UNCHANGED request /\ job' = m
    BY <1>9, <2>3
    DEF DispatchReply, DispatchEvent, DispatchSignalled, AnswersPendingCall, Message
  <2>6. \A s \in Stub : /\ request'[s] = "called" => request[s] = "called"
                        /\ request'[s] = "done" => request[s] = "done"
    BY <2>5 DEF TypeOK
  <2>7. RepliesLast'
    <3> SUFFICES ASSUME NEW i \in 1..Len(inbox'), NEW k \in 1..Len(inbox'), i < k,
                        inbox'[i].type = "reply", inbox'[i].ext # None,
                        request'[inbox'[i].of] = "called",
                        About(inbox'[k], inbox'[i].ext)
                 PROVE  inbox'[k].of = inbox'[i].of
      BY DEF About
    <3>1. inbox'[i] = inbox[i + 1] /\ inbox'[k] = inbox[k + 1] /\ i + 1 < k + 1
      BY <2>1, LenProperties
    <3>2. inbox[i + 1] \in Message
      BY <2>1, ElementOfSeq DEF TypeOK
    <3>3. request[inbox[i + 1].of] = "called"
      BY <2>6, <3>1, <3>2 DEF Message
    <3> QED
      BY <2>1, <3>1, <3>3 DEF IInv
  <2>8. LearnedOnly'
    <3> SUFFICES ASSUME NEW s \in Stub, Learned(s)'
                 PROVE  /\ ext[s] # None
                        /\ \A i \in 1..Len(inbox') : About(inbox'[i], ext[s]) => inbox'[i].of = s
                        /\ bus' = "handle" /\ About(job', ext[s]) => job'.of = s
      BY <2>4 DEF About
    <3>1. CASE request[s] = "done"
      <4>1. /\ ext[s] # None
            /\ \A i \in 1..Len(inbox) : About(inbox[i], ext[s]) => inbox[i].of = s
        BY <3>1 DEF IInv, Learned
      <4>2. bus' = "handle" => job' = inbox[1]
        BY <2>1, <2>3, <2>4, <2>5
      <4> QED
        BY <2>1, <4>1, <4>2
    <3>2. CASE request[s] # "done"
      <4>1. /\ bus' = "handle" /\ job' = m /\ m.type = "reply" /\ m.of = s /\ m.ext # None
            /\ request[s] = "called"
        BY <2>4, <2>5, <2>6, <3>2 DEF Learned, InHand
      <4>2. m.ext = ext[s]
        BY <2>2, <2>3, <4>1 DEF MessageOK
      <4>3. ASSUME NEW i \in 1..Len(inbox'), About(inbox'[i], ext[s]) PROVE inbox'[i].of = s
        <5>1. 1 < i + 1 /\ i + 1 \in 1..Len(inbox) /\ inbox'[i] = inbox[i + 1]
          BY <2>1
        <5> QED
          BY <2>1, <2>3, <4>1, <4>2, <4>3, <5>1 DEF IInv
      <4> QED
        BY <4>1, <4>2, <4>3 DEF About
    <3> QED
      BY <3>1, <3>2
  <2> QED
    BY <2>7, <2>8
<1>10. ASSUME NEW m \in Message, inbox' = Append(inbox, m), UNCHANGED <<bus, job>>,
              \A s \in Stub : /\ request'[s] = "called" => request[s] = "called"
                              /\ request'[s] = "done" => request[s] = "done"
                              /\ Learned(s) => ext'[s] = ext[s],
              m.type \in {"started", "exited"} =>
                m.of \in Stub /\ child[m.of] \in ProcessRunning /\ m.ext = ext[m.of]
       PROVE  OrderOK'
  <2>1. \A i \in 1..Len(inbox') :
          \/ i \in 1..Len(inbox) /\ inbox'[i] = inbox[i]
          \/ i = Len(inbox) + 1 /\ inbox'[i] = m
    BY <1>10, Sent
  <2>2. Len(inbox) \in Nat
    BY LenProperties DEF TypeOK
  <2>3. ASSUME NEW s \in Stub, ext[s] # None, ~Over(s), About(m, ext[s]) PROVE m.of = s
    BY <1>10, <2>3 DEF About, IInv, PidsDistinct, ProcessGone, ProcessRunning, ProcessEnded
  <2>4. RepliesLast'
    <3> SUFFICES ASSUME NEW i \in 1..Len(inbox'), NEW k \in 1..Len(inbox'), i < k,
                        inbox'[i].type = "reply", inbox'[i].ext # None,
                        request'[inbox'[i].of] = "called",
                        About(inbox'[k], inbox'[i].ext)
                 PROVE  inbox'[k].of = inbox'[i].of
      BY DEF About
    <3>1. CASE i = Len(inbox) + 1
      <4>1. k \in 1..Len(inbox) \/ k = Len(inbox) + 1
        BY <2>1
      <4> QED
        BY <2>2, <3>1, <4>1
    <3>2. CASE i \in 1..Len(inbox) /\ inbox'[i] = inbox[i]
      <4>1. inbox[i] \in Message /\ MessageOK(inbox[i])
        BY <3>2, ElementOfSeq DEF TypeOK, IInv, InboxOK
      <4>2. inbox[i].of \in Stub /\ request[inbox[i].of] = "called" /\ inbox[i].ext = ext[inbox[i].of]
        BY <1>10, <3>2, <4>1 DEF Message, MessageOK
      <4>3. CASE k \in 1..Len(inbox) /\ inbox'[k] = inbox[k]
        BY <3>2, <4>2, <4>3 DEF IInv
      <4>4. CASE k = Len(inbox) + 1 /\ inbox'[k] = m
        BY <2>3, <3>2, <4>2, <4>4 DEF Over
      <4> QED
        BY <2>1, <4>3, <4>4
    <3> QED
      BY <2>1, <3>1, <3>2
  <2>5. LearnedOnly'
    <3> SUFFICES ASSUME NEW s \in Stub, Learned(s)'
                 PROVE  /\ ext'[s] # None
                        /\ \A i \in 1..Len(inbox') : About(inbox'[i], ext'[s]) => inbox'[i].of = s
                        /\ bus' = "handle" /\ About(job', ext'[s]) => job'.of = s
      BY DEF About
    <3>1. Learned(s)
      BY <1>10 DEF Learned, InHand
    <3>2. ext'[s] = ext[s] /\ ext[s] # None
      BY <1>10, <3>1 DEF IInv
    <3>3. ~Over(s)
      BY <3>1 DEF Learned, InHand, Over, IInv, JobOK
    <3> QED
      BY <1>10, <2>1, <2>3, <3>1, <3>2, <3>3 DEF IInv
  <2> QED
    BY <2>4, <2>5
<1>11. ASSUME NEW s \in Stub, NEW e \in ExternalPid, PortalSpawns(s, e) PROVE OrderOK'
  <2> DEFINE m == [type |-> "reply", of |-> s, ext |-> e]
  <2>1. m \in Message /\ m.type = "reply"
    BY DEF Message
  <2>2. ext[s] = None
    BY <1>11 DEF PortalSpawns, IInv, PidsGiven, ProcessRunning, ProcessEnded
  <2>3. \A x \in Stub : Learned(x) => ext'[x] = ext[x]
    BY <1>11, <2>2 DEF PortalSpawns, IInv, TypeOK
  <2>4. inbox' = Append(inbox, m) /\ UNCHANGED <<bus, job, request>>
    BY <1>11 DEF PortalSpawns, Send
  <2> HIDE DEF m
  <2> QED
    BY <1>10, <2>1, <2>3, <2>4
<1>12. ASSUME NEW s \in Stub, NEW type \in {"started", "exited"}, child[s] \in ProcessRunning,
              Send(type, s, ext[s]), UNCHANGED <<bus, job, request, ext>>
       PROVE  OrderOK'
  <2> DEFINE m == [type |-> type, of |-> s, ext |-> ext[s]]
  <2>1. ext[s] \in ExternalPid
    BY <1>12, NoneAssumption DEF IInv, PidsGiven, ProcessRunning, TypeOK
  <2>2. m \in Message /\ m.of = s /\ m.ext = ext[s]
    BY <2>1 DEF Message
  <2>3. inbox' = Append(inbox, m)
    BY <1>12 DEF Send
  <2> HIDE DEF m
  <2> QED
    BY <1>10, <1>12, <2>2, <2>3
<1>13. ASSUME NEW s \in Stub, PortalStarted(s) \/ PortalExited(s) PROVE OrderOK'
  BY <1>12, <1>13 DEF PortalStarted, PortalExited, ProcessRunning
<1>14. ASSUME NEW x \in Stub \cup Killer, NEW type \in {"reply", "timeout", "signalled"},
              type = "signalled" <=> x \in Killer, Send(type, x, None),
              UNCHANGED <<bus, job, ext>>,
              \A s \in Stub : /\ request'[s] = "called" => request[s] = "called"
                              /\ request'[s] = "done" => request[s] = "done"
       PROVE  OrderOK'
  <2> DEFINE m == [type |-> type, of |-> x, ext |-> None]
  <2>1. m \in Message /\ m.type \notin {"started", "exited"}
    BY <1>14, DisjointAssumption DEF Message, Thread
  <2>2. inbox' = Append(inbox, m)
    BY <1>14 DEF Send
  <2> HIDE DEF m
  <2> QED
    BY <1>10, <1>14, <2>1, <2>2
<1>15. ASSUME NEW s \in Stub, PortalRefuses(s) \/ CallTimesOut(s) PROVE OrderOK'
  BY <1>14, <1>15, DisjointAssumption
  DEF PortalRefuses, CallTimesOut, TypeOK, Thread, portalVars
<1>16. ASSUME NEW t \in Killer, PortalSignalled(t) PROVE OrderOK'
  BY <1>14, <1>16 DEF PortalSignalled, portalVars
<1>17. CASE UNCHANGED vars
  BY <1>2, <1>17 DEF vars
<1> HIDE DEF OrderOK, RepliesLast, LearnedOnly
<1> QED
  BY <1>2, <1>3, <1>4, <1>5, <1>6, <1>7, <1>8, <1>9, <1>11, <1>13, <1>15, <1>16, <1>17
  DEF Next, StubStep, BusStep, PortalStep, CallEnds, AppStep, WaiterContinues, KillerContinues,
      SendSpawnRequest, StubFails, ReadExitReply, SendSpawnSignal, Fork, GetExitStatus,
      EvaluatePredicate, WaitForExitStatus, WakeUp, SpuriousWakeUp, KernelWaitpid, SendSignal,
      CallSpawnSignal, SendSignalReturns, KernelKill, portalVars

(* The tables, by what a step may do to them: nothing, take an entry away,  *)
(* or one of the three that write to an entry.                              *)
TablesOK == MappingsOK /\ EntriesOK /\ TablesMatch

(* Leaving the tables alone, or taking entries away, keeps them consistent. *)
LEMMA EntriesTaken ==
  ASSUME TypeOK, TablesOK, Settles, UNCHANGED external_to_stub_pids,
         \A p \in StubPid : stub_pids_data'[p] \in {stub_pids_data[p], None}
  PROVE  TablesOK'
  BY NoneAssumption DEF TypeOK, TablesOK, MappingsOK, EntriesOK, TablesMatch, Settles,
     Registered, FindsStubPidData, FindAsserts, StubPidData
(* Registering a stub: nothing leads to its pid yet.                        *)
LEMMA TablesRegister ==
  ASSUME TypeOK, IInv, RegisterStub, Settles
  PROVE  TablesOK'
<1> DEFINE p == pid[job.of]
           data == IF Registered(p) THEN stub_pids_data[p] ELSE NewStubPidData
           entry == [data EXCEPT !.notify_exit = None]
<1>1. job.of \in Stub /\ request[job.of] = "queued"
  BY JobOf DEF IInv, RegisterStub
<1>2. p \in StubPid
  BY <1>1 DEF IInv, PidsGiven, TypeOK
<1>3. stub_pids_data' = [stub_pids_data EXCEPT ![p] = entry]
  BY DEF RegisterStub, CommunicationFd
<1>4. entry.external = data.external /\ entry.internal = data.internal /\ entry # None
  <2>1. data \in StubPidData
    BY <1>2, NoneAssumption DEF Registered, NewStubPidData, StubPidData, TypeOK
  <2>2. entry = [external |-> data.external, internal |-> data.internal,
                 exit_status |-> data.exit_status, notify_exit |-> None]
    <3> HIDE DEF data
    <3> QED
      BY <2>1 DEF StubPidData
  <2>3. entry \in StubPidData
    <3> HIDE DEF data
    <3> QED
      BY <2>1, <2>2 DEF StubPidData
  <2> QED
    BY <2>2, <2>3, EntryAssumption
<1>5. \A e \in ExternalPid : external_to_stub_pids[e] # p
  BY <1>1, <1>2, NoneAssumption DEF IInv, MappingsOK, PidsDistinct, StubGone, Over
<1>6. Registered(p) => /\ entry.external = stub_pids_data[p].external
                       /\ entry.internal = stub_pids_data[p].internal
  BY <1>4
<1>7. ~Registered(p) => entry.external = None /\ entry.internal = None
  BY <1>4 DEF NewStubPidData
<1>8. UNCHANGED <<external_to_stub_pids, pid, ext, request>>
  BY DEF RegisterStub, stubVars, portalVars
<1>9. MappingsOK'
  BY <1>8, NoneAssumption DEF IInv, MappingsOK, Settles, TypeOK
<1> HIDE DEF data, entry, p
<1>10. \A q \in StubPid : Registered(q)' =>
           \/ q = p
           \/ Registered(q) /\ stub_pids_data'[q] = stub_pids_data[q]
  <2>1. \A q \in StubPid : q # p => stub_pids_data'[q] = stub_pids_data[q]
    BY <1>3 DEF TypeOK
  <2> QED
    BY <2>1 DEF Registered
<1>11. stub_pids_data'[p] = entry
  BY <1>2, <1>3 DEF TypeOK
<1>12. EntriesOK'
  BY <1>6, <1>7, <1>8, <1>10, <1>11 DEF IInv, EntriesOK, Registered
<1>13. TablesMatch'
  <2>1. \A q \in StubPid : Registered(q)' /\ stub_pids_data'[q].external # None =>
          /\ Registered(q)
          /\ stub_pids_data'[q].external = stub_pids_data[q].external
    BY <1>6, <1>7, <1>10, <1>11
  <2>2. \A e \in ExternalPid : FindsStubPidData(e)' =>
          /\ FindsStubPidData(e)
          /\ stub_pids_data'[external_to_stub_pids[e]] = stub_pids_data[external_to_stub_pids[e]]
    BY <1>5, <1>8, <1>10 DEF FindsStubPidData, TypeOK, Registered
  <2> QED
    BY <1>8, <2>1, <2>2 DEF IInv, TablesMatch, FindAsserts
<1> QED
  BY <1>9, <1>12, <1>13 DEF TablesOK

(* A reply: no other stub has its external pid, so the mapping is new.      *)
LEMMA TablesReply ==
  ASSUME TypeOK, IInv, HandleSpawnReply, Settles
  PROVE  TablesOK'
<1> DEFINE p == pid[job.of]
           e == job.ext
<1>1. /\ job.of \in Stub /\ request[job.of] = "replied"
      /\ e \in ExternalPid /\ e = ext[job.of]
  BY JobOf, NoneAssumption DEF IInv, HandleSpawnReply, SpawnFailed
<1>2. /\ UNCHANGED <<pid, ext>>
      /\ request' = [request EXCEPT ![job.of] = "done"]
  BY DEF HandleSpawnReply, stubVars, portalVars
<1>3. CASE ~Registered(p)
  <2>1. UNCHANGED <<stub_pids_data, external_to_stub_pids>>
    BY <1>3 DEF HandleSpawnReply, tableVars
  <2> QED
    BY <2>1, EntriesTaken DEF IInv, TablesOK
<1>4. CASE Registered(p)
  <2>1. p \in StubPid
    BY <1>1 DEF IInv, PidsGiven, TypeOK
  <2>2. external_to_stub_pids[e] = None /\ \A x \in ExternalPid : external_to_stub_pids[x] # p
    BY <1>1, <2>1, NoneAssumption
    DEF IInv, MappingsOK, PidsDistinct, StubGone, ProcessGone, Over
  <2>3. /\ stub_pids_data' = [stub_pids_data EXCEPT ![p].external = e]
        /\ external_to_stub_pids' = [external_to_stub_pids EXCEPT ![e] = p]
    BY <1>4, <2>2 DEF HandleSpawnReply, SetExternal, EmplaceExternal
  <2>4. stub_pids_data[p] \in StubPidData
    BY <1>4, <2>1 DEF Registered, TypeOK
  <2>5. /\ stub_pids_data'[p] \in StubPidData
        /\ stub_pids_data'[p].external = e
        /\ stub_pids_data'[p].internal = stub_pids_data[p].internal
    BY <1>1, <2>1, <2>3, <2>4 DEF StubPidData, TypeOK
  <2>6. stub_pids_data[p].external = None
    BY <1>4, <2>1, <2>2, <2>4 DEF IInv, TablesMatch, StubPidData
  <2>7. stub_pids_data[p].internal = None
    BY <1>4, <2>1, <2>6 DEF IInv, EntriesOK
  <2>8. \A q \in StubPid : q # p => stub_pids_data'[q] = stub_pids_data[q]
    BY <2>3 DEF TypeOK
  <2>9. \A x \in ExternalPid : external_to_stub_pids'[x] =
                         IF x = e THEN p ELSE external_to_stub_pids[x]
    BY <1>1, <2>3 DEF TypeOK
  <2> HIDE DEF p, e
  <2>10. MappingsOK'
    <3>1. request'[job.of] = "done"
      BY <1>1, <1>2 DEF TypeOK
    <3>2. pid'[job.of] = p /\ ext'[job.of] = e
      BY <1>1, <1>2 DEF p
    <3> QED
      BY <1>1, <1>2, <2>9, <3>1, <3>2, NoneAssumption DEF IInv, MappingsOK, Settles
  <2>11. EntriesOK'
    BY <1>2, <2>5, <2>7, <2>8 DEF IInv, EntriesOK, Registered
  <2>12. TablesMatch'
    <3>1. ASSUME NEW q \in StubPid, Registered(q)', stub_pids_data'[q].external # None
          PROVE  external_to_stub_pids'[stub_pids_data'[q].external] = q
      <4>1. CASE q = p
        BY <1>1, <2>5, <2>9, <4>1
      <4>2. CASE q # p
        <5>1. Registered(q) /\ stub_pids_data'[q] = stub_pids_data[q]
          BY <2>8, <3>1, <4>2 DEF Registered
        <5>2. stub_pids_data[q].external \in ExternalPid
          BY <3>1, <5>1 DEF Registered, TypeOK, StubPidData
        <5>3. external_to_stub_pids[stub_pids_data[q].external] = q
          BY <3>1, <5>1 DEF IInv, TablesMatch
        <5>4. stub_pids_data[q].external # e
          BY <2>2, <5>3, NoneAssumption
        <5> QED
          BY <2>9, <5>1, <5>2, <5>3, <5>4
      <4> QED
        BY <4>1, <4>2
    <3>2. ASSUME NEW x \in ExternalPid, FindsStubPidData(x)' PROVE FindAsserts(x)'
      <4>1. CASE x = e
        BY <2>5, <2>9, <4>1 DEF FindAsserts
      <4>2. CASE x # e
        <5>1. external_to_stub_pids'[x] = external_to_stub_pids[x]
          BY <2>9, <4>2
        <5>2. external_to_stub_pids[x] # p /\ external_to_stub_pids[x] \in StubPid
          BY <2>2, <3>2, <5>1 DEF FindsStubPidData, TypeOK
        <5>3. stub_pids_data'[external_to_stub_pids[x]] = stub_pids_data[external_to_stub_pids[x]]
          BY <2>8, <5>2
        <5> QED
          BY <3>2, <5>1, <5>3 DEF IInv, TablesMatch, FindsStubPidData, FindAsserts, Registered
      <4> QED
        BY <4>1, <4>2
    <3> QED
      BY <3>1, <3>2 DEF TablesMatch
  <2> QED
    BY <2>10, <2>11, <2>12 DEF TablesOK
<1> QED
  BY <1>3, <1>4

(* A started message: the entry it finds is that of the stub it is about.   *)
LEMMA TablesStarted ==
  ASSUME TypeOK, IInv, HandleSpawnStarted, Settles
  PROVE  TablesOK'
<1> DEFINE p == external_to_stub_pids[job.ext]
<1>1. job.of \in Stub /\ job.ext \in ExternalPid /\ job.ext = ext[job.of]
  BY JobOf DEF IInv, HandleSpawnStarted
<1>2. UNCHANGED <<pid, ext, request, external_to_stub_pids>>
  BY DEF HandleSpawnStarted, stubVars, portalVars
<1>3. CASE ~FindsStubPidData(job.ext)
  <2>1. UNCHANGED stub_pids_data
    BY <1>3 DEF HandleSpawnStarted
  <2> QED
    BY <1>2, <2>1, EntriesTaken DEF IInv, TablesOK
<1>4. CASE FindsStubPidData(job.ext)
  <2>1. p \in StubPid /\ p # None /\ Registered(p)
    BY <1>1, <1>4 DEF FindsStubPidData, TypeOK
  <2>2. stub_pids_data[p].external = job.ext
    BY <1>1, <1>4 DEF IInv, TablesMatch, FindAsserts
  <2>3. pid[job.of] = p /\ request[job.of] = "done"
    BY <1>1, <2>1 DEF IInv, MappingsOK, OrderOK, LearnedOnly, Learned, About, HandleSpawnStarted
  <2>4. stub_pids_data' = [stub_pids_data EXCEPT ![p].internal = job.of]
    BY <1>4 DEF HandleSpawnStarted, EntryOf, InternalPid
  <2>5. stub_pids_data[p] \in StubPidData
    BY <2>1 DEF Registered, TypeOK
  <2>6. /\ stub_pids_data'[p] \in StubPidData
        /\ stub_pids_data'[p].external = job.ext
        /\ stub_pids_data'[p].internal = job.of
    BY <1>1, <2>1, <2>2, <2>4, <2>5 DEF StubPidData, TypeOK
  <2>7. stub_pids_data'[p] # None
    BY <2>6, EntryAssumption
  <2>8. \A q \in StubPid : q # p => stub_pids_data'[q] = stub_pids_data[q]
    BY <2>4 DEF TypeOK
  <2>9. \A q \in StubPid : /\ Registered(q)' <=> Registered(q)
                            /\ stub_pids_data'[q].external = stub_pids_data[q].external
    BY <2>1, <2>2, <2>6, <2>7, <2>8 DEF Registered
  <2> HIDE DEF p
  <2>10. MappingsOK'
    BY <1>2 DEF IInv, MappingsOK
  <2>11. EntriesOK'
    BY <1>1, <1>2, <2>3, <2>6, <2>8, NoneAssumption DEF IInv, EntriesOK, Registered
  <2>12. TablesMatch'
    BY <1>2, <2>9 DEF IInv, TablesMatch, FindsStubPidData, FindAsserts, TypeOK
  <2> QED
    BY <2>10, <2>11, <2>12 DEF TablesOK
<1> QED
  BY <1>3, <1>4

(* Every step keeps them consistent.                                        *)
LEMMA TablesStep ==
  ASSUME TypeOK, NotifyExitInvalid, IInv, [Next]_vars, Settles
  PROVE  TablesOK'
<1>1. CASE UNCHANGED <<stub_pids_data, external_to_stub_pids>>
  BY <1>1, EntriesTaken DEF IInv, TablesOK
<1>2. CASE HandleSpawnReplyError
  BY <1>2, EntriesTaken DEF IInv, TablesOK, HandleSpawnReplyError, Erase, TypeOK
<1>3. CASE HandleSpawnExited
  <2>1. job.ext \in ExternalPid
    BY <1>3, JobOf DEF IInv, HandleSpawnExited
  <2>2. UNCHANGED <<stub_pids_data, external_to_stub_pids>>
    BY <1>3, <2>1 DEF HandleSpawnExited, FindsStubPidData, NotifyExitInvalid, TypeOK
  <2> QED
    BY <1>1, <2>2
<1>4. ASSUME NEW t \in Waiter, NEW p, GetExitStatus(t, p) \/ EvaluatePredicate(t, p)
      PROVE  TablesOK'
  <2>1. /\ UNCHANGED external_to_stub_pids
        /\ stub_pids_data' = Erase(p) \/ stub_pids_data' = stub_pids_data
    BY <1>4 DEF GetExitStatus, EvaluatePredicate
  <2> QED
    BY <2>1, EntriesTaken DEF IInv, TablesOK, Erase, TypeOK
<1>5. CASE UNCHANGED vars
  BY <1>1, <1>5 DEF vars
<1> QED
  BY <1>1, <1>2, <1>3, <1>4, <1>5, TablesRegister, TablesReply, TablesStarted
  DEF Next, StubStep, BusStep, PortalStep, CallEnds, AppStep, WaiterContinues, KillerContinues,
      OpenSpawnRequest, SendSpawnRequest, StubFails, ReadExitReply, HandleSpawnRequest,
      RejectSpawnRequest, SendSpawn, FulfillSpawnRequest, SendSpawnSignal, DispatchReply,
      DispatchEvent, DispatchSignalled, HandlerAborts, PortalSpawns, PortalRefuses,
      CallTimesOut, PortalStarted, PortalExited, PortalSignalled, Fork, WaitForExitStatus,
      WakeUp, SpuriousWakeUp, KernelWaitpid, SendSignal, CallSpawnSignal,
      SendSignalReturns, KernelKill, tableVars

(* The assertion holds of every process's messages.                         *)
LEMMA AssertionStep ==
  ASSUME TypeOK, IInv, [Next]_vars
  PROVE  AssertionHolds'
<1>1. ~HandlerAborts
  BY JobOf DEF IInv, HandlerAborts, TablesMatch, FindAsserts
<1>2. CASE UNCHANGED bus
  BY <1>2 DEF IInv, AssertionHolds
<1>3. CASE bus' # "aborted"
  BY <1>3 DEF AssertionHolds
<1>4. CASE UNCHANGED vars
  BY <1>2, <1>4 DEF vars
<1> QED
  BY <1>1, <1>2, <1>3, <1>4
  DEF Next, StubStep, BusStep, PortalStep, CallEnds, AppStep, WaiterContinues, KillerContinues,
      OpenSpawnRequest, SendSpawnRequest, StubFails, ReadExitReply, HandleSpawnRequest,
      RejectSpawnRequest, SendSpawn, FulfillSpawnRequest, RegisterStub, SendSpawnSignal,
      DispatchReply, DispatchEvent, DispatchSignalled, HandleSpawnReplyError,
      HandleSpawnReply, HandleSpawnStarted, HandleSpawnExited, PortalSpawns, PortalRefuses,
      CallTimesOut, PortalStarted, PortalExited, PortalSignalled, Fork, GetExitStatus,
      EvaluatePredicate, WaitForExitStatus, WakeUp, SpuriousWakeUp, KernelWaitpid, SendSignal,
      CallSpawnSignal, SendSignalReturns, KernelKill

(* Every step keeps the inductive invariant.                                *)
LEMMA InvStep ==
  ASSUME ~ReuseHeld
  PROVE  TypeOK /\ NotifyExitInvalid /\ IInv /\ [Next]_vars => IInv'
<1> SUFFICES ASSUME TypeOK, NotifyExitInvalid, IInv, [Next]_vars PROVE IInv'
  OBVIOUS
<1>1. Settles
  BY SettleStep
<1> QED
  BY <1>1, PidsStep, InboxStep, JobStep, OrderStep, TablesStep, AssertionStep DEF IInv, TablesOK

(* The first state satisfies it.                                            *)
LEMMA InvInit == Init => IInv
  BY EmptySeq, NoneAssumption
  DEF Init, IInv, PidsDistinct, PidsGiven, InboxOK, JobOK, OrderOK, RepliesLast, LearnedOnly,
      Learned, InHand, MappingsOK, EntriesOK, TablesMatch, AssertionHolds, Registered,
      FindsStubPidData, FindAsserts, ProcessRunning, ProcessEnded

(* It is an invariant.                                                      *)
LEMMA InvCorrect == ASSUME ~ReuseHeld PROVE Spec => []IInv
  BY InvInit, InvStep, TypeCorrect, ExitStatusUnreachable, PTL DEF Spec

(* As long as the kernels give away only numbers that the supervisor has    *)
(* done with, its two tables always agree,                                  *)
(* and the assertion of FindStubPidData never aborts the application ...    *)
THEOREM TablesAlwaysAgree == ASSUME ~ReuseHeld PROVE Spec => []TablesAgree
<1>1. IInv => TablesAgree
  BY DEF IInv, TablesAgree
<1> QED
  BY <1>1, InvCorrect, PTL

(* ... and no entry holds the process of another stub.                      *)
THEOREM InternalAlwaysRight == ASSUME ~ReuseHeld PROVE Spec => []RightInternal
<1>1. TypeOK /\ IInv => RightInternal
  <2> SUFFICES ASSUME TypeOK, IInv, NEW p \in StubPid, Registered(p)
               PROVE  LET data == stub_pids_data[p] IN
                        /\ data.internal # None =>
                             pid[data.internal] = p /\ ext[data.internal] = data.external
                        /\ data.external # None =>
                             \E s \in Stub : pid[s] = p /\ ext[s] = data.external
    BY DEF RightInternal
  <2>1. stub_pids_data[p].external \in ExternalPid \cup {None}
    BY DEF Registered, TypeOK, StubPidData
  <2>2. stub_pids_data[p].external # None =>
          external_to_stub_pids[stub_pids_data[p].external] = p
    BY DEF IInv, TablesMatch
  <2> QED
    BY <2>1, <2>2, NoneAssumption DEF IInv, EntriesOK, MappingsOK
<1> QED
  BY <1>1, InvCorrect, TypeCorrect, PTL

-----------------------------------------------------------------------------
(* Nobody is stranded, whatever numbers the kernels use again.              *)

(* What becomes of stubs is simpler than it should be: each is let go as    *)
(* soon as its request has been read.                                       *)
LetGo ==
  \A s \in Stub : stub[s] \in {"opened", "waiting"} =>
    s \in ended \/ request[s] = "asked" \/ (bus = "fulfill" /\ job.of = s)

(* A stub that has not asked has no request, and one whose request has not  *)
(* been sent has no process; what the bus thread is busy with is not        *)
(* through.                                                                 *)
FreshOK ==
  \A s \in Stub :
    /\ stub[s] \in {"unborn", "born"} => request[s] = "none"
    /\ request[s] \in {"none", "asked", "taken", "queued"} => child[s] = "none"

BusyOK ==
  /\ bus = "fulfill" => job.of \in Stub /\ request[job.of] = "taken"
  /\ bus = "handle" =>
       /\ job.of \in Stub
       /\ job.type = "reply" => request[job.of] = "replied"
       /\ job.type = "timeout" => request[job.of] \in {"expired", "failed"}

(* A timeout on its way is that of a call that has expired.                 *)
TimeoutsOK ==
  \A i \in 1..Len(inbox) :
    inbox[i].type = "timeout" => request[inbox[i].of] \in {"expired", "failed"}

(* An answer on its way is for a thread that waits for it, and is the only  *)
(* one for it.                                                              *)
SignalsOK ==
  \A i \in 1..Len(inbox) :
    inbox[i].type = "signalled" =>
      /\ inbox[i].of \in Killer
      /\ app[inbox[i].of].at = "replied"
      /\ \A j \in 1..Len(inbox) :
           inbox[j].type = "signalled" /\ inbox[j].of = inbox[i].of => j = i

RequestsInv == LetGo /\ CallsPursued /\ FreshOK /\ BusyOK /\ TimeoutsOK
SignalsInv  == SignalPursued /\ SignalsOK

(* A step that takes no request further and lets nobody's end be reopened.  *)
LEMMA RequestsSame ==
  ASSUME RequestsInv, UNCHANGED <<request, bus, job, child, inbox>>, ended \subseteq ended',
         \A s \in Stub : /\ stub'[s] \in {"opened", "waiting"} => stub[s] \in {"opened", "waiting"}
                         /\ stub'[s] \in {"unborn", "born"} => stub[s] \in {"unborn", "born"}
  PROVE  RequestsInv'
  BY DEF RequestsInv, LetGo, CallsPursued, FreshOK, BusyOK, TimeoutsOK, InInbox, InHand

(* Every step of a stub or of the bus thread keeps those invariants, and    *)
(* every step of the portal.                                                *)
LEMMA RequestsStub ==
  ASSUME TypeOK, RequestsInv, NEW s \in Stub, StubStep(s)
  PROVE  RequestsInv'
<1>1. CASE OpenSpawnRequest(s)
  <2>1. /\ request[s] = "none"
        /\ request' = [request EXCEPT ![s] = "asked"] /\ stub' = [stub EXCEPT ![s] = "opened"]
        /\ UNCHANGED <<ended, bus, job, child, inbox>>
    BY <1>1 DEF OpenSpawnRequest, RequestsInv, FreshOK, portalVars
  <2> QED
    BY <2>1 DEF TypeOK, RequestsInv, LetGo, CallsPursued, FreshOK, BusyOK, TimeoutsOK, InInbox, InHand
<1>2. CASE SendSpawnRequest(s) \/ StubFails(s) \/ ReadExitReply(s)
  <2>1. /\ UNCHANGED <<request, bus, job, child, inbox, ended>>
        /\ \/ stub[s] = "opened" /\ stub' = [stub EXCEPT ![s] = "waiting"]
           \/ stub' = [stub EXCEPT ![s] = "dead"]
    BY <1>2 DEF SendSpawnRequest, StubFails, ReadExitReply, portalVars
  <2> QED
    BY <2>1, RequestsSame DEF TypeOK
<1> QED
  BY <1>1, <1>2 DEF StubStep

(* A request is read, refused, fulfilled, registered or sent.               *)
LEMMA RequestsTaken ==
  ASSUME TypeOK, RequestsInv,
         \/ \E s \in Stub : HandleSpawnRequest(s) \/ RejectSpawnRequest(s) \/ SendSpawn(s)
         \/ \E ok \in BOOLEAN : FulfillSpawnRequest(ok)
         \/ RegisterStub
  PROVE  RequestsInv'
<1> USE DEF TypeOK, RequestsInv, LetGo, CallsPursued, FreshOK, BusyOK, TimeoutsOK, InInbox, InHand
<1>1. ASSUME NEW s \in Stub, HandleSpawnRequest(s) PROVE RequestsInv'
  BY <1>1 DEF HandleSpawnRequest, Request, stubVars, portalVars
<1>2. ASSUME NEW s \in Stub, RejectSpawnRequest(s) PROVE RequestsInv'
  BY <1>2 DEF RejectSpawnRequest, HangUp, stubVars, portalVars
<1>3. ASSUME NEW s \in Stub, SendSpawn(s) PROVE RequestsInv'
  BY <1>3 DEF SendSpawn, stubVars
<1>4. ASSUME NEW ok \in BOOLEAN, FulfillSpawnRequest(ok) PROVE RequestsInv'
  <2>1. /\ bus = "fulfill" /\ job.of \in Stub /\ request[job.of] = "taken" /\ stub[job.of] # "opened"
        /\ ended' = ended \cup {job.of} /\ UNCHANGED <<stub, child, inbox>>
        /\ \/ bus' = "register" /\ request' = [request EXCEPT ![job.of] = "queued"]
           \/ bus' = "idle" /\ request' = [request EXCEPT ![job.of] = "dropped"]
    BY <1>4 DEF FulfillSpawnRequest, HangUp, stubVars, portalVars
  <2>2. PICK v \in {"queued", "dropped"} : request' = [request EXCEPT ![job.of] = v]
    BY <2>1
  <2>3. bus' \in {"register", "idle"}
    BY <2>1
  <2>4. LetGo' /\ FreshOK' /\ BusyOK' /\ TimeoutsOK'
    BY <2>1, <2>2, <2>3
  <2>5. \A s \in Stub : request'[s] = request[s] \/ request'[s] = v
    BY <2>1, <2>2
  <2>6. \A s \in Stub : request[s] = "taken" => s = job.of
    BY <2>1
  <2> QED
    BY <2>1, <2>2, <2>3, <2>4, <2>5, <2>6
<1>5. CASE RegisterStub
  BY <1>5 DEF RegisterStub, stubVars, portalVars
<1> QED
  BY <1>1, <1>2, <1>3, <1>4, <1>5

(* A message is taken from the inbox.                                       *)
LEMMA RequestsDispatched ==
  ASSUME TypeOK, RequestsInv, DispatchReply \/ DispatchEvent \/ DispatchSignalled
  PROVE  RequestsInv'
<1>1. /\ Head(inbox) \in Message
      /\ 1 \in 1..Len(inbox) /\ Head(inbox) = inbox[1]
      /\ \A u, v : InInbox(u, v) => InInbox(u, v)' \/ (Head(inbox).type = u /\ Head(inbox).of = v)
      /\ \A i \in 1..Len(inbox') : i + 1 \in 1..Len(inbox) /\ inbox'[i] = inbox[i + 1]
  BY Taken DEF DispatchReply, DispatchEvent, DispatchSignalled
<1>2. bus = "idle" /\ UNCHANGED <<stub, ended, child>>
  BY DEF DispatchReply, DispatchEvent, DispatchSignalled, stubVars, portalVars
<1>3. PICK m : m = Head(inbox)
  OBVIOUS
<1>4. m.type # "signalled" => m.of \in Stub
  BY <1>1, <1>3 DEF Message
<1>5. \/ /\ m.type = "reply" /\ request[m.of] = "called"
         /\ request' = [request EXCEPT ![m.of] = "replied"] /\ bus' = "handle" /\ job' = m
      \/ /\ m.type = "reply" /\ request[m.of] # "called" /\ UNCHANGED <<request, bus, job>>
      \/ m.type \in {"timeout", "started", "exited"} /\ UNCHANGED request /\ bus' = "handle" /\ job' = m
      \/ m.type = "signalled" /\ UNCHANGED <<request, bus, job>>
  BY <1>3 DEF DispatchReply, DispatchEvent, DispatchSignalled, AnswersPendingCall
<1>6. TimeoutsOK'
  <2>1. ASSUME NEW i \in 1..Len(inbox'), inbox'[i].type = "timeout"
        PROVE  request'[inbox'[i].of] \in {"expired", "failed"}
    <3>1. request[inbox'[i].of] \in {"expired", "failed"}
      BY <1>1, <2>1 DEF RequestsInv, TimeoutsOK
    <3>2. inbox[i + 1] \in Message /\ inbox'[i] = inbox[i + 1]
      BY <1>1, ElementOfSeq DEF TypeOK
    <3>3. inbox'[i].of \in Stub
      BY <2>1, <3>2 DEF Message
    <3> QED
      BY <1>4, <1>5, <3>1, <3>3 DEF TypeOK
  <2> QED
    BY <2>1 DEF TimeoutsOK
<1>7. m.type = "timeout" => request[m.of] \in {"expired", "failed"}
  BY <1>1, <1>3 DEF RequestsInv, TimeoutsOK
<1>8. BusyOK' /\ FreshOK' /\ LetGo'
  BY <1>2, <1>4, <1>5, <1>7 DEF TypeOK, RequestsInv, LetGo, FreshOK, BusyOK
<1>9. CallsPursued'
  <2> SUFFICES ASSUME NEW s \in Stub
               PROVE  /\ request'[s] = "taken"   => bus' = "fulfill" /\ job'.of = s
                      /\ request'[s] = "called"  => child'[s] = "requested" \/ InInbox("reply", s)'
                      /\ request'[s] = "expired" => InInbox("timeout", s)' \/ InHand("timeout", s)'
                      /\ request'[s] = "replied" => InHand("reply", s)'
    BY DEF CallsPursued
  <2>1. /\ request[s] = "called" => child[s] = "requested" \/ InInbox("reply", s)
        /\ request[s] = "expired" => InInbox("timeout", s)
        /\ request[s] \notin {"taken", "replied"}
    BY <1>2 DEF RequestsInv, CallsPursued, InHand
  <2>2. request'[s] = request[s] \/ (request'[s] = "replied" /\ m.of = s /\ m.type = "reply" /\ bus' = "handle" /\ job' = m)
    BY <1>4, <1>5 DEF TypeOK
  <2>3. InInbox("reply", s) => InInbox("reply", s)' \/ (m.type = "reply" /\ m.of = s)
    BY <1>1, <1>3
  <2>4. InInbox("timeout", s) => InInbox("timeout", s)' \/ (m.type = "timeout" /\ m.of = s)
    BY <1>1, <1>3
  <2> QED
    BY <1>2, <1>5, <2>1, <2>2, <2>3, <2>4 DEF InHand, TypeOK
<1> QED
  BY <1>6, <1>8, <1>9 DEF RequestsInv

(* A message is handled.                                                    *)
LEMMA RequestsHandled ==
  ASSUME TypeOK, RequestsInv,
         \/ HandleSpawnReply \/ HandleSpawnReplyError \/ HandleSpawnStarted \/ HandleSpawnExited
         \/ HandlerAborts
  PROVE  RequestsInv'
<1> USE DEF TypeOK, RequestsInv, LetGo, CallsPursued, FreshOK, BusyOK, TimeoutsOK, InInbox, InHand
<1>1. CASE HandleSpawnReply
  BY <1>1 DEF HandleSpawnReply, SpawnFailed, stubVars, portalVars, Message
<1>2. CASE HandleSpawnReplyError
  BY <1>2 DEF HandleSpawnReplyError, stubVars, portalVars
<1>3. CASE HandleSpawnStarted
  BY <1>3 DEF HandleSpawnStarted, stubVars, portalVars
<1>4. CASE HandleSpawnExited
  <2>1. ended \subseteq ended'
    BY <1>4 DEF HandleSpawnExited
  <2> QED
    BY <1>4, <2>1 DEF HandleSpawnExited, stubVars, portalVars
<1>5. CASE HandlerAborts
  BY <1>5 DEF HandlerAborts, stubVars, portalVars
<1> QED
  BY <1>1, <1>2, <1>3, <1>4, <1>5

(* The portal or a timeout answers.                                         *)
LEMMA RequestsAnswered ==
  ASSUME TypeOK, RequestsInv, PortalStep
  PROVE  RequestsInv'
<1>1. ASSUME NEW m \in Message, inbox' = Append(inbox, m), m.type # "timeout",
             UNCHANGED <<stub, ended, request, bus, job>>,
             \A s \in Stub : child[s] = "requested" => child'[s] = "requested" \/ InInbox("reply", s)',
             \A s \in Stub : child[s] = "none" => child'[s] = "none"
      PROVE  RequestsInv'
  <2>1. /\ \A u, v : InInbox(u, v) => InInbox(u, v)'
        /\ \A i \in 1..Len(inbox') :
             \/ i \in 1..Len(inbox) /\ inbox'[i] = inbox[i]
             \/ i = Len(inbox) + 1 /\ inbox'[i] = m
    BY <1>1, Sent
  <2>2. TimeoutsOK'
    BY <1>1, <2>1 DEF RequestsInv, TimeoutsOK
  <2>3. LetGo' /\ FreshOK' /\ BusyOK'
    BY <1>1 DEF RequestsInv, LetGo, FreshOK, BusyOK
  <2>4. CallsPursued'
    BY <1>1, <2>1 DEF RequestsInv, CallsPursued, InHand
  <2> QED
    BY <2>2, <2>3, <2>4 DEF RequestsInv
<1>2. ASSUME NEW s \in Stub, NEW e \in ExternalPid \cup {None}, Send("reply", s, e),
             NEW v, child[s] = "requested", child' = [child EXCEPT ![s] = v],
             UNCHANGED <<stub, ended, request, bus, job>>
      PROVE  RequestsInv'
  <2> DEFINE m == [type |-> "reply", of |-> s, ext |-> e]
  <2>1. m \in Message /\ m.type = "reply" /\ m.of = s
    BY DEF Message
  <2>2. inbox' = Append(inbox, m)
    BY <1>2 DEF Send
  <2> HIDE DEF m
  <2>3. InInbox("reply", s)'
    BY <2>1, <2>2, Sent
  <2> QED
    BY <1>1, <1>2, <2>1, <2>2, <2>3 DEF TypeOK
<1>3. ASSUME NEW s \in Stub, PortalStarted(s) \/ PortalExited(s) PROVE RequestsInv'
  <2>1. PICK type \in {"started", "exited"} : Send(type, s, ext[s])
    BY <1>3 DEF PortalStarted, PortalExited
  <2> DEFINE m == [type |-> type, of |-> s, ext |-> ext[s]]
  <2>2. child[s] \in ProcessRunning /\ ext[s] \in ExternalPid
    BY <1>3, NoneAssumption DEF PortalStarted, PortalExited, ProcessRunning, TypeOK
  <2>3. m \in Message /\ m.type # "timeout"
    BY <2>2 DEF Message
  <2>4. inbox' = Append(inbox, m)
    BY <2>1 DEF Send
  <2> HIDE DEF m
  <2>5. UNCHANGED <<stub, ended, request, bus, job>>
    BY <1>3 DEF PortalStarted, PortalExited, stubVars
  <2>6. \A x \in Stub : /\ child[x] = "requested" => child'[x] = "requested"
                        /\ child[x] = "none" => child'[x] = "none"
    BY <1>3, <2>2 DEF PortalStarted, PortalExited, ProcessRunning, TypeOK
  <2> QED
    BY <1>1, <2>3, <2>4, <2>5, <2>6
<1>4. ASSUME NEW s \in Stub, CallTimesOut(s) PROVE RequestsInv'
  <2> DEFINE m == [type |-> "timeout", of |-> s, ext |-> None]
  <2>1. m \in Message /\ m.type = "timeout" /\ m.of = s
    BY DEF Message
  <2>2. inbox' = Append(inbox, m)
    BY <1>4 DEF CallTimesOut, Send
  <2> HIDE DEF m
  <2>3. /\ InInbox("timeout", s)'
        /\ \A u, v : InInbox(u, v) => InInbox(u, v)'
        /\ \A i \in 1..Len(inbox') :
             \/ i \in 1..Len(inbox) /\ inbox'[i] = inbox[i]
             \/ i = Len(inbox) + 1 /\ inbox'[i] = m
    BY <2>1, <2>2, Sent
  <2>4. /\ request[s] = "called" /\ request' = [request EXCEPT ![s] = "expired"]
        /\ UNCHANGED <<stub, ended, bus, job, child>>
    BY <1>4 DEF CallTimesOut, stubVars, portalVars
  <2>5. TimeoutsOK'
    BY <2>1, <2>3, <2>4 DEF RequestsInv, TimeoutsOK, TypeOK
  <2>6. LetGo' /\ FreshOK' /\ BusyOK'
    BY <2>4 DEF RequestsInv, LetGo, FreshOK, BusyOK, TypeOK
  <2>7. CallsPursued'
    BY <2>3, <2>4 DEF RequestsInv, CallsPursued, InHand, TypeOK
  <2> QED
    BY <2>5, <2>6, <2>7 DEF RequestsInv
<1>5. ASSUME NEW t \in Killer, PortalSignalled(t) PROVE RequestsInv'
  <2> DEFINE m == [type |-> "signalled", of |-> t, ext |-> None]
  <2>1. m \in Message /\ m.type # "timeout"
    BY DEF Message, Thread
  <2>2. inbox' = Append(inbox, m)
    BY <1>5 DEF PortalSignalled, Send
  <2> HIDE DEF m
  <2> QED
    BY <1>1, <1>5, <2>1, <2>2 DEF PortalSignalled, stubVars, portalVars
<1>6. ASSUME NEW s \in Stub, PortalRefuses(s) PROVE RequestsInv'
  BY <1>2, <1>6 DEF PortalRefuses, stubVars
<1>7. ASSUME NEW s \in Stub, NEW e \in ExternalPid, PortalSpawns(s, e) PROVE RequestsInv'
  BY <1>2, <1>7 DEF PortalSpawns, stubVars
<1> QED
  BY <1>3, <1>4, <1>5, <1>6, <1>7 DEF PortalStep, CallEnds

(* A thread forks, waits, signals or goes on.                               *)
LEMMA RequestsApp ==
  ASSUME TypeOK, RequestsInv, AppStep
  PROVE  RequestsInv'
<1>1. ASSUME NEW s \in Stub, NEW p \in StubPid, Fork(s, p) PROVE RequestsInv'
  <2>1. /\ UNCHANGED <<request, bus, job, child, inbox, ended>>
        /\ stub[s] = "unborn" /\ stub' = [stub EXCEPT ![s] = "born"]
    BY <1>1 DEF Fork, portalVars
  <2> QED
    BY <2>1, RequestsSame DEF TypeOK
<1>2. ASSUME NEW t \in Waiter, NEW p, EvaluatePredicate(t, p) \/ GetExitStatus(t, p) PROVE RequestsInv'
  <2>1. UNCHANGED <<stub, request, bus, job, child, inbox>> /\ ended \subseteq ended'
    BY <1>2 DEF EvaluatePredicate, GetExitStatus, stubVars, portalVars
  <2> QED
    BY <2>1, RequestsSame
<1>3. ASSUME NEW t \in Thread, KernelWaitpid(t) \/ KernelKill(t) PROVE RequestsInv'
  <2>1. UNCHANGED <<request, bus, job, child, inbox, ended>>
    BY <1>3 DEF KernelWaitpid, KernelKill, portalVars
  <2>2. \A s \in Stub : stub'[s] \in {stub[s], "dead", "gone"}
    <3>1. CASE KernelWaitpid(t)
      <4>1. stub' = [s \in Stub |-> IF pid[s] = app[t].pid /\ stub[s] = "dead"
                                      THEN "gone" ELSE stub[s]]
        BY <3>1 DEF KernelWaitpid
      <4> QED
        BY <4>1
    <3>2. CASE KernelKill(t)
      <4>1. stub' = [s \in Stub |-> IF pid[s] = app[t].pid /\ stub[s] \in StubRunning
                                      THEN "dead" ELSE stub[s]]
        BY <3>2 DEF KernelKill
      <4> QED
        BY <4>1
    <3> QED
      BY <1>3, <3>1, <3>2
  <2> QED
    BY <2>1, <2>2, RequestsSame
<1>4. ASSUME NEW t \in Thread,
             \/ SpuriousWakeUp(t) \/ CallSpawnSignal(t) \/ SendSignalReturns(t)
             \/ \E p \in StubPid : SendSignal(t, p)
      PROVE  RequestsInv'
  BY <1>4, RequestsSame DEF SpuriousWakeUp, CallSpawnSignal, SendSignalReturns, SendSignal, stubVars, portalVars
<1> QED
  BY <1>1, <1>2, <1>3, <1>4 DEF AppStep, WaiterContinues, KillerContinues, WaitForExitStatus, WakeUp, Thread

(* So every step keeps them.                                                *)
LEMMA RequestsStep ==
  ASSUME TypeOK, RequestsInv, [Next]_vars
  PROVE  RequestsInv'
<1>1. ASSUME NEW t \in Killer, SendSpawnSignal(t) PROVE RequestsInv'
  BY <1>1, RequestsSame DEF SendSpawnSignal, stubVars, portalVars
<1>2. CASE BusStep
  BY <1>1, <1>2, RequestsTaken, RequestsDispatched, RequestsHandled DEF BusStep
<1>3. CASE UNCHANGED vars
  BY <1>3, RequestsSame DEF vars, stubVars, portalVars
<1> QED
  BY <1>2, <1>3, RequestsStub, RequestsHandled, RequestsAnswered, RequestsApp DEF Next

(* A step that neither answers a signal nor takes the mutex or leaves it.   *)
LEMMA SignalsSame ==
  ASSUME SignalsInv, UNCHANGED <<lock, inbox>>,
         \A t \in Killer :
           /\ app'[t].at \in InSpawnSignal <=> app[t].at \in InSpawnSignal
           /\ app'[t].at = "replied" <=> app[t].at = "replied"
  PROVE  SignalsInv'
  BY DEF SignalsInv, SignalPursued, SignalsOK, InInbox

(* The bus thread sends a signal, takes a message or handles one.           *)
LEMMA SignalsBus ==
  ASSUME TypeOK, SignalsInv, BusStep \/ HandlerAborts
  PROVE  SignalsInv'
<1>1. ASSUME NEW t \in Killer, SendSpawnSignal(t) PROVE SignalsInv'
  <2>1. /\ app[t].at = "queued" /\ app' = [app EXCEPT ![t].at = "sent"] /\ UNCHANGED <<lock, inbox>>
    BY <1>1 DEF SendSpawnSignal
  <2>2. \A x \in Killer : app'[x].at = IF x = t THEN "sent" ELSE app[x].at
    BY <2>1 DEF TypeOK, Thread, ThreadState
  <2> QED
    BY <2>1, <2>2, SignalsSame DEF InSpawnSignal
<1>2. CASE HandleSpawnStarted \/ HandleSpawnExited
  <2>1. app' = NotifyAll(app) /\ UNCHANGED <<lock, inbox>>
    BY <1>2 DEF HandleSpawnStarted, HandleSpawnExited
  <2>2. \A t \in Thread : app'[t].at = IF app[t].at = "waiting" THEN "woken" ELSE app[t].at
    BY <2>1 DEF NotifyAll, TypeOK, ThreadState
  <2> QED
    BY <2>1, <2>2, SignalsSame DEF InSpawnSignal, Thread
<1>3. CASE UNCHANGED <<lock, inbox, app>>
  BY <1>3, SignalsSame
<1>4. CASE DispatchReply \/ DispatchEvent \/ DispatchSignalled
  <2>1. /\ Head(inbox) \in Message
        /\ 1 \in 1..Len(inbox) /\ Head(inbox) = inbox[1]
        /\ \A u, v : InInbox(u, v) => InInbox(u, v)' \/ (Head(inbox).type = u /\ Head(inbox).of = v)
        /\ \A i \in 1..Len(inbox') : i + 1 \in 1..Len(inbox) /\ inbox'[i] = inbox[i + 1]
    BY <1>4, Taken DEF DispatchReply, DispatchEvent, DispatchSignalled
  <2>2. UNCHANGED lock
    BY <1>4 DEF DispatchReply, DispatchEvent, DispatchSignalled
  <2>3. \/ Head(inbox).type # "signalled" /\ UNCHANGED app
        \/ /\ Head(inbox).type = "signalled"
           /\ app' = [app EXCEPT ![Head(inbox).of].at = "answered"]
    BY <1>4 DEF DispatchReply, DispatchEvent, DispatchSignalled
  <2>4. PICK m : m = Head(inbox)
    OBVIOUS
  <2>5. m.type = "signalled" => m.of \in Killer /\ app[m.of].at = "replied"
    BY <2>1, <2>4 DEF SignalsInv, SignalsOK
  <2>6. \A t \in Killer : app'[t].at = IF m.type = "signalled" /\ t = m.of THEN "answered" ELSE app[t].at
    BY <2>3, <2>4, <2>5 DEF TypeOK, Thread, ThreadState
  <2>7. SignalPursued'
    BY <2>1, <2>2, <2>4, <2>5, <2>6 DEF SignalsInv, SignalPursued, InSpawnSignal
  <2>8. ASSUME NEW i \in 1..Len(inbox'), inbox'[i].type = "signalled"
        PROVE  /\ inbox'[i].of \in Killer
               /\ app'[inbox'[i].of].at = "replied"
               /\ \A j \in 1..Len(inbox') :
                    inbox'[j].type = "signalled" /\ inbox'[j].of = inbox'[i].of => j = i
    <3>1. i + 1 \in 1..Len(inbox) /\ inbox'[i] = inbox[i + 1] /\ i \in Nat /\ i + 1 # 1
      BY <2>1
    <3>2. /\ inbox[i + 1].of \in Killer /\ app[inbox[i + 1].of].at = "replied"
          /\ \A j \in 1..Len(inbox) :
               inbox[j].type = "signalled" /\ inbox[j].of = inbox[i + 1].of => j = i + 1
      BY <2>8, <3>1 DEF SignalsInv, SignalsOK
    <3>3. ~ (m.type = "signalled" /\ m.of = inbox[i + 1].of)
      BY <2>1, <2>4, <3>1, <3>2
    <3>4. ASSUME NEW j \in 1..Len(inbox'), inbox'[j].type = "signalled", inbox'[j].of = inbox'[i].of
          PROVE  j = i
      <4>1. j + 1 \in 1..Len(inbox) /\ inbox'[j] = inbox[j + 1] /\ j \in Nat
        BY <2>1
      <4>2. j + 1 = i + 1
        BY <3>1, <3>2, <3>4, <4>1
      <4> QED
        BY <3>1, <4>1, <4>2
    <3> QED
      BY <2>6, <3>1, <3>2, <3>3, <3>4
  <2> QED
    BY <2>7, <2>8 DEF SignalsInv, SignalsOK
<1> QED
  BY <1>1, <1>2, <1>3, <1>4
  DEF BusStep, HandleSpawnRequest, RejectSpawnRequest, SendSpawn, FulfillSpawnRequest, RegisterStub,
      HandleSpawnReply, HandleSpawnReplyError, HandlerAborts

(* A message about a process says nothing of a signal, and a signal is      *)
(* answered once.                                                           *)
LEMMA SignalsPortal ==
  ASSUME TypeOK, SignalsInv, PortalStep
  PROVE  SignalsInv'
<1>1. ASSUME NEW m \in Message, inbox' = Append(inbox, m), m.type # "signalled", UNCHANGED <<lock, app>>
      PROVE  SignalsInv'
  <2>1. /\ \A u, v : InInbox(u, v) => InInbox(u, v)'
        /\ \A i \in 1..Len(inbox') :
             \/ i \in 1..Len(inbox) /\ inbox'[i] = inbox[i]
             \/ i = Len(inbox) + 1 /\ inbox'[i] = m
    BY <1>1, Sent
  <2>2. SignalPursued'
    BY <1>1, <2>1 DEF SignalsInv, SignalPursued
  <2>3. \A i \in 1..Len(inbox') : inbox'[i].type = "signalled" => i \in 1..Len(inbox) /\ inbox'[i] = inbox[i]
    BY <1>1, <2>1
  <2>4. SignalsOK'
    BY <1>1, <2>3 DEF SignalsInv, SignalsOK
  <2> QED
    BY <2>2, <2>4 DEF SignalsInv
<1>2. ASSUME NEW s \in Stub, CallEnds(s) \/ PortalStarted(s) \/ PortalExited(s) PROVE SignalsInv'
  <2>1. PICK type \in {"reply", "timeout", "started", "exited"}, e \in ExternalPid \cup {None} :
          /\ type \in {"started", "exited"} => e \in ExternalPid
          /\ inbox' = Append(inbox, [type |-> type, of |-> s, ext |-> e])
    <3>1. CASE CallEnds(s)
      BY <3>1 DEF CallEnds, PortalSpawns, PortalRefuses, CallTimesOut, Send
    <3>2. CASE PortalStarted(s) \/ PortalExited(s)
      <4>1. ext[s] \in ExternalPid
        BY <3>2, NoneAssumption DEF PortalStarted, PortalExited, ProcessRunning, TypeOK
      <4> QED
        BY <3>2, <4>1 DEF PortalStarted, PortalExited, Send
    <3> QED
      BY <1>2, <3>1, <3>2
  <2> DEFINE m == [type |-> type, of |-> s, ext |-> e]
  <2>2. m \in Message /\ m.type # "signalled"
    BY <2>1 DEF Message
  <2>3. inbox' = Append(inbox, m)
    BY <2>1
  <2> HIDE DEF m
  <2> QED
    BY <1>1, <1>2, <2>2, <2>3
    DEF CallEnds, PortalSpawns, PortalRefuses, CallTimesOut, PortalStarted, PortalExited
<1>3. ASSUME NEW t \in Killer, PortalSignalled(t) PROVE SignalsInv'
  <2> DEFINE m == [type |-> "signalled", of |-> t, ext |-> None]
  <2>1. m \in Message /\ m.type = "signalled" /\ m.of = t
    BY DEF Message, Thread
  <2>2. inbox' = Append(inbox, m)
    BY <1>3 DEF PortalSignalled, Send
  <2> HIDE DEF m
  <2>3. /\ InInbox("signalled", t)'
        /\ \A u, v : InInbox(u, v) => InInbox(u, v)'
        /\ \A i \in 1..Len(inbox') :
             \/ i \in 1..Len(inbox) /\ inbox'[i] = inbox[i]
             \/ i = Len(inbox) + 1 /\ inbox'[i] = m
    BY <2>1, <2>2, Sent
  <2>4. app[t].at = "sent" /\ UNCHANGED lock
        /\ \A x \in Killer : app'[x].at = IF x = t THEN "replied" ELSE app[x].at
    BY <1>3 DEF PortalSignalled, TypeOK, Thread, ThreadState
  <2>5. SignalPursued'
    BY <2>3, <2>4 DEF SignalsInv, SignalPursued, InSpawnSignal
  <2>6. \A i \in 1..Len(inbox) : inbox[i].type = "signalled" => inbox[i].of # t
    BY <2>4 DEF SignalsInv, SignalsOK
  <2>7. SignalsOK'
    <3>1. ASSUME NEW i \in 1..Len(inbox'), inbox'[i].type = "signalled",
                 NEW j \in 1..Len(inbox'), inbox'[j].type = "signalled", inbox'[j].of = inbox'[i].of
          PROVE  j = i
      BY <2>1, <2>3, <2>6, <3>1 DEF SignalsInv, SignalsOK
    <3>2. ASSUME NEW i \in 1..Len(inbox'), inbox'[i].type = "signalled"
          PROVE  inbox'[i].of \in Killer /\ app'[inbox'[i].of].at = "replied"
      BY <2>1, <2>3, <2>4, <3>2 DEF SignalsInv, SignalsOK
    <3> QED
      BY <3>1, <3>2 DEF SignalsOK
  <2> QED
    BY <2>5, <2>7 DEF SignalsInv
<1> QED
  BY <1>2, <1>3 DEF PortalStep

(* A thread takes the mutex as it enters SpawnSignal and frees it on return. *)
LEMMA SignalsApp ==
  ASSUME TypeOK, SignalsInv, AppStep
  PROVE  SignalsInv'
<1>1. ASSUME NEW t \in Waiter, NEW next, next.at \notin InSpawnSignal, app[t].at \notin InSpawnSignal,
             app' = [app EXCEPT ![t] = next] \/ app' = [NotifyAll(app) EXCEPT ![t] = next],
             UNCHANGED <<lock, inbox>>
      PROVE  SignalsInv'
  <2>1. \A x \in Thread : app'[x].at \in IF x = t THEN {next.at}
                                         ELSE {app[x].at} \cup (IF app[x].at = "waiting" THEN {"woken"} ELSE {})
    <3>1. \A x \in Thread : NotifyAll(app)[x].at = IF app[x].at = "waiting" THEN "woken" ELSE app[x].at
      BY DEF NotifyAll, TypeOK, ThreadState
    <3>2. NotifyAll(app) = [x \in Thread |-> NotifyAll(app)[x]] /\ app = [x \in Thread |-> app[x]]
      BY DEF NotifyAll, TypeOK
    <3>3. \A x \in Thread : app'[x] = (IF x = t THEN next ELSE app[x])
                           \/ app'[x] = (IF x = t THEN next ELSE NotifyAll(app)[x])
      <4>1. CASE app' = [app EXCEPT ![t] = next]
        BY <3>2, <4>1
      <4>2. CASE app' = [NotifyAll(app) EXCEPT ![t] = next]
        <5> HIDE DEF NotifyAll
        <5> QED
          BY <3>2, <4>2
      <4> QED
        BY <1>1, <4>1, <4>2
    <3> QED
      BY <3>1, <3>3
  <2> QED
    BY <1>1, <2>1, SignalsSame DEF InSpawnSignal, Thread
<1>2. ASSUME NEW t \in Waiter, NEW p, GetExitStatus(t, p) PROVE SignalsInv'
  <2>1. PICK next : next = IF Exited(p) THEN [at |-> "waitpid", pid |-> p]
                           ELSE IF Registered(p) THEN Idle
                           ELSE [at |-> "poll", pid |-> p]
    OBVIOUS
  <2>2. next.at \in {"waitpid", "poll", "idle"}
    BY <2>1 DEF Idle
  <2>3. app' = [NotifyAll(app) EXCEPT ![t] = next]
    BY <1>2, <2>1 DEF GetExitStatus
  <2>4. app[t].at = "idle" /\ UNCHANGED <<lock, inbox>>
    BY <1>2 DEF GetExitStatus
  <2> QED
    BY <1>1, <2>2, <2>3, <2>4 DEF InSpawnSignal
<1>3. ASSUME NEW t \in Waiter, NEW p, app[t].at \in {"idle", "woken"}, EvaluatePredicate(t, p)
      PROVE  SignalsInv'
  <2>1. PICK next : next = [at |-> IF WaitsOn(p) THEN "waiting" ELSE "waitpid", pid |-> p]
    OBVIOUS
  <2>2. next.at \in {"waiting", "waitpid"}
    BY <2>1
  <2>3. app' = [app EXCEPT ![t] = next] /\ UNCHANGED <<lock, inbox>>
    BY <1>3, <2>1 DEF EvaluatePredicate
  <2> QED
    BY <1>1, <1>3, <2>2, <2>3 DEF InSpawnSignal
<1>4. ASSUME NEW t \in Waiter, KernelWaitpid(t) PROVE SignalsInv'
  BY <1>1, <1>4 DEF KernelWaitpid, Idle, InSpawnSignal
<1>5. ASSUME NEW t \in Waiter, SpuriousWakeUp(t) PROVE SignalsInv'
  <2>1. \A x \in Thread : app'[x].at = IF x = t THEN "woken" ELSE app[x].at
    BY <1>5 DEF SpuriousWakeUp, TypeOK, Thread, ThreadState
  <2> QED
    BY <1>5, <2>1, SignalsSame DEF SpuriousWakeUp, InSpawnSignal, Thread
<1>6. ASSUME NEW t \in Killer, NEW p \in StubPid, SendSignal(t, p) PROVE SignalsInv'
  <2>1. /\ app[t].at = "idle" /\ lock = None /\ UNCHANGED inbox
        /\ \/ lock' = t /\ app' = [app EXCEPT ![t] = [at |-> "call", pid |-> p]]
           \/ lock' = lock /\ app' = [app EXCEPT ![t] = [at |-> "kill", pid |-> p]]
    BY <1>6 DEF SendSignal, MutexFree
  <2>2. t # None
    BY NoneAssumption DEF Thread
  <2>3. \A x \in Killer : x # t => app'[x] = app[x]
    BY <2>1 DEF TypeOK, Thread
  <2>4. app'[t].at = IF lock' = t THEN "call" ELSE "kill"
    BY <2>1, <2>2 DEF TypeOK, Thread
  <2>5. \A x \in Killer : app[x].at \notin InSpawnSignal /\ x # None
    BY <2>1, NoneAssumption DEF SignalsInv, SignalPursued, Thread
  <2>6. SignalPursued'
    BY <2>1, <2>2, <2>3, <2>4, <2>5 DEF SignalPursued, InSpawnSignal
  <2>7. SignalsOK'
    BY <2>1, <2>3 DEF SignalsInv, SignalsOK
  <2> QED
    BY <2>6, <2>7 DEF SignalsInv
<1>7. ASSUME NEW t \in Killer, CallSpawnSignal(t) PROVE SignalsInv'
  <2>1. \A x \in Thread : app'[x].at = IF x = t THEN "queued" ELSE app[x].at
    BY <1>7 DEF CallSpawnSignal, TypeOK, Thread, ThreadState
  <2> QED
    BY <1>7, <2>1, SignalsSame DEF CallSpawnSignal, InSpawnSignal, Thread
<1>8. ASSUME NEW t \in Killer, SendSignalReturns(t) PROVE SignalsInv'
  <2>1. /\ app[t].at = "answered" /\ lock' = None /\ UNCHANGED inbox
        /\ \A x \in Killer : app'[x].at = IF x = t THEN "idle" ELSE app[x].at
    BY <1>8 DEF SendSignalReturns, TypeOK, Thread, Idle
  <2>2. lock = t /\ \A x \in Killer : x # None
    BY <2>1, NoneAssumption DEF SignalsInv, SignalPursued, InSpawnSignal, Thread
  <2>3. SignalPursued'
    BY <2>1, <2>2 DEF SignalsInv, SignalPursued, InSpawnSignal, InInbox
  <2>4. SignalsOK'
    BY <2>1 DEF SignalsInv, SignalsOK
  <2> QED
    BY <2>3, <2>4 DEF SignalsInv
<1>9. ASSUME NEW t \in Killer, KernelKill(t) PROVE SignalsInv'
  <2>1. app[t].at = "kill" /\ \A x \in Thread : app'[x].at = IF x = t THEN "idle" ELSE app[x].at
    BY <1>9 DEF KernelKill, TypeOK, Thread, Idle
  <2> QED
    BY <1>9, <2>1, SignalsSame DEF KernelKill, InSpawnSignal, Thread
<1>10. ASSUME NEW s \in Stub, NEW p \in StubPid, Fork(s, p) PROVE SignalsInv'
  BY <1>10, SignalsSame DEF Fork
<1> QED
  BY <1>2, <1>3, <1>4, <1>5, <1>6, <1>7, <1>8, <1>9, <1>10
  DEF AppStep, WaiterContinues, KillerContinues, WaitForExitStatus, WakeUp

(* No stub, no request and no thread in SpawnSignal is ever stranded,       *)
(* whether or not numbers are used again.                                   *)
THEOREM NobodyEverStranded == Spec => []NobodyStranded
<1>1. Init => RequestsInv /\ SignalsInv
  BY EmptySeq, NoneAssumption
  DEF Init, RequestsInv, SignalsInv, LetGo, CallsPursued, FreshOK, BusyOK, TimeoutsOK, SignalPursued,
      SignalsOK, InSpawnSignal, Idle, Thread
<1>2. TypeOK /\ SignalsInv /\ [Next]_vars => SignalsInv'
  <2>1. ASSUME SignalsInv, UNCHANGED <<lock, inbox, app>> PROVE SignalsInv'
    BY <2>1, SignalsSame
  <2> QED
    BY <2>1, SignalsBus, SignalsPortal, SignalsApp
    DEF Next, StubStep, OpenSpawnRequest, SendSpawnRequest, StubFails, ReadExitReply, vars
<1>3. RequestsInv /\ SignalsInv => NobodyStranded
  <2>1. ASSUME RequestsInv, NEW s \in Stub, stub[s] = "waiting", NothingToCome(s) PROVE s \in ended
    <3>1. request[s] \notin {"asked", "taken"}
      BY <2>1 DEF NothingToCome, RequestsInv, FreshOK, ProcessEnded
    <3> QED
      BY <2>1, <3>1 DEF RequestsInv, LetGo, BusyOK
  <2> QED
    BY <2>1 DEF RequestsInv, SignalsInv, NobodyStranded, StubServed
<1> QED
  BY <1>1, <1>2, <1>3, RequestsStep, TypeCorrect, PTL DEF Spec
=============================================================================
