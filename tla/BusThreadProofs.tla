--------------------------- MODULE BusThreadProofs ---------------------------
(***************************************************************************)
(* The safety of the bus thread, for any number of threads, requests and   *)
(* forks.                                                                  *)
(***************************************************************************)
EXTENDS BusThread, TLAPS

(* What waits is never taken for one of the loop's own triggers.             *)
LEMMA CallsAreNoTriggers ==
  /\ Thread \cap Request = {}
  /\ "shutdown" \notin Call /\ "dispatch" \notin Call
  BY SourceAssumption DEF Call

-----------------------------------------------------------------------------
(* The type invariant is inductive.                                          *)

LEMMA TypeInit == Init => TypeOK
  <1> SUFFICES ASSUME Init
               PROVE  TypeOK
    OBVIOUS
  <1>1. forks \in 0 .. MaxForks
    BY ForksAssumption DEF Init
  <1>2. /\ request \in [Request -> {"none", "asked", "queued", "answered"}]
        /\ app \in [Thread -> {"idle", "add", "notify", "answer", "acquire", "pause", "trigger",
                               "write", "join", "fork", "resume", "reset", "done"}]
    BY DEF Init
  <1> QED BY <1>1, <1>2 DEF Init, TypeOK

LEMMA TypeOfLoop ==
  ASSUME TypeOK, LoopStep
  PROVE  TypeOK'
  <1>1. CASE CheckFlag
    BY <1>1 DEF TypeOK, CheckFlag, evVars, dbusVars
  <1>2. CASE PrepareFindsPending \/ PrepareArms
    BY <1>2 DEF TypeOK, PrepareFindsPending, PrepareArms, evVars, dbusVars
  <1>3. CASE Poll
    BY <1>3 DEF TypeOK, Poll, evVars, dbusVars
  <1>4. CASE ClearNotifyDeferFd
    BY <1>4 DEF TypeOK, ClearNotifyDeferFd, dbusVars
  <1>5. CASE DispatchNothing
    BY <1>5 DEF TypeOK, DispatchNothing, DispatchBegins, evVars, dbusVars
  <1> QED BY <1>1, <1>2, <1>3, <1>4, <1>5 DEF LoopStep

LEMMA TypeOfSource ==
  ASSUME TypeOK, RunSource
  PROVE  TypeOK'
  <1>1. ASSUME NEW c \in Call, RunTask(c)
        PROVE  TypeOK'
    <2>1. CASE connection = "open"
      BY <1>1, <2>1 DEF TypeOK, RunTask, DispatchBegins, Oneshot, TriggerNotify
    <2>2. CASE connection # "open"
      BY <1>1, <2>2 DEF TypeOK, RunTask, DispatchBegins, Oneshot, TriggerNotify, LoseConnection
    <2> QED BY <2>1, <2>2
  <1>2. ASSUME NEW c \in Call, RunTaskWithoutPending(c)
        PROVE  TypeOK'
    BY <1>2 DEF TypeOK, RunTaskWithoutPending, DispatchBegins, evVars, dbusVars
  <1>3. ASSUME NEW c \in Call, RunTimeout(c)
        PROVE  TypeOK'
    BY <1>3 DEF TypeOK, RunTimeout, DispatchBegins, TriggerNotify
  <1>4. CASE RunShutdown
    BY <1>4 DEF TypeOK, RunShutdown, DispatchBegins, Oneshot, dbusVars
  <1>5. CASE RunDispatch
    BY <1>5 DEF TypeOK, RunDispatch, DispatchBegins, Oneshot, TimersLeft
  <1>6. CASE RunWatch
    BY <1>6 DEF TypeOK, RunWatch, DispatchBegins, TriggerNotify, evVars
  <1>7. ASSUME NEW r \in Request, RunRequest(r)
        PROVE  TypeOK'
    BY <1>7 DEF TypeOK, RunRequest, DispatchBegins, AddTaskNotify, dbusVars, Call
  <1> QED BY <1>1, <1>2, <1>3, <1>4, <1>5, <1>6, <1>7 DEF RunSource

LEMMA TypeOfEnvironment ==
  ASSUME TypeOK, EnvironmentStep
  PROVE  TypeOK'
  <1>1. ASSUME NEW c \in Call, PortalReplies(c) \/ TimeoutElapses(c)
        PROVE  TypeOK'
    BY <1>1 DEF TypeOK, PortalReplies, TimeoutElapses, loopVars, evVars
  <1>2. CASE Disconnect
    BY <1>2 DEF TypeOK, Disconnect, loopVars, evVars
  <1>3. ASSUME NEW r \in Request, StubAsks(r)
        PROVE  TypeOK'
    BY <1>3 DEF TypeOK, StubAsks, loopVars, evVars, dbusVars
  <1> QED BY <1>1, <1>2, <1>3 DEF EnvironmentStep

LEMMA TypeOfCall ==
  ASSUME TypeOK, NEW t \in Thread, AcquireForCall(t) \/ AddTask(t) \/ NotifyTask(t)
  PROVE  TypeOK'
  <1>1. CASE AcquireForCall(t)
    BY <1>1 DEF TypeOK, AcquireForCall, Goto, loopVars, evVars, dbusVars
  <1>2. CASE AddTask(t)
    BY <1>2 DEF TypeOK, AddTask, Goto, loopVars, dbusVars, Call
  <1>3. CASE NotifyTask(t)
    BY <1>3 DEF TypeOK, NotifyTask, Goto, loopVars, dbusVars, AddTaskNotify
  <1> QED BY <1>1, <1>2, <1>3

LEMMA TypeOfPause ==
  ASSUME TypeOK, NEW t \in Thread, Pause(t) \/ Trigger(t) \/ NotifyTrigger(t) \/ Join(t)
  PROVE  TypeOK'
  <1>1. CASE Pause(t)
    BY <1>1 DEF TypeOK, Pause, Goto, Stopped, loopVars, evVars, dbusVars
  <1>2. CASE Trigger(t)
    BY <1>2 DEF TypeOK, Trigger, Goto, loopVars, dbusVars
  <1>3. CASE NotifyTrigger(t)
    BY <1>3 DEF TypeOK, NotifyTrigger, Goto, loopVars, dbusVars, TriggerNotify
  <1>4. CASE Join(t)
    BY <1>4 DEF TypeOK, Join, Goto, Stopped, evVars, dbusVars
  <1> QED BY <1>1, <1>2, <1>3, <1>4

LEMMA TypeOfFork ==
  ASSUME TypeOK, NEW t \in Thread, LockFork(t) \/ AcquireBus(t) \/ ForkProcess(t) \/ Resume(t)
  PROVE  TypeOK'
  <1>1. CASE LockFork(t)
    <2>1. forks + 1 \in 0 .. MaxForks
      BY <1>1, ForksAssumption DEF TypeOK, LockFork
    <2> QED BY <1>1, <2>1 DEF TypeOK, LockFork, Goto, loopVars, evVars, dbusVars
  <1>2. CASE AcquireBus(t)
    BY <1>2 DEF TypeOK, AcquireBus, Goto, evVars
  <1>3. CASE ForkProcess(t)
    BY <1>3 DEF TypeOK, ForkProcess, Goto, loopVars, evVars, dbusVars
  <1>4. CASE Resume(t)
    BY <1>4 DEF TypeOK, Resume, Goto, StartFlag, evVars, dbusVars
  <1> QED BY <1>1, <1>2, <1>3, <1>4

LEMMA TypeOfEnd ==
  ASSUME TypeOK, NEW t \in Thread, Terminate(t) \/ ReturnFromMain \/ Reset
  PROVE  TypeOK'
  <1>1. CASE Terminate(t)
    BY <1>1 DEF TypeOK, Terminate, StopTerminates, CallTerminates, Crash, loopVars, evVars, dbusVars
  <1>2. CASE ReturnFromMain
    BY <1>2, MainAssumption DEF TypeOK, ReturnFromMain, Goto, loopVars, evVars, dbusVars
  <1>3. CASE Reset
    BY <1>3, MainAssumption DEF TypeOK, Reset, Goto
  <1> QED BY <1>1, <1>2, <1>3

LEMMA TypeStep == TypeOK /\ [Next]_vars => TypeOK'
  <1> SUFFICES ASSUME TypeOK, [Next]_vars
               PROVE  TypeOK'
    OBVIOUS
  <1>1. CASE LoopStep \/ RunSource \/ EnvironmentStep
    BY <1>1, TypeOfLoop, TypeOfSource, TypeOfEnvironment
  <1>2. ASSUME NEW t \in Thread, AcquireForCall(t) \/ LockFork(t) \/ Continue(t) \/ Terminate(t)
        PROVE  TypeOK'
    BY <1>2, TypeOfCall, TypeOfPause, TypeOfFork, TypeOfEnd DEF Continue
  <1>3. CASE ReturnFromMain \/ Reset
    BY <1>3, TypeOfEnd, MainAssumption
  <1>4. CASE UNCHANGED vars
    BY <1>4 DEF TypeOK, vars
  <1> QED BY <1>1, <1>2, <1>3, <1>4 DEF Next

(* Every variable of the bus thread keeps its type, and what waits to be     *)
(* read, dispatched or timed out is always a call that libdbus waits for.    *)
THEOREM TypeCorrect == Spec => []TypeOK
  <1>1. Init => TypeOK
    BY TypeInit
  <1>2. TypeOK /\ [Next]_vars => TypeOK'
    BY TypeStep
  <1> QED BY <1>1, <1>2, PTL DEF Spec

-----------------------------------------------------------------------------
(* NeverSleepsOnWork is inductive with the types.  While the loop polls the  *)
(* mutex is what counts: whoever has added a source and not yet written to   *)
(* the eventfd holds it, so nobody else can have.                            *)

LEMMA AwakeLoop ==
  ASSUME TypeOK, NeverSleepsOnWork, LoopStep \/ RunSource
  PROVE  NeverSleepsOnWork'
  <1>1. CASE PrepareArms
    BY <1>1 DEF NeverSleepsOnWork, PrepareArms, evVars
  <1>2. CASE CheckFlag \/ PrepareFindsPending \/ Poll \/ ClearNotifyDeferFd
    BY <1>2 DEF NeverSleepsOnWork, CheckFlag, PrepareFindsPending, Poll, ClearNotifyDeferFd
  <1>3. ASSUME DispatchBegins
        PROVE  NeverSleepsOnWork'
    BY <1>3 DEF NeverSleepsOnWork, DispatchBegins
  <1>4. CASE RunSource \/ DispatchNothing
    BY <1>3, <1>4 DEF RunSource, DispatchNothing, RunTask, RunTaskWithoutPending, RunTimeout,
                      RunShutdown, RunDispatch, RunWatch, RunRequest
  <1> QED BY <1>1, <1>2, <1>4 DEF LoopStep

LEMMA AwakeThread ==
  ASSUME TypeOK, NeverSleepsOnWork, NEW t \in Thread,
         AcquireForCall(t) \/ LockFork(t) \/ Continue(t) \/ Terminate(t)
  PROVE  NeverSleepsOnWork'
  <1>1. CASE AcquireForCall(t) \/ Pause(t)
    BY <1>1 DEF TypeOK, NeverSleepsOnWork, AcquireForCall, Pause, MutexFree, Goto, evVars, loopVars
  <1>2. CASE AddTask(t) \/ Trigger(t)
    BY <1>2, NoneAssumption DEF TypeOK, NeverSleepsOnWork, AddTask, Trigger, Goto
  <1>3. CASE NotifyTask(t) \/ NotifyTrigger(t)
    BY <1>3 DEF NeverSleepsOnWork, NotifyTask, NotifyTrigger, AddTaskNotify, TriggerNotify
  <1>4. CASE LockFork(t) \/ Join(t) \/ ForkProcess(t) \/ Terminate(t)
    BY <1>4 DEF TypeOK, NeverSleepsOnWork, LockFork, Join, ForkProcess, Terminate, StopTerminates, CallTerminates, Crash, Goto, evVars,
                loopVars
  <1>5. CASE AcquireBus(t) \/ Resume(t)
    BY <1>5 DEF TypeOK, NeverSleepsOnWork, AcquireBus, Resume, Goto, evVars
  <1> QED BY <1>1, <1>2, <1>3, <1>4, <1>5 DEF Continue

LEMMA AwakeStep == TypeOK /\ NeverSleepsOnWork /\ [Next]_vars => NeverSleepsOnWork'
  <1> SUFFICES ASSUME TypeOK, NeverSleepsOnWork, [Next]_vars
               PROVE  NeverSleepsOnWork'
    OBVIOUS
  <1>1. CASE LoopStep \/ RunSource
    BY <1>1, AwakeLoop
  <1>2. CASE EnvironmentStep
    BY <1>2 DEF NeverSleepsOnWork, EnvironmentStep, PortalReplies, TimeoutElapses, Disconnect,
                StubAsks, evVars, loopVars
  <1>3. ASSUME NEW t \in Thread, AcquireForCall(t) \/ LockFork(t) \/ Continue(t) \/ Terminate(t)
        PROVE  NeverSleepsOnWork'
    BY <1>3, AwakeThread
  <1>4. CASE ReturnFromMain
    BY <1>4, MainAssumption DEF TypeOK, NeverSleepsOnWork, ReturnFromMain, Goto, evVars, loopVars
  <1>5. CASE Reset
    BY <1>5 DEF NeverSleepsOnWork, Reset
  <1>6. CASE UNCHANGED vars
    BY <1>6 DEF NeverSleepsOnWork, vars
  <1> QED BY <1>1, <1>2, <1>3, <1>4, <1>5, <1>6 DEF Next

(* The bus thread never sleeps on a task or trigger, however many threads    *)
(* add them while it waits without the mutex.                                *)
THEOREM AlwaysWoken == Spec => []NeverSleepsOnWork
  <1>1. Init => NeverSleepsOnWork
    BY DEF Init, NeverSleepsOnWork
  <1>2. TypeOK /\ NeverSleepsOnWork /\ [Next]_vars => NeverSleepsOnWork'
    BY AwakeStep
  <1> QED BY <1>1, <1>2, TypeCorrect, PTL DEF Spec

-----------------------------------------------------------------------------
(* ForkIsQuiet needs the lock: only its holder stops or starts the thread    *)
(* between the join and the resume, and a thread that was joined has ended.  *)

JoinedHasEnded == ~joinable => loop \in {"none", "exited"}

ForkersHoldLock ==
  \A t \in Thread : app[t] \in {"acquire", "fork", "resume"} => bus_shutdown_lock = t

StoppedForFork ==
  \A t \in Thread : app[t] \in {"fork", "resume"} => ~joinable

QuietInv == JoinedHasEnded /\ ForkersHoldLock /\ StoppedForFork

LEMMA QuietLoop ==
  ASSUME TypeOK, QuietInv, LoopStep
  PROVE  QuietInv'
  BY DEF QuietInv, JoinedHasEnded, ForkersHoldLock, StoppedForFork, LoopStep, CheckFlag,
         PrepareFindsPending, PrepareArms, Poll, ClearNotifyDeferFd, DispatchNothing, DispatchBegins

LEMMA QuietSource ==
  ASSUME TypeOK, QuietInv, RunSource
  PROVE  QuietInv'
  <1>1. DispatchBegins
    BY DEF RunSource, RunTask, RunTaskWithoutPending, RunTimeout, RunShutdown, RunDispatch, RunWatch,
           RunRequest
  <1>2. \A t \in Thread : app'[t] \in {app[t], "idle"}
    BY DEF TypeOK, RunSource, RunTask, RunTaskWithoutPending, RunTimeout, RunShutdown, RunDispatch,
           RunWatch, RunRequest
  <1> QED BY <1>1, <1>2 DEF QuietInv, JoinedHasEnded, ForkersHoldLock, StoppedForFork, DispatchBegins

LEMMA QuietThread ==
  ASSUME TypeOK, QuietInv, NEW t \in Thread,
         AcquireForCall(t) \/ LockFork(t) \/ Continue(t) \/ Terminate(t)
  PROVE  QuietInv'
  <1> USE DEF TypeOK, QuietInv, JoinedHasEnded, ForkersHoldLock, StoppedForFork
  <1>1. CASE AcquireForCall(t) \/ AddTask(t) \/ NotifyTask(t) \/ Trigger(t) \/ NotifyTrigger(t)
    BY <1>1 DEF AcquireForCall, AddTask, NotifyTask, Trigger, NotifyTrigger, Goto, loopVars
  <1>2. CASE LockFork(t)
    BY <1>2, NoneAssumption DEF LockFork, ShutdownLockFree, Goto, loopVars
  <1>3. CASE AcquireBus(t)
    BY <1>3 DEF AcquireBus, Goto
  <1>4. CASE Pause(t)
    BY <1>4 DEF Pause, Stopped, Forking, Goto, loopVars
  <1>5. CASE Join(t)
    BY <1>5 DEF Join, JoinReturns, Stopped, Forking, Goto
  <1>6. CASE ForkProcess(t)
    BY <1>6 DEF ForkProcess, Goto, loopVars
  <1>7. CASE Resume(t)
    BY <1>7 DEF Resume, Goto
  <1>8. CASE Terminate(t)
    BY <1>8 DEF Terminate, StopTerminates, CallTerminates, Crash, loopVars
  <1> QED BY <1>1, <1>2, <1>3, <1>4, <1>5, <1>6, <1>7, <1>8 DEF Continue

LEMMA QuietStep == TypeOK /\ QuietInv /\ [Next]_vars => QuietInv'
  <1> SUFFICES ASSUME TypeOK, QuietInv, [Next]_vars
               PROVE  QuietInv'
    OBVIOUS
  <1>1. CASE LoopStep \/ RunSource
    BY <1>1, QuietLoop, QuietSource
  <1>2. CASE EnvironmentStep
    BY <1>2 DEF QuietInv, JoinedHasEnded, ForkersHoldLock, StoppedForFork, EnvironmentStep,
                PortalReplies, TimeoutElapses, Disconnect, StubAsks, loopVars
  <1>3. ASSUME NEW t \in Thread, AcquireForCall(t) \/ LockFork(t) \/ Continue(t) \/ Terminate(t)
        PROVE  QuietInv'
    BY <1>3, QuietThread
  <1>4. CASE ReturnFromMain
    BY <1>4, MainAssumption DEF TypeOK, QuietInv, JoinedHasEnded, ForkersHoldLock, StoppedForFork,
                                ReturnFromMain, Goto, loopVars
  <1>5. CASE Reset
    BY <1>5, MainAssumption DEF TypeOK, QuietInv, JoinedHasEnded, ForkersHoldLock, StoppedForFork,
                                Reset, Goto
  <1>6. CASE UNCHANGED vars
    BY <1>6 DEF QuietInv, JoinedHasEnded, ForkersHoldLock, StoppedForFork, vars
  <1> QED BY <1>1, <1>2, <1>3, <1>4, <1>5, <1>6 DEF Next

LEMMA QuietAlways == Spec => []QuietInv
  <1>1. Init => QuietInv
    BY DEF Init, QuietInv, JoinedHasEnded, ForkersHoldLock, StoppedForFork
  <1>2. TypeOK /\ QuietInv /\ [Next]_vars => QuietInv'
    BY QuietStep
  <1> QED BY <1>1, <1>2, TypeCorrect, PTL DEF Spec

-----------------------------------------------------------------------------
(* A task or a pending call belongs to one that waits for it, and while the  *)
(* bus is there whoever waits has one of them.                               *)

TasksWaited ==
  /\ sources \cap sent = {}
  /\ \A t \in Thread : t \in sources \cup sent => app[t] \in {"notify", "answer"}
  /\ \A r \in Request : r \in sources \cup sent => request[r] = "queued"

WaitersServed ==
  app[Main] # "done" =>
    /\ \A t \in Thread : app[t] \in {"notify", "answer"} => t \in sources \cup sent
    /\ \A r \in Request : request[r] = "queued" => r \in sources \cup sent

CallInv == TasksWaited /\ WaitersServed

LEMMA CallLoop ==
  ASSUME TypeOK, CallInv, LoopStep
  PROVE  CallInv'
  BY DEF CallInv, TasksWaited, WaitersServed, LoopStep, CheckFlag, PrepareFindsPending, PrepareArms,
         Poll, ClearNotifyDeferFd, DispatchNothing, DispatchBegins, evVars, dbusVars

LEMMA CallSource ==
  ASSUME TypeOK, CallInv, RunSource
  PROVE  CallInv'
  <1> USE CallsAreNoTriggers DEF TypeOK, CallInv, TasksWaited, WaitersServed, Call
  <1>1. ASSUME NEW c \in Call, RunTask(c)
        PROVE  CallInv'
    BY <1>1 DEF RunTask, DispatchBegins, Oneshot
  <1>2. ASSUME NEW c \in Call, RunTaskWithoutPending(c) \/ RunTimeout(c)
        PROVE  CallInv'
    BY <1>2 DEF RunTaskWithoutPending, RunTimeout, evVars, dbusVars
  <1>3. CASE RunShutdown
    BY <1>3 DEF RunShutdown, Oneshot, dbusVars
  <1>4. CASE RunDispatch
    BY <1>4, MainAssumption DEF RunDispatch, Oneshot
  <1>5. CASE RunWatch
    BY <1>5 DEF RunWatch, evVars
  <1>6. ASSUME NEW r \in Request, RunRequest(r)
        PROVE  CallInv'
    BY <1>6 DEF RunRequest, Asked, dbusVars
  <1> QED BY <1>1, <1>2, <1>3, <1>4, <1>5, <1>6 DEF RunSource

LEMMA CallEnvironment ==
  ASSUME TypeOK, CallInv, EnvironmentStep
  PROVE  CallInv'
  BY DEF TypeOK, CallInv, TasksWaited, WaitersServed, EnvironmentStep, PortalReplies, TimeoutElapses,
         Disconnect, StubAsks, evVars, dbusVars

LEMMA CallThread ==
  ASSUME TypeOK, CallInv, NEW t \in Thread,
         AcquireForCall(t) \/ LockFork(t) \/ Continue(t) \/ Terminate(t)
  PROVE  CallInv'
  <1> USE CallsAreNoTriggers, MainAssumption DEF TypeOK, CallInv, TasksWaited, WaitersServed, Call
  <1>1. CASE AddTask(t)
    BY <1>1 DEF AddTask, Goto, dbusVars
  <1>2. CASE NotifyTask(t)
    BY <1>2 DEF NotifyTask, Goto, dbusVars
  <1>3. CASE Trigger(t)
    BY <1>3 DEF Trigger, Goto, dbusVars
  <1>4. CASE AcquireForCall(t) \/ LockFork(t) \/ ForkProcess(t) \/ Terminate(t)
    BY <1>4 DEF AcquireForCall, LockFork, ForkProcess, Terminate, StopTerminates, CallTerminates, Crash, Goto, evVars, dbusVars
  <1>5. CASE AcquireBus(t)
    BY <1>5 DEF AcquireBus, Goto, evVars
  <1>6. CASE Pause(t)
    BY <1>6 DEF Pause, Stopped, Goto, evVars, dbusVars
  <1>7. CASE NotifyTrigger(t)
    BY <1>7 DEF NotifyTrigger, Goto, dbusVars
  <1>8. CASE Join(t)
    BY <1>8 DEF Join, Stopped, Goto, evVars, dbusVars
  <1>9. CASE Resume(t)
    BY <1>9 DEF Resume, Goto, evVars, dbusVars
  <1> QED BY <1>1, <1>2, <1>3, <1>4, <1>5, <1>6, <1>7, <1>8, <1>9 DEF Continue

LEMMA CallStep == TypeOK /\ CallInv /\ [Next]_vars => CallInv'
  <1> SUFFICES ASSUME TypeOK, CallInv, [Next]_vars
               PROVE  CallInv'
    OBVIOUS
  <1>1. CASE LoopStep \/ RunSource \/ EnvironmentStep
    BY <1>1, CallLoop, CallSource, CallEnvironment
  <1>2. ASSUME NEW t \in Thread, AcquireForCall(t) \/ LockFork(t) \/ Continue(t) \/ Terminate(t)
        PROVE  CallInv'
    BY <1>2, CallThread
  <1>3. CASE ReturnFromMain
    BY <1>3, MainAssumption DEF TypeOK, CallInv, TasksWaited, WaitersServed, ReturnFromMain, Goto,
                                evVars, dbusVars
  <1>4. CASE Reset
    BY <1>4, MainAssumption DEF TypeOK, CallInv, TasksWaited, WaitersServed, Reset, Goto
  <1>5. CASE UNCHANGED vars
    BY <1>5 DEF CallInv, TasksWaited, WaitersServed, vars
  <1> QED BY <1>1, <1>2, <1>3, <1>4, <1>5 DEF Next

LEMMA CallAlways == Spec => []CallInv
  <1>1. Init => CallInv
    BY DEF Init, CallInv, TasksWaited, WaitersServed
  <1>2. TypeOK /\ CallInv /\ [Next]_vars => CallInv'
    BY CallStep
  <1> QED BY <1>1, <1>2, TypeCorrect, PTL DEF Spec

-----------------------------------------------------------------------------
(* NeverTerminates: what a thread needs for its next step on the bus thread  *)
(* is there until main ends.                                                 *)

GoneWhenDone == ~bus_thread_ => app[Main] = "done"

MutexKept ==
  \A t \in Thread :
    app[t] \in {"add", "notify", "trigger", "write"} => ev = t \/ app[Main] = "done"

OnlyMainWithoutLock ==
  \A t \in Thread :
    /\ app[t] \in {"pause", "trigger", "write", "join"} => Forking(t) \/ t = Main
    /\ app[t] = "reset" => t = Main

JoinableUntilJoined ==
  \A t \in Thread : app[t] \in {"trigger", "write", "join"} => joinable \/ MainEnded

StopInv == GoneWhenDone /\ MutexKept /\ OnlyMainWithoutLock /\ JoinableUntilJoined

(* What all proofs about a step take as given.                               *)
BusInv == TypeOK /\ QuietInv /\ CallInv /\ StopInv

(* A handler on the bus thread moves a thread only out of a call.            *)
LEMMA SourceMovesWaiters ==
  ASSUME TypeOK, TasksWaited, RunSource
  PROVE  /\ \A t \in Thread : app'[t] = app[t] \/ (app[t] \in {"notify", "answer"} /\ app'[t] = "idle")
         /\ UNCHANGED <<bus_thread_, joinable, ev, bus_shutdown_lock>>
  BY DEF TypeOK, TasksWaited, RunSource, RunTask, RunTaskWithoutPending, RunTimeout, RunShutdown,
         RunDispatch, RunWatch, RunRequest, DispatchBegins

(* The steps that concern neither the threads nor the std::thread.           *)
LEMMA ElsewhereMovesNobody ==
  ASSUME LoopStep \/ EnvironmentStep \/ UNCHANGED vars
  PROVE  UNCHANGED <<app, bus_thread_, joinable, ev, bus_shutdown_lock>>
  BY DEF LoopStep, CheckFlag, PrepareFindsPending, PrepareArms, Poll, ClearNotifyDeferFd,
         DispatchNothing, DispatchBegins, EnvironmentStep, PortalReplies, TimeoutElapses, Disconnect,
         StubAsks, loopVars, vars

(* Once main ends it does not come back.                                     *)
LEMMA MainStaysEnded ==
  ASSUME BusInv, MainEnded, [Next]_vars
  PROVE  MainEnded'
  <1> USE MainAssumption DEF BusInv, TypeOK, MainEnded, Forking
  <1>1. CASE LoopStep \/ EnvironmentStep \/ UNCHANGED vars
    BY <1>1, ElsewhereMovesNobody
  <1>2. CASE RunSource
    BY <1>2, SourceMovesWaiters DEF CallInv
  <1>3. ASSUME NEW t \in Thread, AcquireForCall(t) \/ LockFork(t) \/ Terminate(t)
        PROVE  MainEnded'
    BY <1>3 DEF AcquireForCall, LockFork, Terminate, StopTerminates, CallTerminates, Crash, Goto
  <1>4. ASSUME NEW t \in Thread, Pause(t) \/ Trigger(t) \/ NotifyTrigger(t) \/ Join(t)
        PROVE  MainEnded'
    BY <1>4 DEF Pause, Trigger, NotifyTrigger, Join, Stopped, Goto
  <1>5. ASSUME NEW t \in Thread, AddTask(t) \/ NotifyTask(t) \/ ForkProcess(t) \/ Resume(t)
        PROVE  MainEnded'
    BY <1>5, NoneAssumption DEF AddTask, NotifyTask, ForkProcess, Resume, Goto
  <1>6. ASSUME NEW t \in Thread, AcquireBus(t)
        PROVE  MainEnded'
    BY <1>6, NoneAssumption DEF AcquireBus, Goto
  <1>7. CASE ReturnFromMain \/ Reset
    BY <1>7 DEF ReturnFromMain, Reset, Goto
  <1> QED BY <1>1, <1>2, <1>3, <1>4, <1>5, <1>6, <1>7 DEF Next, Continue

LEMMA StopThread ==
  ASSUME BusInv, ~crashed, NEW t \in Thread,
         AcquireForCall(t) \/ LockFork(t) \/ Continue(t) \/ Terminate(t)
  PROVE  StopInv'
  <1>1. MainEnded => MainEnded'
    BY MainStaysEnded DEF Next
  <1> USE <1>1, MainAssumption DEF BusInv, TypeOK, StopInv, GoneWhenDone, MutexKept,
        OnlyMainWithoutLock, JoinableUntilJoined, Forking
  <1>2. CASE AcquireForCall(t)
    BY <1>2, NoneAssumption DEF AcquireForCall, MutexFree, Goto, loopVars
  <1>3. CASE AddTask(t) \/ NotifyTask(t) \/ Trigger(t) \/ NotifyTrigger(t)
    BY <1>3 DEF AddTask, NotifyTask, Trigger, NotifyTrigger, Goto, loopVars
  <1>4. CASE LockFork(t)
    BY <1>4, NoneAssumption DEF LockFork, ShutdownLockFree, Goto, loopVars
  <1>5. CASE AcquireBus(t)
    BY <1>5 DEF AcquireBus, QuietInv, ForkersHoldLock, Goto
  <1>6. CASE Pause(t)
    BY <1>6, NoneAssumption DEF Pause, MutexFree, Stopped, Goto, loopVars
  <1>7. CASE Join(t)
    BY <1>7 DEF Join, Stopped, Goto, MainEnded
  <1>8. CASE ForkProcess(t) \/ Terminate(t)
    BY <1>8 DEF ForkProcess, Terminate, StopTerminates, CallTerminates, Crash, Goto, loopVars
  <1>9. CASE Resume(t)
    BY <1>9 DEF Resume, QuietInv, ForkersHoldLock, Goto
  <1> QED BY <1>2, <1>3, <1>4, <1>5, <1>6, <1>7, <1>8, <1>9 DEF Continue

LEMMA StopStep == BusInv /\ [Next]_vars => StopInv'
  <1> SUFFICES ASSUME BusInv, [Next]_vars
               PROVE  StopInv'
    OBVIOUS
  <1>1. MainEnded => MainEnded'
    BY MainStaysEnded
  <1> USE MainAssumption DEF BusInv, TypeOK, StopInv, GoneWhenDone, MutexKept, OnlyMainWithoutLock,
        JoinableUntilJoined, Forking
  <1>2. CASE LoopStep \/ EnvironmentStep \/ UNCHANGED vars
    BY <1>1, <1>2, ElsewhereMovesNobody
  <1>3. CASE RunSource
    BY <1>1, <1>3, SourceMovesWaiters DEF CallInv
  <1>4. ASSUME ~crashed, NEW t \in Thread,
               AcquireForCall(t) \/ LockFork(t) \/ Continue(t) \/ Terminate(t)
        PROVE  StopInv'
    BY <1>4, StopThread
  <1>5. CASE ReturnFromMain
    BY <1>1, <1>5 DEF ReturnFromMain, Goto, loopVars
  <1>6. CASE Reset
    BY <1>6 DEF Reset, Goto, MainEnded
  <1> QED BY <1>2, <1>3, <1>4, <1>5, <1>6 DEF Next

LEMMA StopAlways == Spec => []StopInv
  <1>1. Init => StopInv
    BY DEF Init, StopInv, GoneWhenDone, MutexKept, OnlyMainWithoutLock, JoinableUntilJoined
  <1>2. TypeOK /\ QuietInv /\ CallInv /\ StopInv /\ [Next]_vars => StopInv'
    BY StopStep DEF BusInv
  <1> QED BY <1>1, <1>2, TypeCorrect, QuietAlways, CallAlways, PTL DEF Spec

(* From the join to the resume of a fork the bus thread has ended, and no    *)
(* other thread forks, stops it or starts it, but main in its Shutdown,      *)
(* whichever threads fork, call or end main at the same time.                *)
THEOREM ForkAlwaysQuiet == Spec => []ForkIsQuiet
  <1>1. QuietInv /\ StopInv => ForkIsQuiet
    <2> SUFFICES ASSUME QuietInv, StopInv,
                        NEW t \in Thread, app[t] \in {"fork", "resume"}
                 PROVE  /\ ~joinable /\ loop \in {"none", "exited"}
                        /\ \A u \in Thread \ {t} : app[u] \in InPause => u = Main /\ MainEnded
      BY DEF ForkIsQuiet
    <2>1. bus_shutdown_lock = t /\ ~joinable /\ loop \in {"none", "exited"}
      BY DEF QuietInv, JoinedHasEnded, ForkersHoldLock, StoppedForFork
    <2>2. ASSUME NEW u \in Thread, u # t, app[u] \in InPause
          PROVE  u = Main /\ MainEnded
      <3>1. app[u] \in {"pause", "trigger", "write", "join"}
        BY <2>1, <2>2 DEF QuietInv, ForkersHoldLock, InPause
      <3>2. u = Main /\ ~Forking(u)
        BY <2>1, <2>2, <3>1 DEF StopInv, OnlyMainWithoutLock, Forking
      <3> QED BY <3>1, <3>2 DEF MainEnded
    <2> QED BY <2>1, <2>2
  <1> QED BY <1>1, QuietAlways, StopAlways, PTL

LEMMA CrashStep == BusInv /\ NeverTerminates /\ [Next]_vars => NeverTerminates'
  <1> SUFFICES ASSUME BusInv, NeverTerminates, [Next]_vars
               PROVE  NeverTerminates'
    OBVIOUS
  <1>1. MainEnded => MainEnded'
    BY MainStaysEnded
  <1>2. CASE UNCHANGED vars
    BY <1>2 DEF NeverTerminates, MainEnded, Forking, vars
  <1>3. ASSUME NEW c \in Call, RunTaskWithoutPending(c)
        PROVE  NeverTerminates'
    BY <1>3 DEF RunTaskWithoutPending, NeverTerminates, dbusVars
  <1>4. ASSUME NEW t \in Thread, Terminate(t)
        PROVE  NeverTerminates'
    <2>1. MainEnded
      BY <1>4 DEF Terminate, StopTerminates, CallTerminates, Crash, BusInv, QuietInv, StoppedForFork, StopInv, GoneWhenDone, MutexKept,
                  OnlyMainWithoutLock, JoinableUntilJoined, MainEnded
    <2> QED BY <1>1, <2>1 DEF NeverTerminates
  <1>5. ASSUME ~crashed, LoopStep \/ RunSource \/ EnvironmentStep,
               \A c \in Call : ~RunTaskWithoutPending(c)
        PROVE  ~crashed'
    BY <1>5 DEF LoopStep, CheckFlag, PrepareFindsPending, PrepareArms, Poll, ClearNotifyDeferFd,
                DispatchNothing, RunSource, RunTask, RunTimeout, RunShutdown, RunDispatch, RunWatch,
                RunRequest, EnvironmentStep, PortalReplies, TimeoutElapses, Disconnect, StubAsks
  <1>6. ASSUME ~crashed, NEW t \in Thread, AcquireForCall(t) \/ LockFork(t) \/ Continue(t)
        PROVE  ~crashed'
    BY <1>6 DEF AcquireForCall, LockFork, Continue, AddTask, NotifyTask, AcquireBus, Pause, Trigger,
                NotifyTrigger, Join, ForkProcess, Resume
  <1>7. ASSUME ~crashed, ReturnFromMain \/ Reset
        PROVE  ~crashed'
    BY <1>7 DEF ReturnFromMain, Reset
  <1> QED BY <1>2, <1>3, <1>4, <1>5, <1>6, <1>7 DEF Next, NeverTerminates

(* Until main ends, and while the connection lives, no thread uses a bus     *)
(* thread that is gone, joins or starts one twice, or sends without a        *)
(* pending call, whatever other threads fork or call.                        *)
THEOREM NoTermination == Spec => []NeverTerminates
  <1>1. Init => NeverTerminates
    BY DEF Init, NeverTerminates
  <1>2. TypeOK /\ QuietInv /\ CallInv /\ StopInv /\ NeverTerminates /\ [Next]_vars => NeverTerminates'
    BY CrashStep DEF BusInv
  <1> QED BY <1>1, <1>2, TypeCorrect, QuietAlways, CallAlways, StopAlways, PTL DEF Spec

-----------------------------------------------------------------------------
(* NobodyStranded: replies that libdbus has queued have the dispatch trigger *)
(* fired, the holders of the mutexes are on their way to release them, and   *)
(* the shutdown trigger and the flag it sets come and go with the fork.      *)

RepliesDispatched == incoming # {} => "dispatch" \in sources

(* The trigger is consumed when the flag is set, and the flag is set when    *)
(* the bus thread ends.                                                      *)
StopInOrder ==
  /\ "shutdown" \in sources => ~shutdown_flag
  /\ loop = "exited" => shutdown_flag
  /\ ~joinable => loop = "exited"

WaitInv == RepliesDispatched /\ HoldersGoOn /\ (~MainEnded => StopUnderWay /\ StopInOrder)

LEMMA RepliesStep == TypeOK /\ RepliesDispatched /\ [Next]_vars => RepliesDispatched'
  <1> SUFFICES ASSUME TypeOK, RepliesDispatched, [Next]_vars
               PROVE  RepliesDispatched'
    OBVIOUS
  <1> USE CallsAreNoTriggers DEF RepliesDispatched
  <1>1. CASE LoopStep \/ EnvironmentStep \/ ReturnFromMain \/ UNCHANGED vars
    BY <1>1 DEF LoopStep, CheckFlag, PrepareFindsPending, PrepareArms, Poll, ClearNotifyDeferFd,
                DispatchNothing, EnvironmentStep, PortalReplies, TimeoutElapses, Disconnect, StubAsks,
                ReturnFromMain, evVars, dbusVars, vars
  <1>2. ASSUME NEW c \in Call, RunTask(c) \/ RunTaskWithoutPending(c) \/ RunTimeout(c)
        PROVE  RepliesDispatched'
    BY <1>2 DEF RunTask, RunTaskWithoutPending, RunTimeout, Oneshot, evVars, dbusVars
  <1>3. CASE RunShutdown \/ RunDispatch \/ RunWatch
    BY <1>3 DEF RunShutdown, RunDispatch, RunWatch, Oneshot, evVars, dbusVars
  <1>4. ASSUME NEW r \in Request, RunRequest(r)
        PROVE  RepliesDispatched'
    BY <1>4 DEF RunRequest, dbusVars
  <1>5. ASSUME NEW t \in Thread, AcquireForCall(t) \/ LockFork(t) \/ Continue(t) \/ Terminate(t)
        PROVE  RepliesDispatched'
    BY <1>5 DEF AcquireForCall, LockFork, Terminate, StopTerminates, CallTerminates, Crash, Continue, AddTask, NotifyTask, AcquireBus, Pause,
                Trigger, NotifyTrigger, Join, ForkProcess, Resume, evVars, dbusVars
  <1>6. CASE Reset
    BY <1>6 DEF Reset
  <1> QED BY <1>1, <1>2, <1>3, <1>4, <1>5, <1>6 DEF Next, RunSource

(* A handler runs with the mutex free.                                       *)
LEMMA SourceFindsMutexFree ==
  ASSUME RunSource
  PROVE  MutexFree
  BY DEF RunSource, RunTask, RunTaskWithoutPending, RunTimeout, RunShutdown, RunDispatch, RunWatch,
         RunRequest, DispatchBegins

LEMMA HoldersThread ==
  ASSUME BusInv, HoldersGoOn, NEW t \in Thread,
         AcquireForCall(t) \/ LockFork(t) \/ Continue(t) \/ Terminate(t)
  PROVE  HoldersGoOn'
  <1> USE NoneAssumption DEF BusInv, TypeOK, HoldersGoOn, InPause
  <1>1. CASE AcquireForCall(t) \/ AddTask(t) \/ NotifyTask(t)
    BY <1>1 DEF AcquireForCall, AddTask, NotifyTask, MutexFree, Goto
  <1>2. CASE LockFork(t)
    BY <1>2 DEF LockFork, ShutdownLockFree, Goto
  <1>3. CASE AcquireBus(t)
    BY <1>3 DEF AcquireBus, Goto
  <1>4. CASE Pause(t)
    BY <1>4 DEF Pause, MutexFree, Stopped, Forking, Goto
  <1>5. CASE Trigger(t) \/ NotifyTrigger(t)
    BY <1>5 DEF Trigger, NotifyTrigger, Goto
  <1>6. CASE Join(t)
    BY <1>6 DEF Join, Stopped, Forking, Goto
  <1>7. CASE ForkProcess(t) \/ Resume(t) \/ Terminate(t)
    BY <1>7 DEF ForkProcess, Resume, Terminate, StopTerminates, CallTerminates, Crash, Goto
  <1> QED BY <1>1, <1>2, <1>3, <1>4, <1>5, <1>6, <1>7 DEF Continue

LEMMA HoldersStep == BusInv /\ HoldersGoOn /\ [Next]_vars => HoldersGoOn'
  <1> SUFFICES ASSUME BusInv, HoldersGoOn, [Next]_vars
               PROVE  HoldersGoOn'
    OBVIOUS
  <1> USE NoneAssumption, MainAssumption DEF BusInv, TypeOK, HoldersGoOn, InPause
  <1>1. CASE LoopStep \/ EnvironmentStep \/ UNCHANGED vars
    BY <1>1, ElsewhereMovesNobody
  <1>2. CASE RunSource
    BY <1>2, SourceMovesWaiters, SourceFindsMutexFree DEF CallInv, MutexFree
  <1>3. ASSUME NEW t \in Thread, AcquireForCall(t) \/ LockFork(t) \/ Continue(t) \/ Terminate(t)
        PROVE  HoldersGoOn'
    BY <1>3, HoldersThread
  <1>4. CASE ReturnFromMain
    BY <1>4 DEF ReturnFromMain, Goto
  <1>5. CASE Reset
    BY <1>5 DEF Reset, Goto
  <1> QED BY <1>1, <1>2, <1>3, <1>4, <1>5 DEF Next

LEMMA StopOfLoop ==
  ASSUME BusInv, StopUnderWay, StopInOrder, LoopStep \/ EnvironmentStep \/ UNCHANGED vars
  PROVE  StopUnderWay' /\ StopInOrder'
  <1>1. UNCHANGED <<app, joinable, shutdown_flag, sources, bus_shutdown_lock>>
    BY DEF LoopStep, CheckFlag, PrepareFindsPending, PrepareArms, Poll, ClearNotifyDeferFd,
           DispatchNothing, DispatchBegins, EnvironmentStep, PortalReplies, TimeoutElapses, Disconnect,
           StubAsks, evVars, loopVars, vars
  <1>2. loop' = loop \/ (loop # "exited" /\ (loop' = "exited" => shutdown_flag))
    BY DEF LoopStep, CheckFlag, PrepareFindsPending, PrepareArms, Poll, ClearNotifyDeferFd,
           DispatchNothing, DispatchBegins, EnvironmentStep, PortalReplies, TimeoutElapses, Disconnect,
           StubAsks, loopVars, vars
  <1> QED BY <1>1, <1>2 DEF StopUnderWay, StopInOrder, ToldToStop, Forking

LEMMA StopOfSource ==
  ASSUME BusInv, StopUnderWay, StopInOrder, RunSource
  PROVE  StopUnderWay' /\ StopInOrder'
  <1>1. /\ loop = "dispatch" /\ loop' = "check"
        /\ UNCHANGED <<joinable, bus_shutdown_lock>>
    BY DEF RunSource, RunTask, RunTaskWithoutPending, RunTimeout, RunShutdown, RunDispatch, RunWatch,
           RunRequest, DispatchBegins
  <1>2. /\ \A t \in Thread : app[t] \in {"write", "join", "fork", "resume"} => app'[t] = app[t]
        /\ \A t \in Thread : app'[t] \in {"write", "join"} => app[t] \in {"write", "join"}
    BY SourceMovesWaiters DEF BusInv, CallInv
  <1>3. \/ /\ shutdown_flag' = shutdown_flag
           /\ "shutdown" \in sources' <=> "shutdown" \in sources
        \/ "shutdown" \in sources /\ "shutdown" \notin sources' /\ shutdown_flag'
    BY CallsAreNoTriggers
    DEF RunSource, RunTask, RunTaskWithoutPending, RunTimeout, RunShutdown, RunDispatch, RunWatch,
        RunRequest, Oneshot, evVars, Call
  <1> QED BY <1>1, <1>2, <1>3 DEF StopUnderWay, StopInOrder, ToldToStop, Forking

LEMMA StopOfThread ==
  ASSUME BusInv, ~MainEnded, StopUnderWay, StopInOrder, NEW t \in Thread, ~MainEnded',
         AcquireForCall(t) \/ LockFork(t) \/ Continue(t) \/ Terminate(t)
  PROVE  StopUnderWay' /\ StopInOrder'
  <1> USE NoneAssumption, MainAssumption, CallsAreNoTriggers
      DEF BusInv, TypeOK, StopUnderWay, StopInOrder, ToldToStop, Forking
  <1>1. bus_thread_
    BY DEF StopInv, GoneWhenDone, MainEnded
  <1>2. app[t] \in {"pause", "trigger", "write", "join"} => bus_shutdown_lock = t
    BY DEF StopInv, OnlyMainWithoutLock, MainEnded
  <1>3. CASE AcquireForCall(t) \/ NotifyTask(t)
    BY <1>3 DEF AcquireForCall, NotifyTask, Goto, loopVars, evVars
  <1>4. CASE LockFork(t)
    BY <1>4 DEF LockFork, ShutdownLockFree, Goto, loopVars, evVars
  <1>13. CASE AddTask(t)
    BY <1>13 DEF AddTask, Goto, loopVars, Call
  <1>5. CASE AcquireBus(t)
    BY <1>1, <1>5 DEF AcquireBus, Goto, evVars, QuietInv, ForkersHoldLock
  <1>6. CASE Pause(t)
    BY <1>2, <1>6 DEF Pause, Stopped, Goto, loopVars, evVars
  <1>7. CASE Trigger(t)
    BY <1>2, <1>7 DEF Trigger, Goto, loopVars
  <1>8. CASE NotifyTrigger(t)
    BY <1>2, <1>8 DEF NotifyTrigger, Goto, loopVars
  <1>9. CASE Join(t)
    <2>1. \A u \in Thread : app[u] \in {"write", "join"} => u = t
      BY <1>2, <1>9 DEF Join, StopInv, OnlyMainWithoutLock, MainEnded
    <2> QED BY <1>2, <1>9, <2>1 DEF Join, JoinReturns, Stopped, Goto, evVars
  <1>10. CASE ForkProcess(t)
    BY <1>10 DEF ForkProcess, Goto, loopVars, evVars
  <1>11. CASE Resume(t)
    BY <1>11 DEF Resume, StartFlag, Goto, evVars, QuietInv, ForkersHoldLock
  <1>12. CASE Terminate(t)
    BY <1>12 DEF Terminate, StopTerminates, CallTerminates, Crash, loopVars, evVars
  <1> QED BY <1>3, <1>4, <1>5, <1>6, <1>7, <1>8, <1>9, <1>10, <1>11, <1>12, <1>13 DEF Continue

LEMMA StopUnderWayStep ==
  BusInv /\ HoldersGoOn /\ (~MainEnded => StopUnderWay /\ StopInOrder) /\ [Next]_vars
    => (~MainEnded => StopUnderWay /\ StopInOrder)'
  <1> SUFFICES ASSUME BusInv, HoldersGoOn, ~MainEnded => StopUnderWay /\ StopInOrder, [Next]_vars, ~MainEnded'
               PROVE  StopUnderWay' /\ StopInOrder'
    OBVIOUS
  <1>1. ~MainEnded
    BY MainStaysEnded
  <1>2. CASE LoopStep \/ EnvironmentStep \/ UNCHANGED vars
    BY <1>1, <1>2, StopOfLoop
  <1>3. CASE RunSource
    BY <1>1, <1>3, StopOfSource
  <1>4. ASSUME NEW t \in Thread, AcquireForCall(t) \/ LockFork(t) \/ Continue(t) \/ Terminate(t)
        PROVE  StopUnderWay' /\ StopInOrder'
    BY <1>1, <1>4, StopOfThread
  <1>5. CASE ReturnFromMain
    <2>1. bus_shutdown_lock # Main
      BY <1>1, <1>5, MainAssumption, NoneAssumption DEF ReturnFromMain, Goto, MainEnded, Forking,
         HoldersGoOn, InPause
    <2> QED BY <1>5, <2>1, MainAssumption DEF ReturnFromMain, Goto, MainEnded, Forking, BusInv, TypeOK
  <1>6. CASE Reset
    BY <1>6, MainAssumption DEF Reset, Goto, MainEnded, BusInv, TypeOK
  <1> QED BY <1>2, <1>3, <1>4, <1>5, <1>6 DEF Next

LEMMA WaitAlways == Spec => []WaitInv
  <1>1. Init => WaitInv
    BY DEF Init, WaitInv, RepliesDispatched, HoldersGoOn, InPause, StopUnderWay, StopInOrder, ToldToStop
  <1>2. TypeOK /\ QuietInv /\ CallInv /\ StopInv /\ WaitInv /\ [Next]_vars => WaitInv'
    BY RepliesStep, HoldersStep, StopUnderWayStep DEF BusInv, WaitInv
  <1> QED BY <1>1, <1>2, TypeCorrect, QuietAlways, CallAlways, StopAlways, PTL DEF Spec

(* Whoever waits in a call, for a mutex or for the bus thread to stop waits  *)
(* for something that is under way: nothing it waits for has been lost.      *)
THEOREM NobodyEverStranded == Spec => []NobodyStranded
  <1>1. CallInv /\ WaitInv => NobodyStranded
    BY DEF CallInv, WaitersServed, WaitInv, RepliesDispatched, NobodyStranded, CallUnderWay, Waiting,
           Tasks, Call
  <1> QED BY <1>1, CallAlways, WaitAlways, PTL

-----------------------------------------------------------------------------
(* BusThread implements BusService.                                          *)

(* Bus::Shutdown is only called when main may return.                        *)
EndsIfReturns == MainEnded => MainReturns

LEMMA EndStep == BusInv /\ EndsIfReturns /\ [Next]_vars => EndsIfReturns'
  <1> SUFFICES ASSUME BusInv, EndsIfReturns, [Next]_vars, MainEnded', ~MainEnded
               PROVE  MainReturns
    BY DEF EndsIfReturns
  <1> USE MainAssumption DEF BusInv, TypeOK, MainEnded, Forking
  <1>1. CASE LoopStep \/ EnvironmentStep \/ UNCHANGED vars
    BY <1>1, ElsewhereMovesNobody
  <1>2. CASE RunSource
    BY <1>2, SourceMovesWaiters DEF CallInv
  <1>3. ASSUME NEW t \in Thread, AcquireForCall(t) \/ LockFork(t) \/ Terminate(t)
        PROVE  MainReturns
    BY <1>3, NoneAssumption DEF AcquireForCall, LockFork, ShutdownLockFree, Terminate, StopTerminates, CallTerminates, Crash, Goto
  <1>4. ASSUME NEW t \in Thread, Pause(t) \/ Trigger(t) \/ NotifyTrigger(t) \/ Join(t)
        PROVE  MainReturns
    BY <1>4 DEF Pause, Trigger, NotifyTrigger, Join, Stopped, Forking, Goto
  <1>5. ASSUME NEW t \in Thread, AddTask(t) \/ NotifyTask(t) \/ ForkProcess(t) \/ Resume(t)
        PROVE  MainReturns
    BY <1>5, NoneAssumption DEF AddTask, NotifyTask, ForkProcess, Resume, Goto, QuietInv, ForkersHoldLock
  <1>6. ASSUME NEW t \in Thread, AcquireBus(t)
        PROVE  MainReturns
    BY <1>6, NoneAssumption DEF AcquireBus, Goto, QuietInv, ForkersHoldLock
  <1>7. CASE ReturnFromMain \/ Reset
    BY <1>7 DEF ReturnFromMain, Reset
  <1> QED BY <1>1, <1>2, <1>3, <1>4, <1>5, <1>6, <1>7 DEF Next, Continue

LEMMA EndAlways == Spec => []EndsIfReturns
  <1>1. Init => EndsIfReturns
    BY MainAssumption DEF Init, EndsIfReturns, MainEnded
  <1>2. TypeOK /\ QuietInv /\ CallInv /\ StopInv /\ EndsIfReturns /\ [Next]_vars => EndsIfReturns'
    BY EndStep DEF BusInv
  <1> QED BY <1>1, <1>2, TypeCorrect, QuietAlways, CallAlways, StopAlways, PTL DEF Spec

(* Who waits is a matter of app and request alone.                           *)
LEMMA WaitingSame ==
  ASSUME TypeOK, UNCHANGED request,
         \A t \in Thread : app'[t] \in {"notify", "answer"} <=> app[t] \in {"notify", "answer"}
  PROVE  Waiting' = Waiting
  BY DEF Waiting

LEMMA ServiceSource ==
  ASSUME TypeOK, CallInv, RunSource
  PROVE  [Service!Next]_Service!vars
  <1> USE CallsAreNoTriggers DEF TypeOK, Call, Tasks
  <1>1. ASSUME NEW c \in Call, RunTask(c)
        PROVE  Service!Make(c)
    <2>1. Waiting' = Waiting
      BY <1>1, WaitingSame DEF RunTask
    <2>2. c \in Tasks /\ Tasks' = Tasks \ {c} /\ sent' = sent \cup {c}
      BY <1>1 DEF RunTask, Oneshot
    <2> QED BY <2>1, <2>2 DEF Service!Make
  <1>2. ASSUME NEW c \in Call, RunTaskWithoutPending(c) \/ RunTimeout(c)
        PROVE  UNCHANGED Service!vars
    <2>1. Waiting' = Waiting
      BY <1>2, WaitingSame DEF RunTaskWithoutPending, RunTimeout
    <2>2. Tasks' = Tasks /\ sent' = sent
      BY <1>2 DEF RunTaskWithoutPending, RunTimeout, evVars, dbusVars
    <2> QED BY <2>1, <2>2 DEF Service!vars
  <1>3. CASE RunShutdown \/ RunWatch
    <2>1. Waiting' = Waiting
      BY <1>3, WaitingSame DEF RunShutdown, RunWatch
    <2>2. Tasks' = Tasks /\ sent' = sent
      BY <1>3 DEF RunShutdown, RunWatch, Oneshot, evVars, dbusVars
    <2> QED BY <2>1, <2>2 DEF Service!vars
  <1>4. CASE RunDispatch
    <2>1. Tasks' = Tasks /\ sent' = sent \ incoming /\ incoming \in SUBSET sent
      BY <1>4 DEF RunDispatch, Oneshot
    <2>2. Waiting' = Waiting \ incoming
      BY <1>4 DEF RunDispatch, Waiting, CallInv, TasksWaited
    <2>3. Service!Answer(incoming)
      BY <2>1, <2>2 DEF Service!Answer
    <2> QED BY <2>1, <2>3 DEF Service!Next
  <1>5. ASSUME NEW r \in Request, RunRequest(r)
        PROVE  r \in Call /\ Service!Ask(r)
    <2>1. r \notin Waiting /\ Waiting' = Waiting \cup {r}
      BY <1>5 DEF RunRequest, Asked, Waiting
    <2>2. Tasks' = Tasks \cup {r} /\ sent' = sent
      BY <1>5 DEF RunRequest, dbusVars
    <2> QED BY <2>1, <2>2 DEF Service!Ask
  <1> QED BY <1>1, <1>2, <1>3, <1>4, <1>5 DEF RunSource, Service!Next

LEMMA ServiceThread ==
  ASSUME TypeOK, NEW t \in Thread,
         AcquireForCall(t) \/ LockFork(t) \/ Continue(t) \/ Terminate(t)
  PROVE  [Service!Next]_Service!vars
  <1> USE CallsAreNoTriggers DEF TypeOK, Call, Tasks
  <1>1. CASE AddTask(t)
    <2>1. t \notin Waiting /\ Waiting' = Waiting \cup {t}
      BY <1>1 DEF AddTask, Goto, Waiting
    <2>2. Tasks' = Tasks \cup {t} /\ sent' = sent
      BY <1>1 DEF AddTask, dbusVars
    <2> QED BY <2>1, <2>2 DEF Service!Next, Service!Ask
  <1>2. CASE ~AddTask(t)
    <2>1. Waiting' = Waiting
      <3>1. CASE AcquireForCall(t) \/ LockFork(t) \/ NotifyTask(t) \/ Terminate(t)
        BY <3>1, WaitingSame DEF AcquireForCall, LockFork, NotifyTask, Terminate, StopTerminates, CallTerminates, Crash, Goto
      <3>2. CASE AcquireBus(t) \/ Pause(t) \/ Trigger(t) \/ NotifyTrigger(t)
        BY <3>2, WaitingSame DEF AcquireBus, Pause, Trigger, NotifyTrigger, Stopped, Goto
      <3>3. CASE Join(t) \/ ForkProcess(t) \/ Resume(t)
        BY <3>3, WaitingSame DEF Join, ForkProcess, Resume, Stopped, Goto
      <3> QED BY <1>2, <3>1, <3>2, <3>3 DEF Continue
    <2>2. Tasks' = Tasks /\ sent' = sent
      BY <1>2 DEF AcquireForCall, LockFork, Terminate, StopTerminates, CallTerminates, Crash, Continue, NotifyTask, AcquireBus, Pause, Trigger,
                  NotifyTrigger, Join, ForkProcess, Resume, evVars, dbusVars
    <2> QED BY <2>1, <2>2 DEF Service!vars
  <1> QED BY <1>1, <1>2

LEMMA ServiceStep ==
  ASSUME BusInv, EndsIfReturns, [Next]_vars
  PROVE  [Service!Next]_Service!vars
  <1> USE DEF BusInv
  <1>1. CASE LoopStep \/ EnvironmentStep \/ UNCHANGED vars
    <2>1. UNCHANGED <<sources, sent, app>>
      BY <1>1 DEF LoopStep, CheckFlag, PrepareFindsPending, PrepareArms, Poll, ClearNotifyDeferFd,
              DispatchNothing, EnvironmentStep, PortalReplies, TimeoutElapses, Disconnect, StubAsks,
              evVars, dbusVars, vars
    <2>2. \A r \in Request : request'[r] = "queued" <=> request[r] = "queued"
      BY <1>1 DEF LoopStep, CheckFlag, PrepareFindsPending, PrepareArms, Poll, ClearNotifyDeferFd,
              DispatchNothing, EnvironmentStep, PortalReplies, TimeoutElapses, Disconnect, StubAsks, vars,
              TypeOK
    <2> QED BY <2>1, <2>2 DEF Service!vars, Waiting, Tasks
  <1>2. CASE ReturnFromMain
    <2>1. Waiting' = Waiting
      BY <1>2, MainAssumption, WaitingSame DEF ReturnFromMain, Goto, TypeOK
    <2>2. Tasks' = Tasks /\ sent' = sent
      BY <1>2 DEF ReturnFromMain, evVars, dbusVars, Tasks
    <2> QED BY <2>1, <2>2 DEF Service!vars
  <1>3. CASE Reset
    <2>1. Waiting' = Waiting
      BY <1>3, MainAssumption, WaitingSame DEF Reset, Goto, TypeOK
    <2>2. Tasks' = {} /\ sent' = {}
      BY <1>3 DEF Reset, Tasks
    <2>3. MainReturns
      BY <1>3 DEF Reset, MainEnded, EndsIfReturns
    <2> QED BY <2>1, <2>2, <2>3 DEF Service!Next, Service!End
  <1> QED BY <1>1, <1>2, <1>3, ServiceSource, ServiceThread DEF Next

(* Calls are made once and answered once, for those who wait for them, and   *)
(* none is lost before Bus::Shutdown.                                        *)
THEOREM CallsServed == Spec => ServesCalls
  <1>1. Init => Service!Init
    BY DEF Init, Service!Init, Waiting, Tasks
  <1>2. TypeOK /\ QuietInv /\ CallInv /\ StopInv /\ EndsIfReturns /\ [Next]_vars
          => [Service!Next]_Service!vars
    BY ServiceStep DEF BusInv
  <1> QED BY <1>1, <1>2, TypeCorrect, QuietAlways, CallAlways, StopAlways, EndAlways, PTL
      DEF Spec, ServesCalls, Service!Spec
=============================================================================
