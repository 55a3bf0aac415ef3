----------------------------- MODULE BusThread -----------------------------
(***************************************************************************)
(* The bus thread: how other threads hand it work, how it waits for work,  *)
(* and how fork stops and restarts it.                                     *)
(*                                                                         *)
(* dbus/internal/bus_thread.cc pumps an EvLoop (base/evloop.cc, a wrapper  *)
(* of sd-event) on a thread of its own.  The loop waits without the mutex  *)
(* of ev_ and dispatches one event source at a time with it.  Any thread   *)
(* may make a blocking call (dbus/bus.cc), which adds a task to the loop   *)
(* and sleeps until a reply or libdbus's timeout answers it; a request of  *)
(* a stub, read on the bus thread, makes a call that nobody waits for.     *)
(* The fork override (preload/host/spawn_strategy/bus_safe_fork.cc) pauses *)
(* the bus thread around the real fork, and when main returns              *)
(* (initialize.cc) the bus is shut down for good.                          *)
(*                                                                         *)
(* sd-event, libdbus and the portal are external.                          *)
(***************************************************************************)
EXTENDS Naturals, FiniteSets

CONSTANTS
  Thread,       \* application threads
  Main,         \* the one of them that returns from main
  Request,      \* requests of stubs, read on the supervisor's socket
  MaxForks,     \* how many forks there are
  MainReturns,  \* whether main returns while other threads go on
  HangsUp,      \* whether the D-Bus daemon may close the connection
  None          \* no thread

ASSUME MainAssumption == Main \in Thread /\ MainReturns \in BOOLEAN
ASSUME HangsUpAssumption == HangsUp \in BOOLEAN
ASSUME ForksAssumption == MaxForks \in Nat
ASSUME NoneAssumption == None \notin Thread
ASSUME SourceAssumption ==
  /\ Thread \cap Request = {}
  /\ {"shutdown", "dispatch", "watch"} \cap (Thread \cup Request) = {}

VARIABLES
  loop,           \* where the bus thread is in ThreadMain
  bus_thread_,    \* whether Bus has a BusThread
  joinable,       \* whether its std::thread stands for a thread
  shutdown_flag,  \* what the shutdown trigger sets
  ev,             \* the application thread that holds the mutex of ev_
  sources,        \* enabled tasks and triggers of the event loop
  notify,         \* whether the eventfd notify_defer_fd_ is readable
  bus_shutdown_lock,  \* the thread that holds bus_shutdown_lock_
  sent,           \* calls that libdbus waits for, each with a timer
  socket,         \* calls whose replies wait in the connection's socket
  expired,        \* calls whose timers have run out
  incoming,       \* calls whose replies libdbus has queued
  connection,     \* the connection as the event loop sees it
  request,        \* where each stub's request is
  app,            \* where each application thread is
  forks,          \* forks so far
  crashed         \* the application has been terminated

loopVars == <<loop, joinable, shutdown_flag>>
dbusVars == <<sent, socket, expired, incoming, connection>>
evVars   == <<sources, notify>>
vars == <<loop, bus_thread_, joinable, shutdown_flag, ev, sources, notify,
          bus_shutdown_lock, sent, socket, expired, incoming, connection,
          request, app, forks, crashed>>

Call == Thread \cup Request

MutexFree == ev = None

(* bus_shutdown_lock_ is free.                                               *)
ShutdownLockFree_Mutant == TRUE
ShutdownLockFree == bus_shutdown_lock = None

(* A file descriptor or timer that sd-event watches is ready.                *)
WatchReady == connection = "closed" \/ (connection = "open" /\ socket # {})
Asked(r)   == request[r] = "asked"
FdReady    == WatchReady \/ expired # {} \/ \E r \in Request : Asked(r)

(* A oneshot source is disabled before its handler runs.                     *)
Oneshot_Mutant(x) == sources
Oneshot(x) == sources \ {x}

(* The timers that go on when the queued replies have been dispatched:       *)
(* HandleDBusTimeoutRemove disables those of the calls that have ended.      *)
TimersLeft_Mutant == expired
TimersLeft == expired \ incoming

(* What eventfd_write leaves in AddTask, and in Trigger.                     *)
AddTaskNotify_Mutant == notify
AddTaskNotify == TRUE

TriggerNotify_Mutant == notify
TriggerNotify == TRUE

(* The bus thread has ended, so join returns.                                *)
JoinReturns_Mutant == TRUE
JoinReturns == loop = "exited"

(* The shutdown flag after Start.                                            *)
StartFlag_Mutant == shutdown_flag
StartFlag == FALSE

-----------------------------------------------------------------------------
(* After Bus::Initialize and Supervisor::InitAndAttachToBusThread.           *)
Init ==
  /\ loop = "check"
  /\ bus_thread_ = TRUE
  /\ joinable = TRUE
  /\ shutdown_flag = FALSE
  /\ ev = None
  /\ sources = {}
  /\ notify = FALSE
  /\ bus_shutdown_lock = None
  /\ sent = {}
  /\ socket = {}
  /\ expired = {}
  /\ incoming = {}
  /\ connection = "open"
  /\ request = [r \in Request |-> "none"]
  /\ app = [t \in Thread |-> "idle"]
  /\ forks = 0
  /\ crashed = FALSE

Goto(t, where) == app' = [app EXCEPT ![t] = where]

-----------------------------------------------------------------------------
(* ThreadMain and EvLoop::Wait, without the mutex.                           *)

CheckFlag ==
  /\ loop = "check"
  /\ loop' = IF shutdown_flag THEN "exited" ELSE "prepare"
  /\ UNCHANGED <<bus_thread_, joinable, shutdown_flag, ev, evVars, bus_shutdown_lock,
                 dbusVars, request, app, forks, crashed>>

(* sd_event_prepare finds a pending source: an enabled task or trigger, or a *)
(* descriptor that an earlier sd_event_wait found ready.                     *)
PrepareFindsPending ==
  /\ loop = "prepare"
  /\ sources # {} \/ FdReady
  /\ loop' = "clear"
  /\ UNCHANGED <<bus_thread_, joinable, shutdown_flag, ev, evVars, bus_shutdown_lock,
                 dbusVars, request, app, forks, crashed>>

PrepareArms ==
  /\ loop = "prepare"
  /\ sources = {}
  /\ loop' = "poll"
  /\ UNCHANGED <<bus_thread_, joinable, shutdown_flag, ev, evVars, bus_shutdown_lock,
                 dbusVars, request, app, forks, crashed>>

(* poll returns: ClearNotifyDeferFd comes first when the eventfd is readable. *)
Poll ==
  /\ loop = "poll"
  /\ notify \/ FdReady
  /\ loop' = IF notify THEN "clear" ELSE "dispatch"
  /\ UNCHANGED <<bus_thread_, joinable, shutdown_flag, ev, evVars, bus_shutdown_lock,
                 dbusVars, request, app, forks, crashed>>

ClearNotifyDeferFd ==
  /\ loop = "clear"
  /\ notify' = FALSE
  /\ loop' = "dispatch"
  /\ UNCHANGED <<bus_thread_, joinable, shutdown_flag, ev, sources, bus_shutdown_lock,
                 dbusVars, request, app, forks, crashed>>

-----------------------------------------------------------------------------
(* EvLoop::Dispatch, with the mutex from before to after the handler.        *)

DispatchBegins ==
  /\ loop = "dispatch"
  /\ MutexFree
  /\ loop' = "check"
  /\ UNCHANGED <<bus_thread_, joinable, ev, bus_shutdown_lock, forks>>

(* The daemon has hung up, which the event loop keeps from libdbus.  Writing *)
(* fails, so libdbus gives the connection up and ends every call with an     *)
(* error.                                                                    *)
LoseConnection ==
  /\ connection' = "lost"
  /\ incoming' = sent'
  /\ socket' = {}

(* "Wait found events, but sd-event found none".                             *)
DispatchNothing ==
  /\ DispatchBegins
  /\ sources = {} /\ ~FdReady
  /\ UNCHANGED <<shutdown_flag, evVars, dbusVars, request, app, crashed>>

(* The task of SendCall: the message goes out, with a timer for its reply,   *)
(* and libdbus asks for a wakeup.                                            *)
RunTask(c) ==
  /\ DispatchBegins
  /\ c \in sources
  /\ connection # "lost"
  /\ sources' = Oneshot(c) \cup {"dispatch"}
  /\ notify' = TriggerNotify
  /\ sent' = sent \cup {c}
  /\ IF connection = "open"
       THEN UNCHANGED <<socket, incoming, connection>>
       ELSE LoseConnection
  /\ UNCHANGED <<shutdown_flag, expired, request, app, crashed>>

(* On a connection that libdbus knows to be lost there is no pending call:   *)
(* ZYPAK_ASSERT(pending) aborts the application.                             *)
RunTaskWithoutPending(c) ==
  /\ DispatchBegins
  /\ c \in sources
  /\ connection = "lost"
  /\ crashed' = TRUE
  /\ UNCHANGED <<shutdown_flag, evVars, dbusVars, request, app>>

RunShutdown ==
  /\ DispatchBegins
  /\ "shutdown" \in sources
  /\ sources' = Oneshot("shutdown")
  /\ shutdown_flag' = TRUE
  /\ UNCHANGED <<notify, dbusVars, request, app, crashed>>

(* The dispatch trigger handles every message libdbus has queued.  A reply   *)
(* ends its call and the call's timer.  The handlers run to their end here:  *)
(* that the supervisor's wait for the mutex of stub_pids_data_, and for ever *)
(* when a thread keeps it in SendSignal, is Supervisor's.                    *)
RunDispatch ==
  /\ DispatchBegins
  /\ "dispatch" \in sources
  /\ sources' = Oneshot("dispatch")
  /\ incoming' = {}
  /\ sent' = sent \ incoming
  /\ socket' = socket \ incoming
  /\ expired' = TimersLeft
  /\ app' = [t \in Thread |-> IF t \in incoming THEN "idle" ELSE app[t]]
  /\ request' = [r \in Request |-> IF r \in incoming THEN "answered" ELSE request[r]]
  /\ UNCHANGED <<shutdown_flag, notify, connection, crashed>>

(* The watch on the connection: libdbus reads what is there and reports that *)
(* data remains to dispatch.  After a hangup the event is dropped instead,   *)
(* and with it whatever was still to be read.                                *)
RunWatch ==
  /\ DispatchBegins
  /\ WatchReady
  /\ IF connection = "closed"
       THEN /\ connection' = "dropped"
            /\ UNCHANGED <<evVars, incoming>>
       ELSE /\ incoming' = incoming \cup socket
            /\ sources' = sources \cup {"dispatch"}
            /\ notify' = TriggerNotify
            /\ UNCHANGED connection
  /\ socket' = {}
  /\ UNCHANGED <<shutdown_flag, sent, expired, request, app, crashed>>

(* A call's timer: libdbus queues an error in place of the reply, and the    *)
(* timer is armed again.                                                     *)
RunTimeout(c) ==
  /\ DispatchBegins
  /\ c \in expired
  /\ expired' = expired \ {c}
  /\ incoming' = incoming \cup {c}
  /\ sources' = sources \cup {"dispatch"}
  /\ notify' = TriggerNotify
  /\ UNCHANGED <<shutdown_flag, sent, socket, connection, request, app, crashed>>

(* The supervisor's socket: HandleSpawnRequest queues a call from within the *)
(* bus thread, which may lock the recursive mutex again.                     *)
RunRequest(r) ==
  /\ DispatchBegins
  /\ Asked(r)
  /\ request' = [request EXCEPT ![r] = "queued"]
  /\ sources' = sources \cup {r}
  /\ notify' = AddTaskNotify
  /\ UNCHANGED <<shutdown_flag, dbusVars, app, crashed>>

-----------------------------------------------------------------------------
(* The other end of the connection, and the clock.                           *)

(* A late reply, to a call that has ended, is ignored by libdbus.            *)
PortalReplies(c) ==
  /\ connection = "open"
  /\ c \in sent \ (socket \cup incoming)
  /\ socket' = socket \cup {c}
  /\ UNCHANGED <<loopVars, bus_thread_, ev, evVars, bus_shutdown_lock, sent, expired,
                 incoming, connection, request, app, forks, crashed>>

(* The clock does not stop for a fork.                                       *)
TimeoutElapses(c) ==
  /\ c \in sent \ (expired \cup incoming)
  /\ expired' = expired \cup {c}
  /\ UNCHANGED <<loopVars, bus_thread_, ev, evVars, bus_shutdown_lock, sent, socket,
                 incoming, connection, request, app, forks, crashed>>

(* The D-Bus daemon hangs up.                                                *)
Disconnect ==
  /\ HangsUp
  /\ bus_thread_
  /\ connection = "open"
  /\ connection' = "closed"
  /\ UNCHANGED <<loopVars, bus_thread_, ev, evVars, bus_shutdown_lock, sent, socket,
                 expired, incoming, request, app, forks, crashed>>

(* A stub sends a request.                                                   *)
StubAsks(r) ==
  /\ bus_thread_
  /\ request[r] = "none"
  /\ request' = [request EXCEPT ![r] = "asked"]
  /\ UNCHANGED <<loopVars, bus_thread_, ev, evVars, bus_shutdown_lock, dbusVars, app,
                 forks, crashed>>

-----------------------------------------------------------------------------
(* Bus::CallBlocking: SendCall adds a task, then the thread waits for the    *)
(* promise that the reply's handler keeps.                                   *)

AcquireForCall(t) ==
  /\ app[t] = "idle"
  /\ bus_thread_
  /\ MutexFree
  /\ ev' = t
  /\ Goto(t, "add")
  /\ UNCHANGED <<loopVars, bus_thread_, evVars, bus_shutdown_lock, dbusVars, request,
                 forks, crashed>>

AddTask(t) ==
  /\ app[t] = "add"
  /\ ev = t
  /\ sources' = sources \cup {t}
  /\ Goto(t, "notify")
  /\ UNCHANGED <<loopVars, bus_thread_, ev, notify, bus_shutdown_lock, dbusVars, request,
                 forks, crashed>>

NotifyTask(t) ==
  /\ app[t] = "notify"
  /\ ev = t
  /\ notify' = AddTaskNotify
  /\ ev' = None
  /\ Goto(t, "answer")
  /\ UNCHANGED <<loopVars, bus_thread_, sources, bus_shutdown_lock, dbusVars, request,
                 forks, crashed>>

-----------------------------------------------------------------------------
(* The fork override, and the end of main.  Both stop the bus thread the     *)
(* same way; a fork holds bus_shutdown_lock_ throughout, main does not.      *)

LockFork(t) ==
  /\ app[t] = "idle"
  /\ forks < MaxForks
  /\ ShutdownLockFree
  /\ bus_shutdown_lock' = t
  /\ forks' = forks + 1
  /\ Goto(t, "acquire")
  /\ UNCHANGED <<loopVars, bus_thread_, ev, evVars, dbusVars, request, crashed>>

(* Bus::Acquire initializes the bus again after it was shut down.  Without a *)
(* running bus thread the process is forked at once.                         *)
AcquireBus(t) ==
  /\ app[t] = "acquire"
  /\ IF ~bus_thread_
       THEN /\ bus_thread_' = TRUE
            /\ loop' = "check"
            /\ joinable' = TRUE
            /\ shutdown_flag' = FALSE
            /\ connection' = "open"
            /\ Goto(t, "pause")
            /\ UNCHANGED bus_shutdown_lock
       ELSE /\ UNCHANGED <<bus_thread_, loop, joinable, shutdown_flag, connection>>
            /\ IF joinable
                 THEN Goto(t, "pause") /\ UNCHANGED bus_shutdown_lock
                 ELSE Goto(t, "idle") /\ bus_shutdown_lock' = None
  /\ UNCHANGED <<ev, evVars, sent, socket, expired, incoming, request, forks, crashed>>

(* main has returned and calls Bus::Shutdown.                                *)
ReturnFromMain ==
  /\ MainReturns
  /\ app[Main] = "idle"
  /\ Goto(Main, IF bus_thread_ THEN "pause" ELSE "done")
  /\ UNCHANGED <<loopVars, bus_thread_, ev, evVars, bus_shutdown_lock, dbusVars, request,
                 forks, crashed>>

Forking(t) == bus_shutdown_lock = t
Stopped(t) == IF Forking(t) THEN "fork" ELSE "reset"

(* BusThread::Shutdown: the trigger is fired under the mutex.                *)
Pause(t) ==
  /\ app[t] = "pause"
  /\ bus_thread_
  /\ IF joinable
       THEN /\ MutexFree
            /\ ev' = t
            /\ Goto(t, "trigger")
       ELSE /\ UNCHANGED ev
            /\ Goto(t, Stopped(t))
  /\ UNCHANGED <<loopVars, bus_thread_, evVars, bus_shutdown_lock, dbusVars, request,
                 forks, crashed>>

Trigger(t) ==
  /\ app[t] = "trigger"
  /\ ev = t
  /\ sources' = sources \cup {"shutdown"}
  /\ Goto(t, "write")
  /\ UNCHANGED <<loopVars, bus_thread_, ev, notify, bus_shutdown_lock, dbusVars, request,
                 forks, crashed>>

NotifyTrigger(t) ==
  /\ app[t] = "write"
  /\ ev = t
  /\ notify' = TriggerNotify
  /\ ev' = None
  /\ Goto(t, "join")
  /\ UNCHANGED <<loopVars, bus_thread_, sources, bus_shutdown_lock, dbusVars, request,
                 forks, crashed>>

Join(t) ==
  /\ app[t] = "join"
  /\ bus_thread_
  /\ joinable
  /\ JoinReturns
  /\ joinable' = FALSE
  /\ Goto(t, Stopped(t))
  /\ UNCHANGED <<loop, bus_thread_, shutdown_flag, ev, evVars, bus_shutdown_lock, dbusVars,
                 request, forks, crashed>>

(* The real fork.  The child, where the bus thread does not exist, returns.  *)
ForkProcess(t) ==
  /\ app[t] = "fork"
  /\ Goto(t, "resume")
  /\ UNCHANGED <<loopVars, bus_thread_, ev, evVars, bus_shutdown_lock, dbusVars, request,
                 forks, crashed>>

(* Bus::Resume: BusThread::Start.                                            *)
Resume(t) ==
  /\ app[t] = "resume"
  /\ bus_thread_
  /\ ~joinable
  /\ shutdown_flag' = StartFlag
  /\ joinable' = TRUE
  /\ loop' = "check"
  /\ bus_shutdown_lock' = None
  /\ Goto(t, "idle")
  /\ UNCHANGED <<bus_thread_, ev, evVars, dbusVars, request, forks, crashed>>

(* bus_thread_.reset(): the event loop and the connection go with it, the    *)
(* calls under way are forgotten.                                            *)
Reset ==
  /\ app[Main] = "reset"
  /\ bus_thread_
  /\ ~joinable
  /\ bus_thread_' = FALSE
  /\ loop' = "none"
  /\ ev' = None
  /\ sources' = {}
  /\ notify' = FALSE
  /\ sent' = {}
  /\ socket' = {}
  /\ expired' = {}
  /\ incoming' = {}
  /\ connection' = "dropped"
  /\ Goto(Main, "done")
  /\ UNCHANGED <<joinable, shutdown_flag, bus_shutdown_lock, request, forks, crashed>>

Crash ==
  /\ crashed' = TRUE
  /\ UNCHANGED <<loopVars, bus_thread_, ev, evVars, bus_shutdown_lock, dbusVars, request,
                 app, forks>>

(* A fork, or main's Shutdown, finds that the other one has the bus thread   *)
(* destroyed, joined or started over: a null bus_thread_, a freed event      *)
(* loop, or a std::thread joined twice, assigned or destroyed while it runs. *)
StopTerminates(t) ==
  /\ \/ ~bus_thread_ /\ app[t] \in {"pause", "join", "resume"}
     \/ app[t] \in {"trigger", "write"} /\ ev # t
     \/ app[t] = "join" /\ ~joinable
     \/ app[t] \in {"resume", "reset"} /\ joinable
  /\ Crash

(* A call after Shutdown, or one whose event loop goes meanwhile; neither is *)
(* allowed (bus.h).                                                          *)
CallTerminates(t) ==
  /\ \/ app[t] = "idle" /\ ~bus_thread_
     \/ app[t] \in {"add", "notify"} /\ ev # t
  /\ Crash

Terminate(t) == StopTerminates(t) \/ CallTerminates(t)

-----------------------------------------------------------------------------
LoopStep ==
  CheckFlag \/ PrepareFindsPending \/ PrepareArms \/ Poll \/ ClearNotifyDeferFd
  \/ DispatchNothing

RunSource ==
  \/ \E c \in Call : RunTask(c) \/ RunTaskWithoutPending(c) \/ RunTimeout(c)
  \/ RunShutdown \/ RunDispatch \/ RunWatch
  \/ \E r \in Request : RunRequest(r)

EnvironmentStep ==
  \/ \E c \in Call : PortalReplies(c) \/ TimeoutElapses(c)
  \/ Disconnect
  \/ \E r \in Request : StubAsks(r)

(* A call or fork that has begun goes on.                                    *)
Continue(t) ==
  \/ AddTask(t) \/ NotifyTask(t)
  \/ AcquireBus(t) \/ Pause(t) \/ Trigger(t) \/ NotifyTrigger(t) \/ Join(t)
  \/ ForkProcess(t) \/ Resume(t)

Next ==
  /\ ~crashed
  /\ \/ LoopStep
     \/ RunSource
     \/ EnvironmentStep
     \/ \E t \in Thread : AcquireForCall(t) \/ LockFork(t) \/ Continue(t) \/ Terminate(t)
     \/ ReturnFromMain
     \/ Reset

Spec == Init /\ [][Next]_vars

(* What the bus thread does for one call, from its request or task on.       *)
Serve(c) ==
  \/ RunTask(c) \/ RunTaskWithoutPending(c) \/ RunTimeout(c)
  \/ c \in Request /\ RunRequest(c)

(* Fairness.  The bus thread runs, and sd-event, which serves sources of the *)
(* same priority in the order they became pending, passes no source over for *)
(* ever.  A mutex is handed to every thread that keeps asking for it.  Each  *)
(* call's timer runs out; replies are not promised.                          *)
Fairness ==
  /\ WF_vars(~crashed /\ LoopStep)
  /\ \A c \in Call : /\ SF_vars(~crashed /\ Serve(c))
                     /\ WF_vars(~crashed /\ TimeoutElapses(c))
  /\ SF_vars(~crashed /\ RunShutdown)
  /\ SF_vars(~crashed /\ (RunDispatch \/ RunWatch))
  /\ \A t \in Thread : SF_vars(~crashed /\ Continue(t))

FairSpec == Spec /\ Fairness

-----------------------------------------------------------------------------
(* Every variable has its type; what waits to be read, to be dispatched or   *)
(* to time out are calls that libdbus still waits for.                       *)
TypeOK ==
  /\ loop \in {"none", "check", "prepare", "clear", "poll", "dispatch", "exited"}
  /\ bus_thread_ \in BOOLEAN
  /\ joinable \in BOOLEAN
  /\ shutdown_flag \in BOOLEAN
  /\ ev \in Thread \cup {None}
  /\ sources \in SUBSET (Call \cup {"shutdown", "dispatch"})
  /\ notify \in BOOLEAN
  /\ bus_shutdown_lock \in Thread \cup {None}
  /\ sent \in SUBSET Call
  /\ socket \in SUBSET sent
  /\ expired \in SUBSET sent
  /\ incoming \in SUBSET sent
  /\ connection \in {"open", "closed", "dropped", "lost"}
  /\ request \in [Request -> {"none", "asked", "queued", "answered"}]
  /\ app \in [Thread -> {"idle", "add", "notify", "answer", "acquire", "pause", "trigger",
                         "write", "join", "fork", "resume", "reset", "done"}]
  /\ forks \in 0..MaxForks
  /\ crashed \in BOOLEAN

(* The bus thread never sleeps on work: if a task or trigger is enabled      *)
(* while it polls, the eventfd is readable, or whoever added the source has  *)
(* yet to write to it and holds the mutex until then.                        *)
NeverSleepsOnWork ==
  loop = "poll" /\ sources # {} =>
    notify \/ (ev # None /\ app[ev] \in {"notify", "write"})

(* main has returned and is in Bus::Shutdown, or past it.                    *)
MainEnded ==
  \/ app[Main] \in {"reset", "done"}
  \/ app[Main] \in {"pause", "trigger", "write", "join"} /\ ~Forking(Main)

(* Where a thread is in Pause, in Resume or between them.                    *)
InPause == {"acquire", "pause", "trigger", "write", "join", "fork", "resume"}

(* From the join to the resume of a fork the bus thread is not running, so   *)
(* that nothing of the event loop is half done when the process is copied;   *)
(* and nobody else is in a fork, or about to stop or start the bus thread,   *)
(* but main in Shutdown.                                                     *)
ForkIsQuiet ==
  \A t \in Thread : app[t] \in {"fork", "resume"} =>
    /\ ~joinable /\ loop \in {"none", "exited"}
    /\ \A u \in Thread \ {t} : app[u] \in InPause => u = Main /\ MainEnded

(* What the calls of threads and stubs are to BusService: whoever waits, and *)
(* the tasks among the sources of the event loop.                            *)
Waiting ==
  {t \in Thread : app[t] \in {"notify", "answer"}} \cup {r \in Request : request[r] = "queued"}
Tasks == sources \cap Call

Service == INSTANCE BusService WITH
  Caller <- Call, MayEnd <- MainReturns, waiting <- Waiting, queue <- Tasks, sent <- sent

(* A call is made once and answered once, for the thread or stub that waits  *)
(* for it, whatever stops and starts of the bus thread and timeouts come in  *)
(* between; calls are only forgotten by Bus::Shutdown when main has ended.   *)
ServesCalls == Service!Spec

(* A call waits for the bus thread to send it, for its reply or its timer,   *)
(* or for the dispatch trigger, which is fired.                              *)
CallUnderWay(c) ==
  \/ c \in Tasks
  \/ c \in sent \ incoming
  \/ c \in incoming /\ "dispatch" \in sources

(* Whoever holds the mutex of ev_ is about to release it; whoever holds      *)
(* bus_shutdown_lock_ waits for the former or for the bus thread at most.    *)
HoldersGoOn ==
  /\ ev # None => app[ev] \in {"add", "notify", "trigger", "write"}
  /\ bus_shutdown_lock # None => app[bus_shutdown_lock] \in InPause

(* A thread that is to join the bus thread has told it to stop; and it is    *)
(* only told by a fork, which joins it and starts it over.                   *)
ToldToStop == shutdown_flag \/ "shutdown" \in sources \/ loop = "exited"

StopUnderWay ==
  /\ \A t \in Thread : app[t] \in {"write", "join"} => joinable /\ ToldToStop
  /\ ToldToStop \/ ~joinable =>
       \E t \in Thread : Forking(t) /\ app[t] \in {"write", "join", "fork", "resume"}

(* Whoever waits in a call, in a fork or for a mutex waits for something     *)
(* that is under way, however forks, calls, timeouts and a hangup interleave *)
(* (bus.cc, bus_thread.cc, bus_safe_fork.cc).  When main ends others may     *)
(* join a thread that is joined by it, and calls are forgotten.              *)
NobodyStranded ==
  /\ app[Main] # "done" => \A c \in Waiting : CallUnderWay(c)
  /\ HoldersGoOn
  /\ ~MainEnded => StopUnderWay

(* Until main ends, the mutex that forks share keeps every operation on the  *)
(* std::thread legal; and while the connection lives every message sent gets *)
(* the pending call that SendCall asserts.                                   *)
NeverTerminates == crashed => MainEnded \/ connection = "lost"

(* A blocking call returns, whatever forks come in between, and even if the  *)
(* daemon hangs up; and a stub's request is read and its call ends, with a   *)
(* bus thread that is stopped and started over in between; unless the        *)
(* application has been terminated, or a handler blocks (see RunDispatch).   *)
CallsEnd ==
  /\ \A t \in Thread : app[t] = "answer" ~> app[t] = "idle" \/ crashed
  /\ \A r \in Request : request[r] = "asked" ~> request[r] = "answered" \/ crashed

(* Every fork returns, unless the application has been terminated.           *)
ForkReturns == \A t \in Thread : app[t] = "acquire" ~> app[t] = "idle" \/ crashed
=============================================================================
