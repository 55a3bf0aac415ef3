----------------------------- MODULE Supervisor -----------------------------
(***************************************************************************)
(* The spawn strategy: how a sandboxed process is started, tracked, waited *)
(* for and signalled.                                                      *)
(*                                                                         *)
(* Four parties take part.                                                 *)
(*                                                                         *)
(*  - A STUB is one run of zypak-sandbox (sandbox/spawn_strategy/run.cc).  *)
(*    The application forks it in the belief that it is the sandboxed      *)
(*    process.  It hands the supervisor one end of a socket pair, sends    *)
(*    its command line over the pair and then reads from it.               *)
(*  - The BUS THREAD of the application runs the supervisor's callbacks    *)
(*    (preload/host/spawn_strategy/supervisor.cc), one at a time.          *)
(*  - Any other THREAD of the application may call waitpid and kill, which *)
(*    process_override.cc diverts to the supervisor.                       *)
(*  - The PORTAL, Flatpak's D-Bus service, starts the process and reports  *)
(*    on it.  It is external; so is the kernel.                            *)
(*                                                                         *)
(* The supervisor's tables are stub_pids_data_, behind a mutex and a       *)
(* condition variable (base/guarded_value.h), and external_to_stub_pids_.  *)
(* A step of the model is one critical section of that mutex, or one call  *)
(* that a thread may block in.                                             *)
(***************************************************************************)
EXTENDS Naturals, Sequences

CONSTANTS
  Stub,         \* runs of zypak-sandbox; also names the process each one asks for
  StubPid,      \* pids of stubs
  ExternalPid,  \* pids the portal knows processes by, in a namespace of their own
  Waiter,       \* application threads that call waitpid
  Killer,       \* application threads that call kill
  ReuseHeld,    \* whether the kernels may hand out the number of a dead process again
                \* while the supervisor has still to do with the old one
  None          \* no pid, no stub, no entry, no thread

Thread == Waiter \cup Killer

ASSUME ReuseAssumption == ReuseHeld \in BOOLEAN
ASSUME NoneAssumption == None \notin Stub \cup StubPid \cup ExternalPid \cup Thread
ASSUME DisjointAssumption == Stub \cap Thread = {}

VARIABLES
  stub,       \* where each stub is in RunSpawnStrategy
  pid,        \* the pid the kernel gave each stub
  ended,      \* stubs whose read from the socket pair returns: the supervisor's
              \* end is closed, or the exit reply was written to it
  request,    \* how far the supervisor has taken each stub's request
  bus,        \* where the bus thread is
  job,        \* what it is busy with
  lock,       \* the thread that holds stub_pids_data_'s mutex while it blocks
  stub_pids_data,         \* stub pid -> its StubPidData, or None
  external_to_stub_pids,  \* external pid -> stub pid, or None
  child,      \* the sandboxed process the portal runs for each stub
  ext,        \* its external pid, the one the portal knows it by
  inbox,      \* what the portal has sent and the bus thread not yet dispatched
  app         \* where each application thread is in waitpid or kill

vars == <<stub, pid, ended, request, bus, job, lock, stub_pids_data,
          external_to_stub_pids, child, ext, inbox, app>>

stubVars   == <<stub, pid>>
tableVars  == <<stub_pids_data, external_to_stub_pids>>
portalVars == <<child, ext>>

-----------------------------------------------------------------------------
(* struct StubPidData.  The internal pid is the process itself; of the exit  *)
(* status only its presence matters, of notify_exit the pair it writes to.   *)
StubPidData == [external: ExternalPid \cup {None}, internal: Stub \cup {None},
                exit_status: BOOLEAN, notify_exit: Stub \cup {None}]

ASSUME EntryAssumption == None \notin StubPidData

NewStubPidData == [external |-> None, internal |-> None,
                   exit_status |-> FALSE, notify_exit |-> None]

(* What the portal sends.  A reply carries the external pid, or None for an  *)
(* error; "timeout" is the error libdbus makes up when no reply came.  A     *)
(* started message names the process (`of` is its internal pid); in exited   *)
(* messages `of` is there for the properties only, the code never sees it.   *)
Message == [type: {"reply", "timeout"}, of: Stub, ext: ExternalPid \cup {None}]
           \cup [type: {"started", "exited"}, of: Stub, ext: ExternalPid]
           \cup [type: {"signalled"}, of: Thread, ext: {None}]

Request(s) == [type |-> "request", of |-> s, ext |-> None]

(* Where a thread is in waitpid or kill, and for which pid.                  *)
Idle == [at |-> "idle", pid |-> None]
ThreadState == [at: {"idle", "waiting", "woken", "waitpid", "poll", "kill",
                     "call", "queued", "sent", "replied", "answered"},
                pid: StubPid \cup {None}]

Registered(p) == stub_pids_data[p] # None

(* The mutex of stub_pids_data_ is free.  Every critical section but that of *)
(* SendSignal is a single step.                                              *)
MutexFree == lock = None

(* An entry with an exit status; the entries without p's; the entries with   *)
(* p's external pid set.                                                     *)
Exited(p) == Registered(p) /\ stub_pids_data[p].exit_status

Erase_Mutant(p) == stub_pids_data
Erase(p) == [stub_pids_data EXCEPT ![p] = None]

SetExternal_Mutant(p, e) == stub_pids_data
SetExternal(p, e) == [stub_pids_data EXCEPT ![p].external = e]

(* emplace keeps a mapping that is already there.                            *)
EmplaceExternal_Mutant(e, p) == external_to_stub_pids
EmplaceExternal(e, p) ==
  IF external_to_stub_pids[e] = None
    THEN [external_to_stub_pids EXCEPT ![e] = p]
    ELSE external_to_stub_pids

(* The supervisor's end of a stub's pair is closed.                          *)
HangUp_Mutant(s) == ended
HangUp(s) == ended \cup {s}

StubRunning    == {"born", "opened", "waiting"}
ProcessRunning == {"spawned", "started"}
ProcessEnded   == {"stillborn", "exited"}   \* before it started, and after

(* The supervisor has no more to do with a stub: it never asked, or its      *)
(* request failed.  An entry whose process has run is never removed.         *)
Over(s) == request[s] \in {"none", "dropped", "failed"}

-----------------------------------------------------------------------------
Init ==
  /\ stub = [s \in Stub |-> "unborn"]
  /\ pid = [s \in Stub |-> None]
  /\ ended = {}
  /\ request = [s \in Stub |-> "none"]
  /\ bus = "idle"
  /\ job = None
  /\ lock = None
  /\ stub_pids_data = [p \in StubPid |-> None]
  /\ external_to_stub_pids = [e \in ExternalPid |-> None]
  /\ child = [s \in Stub |-> "none"]
  /\ ext = [s \in Stub |-> None]
  /\ inbox = <<>>
  /\ app = [t \in Thread |-> Idle]

-----------------------------------------------------------------------------
(* The stub.                                                                 *)

(* The application forks and the child executes zypak-sandbox.  The kernel   *)
(* gives it a number no unreaped child holds.                                *)
Fork(s, p) ==
  /\ stub[s] = "unborn"
  /\ \A x \in Stub : pid[x] = p => stub[x] = "gone" /\ (ReuseHeld \/ Over(x))
  /\ stub' = [stub EXCEPT ![s] = "born"]
  /\ pid' = [pid EXCEPT ![s] = p]
  /\ UNCHANGED <<ended, request, bus, job, lock, tableVars, portalVars, inbox, app>>

(* OpenSpawnRequest: one end of a fresh pair goes to the supervisor.         *)
OpenSpawnRequest(s) ==
  /\ stub[s] = "born"
  /\ stub' = [stub EXCEPT ![s] = "opened"]
  /\ request' = [request EXCEPT ![s] = "asked"]
  /\ UNCHANGED <<pid, ended, bus, job, lock, tableVars, portalVars, inbox, app>>

(* SendSpawnRequest: the command line and the descriptors go over the pair.  *)
SendSpawnRequest(s) ==
  /\ stub[s] = "opened"
  /\ stub' = [stub EXCEPT ![s] = "waiting"]
  /\ UNCHANGED <<pid, ended, request, bus, job, lock, tableVars, portalVars, inbox, app>>

(* Any of the calls before ReadExitReply fails: the stub exits with kFailure. *)
StubFails(s) ==
  /\ stub[s] \in {"born", "opened"}
  /\ stub' = [stub EXCEPT ![s] = "dead"]
  /\ UNCHANGED <<pid, ended, request, bus, job, lock, tableVars, portalVars, inbox, app>>

(* ReadExitReply returns, on the exit reply or on end of file alike.         *)
ReadExitReply(s) ==
  /\ stub[s] = "waiting"
  /\ s \in ended
  /\ stub' = [stub EXCEPT ![s] = "dead"]
  /\ UNCHANGED <<pid, ended, request, bus, job, lock, tableVars, portalVars, inbox, app>>

-----------------------------------------------------------------------------
(* The bus thread.  It runs one event source to its end before the next, and *)
(* holds the event loop's mutex meanwhile: bus # "idle" is that mutex.       *)

(* HandleSpawnRequest reads the pair's other end and the sender's pid.  The  *)
(* order in which pending requests are read is left open.                    *)
HandleSpawnRequest(s) ==
  /\ bus = "idle"
  /\ request[s] = "asked"
  /\ request' = [request EXCEPT ![s] = "taken"]
  /\ bus' = "fulfill"
  /\ job' = Request(s)
  /\ UNCHANGED <<stubVars, ended, lock, tableVars, portalVars, inbox, app>>

(* The early returns of HandleSpawnRequest: the read fails, or there is not  *)
(* exactly one descriptor (the process is out of them).                      *)
RejectSpawnRequest(s) ==
  /\ bus = "idle"
  /\ request[s] = "asked"
  /\ request' = [request EXCEPT ![s] = "dropped"]
  /\ ended' = HangUp(s)
  /\ UNCHANGED <<stubVars, bus, job, lock, tableVars, portalVars, inbox, app>>

(* FulfillSpawnRequest.  The read blocks the bus thread until the stub has   *)
(* sent its message or is dead; with nothing read the buffer that is parsed  *)
(* is uninitialised, so both results are possible then too.  Launcher::Run   *)
(* queues the call to the portal.  The descriptor is a by-value parameter:   *)
(* the supervisor's end is closed on return.                                 *)
FulfillSpawnRequest(ok) ==
  /\ bus = "fulfill"
  /\ stub[job.of] # "opened"
  /\ ended' = HangUp(job.of)
  /\ IF ok
       THEN /\ bus' = "register"
            /\ request' = [request EXCEPT ![job.of] = "queued"]
            /\ UNCHANGED job
       ELSE /\ bus' = "idle"
            /\ job' = None
            /\ request' = [request EXCEPT ![job.of] = "dropped"]
  /\ UNCHANGED <<stubVars, lock, tableVars, portalVars, inbox, app>>

(* What communication_fd holds after std::move of it into the call above.    *)
CommunicationFd(s) == None

(* The end of HandleSpawnRequest: emplace keeps an entry that is already     *)
(* there, notify_exit is assigned in either case.                            *)
RegisterStub ==
  /\ bus = "register"
  /\ MutexFree
  /\ LET p == pid[job.of]
         data == IF Registered(p) THEN stub_pids_data[p] ELSE NewStubPidData
     IN stub_pids_data' =
          [stub_pids_data EXCEPT ![p] = [data EXCEPT !.notify_exit = CommunicationFd(job.of)]]
  /\ bus' = "idle"
  /\ job' = None
  /\ UNCHANGED <<stubVars, ended, request, lock, external_to_stub_pids, portalVars, inbox, app>>

(* The task SendCall queued for a Spawn call: the message goes out.          *)
SendSpawn(s) ==
  /\ bus = "idle"
  /\ request[s] = "queued"
  /\ request' = [request EXCEPT ![s] = "called"]
  /\ child' = [child EXCEPT ![s] = "requested"]
  /\ UNCHANGED <<stubVars, ended, bus, job, lock, tableVars, ext, inbox, app>>

(* The same for a SpawnSignal call of thread t.                              *)
SendSpawnSignal(t) ==
  /\ bus = "idle"
  /\ app[t].at = "queued"
  /\ app' = [app EXCEPT ![t].at = "sent"]
  /\ UNCHANGED <<stubVars, ended, request, bus, job, lock, tableVars, portalVars, inbox>>

(* libdbus drops a reply to a call that has expired.                         *)
AnswersPendingCall_Mutant(m) == TRUE
AnswersPendingCall(m) == request[m.of] = "called"

(* The dispatch trigger hands the oldest message to whom it is for: a reply  *)
(* to the pending call it answers, if that has not expired; a signal to its  *)
(* handler.                                                                  *)
DispatchReply ==
  /\ bus = "idle"
  /\ inbox # <<>>
  /\ Head(inbox).type = "reply"
  /\ LET m == Head(inbox) IN
       IF AnswersPendingCall(m)
         THEN /\ request' = [request EXCEPT ![m.of] = "replied"]
              /\ bus' = "handle"
              /\ job' = m
         ELSE UNCHANGED <<request, bus, job>>
  /\ inbox' = Tail(inbox)
  /\ UNCHANGED <<stubVars, ended, lock, tableVars, portalVars, app>>

DispatchEvent ==
  /\ bus = "idle"
  /\ inbox # <<>>
  /\ Head(inbox).type \in {"timeout", "started", "exited"}
  /\ bus' = "handle"
  /\ job' = Head(inbox)
  /\ inbox' = Tail(inbox)
  /\ UNCHANGED <<stubVars, ended, request, lock, tableVars, portalVars, app>>

(* The handler of CallBlocking needs no lock: it fulfils the promise.        *)
DispatchSignalled ==
  /\ bus = "idle"
  /\ inbox # <<>>
  /\ Head(inbox).type = "signalled"
  /\ app' = [app EXCEPT ![Head(inbox).of].at = "answered"]
  /\ inbox' = Tail(inbox)
  /\ UNCHANGED <<stubVars, ended, request, bus, job, lock, tableVars, portalVars>>

-----------------------------------------------------------------------------
(* Handlers of portal messages.  Each takes the mutex of stub_pids_data_.    *)

(* The guard's destructor with GuardReleaseNotify::kAll: every sleeper is to *)
(* look at its predicate again.                                              *)
NotifyAll(threads) ==
  [t \in Thread |-> IF threads[t].at = "waiting"
                      THEN [threads[t] EXCEPT !.at = "woken"]
                      ELSE threads[t]]

(* HandleSpawnReply for an error, of the portal or of the timeout.  The      *)
(* guard notifies nobody.                                                    *)
SpawnFailed == job.type = "timeout" \/ job.ext = None

HandleSpawnReplyError ==
  /\ bus = "handle"
  /\ job.type \in {"reply", "timeout"}
  /\ SpawnFailed
  /\ MutexFree
  /\ stub_pids_data' = Erase(pid[job.of])
  /\ request' = [request EXCEPT ![job.of] = "failed"]
  /\ bus' = "idle"
  /\ job' = None
  /\ UNCHANGED <<stubVars, ended, lock, external_to_stub_pids, portalVars, inbox, app>>

(* HandleSpawnReply for a pid: without an entry it only logs.                *)
HandleSpawnReply ==
  /\ bus = "handle"
  /\ job.type = "reply"
  /\ ~SpawnFailed
  /\ MutexFree
  /\ LET p == pid[job.of] IN
       IF Registered(p)
         THEN /\ stub_pids_data' = SetExternal(p, job.ext)
              /\ external_to_stub_pids' = EmplaceExternal(job.ext, p)
         ELSE UNCHANGED tableVars
  /\ request' = [request EXCEPT ![job.of] = "done"]
  /\ bus' = "idle"
  /\ job' = None
  /\ UNCHANGED <<stubVars, ended, lock, portalVars, inbox, app>>

(* FindStubPidData(ExternalPid): whether there is an entry, and whether the  *)
(* assertion on it holds.                                                    *)
FindsStubPidData(e) ==
  external_to_stub_pids[e] # None /\ Registered(external_to_stub_pids[e])
FindAsserts(e) ==
  FindsStubPidData(e) => stub_pids_data[external_to_stub_pids[e]].external = e

(* A failed assertion aborts the application, whatever handler it is in.     *)
HandlerAborts ==
  /\ bus = "handle"
  /\ job.type \in {"started", "exited"}
  /\ MutexFree
  /\ ~FindAsserts(job.ext)
  /\ bus' = "aborted"
  /\ UNCHANGED <<stubVars, ended, request, job, lock, tableVars, portalVars, inbox, app>>

(* The entry a SpawnStarted message is for, and the internal pid in it.      *)
EntryOf_Mutant(m) ==
  CHOOSE p \in StubPid : Registered(p) /\ stub_pids_data[p].internal = None
EntryOf(m) == external_to_stub_pids[m.ext]

InternalPid_Mutant(m) == m.ext
InternalPid(m) == m.of

HandleSpawnStarted ==
  /\ bus = "handle"
  /\ job.type = "started"
  /\ MutexFree
  /\ FindAsserts(job.ext)
  /\ stub_pids_data' =
       IF FindsStubPidData(job.ext)
         THEN [stub_pids_data EXCEPT ![EntryOf(job)].internal = InternalPid(job)]
         ELSE stub_pids_data
  /\ app' = NotifyAll(app)
  /\ bus' = "idle"
  /\ job' = None
  /\ UNCHANGED <<stubVars, ended, request, lock, external_to_stub_pids, portalVars, inbox>>

(* The exit status is recorded only after the stub has been written to, and  *)
(* a write to an invalid descriptor fails.                                   *)
HandleSpawnExited ==
  /\ bus = "handle"
  /\ job.type = "exited"
  /\ MutexFree
  /\ FindAsserts(job.ext)
  /\ LET p == external_to_stub_pids[job.ext]
         fd == stub_pids_data[p].notify_exit
     IN IF FindsStubPidData(job.ext) /\ fd # None
          THEN /\ ended' = ended \cup {fd}
               /\ stub_pids_data' = [stub_pids_data EXCEPT ![p].exit_status = TRUE]
          ELSE UNCHANGED <<ended, stub_pids_data>>
  /\ app' = NotifyAll(app)
  /\ bus' = "idle"
  /\ job' = None
  /\ UNCHANGED <<stubVars, request, lock, external_to_stub_pids, portalVars, inbox>>

-----------------------------------------------------------------------------
(* The portal, as far as the supervisor can tell.                            *)

Send(type, c, e) == inbox' = Append(inbox, [type |-> type, of |-> c, ext |-> e])

PortalSpawns(s, e) ==
  /\ child[s] = "requested"
  /\ \A x \in Stub : ext[x] = e => child[x] \in ProcessEnded /\ (ReuseHeld \/ Over(x))
  /\ child' = [child EXCEPT ![s] = "spawned"]
  /\ ext' = [ext EXCEPT ![s] = e]
  /\ Send("reply", s, e)
  /\ UNCHANGED <<stubVars, ended, request, bus, job, lock, tableVars, app>>

PortalRefuses(s) ==
  /\ child[s] = "requested"
  /\ child' = [child EXCEPT ![s] = "refused"]
  /\ Send("reply", s, None)
  /\ UNCHANGED <<stubVars, ended, request, bus, job, lock, tableVars, ext, app>>

PortalStarted(s) ==
  /\ child[s] = "spawned"
  /\ child' = [child EXCEPT ![s] = "started"]
  /\ Send("started", s, ext[s])
  /\ UNCHANGED <<stubVars, ended, request, bus, job, lock, tableVars, ext, app>>

(* The process ends, of itself or by a signal, started or not.               *)
PortalExited(s) ==
  /\ child[s] \in ProcessRunning
  /\ child' = [child EXCEPT ![s] = IF child[s] = "started" THEN "exited" ELSE "stillborn"]
  /\ Send("exited", s, ext[s])
  /\ UNCHANGED <<stubVars, ended, request, bus, job, lock, tableVars, ext, app>>

(* libdbus gives up on a Spawn call; the portal may still carry it out.      *)
CallTimesOut(s) ==
  /\ request[s] = "called"
  /\ request' = [request EXCEPT ![s] = "expired"]
  /\ Send("timeout", s, None)
  /\ UNCHANGED <<stubVars, ended, bus, job, lock, tableVars, portalVars, app>>

(* A SpawnSignal call is answered, by the portal or by the timeout.          *)
PortalSignalled(t) ==
  /\ app[t].at = "sent"
  /\ app' = [app EXCEPT ![t].at = "replied"]
  /\ Send("signalled", t, None)
  /\ UNCHANGED <<stubVars, ended, request, bus, job, lock, tableVars, portalVars>>

-----------------------------------------------------------------------------
(* The application's threads in waitpid and kill.                            *)

IsChild(p) == \E s \in Stub : pid[s] = p

(* ReapProcess, once the entry is gone: the stub is written to, and a        *)
(* blocking waitpid follows.                                                 *)
ReapedStub(data) == {data.notify_exit} \ {None}

(* GetExitStatus, for waitpid with WNOHANG.  kNotFound falls through to the  *)
(* kernel's waitpid, kTryLater returns at once.  The guard notifies all.     *)
GetExitStatus(t, p) ==
  /\ app[t].at = "idle"
  /\ IsChild(p)
  /\ MutexFree
  /\ LET found == Registered(p)
         exited == Exited(p)
         next == IF exited THEN [at |-> "waitpid", pid |-> p]
                 ELSE IF found THEN Idle
                 ELSE [at |-> "poll", pid |-> p]
     IN /\ stub_pids_data' = IF exited THEN Erase(p) ELSE stub_pids_data
        /\ ended' = IF exited THEN ended \cup ReapedStub(stub_pids_data[p]) ELSE ended
        /\ app' = [NotifyAll(app) EXCEPT ![t] = next]
  /\ UNCHANGED <<stubVars, request, bus, job, lock, external_to_stub_pids, portalVars, inbox>>

(* The predicate of WaitForExitStatus, evaluated under the mutex: with it    *)
(* false the thread sleeps on the condition variable.                        *)
WaitsOn(p) == Registered(p) /\ ~Exited(p)

EvaluatePredicate(t, p) ==
  LET next == IF WaitsOn(p) THEN "waiting" ELSE "waitpid"
  IN /\ MutexFree
     /\ stub_pids_data' = IF Exited(p) THEN Erase(p) ELSE stub_pids_data
     /\ ended' = IF Exited(p) THEN ended \cup ReapedStub(stub_pids_data[p]) ELSE ended
     /\ app' = [app EXCEPT ![t] = [at |-> next, pid |-> p]]
     /\ UNCHANGED <<stubVars, request, bus, job, lock, external_to_stub_pids,
                    portalVars, inbox>>

WaitForExitStatus(t, p) ==
  /\ app[t].at = "idle"
  /\ IsChild(p)
  /\ EvaluatePredicate(t, p)

WakeUp(t) ==
  /\ app[t].at = "woken"
  /\ EvaluatePredicate(t, app[t].pid)

(* A condition variable may wake its sleepers for no reason.                 *)
SpuriousWakeUp(t) ==
  /\ app[t].at = "waiting"
  /\ app' = [app EXCEPT ![t].at = "woken"]
  /\ UNCHANGED <<stubVars, ended, request, bus, job, lock, tableVars, portalVars, inbox>>

(* The kernel's waitpid: it reaps a dead stub, fails where there is none, and *)
(* blocks on a running one unless it polls.                                  *)
KernelWaitpid(t) ==
  /\ app[t].at \in {"waitpid", "poll"}
  /\ \/ app[t].at = "poll"
     \/ ~ \E s \in Stub : pid[s] = app[t].pid /\ stub[s] \in StubRunning
  /\ stub' = [s \in Stub |-> IF pid[s] = app[t].pid /\ stub[s] = "dead"
                               THEN "gone" ELSE stub[s]]
  /\ app' = [app EXCEPT ![t] = Idle]
  /\ UNCHANGED <<pid, ended, request, bus, job, lock, tableVars, portalVars, inbox>>

(* SendSignal takes the mutex and, when there is an entry, keeps it until    *)
(* the portal has answered.                                                  *)
SendSignal(t, p) ==
  /\ app[t].at = "idle"
  /\ IsChild(p)
  /\ MutexFree
  /\ IF Registered(p)
       THEN /\ lock' = t
            /\ app' = [app EXCEPT ![t] = [at |-> "call", pid |-> p]]
       ELSE /\ UNCHANGED lock
            /\ app' = [app EXCEPT ![t] = [at |-> "kill", pid |-> p]]
  /\ UNCHANGED <<stubVars, ended, request, bus, job, tableVars, portalVars, inbox>>

(* The pid SendSignal passes to SpawnSignal.                                 *)
SpawnSignalPid(p) == p

(* CallBlocking queues its task under the event loop's mutex.                *)
CallSpawnSignal(t) ==
  /\ app[t].at = "call"
  /\ bus = "idle"
  /\ app' = [app EXCEPT ![t].at = "queued"]
  /\ UNCHANGED <<stubVars, ended, request, bus, job, lock, tableVars, portalVars, inbox>>

(* The future is ready: the guard releases the mutex and notifies nobody.    *)
SendSignalReturns(t) ==
  /\ app[t].at = "answered"
  /\ lock' = None
  /\ app' = [app EXCEPT ![t] = Idle]
  /\ UNCHANGED <<stubVars, ended, request, bus, job, tableVars, portalVars, inbox>>

(* The original kill, of a fatal signal: it hits whoever has the pid now.    *)
KernelKill(t) ==
  /\ app[t].at = "kill"
  /\ stub' = [s \in Stub |-> IF pid[s] = app[t].pid /\ stub[s] \in StubRunning
                               THEN "dead" ELSE stub[s]]
  /\ app' = [app EXCEPT ![t] = Idle]
  /\ UNCHANGED <<pid, ended, request, bus, job, lock, tableVars, portalVars, inbox>>

-----------------------------------------------------------------------------
StubStep(s) ==
  OpenSpawnRequest(s) \/ SendSpawnRequest(s) \/ StubFails(s) \/ ReadExitReply(s)

BusStep ==
  \/ \E s \in Stub : HandleSpawnRequest(s) \/ RejectSpawnRequest(s) \/ SendSpawn(s)
  \/ \E ok \in BOOLEAN : FulfillSpawnRequest(ok)
  \/ RegisterStub
  \/ \E t \in Killer : SendSpawnSignal(t)
  \/ DispatchReply \/ DispatchEvent \/ DispatchSignalled
  \/ HandleSpawnReply \/ HandleSpawnReplyError
  \/ HandleSpawnStarted \/ HandleSpawnExited

CallEnds(s) ==
  (\E e \in ExternalPid : PortalSpawns(s, e)) \/ PortalRefuses(s) \/ CallTimesOut(s)

PortalStep ==
  \/ \E s \in Stub : CallEnds(s) \/ PortalStarted(s) \/ PortalExited(s)
  \/ \E t \in Killer : PortalSignalled(t)

WaiterContinues(t) == WakeUp(t) \/ KernelWaitpid(t)

KillerContinues(t) ==
  CallSpawnSignal(t) \/ SendSignalReturns(t) \/ KernelKill(t)

AppStep ==
  \/ \E s \in Stub, p \in StubPid : Fork(s, p)
  \/ \E t \in Waiter :
       \/ \E p \in StubPid : GetExitStatus(t, p) \/ WaitForExitStatus(t, p)
       \/ SpuriousWakeUp(t)
       \/ WaiterContinues(t)
  \/ \E t \in Killer :
       \/ \E p \in StubPid : SendSignal(t, p)
       \/ KillerContinues(t)

Next ==
  /\ bus # "aborted"
  /\ \/ \E s \in Stub : StubStep(s)
     \/ BusStep
     \/ HandlerAborts
     \/ PortalStep
     \/ AppStep

Spec == Init /\ [][Next]_vars

(* Fairness.  The bus thread never stops looping and the stubs are processes *)
(* of their own; a Spawn call ends, because libdbus gives up on it if the    *)
(* portal does not answer; a thread that can leave waitpid or kill does.     *)
(* Nothing is assumed of the sandboxed processes or of new calls.            *)
Fairness ==
  /\ \A s \in Stub : WF_vars(bus # "aborted" /\ StubStep(s))
  /\ WF_vars(bus # "aborted" /\ BusStep)
  /\ \A s \in Stub : WF_vars(bus # "aborted" /\ CallEnds(s))
  /\ \A t \in Killer : WF_vars(bus # "aborted" /\ PortalSignalled(t))
  /\ \A t \in Waiter : WF_vars(bus # "aborted" /\ WaiterContinues(t))
  /\ \A t \in Killer : WF_vars(bus # "aborted" /\ KillerContinues(t))

FairSpec == Spec /\ Fairness

-----------------------------------------------------------------------------
(* Every variable has its type.                                              *)
TypeOK ==
  /\ stub \in [Stub -> {"unborn", "born", "opened", "waiting", "dead", "gone"}]
  /\ pid \in [Stub -> StubPid \cup {None}]
  /\ ended \in SUBSET Stub
  /\ request \in [Stub -> {"none", "asked", "taken", "queued", "called", "expired",
                           "replied", "done", "failed", "dropped"}]
  /\ bus \in {"idle", "fulfill", "register", "handle", "aborted"}
  /\ bus = "idle" => job = None
  /\ bus \in {"fulfill", "register"} => job \in {Request(s) : s \in Stub}
  /\ bus \in {"handle", "aborted"} => job \in Message
  /\ lock \in Killer \cup {None}
  /\ stub_pids_data \in [StubPid -> StubPidData \cup {None}]
  /\ external_to_stub_pids \in [ExternalPid -> StubPid \cup {None}]
  /\ child \in [Stub -> {"none", "requested", "refused"} \cup ProcessRunning
                        \cup ProcessEnded]
  /\ ext \in [Stub -> ExternalPid \cup {None}]
  /\ \A s \in Stub : child[s] \in ProcessRunning \cup ProcessEnded => ext[s] # None
  /\ inbox \in Seq(Message)
  /\ app \in [Thread -> ThreadState]
  /\ \A t \in Thread : app[t].at \in {"waiting", "woken"} => app[t].pid \in StubPid

(* The two tables of the supervisor agree: an entry's external pid leads     *)
(* back to the entry, and an external pid leads to an entry that has it.     *)
(* This is what FindStubPidData asserts of the entries it looks up, so its   *)
(* assertion never aborts the application.                                   *)
TablesMatch ==
  /\ \A p \in StubPid :
       Registered(p) /\ stub_pids_data[p].external # None
         => external_to_stub_pids[stub_pids_data[p].external] = p
  /\ \A e \in ExternalPid : FindsStubPidData(e) => FindAsserts(e)

AssertionHolds == bus # "aborted"

TablesAgree == TablesMatch /\ AssertionHolds

(* A started process is recorded for the stub that asked for it, and never   *)
(* for another one, whatever order requests, replies and signals came in.    *)
RightInternal ==
  \A p \in StubPid : Registered(p) =>
    LET data == stub_pids_data[p] IN
      /\ data.internal # None => pid[data.internal] = p /\ ext[data.internal] = data.external
      /\ data.external # None => \E s \in Stub : pid[s] = p /\ ext[s] = data.external

(* A message that the bus thread has still to dispatch; or is handling.      *)
InInbox(type, x) == \E i \in 1..Len(inbox) : inbox[i].type = type /\ inbox[i].of = x
InHand(type, x)  == bus = "handle" /\ job.type = type /\ job.of = x

(* Nothing that a stub could wait for is still to come: its request came to  *)
(* nothing, or its process has ended and the bus thread has been told.       *)
NothingToCome(s) ==
  \/ request[s] \in {"dropped", "failed"}
  \/ child[s] \in ProcessEnded /\ ~InInbox("exited", s) /\ ~InHand("exited", s)

(* A stub that waits for nothing any more has been let go.                   *)
StubServed ==
  \A s \in Stub : stub[s] = "waiting" /\ NothingToCome(s) => s \in ended

(* A request that is not through is in the bus thread's hands, or what it    *)
(* waits for is with the portal or on its way back.                          *)
CallsPursued ==
  \A s \in Stub :
    /\ request[s] = "taken"   => bus = "fulfill" /\ job.of = s
    /\ request[s] = "called"  => child[s] = "requested" \/ InInbox("reply", s)
    /\ request[s] = "expired" => InInbox("timeout", s) \/ InHand("timeout", s)
    /\ request[s] = "replied" => InHand("reply", s)

(* Whoever has the mutex while it blocks is in SpawnSignal, and the answer   *)
(* of the portal or the timeout's has not been lost.                         *)
InSpawnSignal == {"call", "queued", "sent", "replied", "answered"}

SignalPursued ==
  \A t \in Killer :
    /\ lock = t <=> app[t].at \in InSpawnSignal
    /\ app[t].at = "replied" => InInbox("signalled", t)

(* Nobody is ever stranded: no stub whose wait is over in its read, no       *)
(* request on the books and no thread in SpawnSignal waits for something     *)
(* that nobody will do any more, whatever fails, dies, expires or comes      *)
(* late.  The waits without an end are two: the bus thread's for the mutex   *)
(* of a thread in SpawnSignal, which KillReturns is about, and that of a     *)
(* thread in waitpid, which may miss the erase of its entry.                 *)
NobodyStranded == StubServed /\ CallsPursued /\ SignalPursued

(* A stub does not read on for ever after its request came to nothing or its *)
(* process ended, however many others the bus thread has to serve and        *)
(* whether or not they send theirs.                                          *)
StubAnswered ==
  \A s \in Stub :
    stub[s] = "waiting" /\ (request[s] \in {"dropped", "failed"} \/ child[s] \in ProcessEnded)
      ~> stub[s] # "waiting"

(* The books of ProcessTable, as requests and entries keep them.             *)
Registering(s) == bus = "register" /\ job.of = s

OnBooks(s) == request[s] \notin {"none", "asked", "taken", "dropped"} /\ ~Registering(s)

(* The number of a stub whose request failed may have gone to another one,   *)
(* and with it the entry.                                                    *)
HandedOn(s) ==
  \E x \in Stub \ {s} : pid[x] = pid[s] /\ OnBooks(x) /\ request[x] # "failed"

Known(s) ==
  LET data == stub_pids_data[pid[s]] IN
    CASE ~OnBooks(s) -> "absent"
      [] OnBooks(s) /\ (~Registered(pid[s]) \/ HandedOn(s)) -> "removed"
      [] OTHER -> CASE data.external = None                          -> "pending"
                    [] data.external = ext[s] /\ ext[s] # None
                       /\ data.internal = None                       -> "known"
                    [] data.external = ext[s] /\ ext[s] # None
                       /\ data.internal = s                          -> "started"
                    [] OTHER                                         -> "mistaken"

FailedRequests   == {s \in Stub : child[s] = "refused" \/ request[s] \in {"expired", "failed"}}
StartedProcesses == {s \in Stub : child[s] \in {"started", "exited"}}
Books            == [s \in Stub |-> Known(s)]

Table == INSTANCE ProcessTable WITH
  Entry <- Stub, Pid <- ExternalPid, process <- ext, failed <- FailedRequests,
  started <- StartedProcesses, known <- Books

(* The supervisor's entries go through what ProcessTable allows and nothing  *)
(* else, in whatever order requests, replies, timeouts and signals come: the *)
(* entry is there when the reply is, the pid in it is that of the stub's own *)
(* process, an entry goes only after a failure, and stays gone when a late   *)
(* process turns up.                                                         *)
KeepsTheBooks == Table!Spec

(* ... and no entry stays pending for ever, nor without the internal pid of  *)
(* a process that has started: SpawnStarted is never dispatched before the   *)
(* reply that makes its external pid known.                                  *)
BooksSettle == Table!Fairness

-----------------------------------------------------------------------------
(* What the repository says of itself and the code does not do.              *)

(* A signal is sent to the process that runs for the stub: the supervisor    *)
(* swaps the stub's pid for that of the process (README).                    *)
SignalNamesProcess ==
  \A t \in Killer : app[t].at = "sent" =>
    \E s \in Stub : pid[s] = app[t].pid /\ ext[s] = SpawnSignalPid(app[t].pid)

(* CallBlocking returns once the call is complete (bus.h), so kill returns.  *)
KillReturns == \A t \in Killer : app[t].at = "call" ~> app[t].at = "idle"

(* A stub stays alive until its process completes (README): while the        *)
(* process runs its read from the supervisor does not return.                *)
StaysAlive ==
  \A s \in Stub : stub[s] = "waiting" /\ child[s] \in ProcessRunning => s \notin ended
=============================================================================
