# Zypak in TLA+

Zypak lets Chromium's sandbox run inside Flatpak. Chromium believes it is using
its setuid sandbox; LD_PRELOAD libraries and a few small binaries turn every
sandboxed process into a *sub-sandbox* that Flatpak's portal starts. This
directory holds TLA+ models of the parts of Zypak that are concurrent or
stateful, TLC instances of them, and proofs.

Paths below are relative to `src/src/` of the repository unless they start with
`src/`.

## 1. Inventory

### Application process (the "host")

| component | state | operations | talks to |
|---|---|---|---|
| **Supervisor** (`preload/host/spawn_strategy/supervisor.cc`) | `stub_pids_data_` (mutex and condition variable), `external_to_stub_pids_`, the request socket | `HandleSpawnRequest`, `FulfillSpawnRequest`, `HandleSpawnReply`, `HandleSpawnStarted`, `HandleSpawnExited` on the bus thread; `GetExitStatus`, `WaitForExitStatus`, `SendSignal` on any thread | stubs over socket pairs, the portal through the bus |
| **Overrides** (`process_override.cc`, `bus_safe_fork.cc`, `close/`) | `bus_shutdown_lock_`, one flag | `waitpid`, `kill`, `fork`, `close` | supervisor, bus |
| **Launcher** (`base/launcher.cc`, both launcher delegates) | none | builds flags, environment, descriptors and command of a sandboxed process | portal proxy, flatpak-spawn |
| **Bus** (`dbus/bus.cc`) and **bus thread** (`dbus/internal/bus_thread.cc`) | the thread, the shutdown flag, two triggers, the connection | `Start`, `Shutdown`, `SendCall`, `AddMatch`, libdbus's watch, timeout and dispatch callbacks | event loop, libdbus |
| **Event loop** (`base/evloop.cc`) | sd-event sources, an eventfd | `AddTask`, `AddTrigger`, `AddFd`, `AddTimer*`, `Wait`, `Dispatch` | sd-event |
| **Guarded values** (`base/guarded_value.h`) | mutex, condition variable | `Acquire`, `AcquireWhen`, release with or without notification | supervisor, bus thread |
| **Portal proxy** (`dbus/flatpak_portal_proxy.cc`), launcher delegate | none beyond the connection | `SpawnAsync`, `SpawnSignalBlocking`, two subscriptions | bus |
| **Exec override** (`exec_zypak_sandbox.cc`, `sandbox_path.cc`, `sandbox_suid.cc`) | the path recorded as the sandbox's | rewrites `execvp` of the setuid sandbox and of the application itself | zypak-sandbox, zypak-helper |

### Other processes

| component | state | operations |
|---|---|---|
| **zypak-sandbox**'s `main` (`sandbox/main.cc`) | its standard descriptors, two `cat` processes | `SanitizeStdio`, the choice of the strategy |
| **Stub**: `zypak-sandbox`, spawn strategy (`sandbox/spawn_strategy/run.cc`) | one end of a socket pair | ask, send the request, wait for the exit reply |
| **Mimic zygote**: `zypak-sandbox`, mimic strategy (`sandbox/mimic_strategy/`) | `children_`, one timer per process to be reaped | fork, reap, termination status, sandbox status |
| **zypak-helper** (`helper/`) | environment, descriptor map | host, child and latest modes: `DetermineZygoteStrategy`, `GetPreload`, `ApplyFdMapFromArgs`, exec |
| **Chroot helper** (`helper/chroot_helper.cc`) | a socket pair | answers the program's one chroot request |
| **Child preloads** (`preload/child/`) | an armed fake pid (`bwrap_pid.cc`), saved descriptors (`fd_storage.cc`), kept names of time zones (`localtime.cc`) | overrides of libc calls |

### What is hard

- *Concurrency.* Requests of stubs, replies and signals of the portal, and
  application threads in `waitpid` and `kill` meet in the supervisor's tables.
- *Blocking under a lock.* `SendSignal` makes a blocking D-Bus call with the
  mutex of `stub_pids_data_`, which the thread that delivers the answer wants too.
- *Waiting for work.* The event loop waits without its mutex; a task added
  meanwhile must wake it.
- *Fork.* The bus thread is joined before and started again after every fork,
  with calls queued, sent, answered or timing out; several threads fork.
- *The end of `main`.* The bus is destroyed while other threads go on.
- *Descriptors.* Sources and targets of a map share their numbers; every process
  that keeps the end of a pipe or pair open keeps a reader of it waiting.
- *Environments.* Host, stub, helper and sandboxed process choose the strategy
  each by itself, from environments that were passed on in different ways.
- *Failure.* Stubs die at any point, the portal refuses or never answers, libdbus
  times a call out while the portal still carries it out, the daemon hangs up.
- *Stale numbers.* Pids are reused while entries under the old ones remain.

### What makes each component correct

- *Supervisor:* its two tables are inverse to each other; an entry names the
  process that runs for its stub and no other; a running process is never lost;
  every stub is let go in the end; waiters wake when they should; a signal
  reaches the process.
- *Bus thread:* a call is made exactly once and is answered or times out, across
  any number of forks; the loop never sleeps on work; a fork happens only while
  the thread is gone; no `std::thread` operation terminates the application.
- *Mimic zygote:* every child is reaped once and its status is reported for the
  right pid; a command is answered by exactly one reply.
- *Descriptor maps:* no assignment overwrites a descriptor a later one needs, and
  nothing else stays open in the program.
- *zypak-sandbox:* the sandboxed process gets no descriptor of the application's
  terminal or of the supervisor; the cats end when nobody writes any more.
- *Helper and launcher:* all parts agree on the strategy, and Zypak's own tools
  run without its preloads.
- *Child preloads:* the pid is faked when the main thread tests it; `localtime` of
  one thread never takes another's answer.

## 2. Modules

| module | what it is |
|---|---|
| `Supervisor` | stub, supervisor, overrides of `waitpid` and `kill`, external portal and kernel |
| `ProcessTable` | what the supervisor promises, as an abstract specification |
| `MC_Supervisor` | symmetry and the refinement for TLC |
| `SupervisorProofs` | theorems about `Supervisor` |
| `SupervisorRefinement` | the proof that `Supervisor` implements `ProcessTable` |
| `BusThread` | bus thread, event loop, blocking calls, `fork` override, end of `main`; external sd-event, libdbus and portal |
| `BusService` | what the bus promises its callers, as an abstract specification |
| `MC_BusThread` | symmetry for TLC |
| `BusThreadProofs` | theorems about `BusThread`, the refinement included |
| `MimicZygote` | the mimic strategy's zygote; external host, kernel and flatpak-spawn |
| `MC_MimicZygote` | symmetry for TLC |
| `MimicZygoteProofs` | theorems about `MimicZygote` |
| `FdMap` | the descriptors of one process, from the host's fork request to the exec |
| `FdMapProofs` | theorems about `FdMap` |
| `MimicChild` | extends `FdMap`: the preloads of the mimic strategy in that process; external program and sandbox service |
| `MC_MimicChild` | the instance for TLC |
| `MimicChildProofs` | theorems about `MimicChild`, on top of `FdMapProofs` |
| `SandboxMain` | `zypak-sandbox`: `SanitizeStdio`, the strategy, the stub's descriptors |
| `ChildStart` | chroot helper, `getpid`, hidden executable in the sandboxed process |
| `Launch` | composes `SandboxMain` and `ChildStart` with `zypak-helper`, the exec override and the launcher: one launch from the application to the sandboxed program |
| `MC_Launch` | the instance for TLC |
| `LaunchProofs` | theorems about `Launch` |
| `Extrema` | least and greatest elements of sets of numbers, for the two modules above |

`MimicZygote` is a process of its own, used instead of the stubs where Flatpak is
too old for the spawn strategy; it shares no state with the other two, which meet
at one interface, the bus. `Supervisor` has the bus
thread run one handler at a time and the portal's messages arrive in order, and
abstracts how the thread waits for them; `BusThread` shows how the thread finds
its work and keeps it across forks, and abstracts what the handlers do.
`SandboxMain` follows the stub's descriptors, which `Supervisor` abstracts, and
`Supervisor` the concurrency, which `SandboxMain` leaves to one nondeterministic
answer (`FulfillSpawnRequest` or `SupervisorHangsUp`). `FdMap` begins where
`MimicZygote`'s `HandleFork` succeeds. `Launch` has the application's child
between `fork` and `exec`, where `BusThread`, which has the parent, leaves off.

### Supervisor: state and actions

A step is one critical section of the mutex of `stub_pids_data_`, or one call a
thread may block in. `stub`, `pid` and `ended` are the stubs; `request` follows a
request through the supervisor and libdbus; `bus` and `job` say where the bus
thread is and which message it handles (`bus # "idle"` is also the event loop's
mutex, which the thread holds while it dispatches); `lock` is set only while
`SendSignal` blocks with the mutex held; `child`, `ext` and `inbox` are the
portal; `app` says where each thread is in `waitpid` or `kill`.

| code | actions |
|---|---|
| `OpenSpawnRequest`, `SendSpawnRequest`, `ReadExitReply` (run.cc) | the same names; `StubFails` for an early exit |
| `HandleSpawnRequest` | `HandleSpawnRequest` (the read), `RejectSpawnRequest` (its early returns), `FulfillSpawnRequest` (the blocking read of the body), `RegisterStub` (the table) |
| `SendCall`'s task | `SendSpawn`, `SendSpawnSignal` |
| libdbus dispatching | `DispatchReply`, `DispatchEvent`, `DispatchSignalled` |
| `HandleSpawnReply` | `HandleSpawnReply`, `HandleSpawnReplyError` |
| `HandleSpawnStarted`, `HandleSpawnExited`, the assertion in `FindStubPidData` | `HandleSpawnStarted`, `HandleSpawnExited`, `HandlerAborts` |
| `waitpid` override | `GetExitStatus`, `WaitForExitStatus`, `WakeUp`, `SpuriousWakeUp`, `KernelWaitpid` |
| `kill` override | `SendSignal`, `CallSpawnSignal`, `SendSignalReturns`, `KernelKill` |

Three details of the code matter and are kept. `communication_fd` is moved into
`FulfillSpawnRequest` and the moved-from descriptor is what `notify_exit` gets
(`CommunicationFd`); its pair is closed on return (`HangUp`). `emplace` keeps an
entry or mapping that is already there (`RegisterStub`, `EmplaceExternal`). The
guard of `HandleSpawnReply` notifies nobody, the others notify everybody
(`NotifyAll`). What is abstracted: the command line, environment and descriptors
of a request, signal numbers (only fatal ones matter to a stub) and exit codes
(only whether one is recorded).

### BusThread: state and actions

`loop` is the program counter of `ThreadMain`, `sources` the enabled tasks and
triggers, `notify` the eventfd, `ev` the application thread that holds the
mutex of `ev_`. The bus thread itself holds it only during one dispatch, which
is one step. `sent`, `socket`, `expired` and `incoming` follow a call through
libdbus; `connection` is the socket as the event loop sees it.

| code | actions |
|---|---|
| `ThreadMain`, `EvLoop::Wait` | `CheckFlag`, `PrepareFindsPending`, `PrepareArms`, `Poll`, `ClearNotifyDeferFd` |
| `EvLoop::Dispatch` | `DispatchNothing` and one `Run...` action per kind of source |
| `SendCall`'s task | `RunTask`; `RunTaskWithoutPending` is its failed assertion |
| `Bus::CallBlocking` | `AcquireForCall`, `AddTask`, `NotifyTask`; `RunDispatch` answers it |
| `fork` override | `LockFork`, `AcquireBus`, `Pause`, `Trigger`, `NotifyTrigger`, `Join`, `ForkProcess`, `Resume` |
| `Bus::Shutdown` after `main` | `ReturnFromMain`, the same from `Pause` to `Join`, `Reset` |
| an ordinary call once the bus is gone, which `bus.h` does not allow | `CallTerminates` |
| misuse of `std::thread` by a stop or start, null `bus_thread_` or freed event loop in one | `StopTerminates` |

A thread that goes on with an event loop that `Reset` has freed is undefined
behaviour; the outcome modelled is that the application ends (sd-event refuses
the freed loop and `SendCall` asserts that it did not).

### MimicZygote: state and actions

One step is one handler of the zygote's event loop, cut where it blocks: in the
fork handshake (`zygote = "handshake"`) and in `waitpid` without WNOHANG
(`"discard"`, `"collect"`). `children_` holds pids, as in the code; everything
that names a process of the kernel or the host is a `Child`, so that a pid that
was used again can be told from the first one. `commands` and `replies` are the
two directions of the socket.

| code | actions |
|---|---|
| `HandleMessage` | one action per command; `ReadFails`, `RealPidInLoop` and `HostIsGone` end the loop |
| `HandleFork`, `TestChildPidFromHost`, `SendChildInfoToHost` | `HandleFork`, `HandleForkFails`, then `ChildAccepted`, or `ChildRejected` and `ChildDiscarded` |
| `HandleReap`, `ReapTimerHandler` | `HandleReap`, `ReapTimerWaits`, `ReapTimerKills` |
| `HandleTerminationStatusRequest` | `StatusUnknown`, `StatusRunning`, `StatusDead`, `StatusKnownDead` and `KnownDeadCollected` |
| `HandleSandboxStatusRequest` | the same name |
| `ExecZygoteChild` | `ChildPings` |

The host (`Host...`) is Chromium, whose code is not here; it is modelled from what
`zygote.cc` and `fork.cc` expect of it: one command at a time, with a reply awaited
where there is one, and the pid it saw as the second message of a fork, which it
sees only with the process's ping (`ping`) or not at all if the last copy of the
pid oracle is closed (`OracleClosed`). `HostForgets` says whether it drops a process that it asked to be reaped. What
the zygote does with wait statuses is kept number by number, since the limit of
128 is in the code, and so is the second field of a reply, the wait status that
goes with the first (`ToldStatus`); `flatpak-spawn` is external and turns signals
into exit codes (`Shown`).

### ProcessTable

A request is absent, pending, known, started or removed. The refinement mapping
(`Known`, `FailedRequests`, `StartedProcesses`, `Books` in `Supervisor`) reads this
off the supervisor's tables: pending is an entry without an external pid, known
one with it, started one with an internal pid, removed a request that has
failed and whose entry is gone.

### BusService

A call is queued, made and answered, and its caller waits all the while. The
refinement mapping (`Waiting`, `Tasks` in `BusThread`) takes the threads in a
blocking call and the stubs with a request under way for the waiting, the tasks
among the event loop's sources for the queue, and libdbus's pending calls for the
calls that were made. Threads, forks, the loop and the connection have no
counterpart: starting, stopping and sleeping are stutters, however much is queued.
Only `Bus::Shutdown` at the end of `main` forgets calls (`End`), and nothing else
may.

### FdMap and MimicChild: state and actions

`table` maps descriptors to files, known by the host's keys, so that a file in
the wrong place can be seen. `request` is what the host passed; `fd_map`, `args`,
`target_fds` and `position` are the variables of the code.

| code | actions |
|---|---|
| `Socket::Read` in the zygote | `ReadTooMany` |
| `HandleFork`, the map and the arguments it makes | `HandleFork`, `HandleForkFails`, `FlatpakSpawn` |
| `ApplyFdMapFromArgs`, `FdAssignment::Assign` | `ParseFdMap`, `Assign`, `AssignFails`, `Exec` |
| `FdStorage::Init`, `open("/dev/urandom")` | `FdStorageInit`, `OpenUrandom`, `Confine` |
| `localtime`, `localtime_r` and the service | `Localtime`, `SendSandboxRequest`, `SendFails`, `ReadSandboxReply`, `ReadEndOfFile`, `ReadFails`; `ServiceAnswers`, `ServiceEnds` |

`result` has a struct for each thread, which is where its `localtime_r` puts the
time, and the one static struct of `localtime` (`Static`), which all threads share.
A reply may stop short: `fields` says whether nothing, some or all of the fields of
the struct were filled from it.

### SandboxMain, ChildStart and Launch: state and actions

`fds`, `cat_fds` and `process` are descriptor tables of `zypak-sandbox`, of its
cats and of the process that the portal starts. `running`, `env` and `preloads` are
the program that the process followed runs, its environment and what was
preloaded; an exec (`Exec`) sets the three together. `forked` and
`block_supervisor_fd_close` are the memory of the application's child before it
executes a program. Who else has the writing ends of the cats' pipes is counted
too: the chroot helper, which inherits what `zypak-helper` has open
(`helper_files`), and under the mimic strategy `flatpak-spawn` and what it has
started (`mimic_files`).

| code | actions |
|---|---|
| `SanitizeStdio`, `RunCatOnFd` | `MakeStdinNull`, `ForkCat`, `ExecCat`, `ExecCatFails`, `CatEnds` |
| `FindAllFds`, `OpenSpawnRequest`, `SendSpawnRequest` | the same names; `OpenSocketPairFails` |
| `DetermineZygoteStrategy`, `GetPreload`, host mode | `HelperHost`, `StraceExec`, `HelperRefuses` |
| main overrides, `sandbox_path.cc`, `exec_zypak_sandbox.cc` | `MainOverride`, `LookAt`, `ExecSandbox`, `ExecSelf` |
| `fork` and `close` overrides, in the child | `Fork`, `Close` |
| `SpawnLatest` | `SpawnLatest`, `WrapperScript` |
| `Launcher::Run` and the delegates | `ExecFlatpakSpawn`, `FlatpakSpawnRuns`, `FlatpakSpawnEnds`, `RequestFulfilled` |
| child mode of `zypak-helper` | `StraceExecHelper`, `HelperChild`, `ChildEnds`, `SpawnHelper`, `ExecProgram` |
| `StubSandboxChrootHelper` | `PrctlDeathSignal` (it may fail, and be late), `AnswerChroot`, `HelperFails`, `HelperKilled` |
| `bwrap_pid.cc`, `chroot_fake.cc` | see `ChildStart` |

## 3. What TLC checks

Bounds are constants of the configurations. But for one run the models are finite
without state constraints: a stub runs once, `forks` is bounded by `MaxForks`, every
message to or from the portal is sent at most once, the host of the zygote
waits for a reply before it asks again and has each process reaped once, a
thread calls `localtime` once, and the application executes itself at most
`MaxRestarts` times before it executes its sandbox. `supervisor_live` has the
constraint `OwnPids`, which fixes the pid each stub has; pids are interchangeable,
and symmetry cannot be used with liveness.

| run | instance | shows |
|---|---|---|
| `supervisor_waitpid` | 2 stubs, 2+2 pids, a thread that calls `waitpid` and `kill` | `TypeOK`, `TablesAgree`, `RightInternal`, `NobodyStranded` |
| `supervisor_live` | 2 stubs, fairness, no threads | `StubAnswered`, `KeepsTheBooks` (it implements `ProcessTable`), `BooksSettle` (under `ProcessTable`'s fairness) |
| `bus_safe` | 3 threads, a stub's request, 2 forks, `main` may return, the daemon may hang up | `TypeOK`, `NeverSleepsOnWork`, `ForkIsQuiet`, `NeverTerminates`, `NobodyStranded`, `ServesCalls` (it implements `BusService`) |
| `bus_live` | 2 threads, a stub's request, 1 fork, fairness | `CallsEnd`, `ForkReturns` |
| `zygote_safe` | 3 processes, 2 pids, `HostForgets` | `TypeOK`, `KnownTracked`, `ReplyExpected`, `StatusTrue`, `OnlyCondemnedKilled`, `NobodyStranded` |
| `zygote_live` | 2 processes, 2 pids, a host that does not forget, fairness | `ReapedInTheEnd`, `HostAnswered` |
| `mimic_child` | at most 2 files and the service among 9 descriptors, 2 threads, fairness | `OnlyTheFiles`, `OwnTime`, `ZoneStands`, `RandomAvailable`, `NobodyStranded`, `LocaltimeReturns` |
| `launch` | 7 descriptors, 2 paths, 1 restart, another thread, fairness | `SandboxedDescriptors`, `RequestStaysPrivate`, `SameStrategy`, `RightPreloads`, `Redirected`, `NobodyStranded`, `NothingStaysBehind`, `ClientAnswered` |

Why the bounds are enough. Every property of the supervisor relates at most two
stubs (two entries, two mappings, or a message for one and the state of the
other), so two stubs with all their messages in flight show each conflict. A third
thread matters in `bus_safe`, where one may fork, one may wait for the fork lock
and one may call; a second fork finds what the first left behind. Threads other
than `main`, stubs and pids are interchangeable in the safety runs (symmetry);
the liveness runs use none. The theorems of section 5 remove the bounds for every
property but those of liveness.

`supervisor_waitpid` lets a number be used again once the supervisor has done with
it: its holder has died and never asked, or its request has failed, so that the entry is
gone (`Over`). It does not let a number be used again whose entry is still there
(`ReuseHeld = FALSE`): then `TablesAgree` and `RightInternal` fail, which
`supervisor_reuse` shows (section 4). `TypeOK` and `NobodyStranded` hold with
`ReuseHeld` as well, as their theorems say.

`NobodyStranded` is an invariant of each of the five state machines and says the
same of each: whoever waits - in a read, in a call, for a mutex, in a join - waits
for something that is under way, or that somebody is about to do who does not
himself wait for the one who waits. It is what has to be true of every single
state for the liveness properties to hold, it needs no fairness, and unlike them it
can be proved for every value of the constants (section 5). Where the code does
strand somebody the invariant leaves that out: the bus thread in a handler
while a thread in `kill` has the mutex, a thread in `waitpid` that nobody woke, a host
and a zygote after a lost ping, a chroot helper whose `prctl` failed or came when the
program had ended, and with it the cats whose writers it has. Section 4 describes
each.

`supervisor_live` has nobody in `kill`, since `kill` may deadlock the bus thread
(section 4). `bus_live` leaves out the hangup of the daemon and the end of
`main`: after either the application may end.

In `zygote_safe` three processes share two pids, so a pid is used again while
another process is alive. The exit codes 0 and 1 and the signals 9 and 11 stand
for the four statuses a dead process can have; translated, 9 and 11 become 137
and 139, and the exit code 200 is one that no signal was translated to.
`StatusTrue` counts an exit code above 128 as the signal the zygote takes it for
(`Meant`). `HostForgets` is needed: a host that asks for the status of a process
it asked to be reaped gets "normal" for whatever the timer collected, and when
the status request collects the process first, the timer, which is still
running, kills or collects the next process with that pid. `KnownTracked` and
`OnlyCondemnedKilled` fail then. `HostAnswered`, `ReapedInTheEnd` and
`NobodyStranded` except one state, `PingLost`, which section 4 describes.

In `mimic_child` the numbers at which descriptors arrive (5 to 8) overlap with the
targets (4 to 7, and 9) in every way two assignments can. `MCKeys` has the service's
number among the targets and one beyond the limit, and leaves out 3, where nothing
is or arrives, and 8, from where the service has gone before any file comes there.
`kMaxFileDescriptors = 3` lets the message be longer than what is read. Two threads
suffice for `OwnTime`: an answer is crossed, and a struct overwritten, between two.
`localtime` may be called by one thread after another but not by two at once
(`MayCall`), as the C library has it too; the code has no lock around its struct.

In `launch` the application may have descriptors of its own under the supervisor's
number and beyond it, its child may close them and the supervisor's in any order,
the pipes get the lowest numbers that are left, and `kMaxFileDescriptors = 3`
makes the request too long with one descriptor more than the standard ones. The
chroot helper's `prctl` may fail, or come late; the sandboxed program, `flatpak-spawn`
and its child may end at any time. After one restart the environment is what it is after any number: an exec of the
application only removes LD_PRELOAD.

The configurations switch deadlock checking off where the system may stop: a
stub, once dead, does nothing more, a thread may sleep for ever in `waitpid`,
and the application may end.

### Fairness

- *Supervisor.* The bus thread takes steps while it can (it loops); each stub is
  a process that the kernel schedules; a Spawn call ends, since libdbus answers
  every pending call by its timeout at the latest; a thread that can leave
  `waitpid` or `kill` does. Nothing is assumed of the sandboxed processes: they
  may run for ever, and no stub has to be started or killed.
- *BusThread.* The loop takes steps (weak). Every call whose step can run again
  and again is served (strong): sd-event dispatches sources of equal priority in
  the order they became pending, so none is passed over for ever. A thread that
  asks for a mutex again and again gets it (strong); neither `std::mutex` nor
  `std::recursive_mutex` promises this, but the holders' critical sections are
  short and all threads block in between. Timers run out (weak). The portal
  does not have to answer.
- *MimicZygote.* The zygote runs its handlers (weak) and each reap timer in turn
  (strong, since blocking handlers interrupt the waiting). A forked process gets
  to its ping, a killed one dies, and a host that is alive goes on with the
  command it began. Nothing is assumed of a process once it runs.
- *MimicChild.* Threads run (weak), and the service answers what it has queued
  for as long as it exists (weak); it may end at any moment.
- *Launch.* The cats and the chroot helper run once they are forked, and a
  program that reads gets what there is to read (weak). Nothing else has to
  happen: `NothingStaysBehind` speaks of behaviours where `zypak-sandbox`,
  `flatpak-spawn` and the sandboxed process end and no chroot helper is left.

## 4. Where the code and its documentation disagree

Each of these has a run that TLC must find violated.

| run | property | the disagreement |
|---|---|---|
| `supervisor_signal_pid` | `SignalNamesProcess` | `src/README.md:165-166` says the stub's pid is swapped for that of the process; supervisor.cc:118 sends the stub's pid. |
| `supervisor_kill_returns` | `KillReturns` | `dbus/bus.h:71` says that a blocking call returns when complete; `SendSignal` holds the mutex that the bus thread needs to handle another message first. |
| `supervisor_stub_let_go` | `StaysAlive` | `src/README.md:164-165` says that a stub stays alive until its process completes. The descriptor that is to keep it waiting is moved into `FulfillSpawnRequest` and closed when that returns (supervisor.cc:244, 252): the stub is let go as soon as its request has been read. |
| `supervisor_reuse` | `AssertionHolds` | The assertion of supervisor.cc:152 fails: an entry stays when its process has exited, `emplace` keeps it when the stub's pid comes back, and a late message about the first process finds the external pid of the second. |

More was met while modelling and has no run of its own:

- Since what `notify_exit` gets has been moved from, `HandleSpawnExited` never finds
  anyone to write to and records no exit status (`NotifyExitInvalid` in
  `SupervisorProofs`): a thread in `waitpid` for a process that has exited waits for
  ever.
- A failed Spawn erases the entry (supervisor.cc:318) and notifies nobody, so a thread in
  `waitpid` whose predicate has become true may stay asleep. `guarded_value.h:144-146`
  says that the predicate is only looked at upon a notification, so nothing is
  promised that this would break.
- A process of the mimic zygote that dies before it has written to the pid oracle
  leaves the host and the zygote waiting for each other (`PingLost`), because the
  zygote's own copy of the oracle stays open until the handshake is over
  (fork.cc:153-160). With the zygote, all reap timers stand still.
- A process that exits with a code of 129 to 255 is reported as killed or crashed
  (status.cc:66-71), and the wait status that is sent with it, made by `W_STOPCODE`,
  is that of a process that was stopped by a signal (`ToldStatus`).
- `base/evloop.h:19-20` says that the loop is to be guarded; `ThreadMain` waits on
  it without the mutex (bus_thread.cc:154) while other threads add sources.
- After a hangup, which `HandleIoEvent` keeps from libdbus (evloop.cc:340-344), the
  first message sent makes libdbus give the connection up and the second fails
  `ZYPAK_ASSERT(pending)` (bus_thread.cc:97): `RunTaskWithoutPending` fires in
  `bus_safe`, and `NeverTerminates` excepts it.
- `RunCatOnFd` is to give the cat of stderr its output, but
  `dup2(STDOUT_FILENO, fd)` makes descriptor 2 of that cat stdout, and it writes to
  descriptor 1 anyway (`CatFds`).
- `FulfillSpawnRequest` logs a failed read and goes on: a request with more than
  16 descriptors is spawned with the first 16 (`Received`).
- `OpenSpawnRequest` returns `false` for a failed socketpair, which converts to
  descriptor 0; that the request then goes nowhere is due to `SanitizeStdio`
  (`OpenSocketPairFails`, `RequestStaysPrivate`).
- The chroot helper relies on its death signal, since it keeps the program's end of
  the pair open itself. A `prctl` that fails is only logged (chroot_helper.cc:20-22),
  and one that comes when the program has ended is of no use: the helper then reads
  for ever, and as it has inherited the writing ends of the cats' pipes, the cats
  do too. `NothingStaysBehind` and `NobodyStranded` except that (`Unarmed`,
  `HelperLeft`).
- `dbus/bus.h:58-59` says that the bus may not be reused after `Shutdown`. The one after
  `main` does not take the lock of `bus_safe_fork.cc`: a fork that is past
  `AcquireBus` goes on to pause and resume the bus, and may so terminate the
  application (`NeverTerminates` excepts the time after `main`); one that comes later
  initializes it again.
- `bwrap_pid.cc:16-19` says that the pid is faked because the main thread is about to
  test it. Any thread that calls `getpid` after the `getenv` takes the fake
  (`GetpidOther`), and the test then sees the real pid.
- Two threads in `localtime` at once share its static struct (localtime.cc:126), of
  which the C library does not promise more (`MayCall`).

## 5. What is proved

Every safety invariant, action property and refinement that a passing run checks
is also a theorem, for all values of the constants that the modules' named
assumptions allow: any sets of stubs, threads, processes, pids, files and paths,
any number of forks, restarts, descriptors and reap timers.

| module | theorem | statement |
|---|---|---|
| `SupervisorProofs` | `TypeCorrect` | `Spec => []TypeOK` |
| | `NobodyEverStranded` | `Spec => []NobodyStranded` |
| | `TablesAlwaysAgree`, `InternalAlwaysRight` | `TablesAgree`, `RightInternal` always hold if `~ReuseHeld` |
| `SupervisorRefinement` | `SupervisorKeepsTheBooks` | `Spec => KeepsTheBooks` if `~ReuseHeld` |
| `BusThreadProofs` | `TypeCorrect`, `AlwaysWoken`, `ForkAlwaysQuiet`, `NoTermination` | `TypeOK`, `NeverSleepsOnWork`, `ForkIsQuiet`, `NeverTerminates` always hold |
| | `NobodyEverStranded` | `Spec => []NobodyStranded` |
| | `CallsServed` | `Spec => ServesCalls` |
| `MimicZygoteProofs` | `TypeCorrect`, `RepliesExpected`, `NobodyEverStranded` | `TypeOK`, `ReplyExpected`, `NobodyStranded` always hold |
| | `KnownAreTracked`, `StatusesTrue` | `KnownTracked`, `StatusTrue` always hold if `HostForgets` |
| | `OnlyCondemnedAreKilled` | `Spec => OnlyCondemnedKilled` if `HostForgets` |
| `FdMapProofs` | `FilesDelivered` | `OnlyTheFiles` always holds in `FdSpec` |
| `MimicChildProofs` | `ProcessFilesDelivered` | and with the steps of the process, up to its program |
| | `TimesNeverCross` | `Spec => OwnTime` |
| | `ZonesStand`, `RandomStaysAvailable`, `NobodyEverStranded` | `ZoneStands`, `RandomAvailable`, `NobodyStranded` always hold |
| `LaunchProofs` | `PreloadsRight`, `StrategyAgreed`, `AlwaysRedirected`, `NobodyEverStranded` | `RightPreloads`, `SameStrategy`, `Redirected`, `NobodyStranded` always hold |
| | `RequestAlwaysPrivate`, `DescriptorsSandboxed` | `RequestStaysPrivate`, `SandboxedDescriptors` always hold |

*Supervisor.* `TypeOK` is inductive as it stands, one step per action.
`NotifyExitInvalid` is inductive with it: every entry is made with the moved-from
descriptor, so `HandleSpawnExited` never finds one to write to. `TablesAgree` and
`RightInternal` rest on one inductive invariant, `IInv`. `TablesAgree` alone is not
inductive: a reply may bring an external pid that another entry has, or a
SpawnStarted may carry an internal pid of another stub. `IInv` adds that two who
have the same number have not both an entry (`PidsDistinct`; this is where
`ReuseHeld` would break it), that a stub has its pid before it asks and a process
has one once it was spawned (`PidsGiven`), that messages under way and in the bus
thread's hands carry the pid of their own process (`InboxOK`, `JobOK`), that what
is still to come about an external pid after the reply that names it is about that
stub's process (`OrderOK`), that only a completed call enters an external pid
and only its own (`MappingsOK`), and that an internal pid in an entry belongs to
the entry's stub and process (`EntriesOK`). `~ReuseHeld` is the assumption of these
three theorems and of no other; section 4 says what happens without it.

`NobodyStranded` needs none of that and no bound on reuse. It is inductive with
`RequestsInv` (a stub that has not asked has no request, what the bus thread is
busy with is not through, a timeout on its way belongs to a call that has expired)
and `SignalsInv` (an answer on its way is for a thread that waits for it, and the
only one). `Sent` and `Taken` say what the inbox is after a message came or went;
everything else is by cases on who moves.

*ProcessTable.* That `Supervisor` implements it needs more than `IInv`: what the
entry of a stub holds follows from how far its request is (`BooksOK`), the
messages of the portal are true of its processes (`PortalTrue`), and a call expires
once (`ExpiredOnce`). A stub whose request failed counts as removed although its
number, and the entry under it, may be another's by then (`HandedOn`). From these the
books can be read off the requests (`KnownShape`), and each action of
`Supervisor` is one of the table or a stutter.

*BusThread.* `TypeOK` and `NeverSleepsOnWork` are inductive as they stand.
`ForkIsQuiet` is not: that the bus thread has ended from the join to the resume, and
that only the holder of the lock is between a pause and a resume, have to be known too (`QuietInv`: `JoinedHasEnded`, `ForkersHoldLock`,
`StoppedForFork`). That calls are neither lost nor made twice is `CallInv`: a task
or pending call belongs to somebody who waits (`TasksWaited`), and whoever waits
has one (`WaitersServed`). `NeverTerminates` needs `StopInv`: the bus is only gone
after `main`, who is about to add or trigger has the mutex, and the thread stays
joinable from a pause to its join. `CallsServed` combines them; a call can only be
dropped in `Reset`, which `EndsIfReturns` ties to `MainReturns`. `NobodyStranded` follows from `CallInv`,
`StopInv` and `WaitInv`: a reply that has been read has the dispatch trigger behind
it (`RepliesDispatched`), and the shutdown flag, the trigger and the end of the loop
follow each other within one fork (`StopInOrder`).

*MimicZygote.* `KernelInv` is about the kernel alone: at most one process holds a
pid, and a wait status says how the process ended, but for the codes that may
stand for a signal. `ProtocolInv` follows the one command that awaits a reply
through both queues and the handshake. `TrackInv` follows each process: who is
known to the host is alive or a zombie nobody else collects, a timer only runs for
somebody condemned who still holds the pid, and each process is reaped by one
command. `HostForgets` enters only there, where a host that asks about what it has
had reaped would void it. `NobodyStranded` is proved without it: `ServeInv` says
that whoever holds a pid is tracked or in the handshake, that a zygote that blocks
in `waitpid` does so on a process that is dead or killed, and that a condemned
process that lives has a timer or its command on the way; `PingInv` adds what a
ping, or the host that waits for it, says of the process.

*FdMap and MimicChild.* `FdInv` is the state half way through the assignments:
what was assigned is in place, what was not is where it arrived unless its
number was a target, which the helper refuses to go on with (`MapOK`, `Forwarded`,
`HalfAssigned`, `Assigned`). `CallInv` says that a question and an answer carry the
time that its thread asked for (`QueueOK`, `ArrivedOK`), and that the struct a call
is to fill is empty and no other call's (`FillOK`); `StorageInv` says that the saved
descriptor is open on `/dev/urandom` from `main` on. `EndsInv` says who has the
remote end of a request: the service alone, while it lives and has the question.

*Launch.* `EnvInv` ties the preloads of whatever runs to its environment, and the
environment to the supervisor, from the helper to the process in the sandbox.
`BranchInv` ties the branch of `zypak-sandbox` to the supervisor, `TalkInv` the
flag, the preloads and the supervisor's descriptor (it needs that the lowest free
number, which `MakeStdinNull` closes, is not one in use). `FilesInv` says what
each descriptor may be at each step of `SanitizeStdio`, `ReceivedInv` that a
message carries as many as it has room for, the lowest ones; for that `Extrema`
proves that sets of numbers have a least and bounded ones a greatest element.
`PathInv` is small and of its own. For `NobodyStranded`, `PairInv` says who has the
chroot helper's end of its pair, and `CatsInv` that nobody has the
writing end of a pipe before it is made; that a cat gets only descriptors of its
parent and its own reading end is `CatGiven`.

Only model-checked: liveness (`StubAnswered`, `BooksSettle`, `CallsEnd`,
`ForkReturns`, `ReapedInTheEnd`, `HostAnswered`, `LocaltimeReturns`,
`NothingStaysBehind`, `ClientAnswered`), since TLAPS does not reason about fairness
and `ENABLED`, and what section 4 shows to be violated. The safety half of each of
them is `NobodyStranded`, which is proved; for `BooksSettle` it is `KnownShape` in
`SupervisorRefinement`.

## 6. Not modelled

- D-Bus messages (`dbus/bus_*message*`): typed wrappers of libdbus's iterators, with
  no state beyond the iterator. The layout of control messages in `base/socket.cc`;
  their limit on descriptors is modelled.
- Logging, string and enum utilities: no state.
- `AddMatch` and `SignalConnect`, which run once at start-up, before there is
  anything to call: an `AddMatch` would be one more task. `SignalConnect` grows a
  vector that the bus thread may be reading; that race is undefined behaviour of
  the memory, below the steps of these models.
- The toggling of watches, by which libdbus waits for room on its socket, and the
  re-arming of a timer whose timeout libdbus has removed (bus_thread.cc:280), which
  depends on libdbus.
- The flags and exposed paths of a Spawn call and the environment variables that
  are copied one by one: they depend on nothing that changes. A portal's reply
  that cannot be read: it would be a malformed message of the portal.
- The child's side of `fork` beyond the descriptors it closes: what runs there until
  `exec` is Chromium's code. A mutex that another thread holds during a fork stays
  locked there.
- Exhaustion of descriptors and memory, except where it makes a request be
  rejected (`RejectSpawnRequest`), a stub fail (`StubFails`) or a call of
  `zypak-sandbox` fail.

## 7. Plan

All modules of the plan exist: the state machines, both abstract specifications
with their refinements, and the proofs. What would extend the project further:

1. `Supervisor` on top of `BusService`'s queue: it now has its own, and the two meet
   only in this document.
2. `SignalConnect` and `AddMatch` at start-up, with signals that arrive meanwhile.
3. The child of `fork` that calls an override while it holds a copy of a locked
   mutex.
4. An abstract specification of the mimic zygote, a table of processes that are
   started, condemned and collected, with `MimicZygote` shown to implement it if
   `HostForgets`.
5. What does hold of `TablesAgree` and `RightInternal` with `ReuseHeld`.
