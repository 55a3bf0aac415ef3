------------------------------- MODULE Launch -------------------------------
(***************************************************************************)
(* The chain of programs from zypak-wrapper to a sandboxed process, and    *)
(* what each passes to the next in its environment: zypak-helper chooses   *)
(* the strategy and the preloads of the application; the preloads bring    *)
(* the application's exec of its sandbox to zypak-sandbox and its exec of  *)
(* itself back to zypak-helper; zypak-sandbox chooses by the strategy; the *)
(* launcher passes the strategy into the sandbox, where zypak-helper       *)
(* chooses the preloads of the process.                                    *)
(*                                                                         *)
(* One process is followed from exec to exec: of a program that forks, the *)
(* child.  zypak-sandbox takes the steps of SandboxMain, a process of the  *)
(* spawn strategy starts as in ChildStart.  External are the application,  *)
(* the portal, flatpak-spawn and strace.                                   *)
(***************************************************************************)
EXTENDS SandboxMain, ChildStart

CONSTANTS
  Path,        \* paths at which the application looks for its sandbox
  MaxRestarts  \* how often it executes itself

ASSUME RestartsAssumption == MaxRestarts \in Nat

VARIABLES
  running,     \* the program that the process runs
  mode,        \* the mode that zypak-helper is to run in
  env,         \* its environment
  preloads,    \* the libraries that were preloaded into it
  traced,      \* what strace is to set LD_PRELOAD to
  instance,    \* the environment that the portal gives a new process
  restarts,
  supervisor,    \* whether the application has a supervisor
  sandbox_path_, \* the path that SandboxPath has recorded
  trusted,       \* the paths the application was told are setuid
  forked,        \* whether the process is a fork that is to execute a program
  block_supervisor_fd_close,
  mimic_files    \* under mimic, the files of flatpak-spawn and of what it has started

appVars == <<restarts, supervisor, sandbox_path_, trusted, forked, block_supervisor_fd_close>>
hostVars == <<appVars, mimic_files>>
execVars == <<running, mode, env, preloads, traced, instance>>
launchVars == <<execVars, hostVars>>
vars == <<launchVars, sandboxVars, startVars>>

Unset   == "unset"
Unknown == "unknown"

ASSUME PathAssumption == Unknown \notin Path

(* Env::Test of the strategy: set, and neither empty nor 0 nor false.        *)
IsSpawn(e) == e.strategy \notin {Unset, "0"}

(* What the user may set; on_reexec is what ZYPAK_SPAWN_LATEST_ON_REEXEC and *)
(* CHROME_WRAPPER amount to.  LD_PRELOAD is Zypak's own.                     *)
Environment ==
  [strategy: {Unset, "0", "1"}, on_reexec: {"host", "host-latest", "exec-latest"},
   strace: SUBSET {"host", "child"}, ld_preload: {{}}]

Init ==
  /\ SandboxInit
  /\ ChildStartInit
  /\ running = "zypak-helper"
  /\ mode = "host"
  /\ env \in Environment
  /\ preloads = {}
  /\ traced = {}
  /\ instance \in {env, [env EXCEPT !.strategy = Unset]}
  /\ restarts = 0
  /\ supervisor = FALSE
  /\ sandbox_path_ = Unknown
  /\ trusted = {}
  /\ forked = FALSE
  /\ block_supervisor_fd_close = FALSE
  /\ mimic_files = [p \in {"flatpak-spawn", "process"} |-> {}]

-----------------------------------------------------------------------------
(* exec: the libraries in LD_PRELOAD are loaded.                             *)
Exec(file, e) ==
  /\ running' = file
  /\ env' = e
  /\ preloads' = e.ld_preload

Fails ==
  /\ running' = "failed"
  /\ preloads' = {}
  /\ UNCHANGED <<mode, env, traced, instance>>

(* GetPreload.                                                               *)
Preload(m, e) ==
  {<<m, "common">>}
    \cup (IF IsSpawn(e) THEN {<<m, "spawn-strategy">>} ELSE {<<m, "mimic-strategy">>})
    \cup (IF IsSpawn(e) /\ m = "host" THEN {<<m, "spawn-strategy-close">>} ELSE {})

(* DetermineZygoteStrategy: the portal, if it answers, supports it or not.   *)
Determined(supported) ==
  IF env.strategy # Unset \/ ~supported THEN env ELSE [env EXCEPT !.strategy = "1"]

(* strace itself is to run without the preloads.                             *)
HelperHost(supported) ==
  /\ running = "zypak-helper"
  /\ mode = "host"
  /\ LET e == Determined(supported) IN
       IF "host" \in env.strace
         THEN /\ Exec("strace", e)
              /\ traced' = Preload("host", e)
         ELSE /\ Exec("application", [e EXCEPT !.ld_preload = Preload("host", e)])
              /\ UNCHANGED traced
  /\ UNCHANGED <<mode, instance, hostVars, sandboxVars, startVars>>

StraceExec ==
  /\ running = "strace"
  /\ mode = "host"
  /\ Exec("application", [env EXCEPT !.ld_preload = traced])
  /\ traced' = {}
  /\ UNCHANGED <<mode, instance, hostVars, sandboxVars, startVars>>

(* A path, a descriptor map or the command is not accepted, or exec fails.   *)
HelperRefuses ==
  /\ running = "zypak-helper"
  /\ mode # "child"
  /\ Fails
  /\ UNCHANGED <<hostVars, sandboxVars, startVars>>

-----------------------------------------------------------------------------
(* The application.                                                          *)

(* The supervisor's socket is put on a number of its own.                    *)
WithSupervisor == [fds EXCEPT ![kZypakSupervisorFd] = "supervisor"]

(* The main override of either strategy; that of the spawn strategy starts   *)
(* the supervisor.                                                           *)
ClearedPreload_Mutant == env
ClearedPreload == [env EXCEPT !.ld_preload = {}]

MainOverride ==
  /\ running = "application"
  /\ \E s \in {"spawn-strategy", "mimic-strategy"} : <<"host", s>> \in preloads
  /\ running' = "application_main"
  /\ env' = ClearedPreload
  /\ supervisor' = (<<"host", "spawn-strategy">> \in preloads)
  /\ fds' = IF supervisor' THEN WithSupervisor ELSE fds
  /\ sandbox_path_' = Unknown
  /\ trusted' = {}
  /\ UNCHANGED <<mode, preloads, traced, instance, restarts, forked, block_supervisor_fd_close,
                 mimic_files, main, cat, cat_fds, stubVars, process, startVars>>

(* access or stat of a path with the name of a sandbox.  From the first one  *)
(* on only that path is taken for it.                                        *)
LooksLikeSandboxPath_Mutant(p) == TRUE
LooksLikeSandboxPath(p) == sandbox_path_ \in {Unknown, p}

LookAt(p) ==
  /\ running = "application_main"
  /\ LooksLikeSandboxPath(p)
  /\ sandbox_path_' = p
  /\ trusted' = trusted \cup {p}
  /\ UNCHANGED <<execVars, restarts, supervisor, forked, block_supervisor_fd_close, mimic_files,
                 sandboxVars, startVars>>

(* The child of a fork.  The override of the spawn strategy keeps it from    *)
(* closing the supervisor's descriptor; there the bus thread runs, as main   *)
(* has not returned.                                                         *)
BlocksInChild_Mutant == FALSE
BlocksInChild == <<"host", "spawn-strategy">> \in preloads

Fork ==
  /\ running = "application_main"
  /\ ~forked
  /\ forked' = TRUE
  /\ block_supervisor_fd_close' = BlocksInChild
  /\ UNCHANGED <<execVars, restarts, supervisor, sandbox_path_, trusted, mimic_files, sandboxVars,
                 startVars>>

(* The override of close.  The application closes what the program that it   *)
(* is to execute should not have, the number of the supervisor included.     *)
Closed(f) ==
  IF f = kZypakSupervisorFd /\ block_supervisor_fd_close /\ <<"host", "spawn-strategy-close">> \in preloads
    THEN fds ELSE [fds EXCEPT ![f] = NoFile]

Close(f) ==
  /\ running = "application_main"
  /\ forked
  /\ fds' = Closed(f)
  /\ UNCHANGED <<launchVars, main, cat, cat_fds, stubVars, process, startVars>>

(* The override of execvp compares the whole path.                           *)
IsSandbox(p) == p = sandbox_path_

(* Memory is gone with an exec.                                              *)
Forgets == forked' = FALSE /\ block_supervisor_fd_close' = FALSE

(* What the application remembers is not followed any further.               *)
ExecSandbox(p) ==
  /\ running = "application_main"
  /\ IsSandbox(p)
  /\ forked
  /\ Exec("zypak-sandbox", env)
  /\ restarts' = 0
  /\ sandbox_path_' = Unknown
  /\ trusted' = {}
  /\ Forgets
  /\ UNCHANGED <<mode, traced, instance, supervisor, mimic_files, sandboxVars, startVars>>

(* Through zypak-helper go an exec of the application itself without a type  *)
(* and that of Electron's relauncher.                                        *)
ThroughHelper_Mutant(type) == type = "none"
ThroughHelper(type) == type \in {"none", "relauncher"}

ProgramOf(type) == IF type = "other" THEN "typed_process" ELSE "application"

ExecSelf(type) ==
  /\ running = "application_main"
  /\ restarts < MaxRestarts
  /\ restarts' = restarts + 1
  /\ IF ThroughHelper(type)
       THEN /\ Exec("zypak-helper", env)
            /\ mode' = env.on_reexec
       ELSE /\ Exec(ProgramOf(type), env)
            /\ UNCHANGED mode
  /\ Forgets
  /\ UNCHANGED <<traced, instance, supervisor, sandbox_path_, trusted, mimic_files, sandboxVars,
                 startVars>>

(* A process of a new instance gets the standard descriptors only.           *)
StdioOnly == [f \in Fd |-> IF f > Stderr THEN NoFile ELSE fds[f]]

(* SpawnLatest: a process of a new instance, which has the environment that  *)
(* the instance gives and not what the application has.                      *)
SpawnLatest ==
  /\ running = "zypak-helper"
  /\ mode \in {"host-latest", "exec-latest"}
  /\ Exec(IF mode = "host-latest" THEN "zypak-helper" ELSE "wrapper_script", instance)
  /\ mode' = "host"
  /\ fds' = StdioOnly
  /\ UNCHANGED <<traced, instance, hostVars, main, cat, cat_fds, stubVars, process, startVars>>

(* The user's script is taken to end in zypak-wrapper.                       *)
WrapperScript ==
  /\ running = "wrapper_script"
  /\ Exec("zypak-helper", env)
  /\ UNCHANGED <<mode, traced, instance, hostVars, sandboxVars, startVars>>

-----------------------------------------------------------------------------
(* zypak-sandbox and the launcher.                                           *)

(* The choice in main; a command that is no zygote ends under mimic.         *)
SandboxBranch ==
  /\ running = "zypak-sandbox"
  /\ Becomes(IF IsSpawn(env) THEN "stub" ELSE "zygote")
  /\ UNCHANGED <<launchVars, startVars>>

(* The zygote forks, and the child executes flatpak-spawn with the standard  *)
(* descriptors that the zygote has (ExecZygoteChild).                        *)
ExecFlatpakSpawn ==
  /\ running = "zypak-sandbox"
  /\ main = "zygote"
  /\ Exec("flatpak-spawn", env)
  /\ mimic_files' = [mimic_files EXCEPT !["flatpak-spawn"] = Files(StdioOnly)]
  /\ UNCHANGED <<mode, traced, instance, appVars, sandboxVars, startVars>>

(* Launcher::Run passes the strategy on if it is set.                        *)
Forwards_Mutant == instance.strategy
Forwards == IF env.strategy = Unset THEN instance.strategy ELSE env.strategy

ChildEnv == [instance EXCEPT !.strategy = Forwards]

(* BuildCommandWrapper.                                                      *)
ChildCommand == IF "child" \in env.strace THEN "strace" ELSE "zypak-helper"

ChildSpawned ==
  /\ Exec(ChildCommand, ChildEnv)
  /\ mode' = "child"
  /\ UNCHANGED <<traced, instance, appVars>>

FlatpakSpawnRuns ==
  /\ running = "flatpak-spawn"
  /\ ChildSpawned
  /\ mimic_files' = [mimic_files EXCEPT !["process"] = mimic_files["flatpak-spawn"]]
  /\ UNCHANGED <<sandboxVars, startVars>>

(* It waits for what it has started, or is killed.                           *)
FlatpakSpawnEnds ==
  /\ mimic_files["flatpak-spawn"] # {}
  /\ mimic_files' = [mimic_files EXCEPT !["flatpak-spawn"] = {}]
  /\ IF running = "flatpak-spawn" THEN Fails ELSE UNCHANGED execVars
  /\ UNCHANGED <<appVars, sandboxVars, startVars>>

RequestFulfilled ==
  /\ running = "zypak-sandbox"
  /\ FulfillSpawnRequest
  /\ ChildSpawned
  /\ UNCHANGED <<mimic_files, startVars>>

(* What the processes besides zypak-sandbox, its cats and the process of the *)
(* spawn strategy have open.                                                 *)
Elsewhere == helper_files \cup mimic_files["flatpak-spawn"] \cup mimic_files["process"]

CatStepsAlone(k) == CatSteps(k, Elsewhere) /\ UNCHANGED <<launchVars, startVars>>

(* A stub goes on when the process has been started; the zygote does too,    *)
(* which is the subject of MimicZygote.                                      *)
SandboxSteps ==
  /\ running = "zypak-sandbox" \/ request = "pair"
  /\ SandboxStep
  /\ UNCHANGED <<launchVars, startVars>>

-----------------------------------------------------------------------------
(* zypak-helper in the sandbox.                                              *)

StraceExecHelper ==
  /\ running = "strace"
  /\ mode = "child"
  /\ Exec("zypak-helper", env)
  /\ UNCHANGED <<mode, traced, instance, hostVars, sandboxVars, startVars>>

(* Any of the programs ends, before a chroot helper has been started.        *)
ChildEnds ==
  /\ running \in {"strace", "zypak-helper", "child"}
  /\ mode = "child"
  /\ program = "none"
  /\ Fails
  /\ process' = NoFds
  /\ mimic_files' = [mimic_files EXCEPT !["process"] = {}]
  /\ UNCHANGED <<appVars, main, fds, cat, cat_fds, stubVars, startVars>>

(* The preloads are chosen and, under the spawn strategy, the chroot helper  *)
(* is started before the program.                                            *)
HelperChild ==
  /\ running = "zypak-helper"
  /\ mode = "child"
  /\ program = "none"
  /\ IF IsSpawn(env)
       THEN /\ program' = "zypak-helper"
            /\ UNCHANGED <<running, env, preloads>>
       ELSE /\ Exec("child", [env EXCEPT !.ld_preload = Preload("child", env)])
            /\ UNCHANGED program
  /\ UNCHANGED <<mode, traced, instance, hostVars, sandboxVars, helperVars, death_signal,
                 pairVars, pidVars>>

StartStepsAlone ==
  /\ StartStep \/ SpawnHelper(Files(process))
  /\ UNCHANGED <<launchVars, sandboxVars>>

StartSteps ==
  \/ /\ ExecProgram
     /\ Exec("child", [env EXCEPT !.ld_preload = Preload("child", env)])
     /\ UNCHANGED <<mode, traced, instance, hostVars, sandboxVars>>
  \/ /\ ProgramEnds
     /\ ProcessEnds
     /\ UNCHANGED launchVars
  \/ StartStepsAlone

Next ==
  \/ \E supported \in BOOLEAN : HelperHost(supported)
  \/ StraceExec
  \/ HelperRefuses
  \/ MainOverride
  \/ \E p \in Path : LookAt(p) \/ ExecSandbox(p)
  \/ Fork
  \/ \E f \in Fd \ {Stdin, Stdout, Stderr} : Close(f)
  \/ \E type \in {"none", "relauncher", "other"} : ExecSelf(type)
  \/ SpawnLatest
  \/ WrapperScript
  \/ SandboxBranch
  \/ ExecFlatpakSpawn
  \/ FlatpakSpawnRuns
  \/ FlatpakSpawnEnds
  \/ RequestFulfilled
  \/ SandboxSteps
  \/ \E k \in Cat : CatStepsAlone(k)
  \/ StraceExecHelper
  \/ ChildEnds
  \/ HelperChild
  \/ StartSteps

Spec == Init /\ [][Next]_vars

(* Once forked the cats run, as does the chroot helper, and a program that   *)
(* reads gets what there is to read.                                         *)
FairSpec ==
  /\ Spec
  /\ \A k \in Cat : WF_vars(CatStepsAlone(k))
  /\ WF_vars(HelperSteps /\ UNCHANGED <<launchVars, sandboxVars>>)
  /\ WF_vars(ProgramReads /\ UNCHANGED <<launchVars, sandboxVars>>)

-----------------------------------------------------------------------------
(* All parts choose the same strategy, each by itself and from an            *)
(* environment that has been passed on differently: a stub is run exactly    *)
(* when the application has a supervisor, whose descriptor it then has,      *)
(* whatever the application closed before; and the process in the sandbox    *)
(* has the preloads of that strategy (DetermineZygoteStrategy, the overrides *)
(* of fork and close, zypak-sandbox's main, Launcher::Run, GetPreload).      *)
SameStrategy ==
  /\ main \in {"stub", "listed", "opened", "waiting"} =>
       supervisor /\ fds[kZypakSupervisorFd] = "supervisor"
  /\ main = "zygote" => ~supervisor
  /\ running = "child" =>
       preloads = {<<"child", "common">>,
                   <<"child", IF supervisor THEN "spawn-strategy" ELSE "mimic-strategy">>}

(* Zypak's own programs, and those it runs them with, are never run with     *)
(* Zypak's preloads (Env::Clear in the main overrides, strace -E).           *)
ToolsRunClean ==
  running \in {"zypak-sandbox", "zypak-helper", "flatpak-spawn", "strace", "wrapper_script"} =>
    preloads = {}

(* However often it executes itself, by way of its relauncher, of a new      *)
(* instance or of a wrapper, the application runs with the preloads of the   *)
(* host (exec_zypak_sandbox.cc, spawn_latest.cc).                            *)
AppPreloaded ==
  running \in {"application", "application_main"} => <<"host", "common">> \in preloads

(* The preloads are in what they are meant for and in nothing else.          *)
RightPreloads == ToolsRunClean /\ AppPreloaded

(* Whatever path the application was told to be setuid, its exec is one of   *)
(* zypak-sandbox (sandbox_suid.cc, exec_zypak_sandbox.cc).                   *)
Redirected == running = "application_main" => \A p \in trusted : IsSandbox(p)

(* The program that reads is answered or sees the end of its helper, as the  *)
(* fork of zypak-helper leaves helper_end with the helper alone; the helper  *)
(* that reads, which keeps both ends of its own pair, is answered or killed, *)
(* unless its prctl failed or came too late; and the cats wait neither for   *)
(* themselves nor for each other (zypak-helper's Spawn,                      *)
(* StubSandboxChrootHelper, RunCatOnFd).                                     *)
NobodyStranded == ClientServed /\ HelperServed /\ CatsApart

(* When the processes that were given the writers have ended, of either      *)
(* strategy, and no chroot helper is left, which has the writers too, then   *)
(* the cats end.                                                             *)
WritersGone ==
  /\ main = "ended" /\ process = NoFds
  /\ mimic_files["flatpak-spawn"] = {} /\ mimic_files["process"] = {}
  /\ ~HelperLeft

CatsEnd == <>[]WritersGone => <>[](\A k \in Cat : cat[k] \in {"none", "ended"})

(* Once the application's side and the sandboxed process have ended, neither *)
(* the cats nor the chroot helper stay, but for a helper whose prctl failed  *)
(* or came too late, and with it the cats (RunCatOnFd, ChrootHelper::Spawn). *)
NothingStaysBehind == CatsEnd /\ HelperEnds
=============================================================================
