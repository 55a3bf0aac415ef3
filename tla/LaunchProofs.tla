----------------------------- MODULE LaunchProofs -----------------------------
(***************************************************************************)
(* The safety of the chain of programs, for any number of descriptors,     *)
(* paths, threads and restarts.                                            *)
(***************************************************************************)
EXTENDS Launch, Extrema

-----------------------------------------------------------------------------
(* What each program of the chain finds in its environment.                  *)

Library ==
  {"host", "child"} \X {"common", "spawn-strategy", "mimic-strategy", "spawn-strategy-close"}
Modes == {"host", "host-latest", "exec-latest", "child"}
Env ==
  [strategy: {Unset, "0", "1"}, on_reexec: {"host", "host-latest", "exec-latest"},
   strace: SUBSET {"host", "child"}, ld_preload: SUBSET Library]

ExecTypes ==
  /\ env \in Env
  /\ instance \in Env
  /\ mode \in Modes
  /\ traced \in SUBSET Library
  /\ preloads \in SUBSET Library

(* An instance sets the strategy only where the environment has it too.      *)
InstanceAgrees ==
  /\ instance.ld_preload = {}
  /\ env.strategy = Unset => instance.strategy = Unset

Tool == {"zypak-sandbox", "zypak-helper", "flatpak-spawn", "strace", "wrapper_script"}

Preloaded ==
  /\ running \in Tool => preloads = {} /\ env.ld_preload = {}
  /\ running = "strace" /\ mode = "host" => traced = Preload("host", env)
  /\ running = "application" => preloads = Preload("host", env)
  /\ running = "application_main" => env.ld_preload = {} /\ <<"host", "common">> \in preloads
  /\ running = "child" => preloads = Preload("child", env)

(* The strategy of the environment is that of the application's preloads,    *)
(* from the start of its main to the process in the sandbox.                 *)
Agreed ==
  running \in {"application_main", "zypak-sandbox", "flatpak-spawn", "child"} \/ mode = "child" =>
    supervisor = IsSpawn(env)

ModeChild ==
  /\ mode = "child" => running \in {"strace", "zypak-helper", "child", "failed"}
  /\ running = "child" \/ program # "none" => mode = "child"

EnvInv == ExecTypes /\ InstanceAgrees /\ Preloaded /\ Agreed /\ ModeChild

LEMMA PreloadIsLibrary ==
  ASSUME NEW m \in {"host", "child"}, NEW e
  PROVE  Preload(m, e) \in SUBSET Library /\ <<m, "common">> \in Preload(m, e)
  BY DEF Preload, Library

(* Steps of one program that leave the environment alone.                    *)
LEMMA EnvSame ==
  ASSUME EnvInv, UNCHANGED <<execVars, supervisor>>, program' # "none" => program # "none"
  PROVE  EnvInv'
  <1>1. UNCHANGED <<running, mode, env, preloads, traced, instance, supervisor>>
    BY DEF execVars
  <1>2. (program # "none" => mode = "child") => (program' # "none" => mode = "child")
    OBVIOUS
  <1> QED BY <1>1, <1>2 DEF EnvInv, ExecTypes, InstanceAgrees, Preloaded, Agreed, ModeChild, Preload, IsSpawn

(* exec of a file with an environment e under a mode m.                      *)
LEMMA EnvExec ==
  ASSUME EnvInv, NEW file, NEW e \in Env, Exec(file, e), UNCHANGED <<instance, program>>,
         mode' \in Modes, traced' \in SUBSET Library,
         e.strategy = Unset => instance.strategy = Unset,
         file \in Tool => e.ld_preload = {},
         file = "strace" /\ mode' = "host" => traced' = Preload("host", e),
         file = "application" => e.ld_preload = Preload("host", e),
         file # "application_main",
         file = "child" => e.ld_preload = Preload("child", e),
         file \in {"zypak-sandbox", "flatpak-spawn", "child"} \/ mode' = "child" =>
           supervisor' = IsSpawn(e),
         mode' = "child" => file \in {"strace", "zypak-helper", "child", "failed"},
         file = "child" => mode' = "child", mode = "child" => mode' = "child"
  PROVE  EnvInv'
  <1>1. running' = file /\ env' = e /\ preloads' = e.ld_preload
    BY DEF Exec
  <1>2. IsSpawn(env)' = IsSpawn(e)
    BY <1>1 DEF IsSpawn
  <1>3. Preload("host", env)' = Preload("host", e) /\ Preload("child", env)' = Preload("child", e)
    BY <1>1 DEF Preload, IsSpawn
  <1>4. ExecTypes'
    BY <1>1 DEF EnvInv, ExecTypes, Env
  <1>5. InstanceAgrees'
    BY <1>1 DEF EnvInv, InstanceAgrees
  <1>6. Preloaded'
    BY <1>1, <1>3 DEF Preloaded
  <1>7. Agreed'
    BY <1>1, <1>2 DEF Agreed
  <1>8. ModeChild'
    BY <1>1 DEF EnvInv, ModeChild
  <1> QED BY <1>4, <1>5, <1>6, <1>7, <1>8 DEF EnvInv

LEMMA EnvFails ==
  ASSUME EnvInv, Fails, UNCHANGED <<supervisor, program>>
  PROVE  EnvInv'
  <1>1. running' = "failed" /\ preloads' = {} /\ UNCHANGED <<mode, env, traced, instance, supervisor, program>>
    BY DEF Fails
  <1> QED BY <1>1 DEF EnvInv, ExecTypes, InstanceAgrees, Preloaded, Agreed, ModeChild, IsSpawn, Tool

-----------------------------------------------------------------------------
(* The application and its helper.                                           *)

LEMMA HelperHostStep ==
  ASSUME EnvInv, NEW supported \in BOOLEAN, HelperHost(supported)
  PROVE  EnvInv'
  <1>1. PICK e : e = Determined(supported)
    OBVIOUS
  <1>2. /\ e \in Env /\ e.ld_preload = {}
        /\ e.strategy = Unset => instance.strategy = Unset
    BY <1>1 DEF Determined, EnvInv, ExecTypes, InstanceAgrees, Preloaded, Env, HelperHost, Tool
  <1>3. /\ running = "zypak-helper" /\ mode = "host"
        /\ UNCHANGED <<mode, instance, program, supervisor>>
    BY DEF HelperHost, hostVars, appVars, startVars
  <1>4. CASE "host" \in env.strace
    <2>1. Exec("strace", e) /\ traced' = Preload("host", e)
      BY <1>1, <1>4 DEF HelperHost
    <2>2. Preload("host", e) \in SUBSET Library
      BY PreloadIsLibrary
    <2> QED BY <1>2, <1>3, <2>1, <2>2, EnvExec DEF Modes
  <1>5. CASE "host" \notin env.strace
    <2>1. PICK a : a = [e EXCEPT !.ld_preload = Preload("host", e)]
      OBVIOUS
    <2>2. Exec("application", a) /\ UNCHANGED traced
      BY <1>1, <1>5, <2>1 DEF HelperHost
    <2>3. Preload("host", e) \in SUBSET Library
      BY PreloadIsLibrary
    <2>4. a \in Env /\ a.strategy = e.strategy /\ a.ld_preload = Preload("host", e)
      BY <1>2, <2>1, <2>3 DEF Env
    <2>5. Preload("host", a) = Preload("host", e)
      BY <2>4 DEF Preload, IsSpawn
    <2>6. traced \in SUBSET Library
      BY DEF EnvInv, ExecTypes
    <2> QED BY <1>2, <1>3, <2>2, <2>4, <2>5, <2>6, EnvExec DEF Modes, Tool
  <1> QED BY <1>4, <1>5

LEMMA StraceStep ==
  ASSUME EnvInv, StraceExec
  PROVE  EnvInv'
  <1>1. PICK a : a = [env EXCEPT !.ld_preload = traced]
    OBVIOUS
  <1>2. /\ running = "strace" /\ mode = "host" /\ Exec("application", a) /\ traced' = {}
        /\ UNCHANGED <<mode, instance, program, supervisor>>
    BY <1>1 DEF StraceExec, hostVars, appVars, startVars
  <1>3. /\ a \in Env /\ a.strategy = env.strategy /\ a.ld_preload = Preload("host", env)
        /\ env.strategy = Unset => instance.strategy = Unset
    BY <1>1, <1>2 DEF EnvInv, ExecTypes, Env, Preloaded, InstanceAgrees
  <1>4. Preload("host", a) = Preload("host", env)
    BY <1>3 DEF Preload, IsSpawn
  <1>5. mode \in Modes /\ traced' \in SUBSET Library
    BY <1>2 DEF Modes
  <1> QED BY <1>2, <1>3, <1>4, <1>5, EnvExec DEF Tool

LEMMA MainStep ==
  ASSUME EnvInv, MainOverride
  PROVE  EnvInv'
  <1>1. /\ running = "application" /\ running' = "application_main"
        /\ env' = [env EXCEPT !.ld_preload = {}]
        /\ supervisor' = (<<"host", "spawn-strategy">> \in preloads)
        /\ UNCHANGED <<mode, preloads, traced, instance, program>>
    BY DEF MainOverride, ClearedPreload, startVars
  <1>2. env' \in Env /\ env'.strategy = env.strategy /\ env'.ld_preload = {}
    BY <1>1 DEF EnvInv, ExecTypes, Env
  <1>3. preloads = Preload("host", env)
    BY <1>1 DEF EnvInv, Preloaded
  <1>4. supervisor' = IsSpawn(env)' /\ <<"host", "common">> \in preloads
    BY <1>1, <1>2, <1>3 DEF Preload, IsSpawn
  <1>5. mode # "child" /\ program = "none"
    BY <1>1 DEF EnvInv, ModeChild
  <1> QED BY <1>1, <1>2, <1>4, <1>5 DEF EnvInv, ExecTypes, InstanceAgrees, Preloaded, Agreed, ModeChild, Tool

LEMMA ExecSandboxStep ==
  ASSUME EnvInv, NEW p \in Path, ExecSandbox(p)
  PROVE  EnvInv'
  <1>1. /\ running = "application_main" /\ Exec("zypak-sandbox", env)
        /\ UNCHANGED <<mode, traced, instance, supervisor, program>>
    BY DEF ExecSandbox, startVars
  <1>2. /\ env \in Env /\ mode \in Modes /\ traced \in SUBSET Library
        /\ env.strategy = Unset => instance.strategy = Unset
        /\ env.ld_preload = {} /\ supervisor = IsSpawn(env) /\ mode # "child"
    BY <1>1 DEF EnvInv, ExecTypes, InstanceAgrees, Preloaded, Agreed, ModeChild
  <1> QED BY <1>1, <1>2, EnvExec

LEMMA ExecSelfStep ==
  ASSUME EnvInv, NEW type \in {"none", "relauncher", "other"}, ExecSelf(type)
  PROVE  EnvInv'
  <1>1. /\ running = "application_main"
        /\ \/ Exec("zypak-helper", env) /\ mode' = env.on_reexec
           \/ Exec("typed_process", env) /\ mode' = mode
        /\ UNCHANGED <<traced, instance, supervisor, program>>
    BY DEF ExecSelf, ThroughHelper, ProgramOf, startVars
  <1>2. /\ env \in Env /\ mode \in Modes /\ traced \in SUBSET Library
        /\ env.strategy = Unset => instance.strategy = Unset
        /\ env.ld_preload = {} /\ mode # "child"
        /\ env.on_reexec \in Modes \ {"child"}
    BY <1>1 DEF EnvInv, ExecTypes, InstanceAgrees, Preloaded, ModeChild, Env, Modes
  <1> QED BY <1>1, <1>2, EnvExec DEF Tool

LEMMA LatestStep ==
  ASSUME EnvInv, SpawnLatest \/ WrapperScript
  PROVE  EnvInv'
  <1>1. CASE SpawnLatest
    <2>1. PICK file \in {"zypak-helper", "wrapper_script"} : Exec(file, instance)
      BY <1>1 DEF SpawnLatest
    <2>2. /\ running = "zypak-helper" /\ mode # "child" /\ mode' = "host"
          /\ UNCHANGED <<traced, instance, program>>
      BY <1>1 DEF SpawnLatest, startVars
    <2>3. instance \in Env /\ traced \in SUBSET Library /\ instance.ld_preload = {}
      BY DEF EnvInv, ExecTypes, InstanceAgrees
    <2> QED BY <2>1, <2>2, <2>3, EnvExec DEF Modes
  <1>2. CASE WrapperScript
    <2>1. /\ running = "wrapper_script" /\ Exec("zypak-helper", env)
          /\ UNCHANGED <<mode, traced, instance, program, supervisor>>
      BY <1>2 DEF WrapperScript, startVars, hostVars, appVars
    <2>2. /\ env \in Env /\ mode \in Modes /\ traced \in SUBSET Library
          /\ env.strategy = Unset => instance.strategy = Unset
          /\ env.ld_preload = {} /\ mode # "child"
      BY <2>1 DEF EnvInv, ExecTypes, InstanceAgrees, Preloaded, ModeChild, Tool
    <2> QED BY <2>1, <2>2, EnvExec
  <1> QED BY <1>1, <1>2

-----------------------------------------------------------------------------
(* The process in the sandbox.                                               *)

LEMMA SpawnedStep ==
  ASSUME EnvInv, running \in {"zypak-sandbox", "flatpak-spawn"}, ChildSpawned, UNCHANGED program
  PROVE  EnvInv'
  <1>1. PICK e : e = ChildEnv
    OBVIOUS
  <1>2. PICK file \in {"strace", "zypak-helper"} : Exec(file, e)
    BY <1>1 DEF ChildSpawned, ChildCommand
  <1>3. mode' = "child" /\ UNCHANGED <<traced, instance, supervisor>>
    BY DEF ChildSpawned, hostVars, appVars
  <1>4. /\ e \in Env /\ e.ld_preload = {}
        /\ e.strategy = Unset => instance.strategy = Unset
        /\ e.strategy = IF env.strategy = Unset THEN instance.strategy ELSE env.strategy
    BY <1>1 DEF EnvInv, ExecTypes, InstanceAgrees, Env, ChildEnv, Forwards
  <1>5. IsSpawn(e) = IsSpawn(env)
    BY <1>4 DEF EnvInv, InstanceAgrees, IsSpawn
  <1>6. supervisor' = IsSpawn(e) /\ traced' \in SUBSET Library /\ mode' \in Modes
    BY <1>3, <1>5 DEF EnvInv, ExecTypes, Agreed, Modes
  <1> QED BY <1>2, <1>3, <1>4, <1>6, EnvExec

LEMMA ExecChildStep ==
  ASSUME EnvInv, mode = "child", NEW a, a = [env EXCEPT !.ld_preload = Preload("child", env)],
         Exec("child", a), UNCHANGED <<mode, traced, instance, supervisor>>,
         program' # "none" => mode = "child"
  PROVE  EnvInv'
  <1>1. /\ running' = "child" /\ env' = a /\ preloads' = a.ld_preload
        /\ UNCHANGED <<mode, traced, instance, supervisor>>
    BY DEF Exec
  <1>2. Preload("child", env) \in SUBSET Library
    BY PreloadIsLibrary
  <1>3. a \in Env /\ a.strategy = env.strategy /\ a.ld_preload = Preload("child", env)
    BY <1>2 DEF EnvInv, ExecTypes, Env
  <1>4. Preload("child", env)' = Preload("child", env) /\ IsSpawn(env)' = IsSpawn(env)
    BY <1>1, <1>3 DEF Preload, IsSpawn
  <1>5. ExecTypes'
    BY <1>1, <1>2, <1>3 DEF EnvInv, ExecTypes
  <1>6. InstanceAgrees'
    BY <1>1, <1>3 DEF EnvInv, InstanceAgrees
  <1>7. Preloaded'
    BY <1>1, <1>3, <1>4 DEF Preloaded, Tool
  <1>8. Agreed'
    BY <1>1, <1>4 DEF EnvInv, Agreed
  <1>9. ModeChild'
    BY <1>1 DEF EnvInv, ModeChild
  <1> QED BY <1>5, <1>6, <1>7, <1>8, <1>9 DEF EnvInv

LEMMA StraceHelperStep ==
  ASSUME EnvInv, StraceExecHelper
  PROVE  EnvInv'
  <1>1. /\ running = "strace" /\ mode = "child" /\ Exec("zypak-helper", env)
        /\ UNCHANGED <<mode, traced, instance, program, supervisor>>
    BY DEF StraceExecHelper, startVars, hostVars, appVars
  <1>2. /\ env \in Env /\ mode \in Modes /\ traced \in SUBSET Library
        /\ env.strategy = Unset => instance.strategy = Unset
        /\ env.ld_preload = {} /\ supervisor = IsSpawn(env)
    BY <1>1 DEF EnvInv, ExecTypes, InstanceAgrees, Preloaded, Agreed, Tool
  <1> QED BY <1>1, <1>2, EnvExec

LEMMA HelperChildStep ==
  ASSUME EnvInv, HelperChild
  PROVE  EnvInv'
  <1>1. /\ mode = "child" /\ UNCHANGED <<mode, traced, instance, supervisor>>
    BY DEF HelperChild, hostVars, appVars
  <1>2. CASE IsSpawn(env)
    <2>1. UNCHANGED <<running, env, preloads>>
      BY <1>2 DEF HelperChild
    <2> QED BY <1>1, <2>1 DEF EnvInv, ExecTypes, InstanceAgrees, Preloaded, Agreed, ModeChild,
                              Preload, IsSpawn
  <1>3. CASE ~IsSpawn(env)
    <2>1. PICK a : a = [env EXCEPT !.ld_preload = Preload("child", env)]
      OBVIOUS
    <2>2. Exec("child", a)
      BY <1>3, <2>1 DEF HelperChild
    <2> QED BY <1>1, <2>1, <2>2, ExecChildStep
  <1> QED BY <1>2, <1>3

LEMMA StartStepStays ==
  ASSUME StartStep
  PROVE  program' # "none" => program # "none"
  BY DEF StartStep, HelperSteps, PrctlDeathSignal, AnswerChroot, HelperKilled, HelperFails,
         GetenvSandboxApi, GetpidClient, GetpidOther, SendChroot, SendChrootFails, ProgramReads,
         ReadChrootReply, ReadChrootEnd

LEMMA EnvStep ==
  ASSUME EnvInv, [Next]_vars
  PROVE  EnvInv'
  <1>1. ASSUME NEW p \in Path, LookAt(p)
        PROVE  EnvInv'
    BY <1>1, EnvSame DEF LookAt, startVars
  <1>8. CASE Fork \/ \E f \in Fd \ {Stdin, Stdout, Stderr} : Close(f)
    BY <1>8, EnvSame DEF Fork, Close, launchVars, hostVars, appVars, startVars
  <1>9. CASE FlatpakSpawnEnds
    BY <1>9, EnvFails, EnvSame DEF FlatpakSpawnEnds, appVars, startVars
  <1>2. CASE HelperRefuses \/ ChildEnds
    BY <1>2, EnvFails DEF HelperRefuses, ChildEnds, hostVars, appVars, startVars
  <1>3. CASE SandboxBranch \/ SandboxSteps \/ \E k \in Cat : CatStepsAlone(k)
    BY <1>3, EnvSame DEF SandboxBranch, SandboxSteps, CatStepsAlone, launchVars, hostVars, appVars, startVars
  <1>4. CASE ExecFlatpakSpawn
    <2>1. /\ running = "zypak-sandbox" /\ Exec("flatpak-spawn", env)
          /\ UNCHANGED <<mode, traced, instance, program, supervisor>>
      BY <1>4 DEF ExecFlatpakSpawn, startVars, hostVars, appVars
    <2>2. /\ env \in Env /\ mode \in Modes /\ traced \in SUBSET Library
          /\ env.strategy = Unset => instance.strategy = Unset
          /\ env.ld_preload = {} /\ supervisor = IsSpawn(env) /\ mode # "child"
      BY <2>1 DEF EnvInv, ExecTypes, InstanceAgrees, Preloaded, Agreed, ModeChild, Tool
    <2> QED BY <2>1, <2>2, EnvExec
  <1>5. CASE FlatpakSpawnRuns \/ RequestFulfilled
    BY <1>5, SpawnedStep DEF FlatpakSpawnRuns, RequestFulfilled, startVars
  <1>6. CASE StartSteps
    <2>1. ASSUME ExecProgram, NEW a, a = [env EXCEPT !.ld_preload = Preload("child", env)],
                 Exec("child", a), UNCHANGED <<mode, traced, instance, hostVars>>
          PROVE  EnvInv'
      <3>1. program # "none" /\ mode = "child"
        BY <2>1 DEF ExecProgram, EnvInv, ModeChild
      <3> QED BY <2>1, <3>1, ExecChildStep DEF hostVars, appVars
    <2>2. CASE ProgramEnds /\ UNCHANGED launchVars
      BY <2>2, EnvSame DEF ProgramEnds, launchVars, hostVars, appVars
    <2>3. CASE StartStepsAlone
      BY <2>3, StartStepStays, EnvSame DEF StartStepsAlone, SpawnHelper, launchVars, hostVars, appVars
    <2> QED BY <1>6, <2>1, <2>2, <2>3 DEF StartSteps
  <1>7. CASE UNCHANGED vars
    BY <1>7, EnvSame DEF vars, launchVars, hostVars, appVars, startVars
  <1> QED BY <1>1, <1>2, <1>3, <1>4, <1>5, <1>6, <1>7, <1>8, <1>9, HelperHostStep, StraceStep, MainStep, ExecSandboxStep,
             ExecSelfStep, LatestStep, StraceHelperStep, HelperChildStep DEF Next

LEMMA EnvInit == Init => EnvInv
  <1> SUFFICES ASSUME Init
               PROVE  EnvInv
    OBVIOUS
  <1>1. /\ env \in Env /\ env.ld_preload = {} /\ instance \in {env, [env EXCEPT !.strategy = Unset]}
    BY DEF Init, Environment, Env
  <1>2. instance \in Env /\ instance.ld_preload = {} /\ (env.strategy = Unset => instance.strategy = Unset)
    BY <1>1 DEF Env
  <1> QED BY <1>1, <1>2 DEF Init, ChildStartInit, EnvInv, ExecTypes, InstanceAgrees, Preloaded, Agreed, ModeChild,
                            Modes, Tool

LEMMA EnvAlways == Spec => []EnvInv
  <1>1. EnvInv /\ [Next]_vars => EnvInv'
    BY EnvStep
  <1> QED BY <1>1, EnvInit, PTL DEF Spec

(* No tool of Zypak's is ever run with Zypak's preloads, and whatever way    *)
(* the application takes to execute itself, it has them.                     *)
THEOREM PreloadsRight == Spec => []RightPreloads
  <1>1. EnvInv => ToolsRunClean
    BY DEF EnvInv, Preloaded, ToolsRunClean, Tool
  <1>2. EnvInv => AppPreloaded
    BY PreloadIsLibrary DEF EnvInv, Preloaded, AppPreloaded
  <1>3. EnvInv => RightPreloads
    BY <1>1, <1>2 DEF RightPreloads
  <1> QED BY <1>3, EnvAlways, PTL

-----------------------------------------------------------------------------
(* zypak-sandbox takes the branch of the application's strategy.             *)

Stub == {"stub", "listed", "opened", "waiting"}

(* Before the application's exec of zypak-sandbox that has not begun.        *)
BranchInv ==
  /\ (running \notin {"zypak-sandbox", "flatpak-spawn", "failed"} /\ mode # "child") =>
       main = "sanitize_stdin" /\ request = NoFile
  /\ main \in Stub => supervisor
  /\ main = "zygote" => ~supervisor

LEMMA BranchSame ==
  ASSUME BranchInv, UNCHANGED <<main, request, supervisor>>,
         running' \notin {"zypak-sandbox", "flatpak-spawn", "failed"} /\ mode' # "child" =>
           running \notin {"zypak-sandbox", "flatpak-spawn", "failed"} /\ mode # "child"
  PROVE  BranchInv'
  BY DEF BranchInv, Stub

LEMMA BranchStep ==
  ASSUME EnvInv, BranchInv, [Next]_vars
  PROVE  BranchInv'
  <1>1. CASE (\E supported \in BOOLEAN : HelperHost(supported)) \/ StraceExec \/ HelperRefuses
    BY <1>1, BranchSame DEF HelperHost, StraceExec, HelperRefuses, Exec, Fails, hostVars, appVars, sandboxVars, stubVars
  <1>2. CASE MainOverride
    BY <1>2 DEF MainOverride, sandboxVars, stubVars, EnvInv, ModeChild, BranchInv, Stub
  <1>3. ASSUME NEW p \in Path, LookAt(p) \/ ExecSandbox(p)
        PROVE  BranchInv'
    BY <1>3, BranchSame DEF LookAt, ExecSandbox, Exec, execVars, hostVars, appVars, sandboxVars, stubVars
  <1>13. CASE Fork \/ \E f \in Fd \ {Stdin, Stdout, Stderr} : Close(f)
    BY <1>13, BranchSame DEF Fork, Close, launchVars, execVars, hostVars, appVars, sandboxVars, stubVars
  <1>4. ASSUME NEW type \in {"none", "relauncher", "other"}, ExecSelf(type)
        PROVE  BranchInv'
    BY <1>4, BranchSame DEF ExecSelf, Exec, EnvInv, ModeChild, sandboxVars, stubVars
  <1>5. CASE SpawnLatest \/ WrapperScript
    BY <1>5, BranchSame DEF SpawnLatest, WrapperScript, Exec, hostVars, appVars, sandboxVars, stubVars
  <1>6. CASE SandboxBranch
    <2>1. running = "zypak-sandbox" /\ supervisor = IsSpawn(env)
      BY <1>6 DEF SandboxBranch, EnvInv, Agreed
    <2>2. main' = (IF IsSpawn(env) THEN "stub" ELSE "zygote") /\ UNCHANGED <<running, mode, request, supervisor>>
      BY <1>6 DEF SandboxBranch, Becomes, launchVars, execVars, hostVars, appVars, stubVars
    <2> QED BY <2>1, <2>2 DEF BranchInv, Stub
  <1>7. CASE ExecFlatpakSpawn \/ FlatpakSpawnRuns \/ StraceExecHelper \/ ChildEnds \/ HelperChild
    BY <1>7, BranchSame DEF ExecFlatpakSpawn, FlatpakSpawnRuns, ChildSpawned, StraceExecHelper, ChildEnds,
                          HelperChild, Exec, Fails, hostVars, appVars, sandboxVars, stubVars
  <1>14. CASE FlatpakSpawnEnds
    BY <1>14, BranchSame DEF FlatpakSpawnEnds, Fails, execVars, appVars, sandboxVars, stubVars
  <1>8. CASE RequestFulfilled
    BY <1>8, BranchSame DEF RequestFulfilled, FulfillSpawnRequest, ChildSpawned, hostVars, appVars
  <1>9. ASSUME NEW k \in Cat, CatStepsAlone(k)
        PROVE  BranchInv'
    BY <1>9, BranchSame DEF CatStepsAlone, CatSteps, ExecCat, ExecCatFails, CatEnds, launchVars, execVars,
                          hostVars, appVars, stubVars
  <1>10. CASE SandboxSteps
    <2>1. /\ running = "zypak-sandbox" \/ mode = "child" \/ running \in {"flatpak-spawn", "failed"}
          /\ UNCHANGED <<running, mode, supervisor>>
      BY <1>10 DEF SandboxSteps, BranchInv, NoFile, launchVars, execVars, hostVars, appVars
    <2>2. (main' \in Stub => main \in Stub) /\ (main' = "zygote" => main = "zygote")
      BY <1>10 DEF SandboxSteps, SandboxStep, MakeStdinNull, ForkCat, FindAllFds, OpenSpawnRequest,
                  OpenSocketPairFails, SendSpawnRequest, ReadExitReply, MainEnds, SupervisorHangsUp, Stub
    <2> QED BY <2>1, <2>2 DEF BranchInv
  <1>11. CASE StartSteps
    BY <1>11, BranchSame DEF StartSteps, StartStepsAlone, ExecProgram, Exec, ProgramEnds, ProcessEnds, EnvInv,
                           ModeChild, launchVars, execVars, hostVars, appVars, sandboxVars, stubVars
  <1>12. CASE UNCHANGED vars
    BY <1>12, BranchSame DEF vars, launchVars, execVars, hostVars, appVars, sandboxVars, stubVars
  <1> QED BY <1>1, <1>2, <1>3, <1>4, <1>5, <1>6, <1>7, <1>8, <1>9, <1>10, <1>11, <1>12,
             <1>13, <1>14 DEF Next

LEMMA BranchAlways == Spec => []BranchInv
  <1>1. Init => BranchInv
    BY DEF Init, SandboxInit, BranchInv, Stub
  <1>2. EnvInv /\ BranchInv /\ [Next]_vars => BranchInv'
    BY BranchStep
  <1> QED BY <1>1, <1>2, EnvAlways, PTL DEF Spec

-----------------------------------------------------------------------------
(* The paths of the sandbox.                                                 *)

PathInv == \A p \in trusted : p = sandbox_path_ /\ p # Unknown

LEMMA PathSame ==
  ASSUME PathInv, UNCHANGED <<trusted, sandbox_path_>>
  PROVE  PathInv'
  BY DEF PathInv

LEMMA PathStep ==
  ASSUME PathInv, [Next]_vars
  PROVE  PathInv'
  <1>1. ASSUME NEW p \in Path, LookAt(p)
        PROVE  PathInv'
    BY <1>1, PathAssumption DEF LookAt, LooksLikeSandboxPath, PathInv
  <1>2. CASE MainOverride \/ \E p \in Path : ExecSandbox(p)
    BY <1>2 DEF MainOverride, ExecSandbox, PathInv
  <1>8. CASE Fork \/ \E f \in Fd \ {Stdin, Stdout, Stderr} : Close(f)
    BY <1>8, PathSame DEF Fork, Close, launchVars, hostVars, appVars
  <1>3. CASE \/ \E supported \in BOOLEAN : HelperHost(supported)
             \/ StraceExec \/ HelperRefuses \/ SpawnLatest \/ WrapperScript
             \/ \E type \in {"none", "relauncher", "other"} : ExecSelf(type)
    BY <1>3, PathSame DEF HelperHost, StraceExec, HelperRefuses, SpawnLatest, WrapperScript, ExecSelf, hostVars, appVars
  <1>4. CASE SandboxBranch \/ SandboxSteps \/ \E k \in Cat : CatStepsAlone(k)
    BY <1>4, PathSame DEF SandboxBranch, SandboxSteps, CatStepsAlone, launchVars, hostVars, appVars
  <1>5. CASE ExecFlatpakSpawn \/ FlatpakSpawnRuns \/ FlatpakSpawnEnds \/ RequestFulfilled
    BY <1>5, PathSame DEF ExecFlatpakSpawn, FlatpakSpawnRuns, FlatpakSpawnEnds, RequestFulfilled, ChildSpawned, hostVars, appVars
  <1>6. CASE StraceExecHelper \/ ChildEnds \/ HelperChild \/ StartSteps
    BY <1>6, PathSame DEF StraceExecHelper, ChildEnds, HelperChild, StartSteps, StartStepsAlone, launchVars,
                        hostVars, appVars
  <1>7. CASE UNCHANGED vars
    BY <1>7, PathSame DEF vars, launchVars, hostVars, appVars
  <1> QED BY <1>1, <1>2, <1>3, <1>4, <1>5, <1>6, <1>7, <1>8 DEF Next

(* Every path that was shown to be setuid leads to zypak-sandbox.            *)
THEOREM AlwaysRedirected == Spec => []Redirected
  <1>1. Init => PathInv
    BY DEF Init, PathInv
  <1>2. PathInv /\ [Next]_vars => PathInv'
    BY PathStep
  <1>3. PathInv => Redirected
    BY DEF PathInv, Redirected, IsSandbox
  <1> QED BY <1>1, <1>2, <1>3, PTL DEF Spec

-----------------------------------------------------------------------------
(* What may happen at the start of the sandboxed program.                    *)
LEMMA StartOrSame ==
  ASSUME [Next]_vars
  PROVE  StartSteps \/ HelperChild \/ UNCHANGED startVars
  <1>1. CASE \/ \E p \in Path : LookAt(p) \/ ExecSandbox(p)
             \/ Fork \/ \E f \in Fd \ {Stdin, Stdout, Stderr} : Close(f)
    BY <1>1 DEF LookAt, ExecSandbox, Fork, Close
  <1>2. CASE \/ \E supported \in BOOLEAN : HelperHost(supported)
             \/ StraceExec \/ HelperRefuses \/ MainOverride \/ SpawnLatest \/ WrapperScript
             \/ \E type \in {"none", "relauncher", "other"} : ExecSelf(type)
    BY <1>2 DEF HelperHost, StraceExec, HelperRefuses, MainOverride, SpawnLatest, WrapperScript, ExecSelf
  <1>3. CASE \/ SandboxBranch \/ ExecFlatpakSpawn \/ FlatpakSpawnRuns \/ FlatpakSpawnEnds
             \/ RequestFulfilled \/ SandboxSteps \/ \E k \in Cat : CatStepsAlone(k)
    BY <1>3 DEF SandboxBranch, ExecFlatpakSpawn, FlatpakSpawnRuns, FlatpakSpawnEnds, RequestFulfilled,
                SandboxSteps, CatStepsAlone
  <1>4. CASE StraceExecHelper \/ ChildEnds \/ UNCHANGED vars
    BY <1>4 DEF StraceExecHelper, ChildEnds, vars
  <1> QED BY <1>1, <1>2, <1>3, <1>4 DEF Next

-----------------------------------------------------------------------------
(* The descriptors of zypak-sandbox and of the process in the sandbox.       *)

(* Before the stub has listed its descriptors.                               *)
Unlisted == {"sanitize_stdin", "cat_stdout", "cat_stderr", "sanitized", "stub", "zygote"}

(* What a descriptor may be once main has come past its sanitising.          *)
StdinClean == fds[Stdin] \in {Null, NoFile}
CatsClean(S) == \A k \in S : fds[k] = Writer(k)
OthersClean == \A f \in Fd \ {Stdin, Stdout, Stderr, kZypakSupervisorFd} : fds[f] \in {"other", NoFile}

Clean(f, file) ==
  \/ file = NoFile
  \/ f = Stdin /\ file = Null
  \/ f \in Cat /\ file = Writer(f)
  \/ f > Stderr /\ file = "other"

FilesInv ==
  /\ fds = [f \in Fd |-> fds[f]] /\ fd_map = [f \in Fd |-> fd_map[f]] /\ process = [f \in Fd |-> process[f]]
  /\ main # "ended" => OthersClean
  /\ main # "sanitize_stdin" => StdinClean
  /\ main \in {"cat_stderr", "sanitized", "stub"} => CatsClean({Stdout})
  /\ main \in {"sanitized", "stub"} => CatsClean({Stderr})
  /\ \A f \in Fd : Clean(f, fd_map[f])
  /\ request_pipe \in {NoFile, Null, "pair"}
  /\ request \in {NoFile, "pair"}
  /\ main \in Unlisted => request = NoFile /\ process = NoFds /\ ~supervisor_end

(* As many descriptors are received as a message has room for.               *)
ReceivedInv ==
  process # NoFds =>
    /\ \A f \in Fd : process[f] # NoFile => process[f] = fd_map[f]
    /\ Cardinality(OpenIn(process)) = kMaxFileDescriptors \/ OpenIn(process) = OpenIn(fd_map)

LEMMA StdioNumbers == Stdin \in Fd /\ Stdout \in Fd /\ Stderr \in Fd /\ Cat = {1, 2} /\ Stderr = 2 /\ Stdin = 0
  <1>1. kZypakSupervisorFd \in 0 .. Limit - 1 /\ kZypakSupervisorFd \notin {0, 1, 2}
    BY SupervisorFdAssumption DEF Fd, Stdin, Stdout, Stderr
  <1>2. kZypakSupervisorFd \in Nat /\ kZypakSupervisorFd > 2 /\ 0 \in 0 .. Limit - 1 /\ 1 \in 0 .. Limit - 1
        /\ 2 \in 0 .. Limit - 1
    BY <1>1, LimitAssumption
  <1> QED BY <1>2 DEF Fd, Stdin, Stdout, Stderr, Cat

LEMMA FilesSame ==
  ASSUME FilesInv, UNCHANGED <<main, fds, stubVars, process>>
  PROVE  FilesInv'
  BY DEF FilesInv, stubVars, OthersClean, StdinClean, CatsClean, Writer, Clean

LEMMA FilesInit == SandboxInit => FilesInv
  <1> SUFFICES ASSUME SandboxInit
               PROVE  FilesInv
    OBVIOUS
  <1>1. /\ main = "sanitize_stdin" /\ fds \in Passed /\ fd_map = NoFds /\ request_pipe = NoFile
        /\ request = NoFile /\ supervisor_end = FALSE /\ process = NoFds
    BY DEF SandboxInit
  <1>2. fds = [f \in Fd |-> fds[f]] /\ OthersClean
    BY <1>1 DEF Passed, OthersClean
  <1>3. \A f \in Fd : fd_map[f] = NoFile
    BY <1>1 DEF NoFds
  <1> QED BY <1>1, <1>2, <1>3 DEF FilesInv, Unlisted, Clean, NoFds

LEMMA StdinMade ==
  ASSUME FilesInv, MakeStdinNull
  PROVE  FilesInv'
  <1>1. PICK low : low = Lowest(Free(fds))
    OBVIOUS
  <1>2. /\ main = "sanitize_stdin" /\ main' = "cat_stdout"
        /\ fds' = [fds EXCEPT ![Stdin] = Null, ![low] = NoFile]
        /\ UNCHANGED <<stubVars, process>>
    BY <1>1 DEF MakeStdinNull, NullStdin
  <1>3. \A f \in Fd \ {Stdin} : fds'[f] \in {fds[f], NoFile}
    <2>1. fds = [f \in Fd |-> fds[f]]
      BY DEF FilesInv
    <2>2. fds' = [f \in Fd |-> IF f = low THEN NoFile ELSE IF f = Stdin THEN Null ELSE fds[f]]
      BY <1>2, <2>1
    <2> QED BY <2>2
  <1>4. StdinClean'
    BY <1>2, StdioNumbers DEF FilesInv, StdinClean
  <1>5. OthersClean'
    BY <1>2, <1>3 DEF FilesInv, OthersClean
  <1>6. fds' = [f \in Fd |-> fds'[f]]
    BY <1>2 DEF FilesInv
  <1> QED BY <1>2, <1>4, <1>5, <1>6 DEF FilesInv, stubVars, Unlisted, Clean, Writer

LEMMA CatForked ==
  ASSUME FilesInv, NEW k \in Cat, ForkCat(k)
  PROVE  FilesInv'
  <1>1. k \in {Stdout, Stderr} /\ k \in Fd /\ k # Stdin
    BY StdioNumbers DEF Cat, Stdout, Stderr
  <1>2. /\ main = (IF k = Stdout THEN "cat_stdout" ELSE "cat_stderr")
        /\ UNCHANGED <<fd_map, request_pipe, request, supervisor_end, process>>
    BY DEF ForkCat, Serves, stubVars
  <1>3. CASE main' = (IF k = Stdout THEN "cat_stderr" ELSE "sanitized") /\ fds' = [fds EXCEPT ![k] = Writer(k)]
    <2>1. /\ fds' = [f \in Fd |-> fds'[f]] /\ fds'[k] = Writer(k)
          /\ \A f \in Fd \ {k} : fds'[f] = fds[f]
      BY <1>1, <1>3 DEF FilesInv
    <2>2. StdinClean' /\ OthersClean'
      BY <1>1, <1>2, <2>1, StdioNumbers DEF FilesInv, StdinClean, OthersClean
    <2>3. CASE k = Stdout
      <3>1. main' = "cat_stderr" /\ CatsClean({Stdout})'
        BY <1>3, <2>1, <2>3 DEF CatsClean, Writer
      <3> QED BY <1>2, <2>1, <2>2, <3>1 DEF FilesInv, Unlisted, Clean, Writer
    <2>4. CASE k = Stderr
      <3>1. k # Stdout /\ Stdout \in Fd
        BY <2>4, StdioNumbers DEF Stdout, Stderr
      <3>2. main' = "sanitized" /\ CatsClean({Stderr})'
        BY <1>3, <2>1, <2>4, <3>1 DEF CatsClean, Writer
      <3>3. CatsClean({Stdout})'
        BY <1>2, <2>1, <3>1 DEF FilesInv, CatsClean, Writer
      <3> QED BY <1>2, <2>1, <2>2, <3>1, <3>2, <3>3 DEF FilesInv, Unlisted, Clean, Writer
    <2> QED BY <1>1, <2>3, <2>4
  <1>4. CASE main' = "ended" /\ fds' = NoFds
    <2>1. fds' = [f \in Fd |-> fds'[f]] /\ StdinClean'
      BY <1>4, StdioNumbers DEF NoFds, StdinClean
    <2> QED BY <1>2, <1>4, <2>1 DEF FilesInv, Unlisted, Clean, Writer
  <1> QED BY <1>3, <1>4 DEF ForkCat

LEMMA FdsListed ==
  ASSUME FilesInv, FindAllFds
  PROVE  FilesInv'
  <1>1. /\ main = "stub" /\ main' = "listed"
        /\ fd_map' = [f \in Fd |-> IF f = kZypakSupervisorFd THEN NoFile ELSE fds[f]]
        /\ UNCHANGED <<fds, request_pipe, request, supervisor_end, process>>
    BY DEF FindAllFds, NotForwarded
  <1>2. ASSUME NEW f \in Fd
        PROVE  Clean(f, fd_map'[f])
    <2>1. CASE f = kZypakSupervisorFd
      BY <1>1, <2>1 DEF Clean
    <2>2. CASE f = Stdin /\ f # kZypakSupervisorFd
      BY <1>1, <2>2 DEF FilesInv, StdinClean, Clean
    <2>3. CASE f \in Cat /\ f # kZypakSupervisorFd
      <3>1. fds[f] = Writer(f)
        BY <1>1, <2>3 DEF FilesInv, CatsClean, Cat
      <3> QED BY <1>1, <2>3, <3>1 DEF Clean
    <2>4. CASE f \notin {Stdin, Stdout, Stderr, kZypakSupervisorFd}
      <3>1. f > Stderr
        BY <2>4, StdioNumbers DEF Fd, Stdin, Stdout, Stderr
      <3>2. fds[f] \in {"other", NoFile}
        BY <1>1, <2>4 DEF FilesInv, OthersClean
      <3> QED BY <1>1, <2>4, <3>1, <3>2 DEF Clean
    <2> QED BY <2>1, <2>2, <2>3, <2>4 DEF Cat
  <1>3. \A f \in Fd : Clean(f, fd_map[f])'
    BY <1>2 DEF Clean, Writer
  <1>4. fd_map' = [f \in Fd |-> fd_map'[f]] /\ StdinClean' /\ OthersClean'
    BY <1>1 DEF FilesInv, StdinClean, OthersClean
  <1> QED BY <1>1, <1>3, <1>4 DEF FilesInv, Unlisted

LEMMA StubGoesOn ==
  ASSUME FilesInv, OpenSpawnRequest \/ OpenSocketPairFails \/ SendSpawnRequest
  PROVE  FilesInv'
  <1>1. /\ main \in {"listed", "opened"} /\ main' \in {"opened", "waiting"}
        /\ UNCHANGED <<fds, fd_map, process>>
    BY DEF OpenSpawnRequest, OpenSocketPairFails, SendSpawnRequest
  <1>2. fds[0] \in {Null, NoFile} /\ StdinClean' /\ OthersClean'
    BY <1>1 DEF FilesInv, StdinClean, OthersClean, Stdin
  <1>3. request_pipe' \in {NoFile, Null, "pair"} /\ request' \in {NoFile, "pair"}
    BY <1>2 DEF FilesInv, OpenSpawnRequest, OpenSocketPairFails, SendSpawnRequest, Socket, NoFile, Null
  <1> QED BY <1>1, <1>2, <1>3 DEF FilesInv, Unlisted, Clean, Writer

LEMMA StubEnds ==
  ASSUME FilesInv, ReadExitReply \/ MainEnds
  PROVE  FilesInv'
  <1>1. main' = "ended" /\ fds' = NoFds /\ UNCHANGED <<fd_map, request_pipe, request, supervisor_end, process>>
    BY DEF ReadExitReply, MainEnds, stubVars
  <1>2. fds' = [f \in Fd |-> fds'[f]] /\ StdinClean'
    BY <1>1, StdioNumbers DEF NoFds, StdinClean
  <1> QED BY <1>1, <1>2 DEF FilesInv, Unlisted, Clean, Writer

(* The supervisor's answer, and the end of the process.                      *)
LEMMA ProcessFiles ==
  ASSUME FilesInv, UNCHANGED <<main, fds, fd_map, request_pipe, request>>, process' = [f \in Fd |-> process'[f]],
         main \in Unlisted => process' = NoFds /\ ~supervisor_end'
  PROVE  FilesInv'
  BY DEF FilesInv, OthersClean, StdinClean, CatsClean, Writer, Clean, NoFds

(* What the application does to its descriptors.                             *)
LEMMA ApplicationFiles ==
  ASSUME FilesInv, main = "sanitize_stdin", fds' = [f \in Fd |-> fds'[f]],
         \A f \in Fd \ {kZypakSupervisorFd} : fds'[f] \in {fds[f], NoFile},
         UNCHANGED <<main, stubVars, process>>
  PROVE  FilesInv'
  <1>1. OthersClean'
    BY DEF FilesInv, OthersClean
  <1> QED BY <1>1 DEF FilesInv, stubVars, Writer, Clean

LEMMA FilesStep ==
  ASSUME EnvInv, BranchInv, FilesInv, [Next]_vars
  PROVE  FilesInv'
  <1>1. CASE SandboxStep
    <2>1. CASE SupervisorHangsUp
      BY <2>1, ProcessFiles DEF SupervisorHangsUp, FilesInv
    <2> QED BY <1>1, <2>1, StdinMade, CatForked, FdsListed, StubGoesOn, StubEnds DEF SandboxStep
  <1>2. CASE FulfillSpawnRequest
    <2>1. main \notin Unlisted /\ process' = [f \in Fd |-> process'[f]]
      BY <1>2 DEF FulfillSpawnRequest, FilesInv, NoFile
    <2> QED BY <1>2, <2>1, ProcessFiles DEF FulfillSpawnRequest
  <1>3. CASE ProcessEnds
    BY <1>3, ProcessFiles DEF ProcessEnds, FilesInv, NoFds
  <1>4. CASE ChildEnds
    <2>1. UNCHANGED <<main, fds, fd_map, request_pipe, request, supervisor_end>> /\ process' = NoFds
      BY <1>4 DEF ChildEnds, stubVars
    <2> QED BY <2>1, ProcessFiles DEF FilesInv, NoFds
  <1>5. CASE SandboxBranch
    <2>1. /\ main = "sanitized" /\ main' \in {"stub", "zygote"}
          /\ UNCHANGED <<fds, fd_map, request_pipe, request, supervisor_end, process>>
      BY <1>5 DEF SandboxBranch, Becomes, stubVars
    <2> QED BY <2>1 DEF FilesInv, OthersClean, StdinClean, CatsClean, Writer, Clean, Unlisted
  <1>6. ASSUME NEW k \in Cat, CatStepsAlone(k)
        PROVE  FilesInv'
    BY <1>6, FilesSame DEF CatStepsAlone, CatSteps, ExecCat, ExecCatFails, CatEnds
  <1>7. CASE UNCHANGED sandboxVars
    BY <1>7, FilesSame DEF sandboxVars
  <1>8. ASSUME NEW p \in Path, LookAt(p) \/ ExecSandbox(p)
        PROVE  FilesInv'
    BY <1>7, <1>8 DEF LookAt, ExecSandbox
  <1>9. CASE \/ \E supported \in BOOLEAN : HelperHost(supported)
             \/ StraceExec \/ HelperRefuses \/ WrapperScript \/ Fork
             \/ \E type \in {"none", "relauncher", "other"} : ExecSelf(type)
    BY <1>7, <1>9 DEF HelperHost, StraceExec, HelperRefuses, WrapperScript, Fork, ExecSelf
  <1>13. CASE MainOverride
    <2>1. main = "sanitize_stdin"
      BY <1>13 DEF MainOverride, EnvInv, ModeChild, BranchInv
    <2>2. fds' \in {fds, [fds EXCEPT ![kZypakSupervisorFd] = "supervisor"]}
      BY <1>13 DEF MainOverride, WithSupervisor
    <2> QED BY <1>13, <2>1, <2>2, ApplicationFiles DEF MainOverride, FilesInv
  <1>14. ASSUME NEW f \in Fd, Close(f)
         PROVE  FilesInv'
    <2>1. main = "sanitize_stdin"
      BY <1>14 DEF Close, EnvInv, ModeChild, BranchInv
    <2>2. fds' \in {fds, [fds EXCEPT ![f] = NoFile]}
      BY <1>14 DEF Close, Closed
    <2> QED BY <1>14, <2>1, <2>2, ApplicationFiles DEF Close, FilesInv
  <1>15. CASE SpawnLatest
    <2>1. main = "sanitize_stdin"
      BY <1>15 DEF SpawnLatest, BranchInv
    <2> QED BY <1>15, <2>1, ApplicationFiles DEF SpawnLatest, StdioOnly
  <1>10. CASE ExecFlatpakSpawn \/ FlatpakSpawnRuns \/ FlatpakSpawnEnds \/ StraceExecHelper \/ HelperChild
    BY <1>7, <1>10 DEF ExecFlatpakSpawn, FlatpakSpawnRuns, FlatpakSpawnEnds, StraceExecHelper, HelperChild
  <1>11. CASE StartSteps
    BY <1>3, <1>7, <1>11 DEF StartSteps, StartStepsAlone
  <1>12. CASE UNCHANGED vars
    BY <1>7, <1>12 DEF vars
  <1> QED BY <1>1, <1>2, <1>4, <1>5, <1>6, <1>8, <1>9, <1>10, <1>11, <1>12, <1>13, <1>14, <1>15
          DEF Next, SandboxSteps, RequestFulfilled

LEMMA FilesAlways == Spec => []FilesInv
  <1>1. Init => FilesInv
    BY FilesInit DEF Init
  <1>2. EnvInv /\ BranchInv /\ FilesInv /\ [Next]_vars => FilesInv'
    BY FilesStep
  <1> QED BY <1>1, <1>2, EnvAlways, BranchAlways, PTL DEF Spec

-----------------------------------------------------------------------------
(* The stub can talk to the supervisor.                                      *)

(* The supervisor's descriptor, from the application's main to the stub's    *)
(* end, and what keeps it.                                                   *)
TalkInv ==
  /\ running = "application_main" /\ supervisor =>
       /\ {<<"host", "spawn-strategy">>, <<"host", "spawn-strategy-close">>} \subseteq preloads
       /\ forked => block_supervisor_fd_close
  /\ running # "application_main" => ~forked
  /\ (running \in {"application_main", "zypak-sandbox"} \/ main \in Stub) /\ supervisor /\ main # "ended" =>
       fds[kZypakSupervisorFd] = "supervisor"

LEMMA TalkSame ==
  ASSUME TalkInv, UNCHANGED <<running, supervisor, forked, block_supervisor_fd_close, preloads>>,
         fds'[kZypakSupervisorFd] = fds[kZypakSupervisorFd] \/ main' = "ended",
         main' \in Stub => main \in Stub \/ running = "zypak-sandbox",
         main' # "ended" => main # "ended"
  PROVE  TalkInv'
  BY DEF TalkInv, Stub

(* Another program takes over which is not the application.                  *)
LEMMA TalkExec ==
  ASSUME TalkInv, running' \notin {"application_main", "zypak-sandbox"}, ~forked',
         UNCHANGED <<main, supervisor, fds>>
  PROVE  TalkInv'
  BY DEF TalkInv, Stub

LEMMA SanitizedTalks ==
  ASSUME FilesInv, TalkInv, NEW k \in Cat, MakeStdinNull \/ ForkCat(k),
         UNCHANGED <<running, supervisor, forked, block_supervisor_fd_close, preloads>>, running = "zypak-sandbox"
  PROVE  TalkInv'
  <1>1. kZypakSupervisorFd \in Fd /\ kZypakSupervisorFd # Stdin /\ kZypakSupervisorFd # k
    BY SupervisorFdAssumption DEF Cat
  <1>2. CASE MakeStdinNull /\ fds[kZypakSupervisorFd] = "supervisor"
    <2>1. Free(fds) \in SUBSET Nat /\ Free(fds) # {}
      BY <1>2, LimitAssumption DEF MakeStdinNull, Free, Fd
    <2>2. \E f \in Free(fds) : \A g \in Free(fds) : f <= g
      BY <2>1, LeastExists
    <2>3. PICK low : low = Lowest(Free(fds))
      OBVIOUS
    <2>4. low \in Free(fds)
      BY <2>2, <2>3 DEF Lowest
    <2>5. low # kZypakSupervisorFd
      BY <1>1, <1>2, <2>4 DEF Free, OpenIn, NoFile
    <2>6. fds' = [fds EXCEPT ![Stdin] = Null, ![low] = NoFile]
      BY <1>2, <2>3 DEF MakeStdinNull, NullStdin
    <2>7. fds'[kZypakSupervisorFd] = fds[kZypakSupervisorFd]
      BY <1>1, <2>5, <2>6 DEF FilesInv
    <2> QED BY <1>2, <2>7, TalkSame DEF MakeStdinNull, Stub
  <1>3. CASE MakeStdinNull /\ fds[kZypakSupervisorFd] # "supervisor"
    BY <1>3 DEF MakeStdinNull, TalkInv, Stub
  <1>4. CASE ForkCat(k)
    <2>1. fds'[kZypakSupervisorFd] = fds[kZypakSupervisorFd] \/ main' = "ended"
      BY <1>1, <1>4 DEF ForkCat, FilesInv
    <2>2. main \in {"cat_stdout", "cat_stderr"} /\ main' \in {"cat_stderr", "sanitized", "ended"}
      BY <1>4 DEF ForkCat, Serves
    <2> QED BY <2>1, <2>2, TalkSame DEF Stub
  <1> QED BY <1>2, <1>3, <1>4

LEMMA MainTalks ==
  ASSUME EnvInv, BranchInv, FilesInv, TalkInv, MainOverride
  PROVE  TalkInv'
  <1>1. running = "application" /\ running' = "application_main" /\ main' = main
        /\ UNCHANGED <<preloads, forked, block_supervisor_fd_close>>
    BY DEF MainOverride
  <1>2. preloads = Preload("host", env)
    BY <1>1 DEF EnvInv, Preloaded
  <1>3. supervisor' => <<"host", "spawn-strategy">> \in preloads /\ <<"host", "spawn-strategy-close">> \in preloads
    BY <1>2 DEF MainOverride, Preload
  <1>4. ~forked
    BY <1>1 DEF TalkInv
  <1>5. supervisor' => fds'[kZypakSupervisorFd] = "supervisor"
    BY SupervisorFdAssumption DEF MainOverride, WithSupervisor, FilesInv
  <1> QED BY <1>1, <1>3, <1>4, <1>5 DEF TalkInv

LEMMA CloseTalks ==
  ASSUME FilesInv, TalkInv, NEW f \in Fd, Close(f)
  PROVE  TalkInv'
  <1>1. /\ running = "application_main" /\ forked
        /\ UNCHANGED <<running, supervisor, forked, block_supervisor_fd_close, preloads, main>>
    BY DEF Close, launchVars, execVars, hostVars, appVars
  <1>2. CASE supervisor
    <2>1. fds'[kZypakSupervisorFd] = fds[kZypakSupervisorFd]
      BY <1>1, <1>2, SupervisorFdAssumption DEF TalkInv, Close, Closed, FilesInv
    <2> QED BY <1>1, <2>1, TalkSame
  <1>3. CASE ~supervisor
    BY <1>1, <1>3 DEF TalkInv
  <1> QED BY <1>2, <1>3

LEMMA TalkStep ==
  ASSUME EnvInv, BranchInv, FilesInv, TalkInv, [Next]_vars
  PROVE  TalkInv'
  <1>1. ASSUME NEW p \in Path, ExecSandbox(p)
        PROVE  TalkInv'
    BY <1>1 DEF ExecSandbox, Exec, Forgets, sandboxVars, TalkInv, Stub
  <1>2. CASE Fork
    <2>1. /\ running = "application_main" /\ block_supervisor_fd_close' = (<<"host", "spawn-strategy">> \in preloads)
          /\ UNCHANGED <<running, supervisor, preloads, main, fds>>
      BY <1>2 DEF Fork, BlocksInChild, execVars, sandboxVars
    <2> QED BY <2>1 DEF TalkInv
  <1>3. CASE \E p \in Path : LookAt(p)
    BY <1>3, TalkSame DEF LookAt, execVars, sandboxVars
  <1>4. ASSUME NEW type \in {"none", "relauncher", "other"}, ExecSelf(type)
        PROVE  TalkInv'
    BY <1>4, TalkExec DEF ExecSelf, Exec, ProgramOf, Forgets, sandboxVars
  <1>5. CASE SpawnLatest
    <2>1. /\ running = "zypak-helper" /\ running' \in {"zypak-helper", "wrapper_script"}
          /\ main = "sanitize_stdin" /\ main' = main /\ forked' = forked
      BY <1>5 DEF SpawnLatest, Exec, BranchInv, hostVars, appVars
    <2> QED BY <2>1 DEF TalkInv, Stub
  <1>6. CASE (\E supported \in BOOLEAN : HelperHost(supported)) \/ StraceExec \/ HelperRefuses \/ WrapperScript
    BY <1>6, TalkExec DEF HelperHost, StraceExec, HelperRefuses, WrapperScript, Exec, Fails, hostVars, appVars, sandboxVars,
                          TalkInv
  <1>7. CASE SandboxBranch
    BY <1>7, TalkSame DEF SandboxBranch, Becomes, launchVars, execVars, hostVars, appVars, Stub
  <1>16. CASE FlatpakSpawnEnds
    BY <1>16, TalkExec, TalkSame DEF FlatpakSpawnEnds, Fails, execVars, appVars, sandboxVars, TalkInv
  <1>8. CASE ExecFlatpakSpawn
    BY <1>8, TalkExec DEF ExecFlatpakSpawn, Exec, hostVars, appVars, sandboxVars, TalkInv
  <1>10. CASE RequestFulfilled
    BY <1>10, TalkExec DEF RequestFulfilled, FulfillSpawnRequest, ChildSpawned, ChildCommand, Exec, hostVars, appVars, TalkInv
  <1>9. CASE FlatpakSpawnRuns \/ StraceExecHelper \/ ChildEnds
    BY <1>9, TalkExec DEF FlatpakSpawnRuns, ChildSpawned, ChildCommand, StraceExecHelper, ChildEnds,
                          Exec, Fails, hostVars, appVars, sandboxVars, TalkInv
  <1>11. CASE HelperChild
    BY <1>11, TalkExec DEF HelperChild, Exec, hostVars, appVars, sandboxVars, TalkInv
  <1>12. CASE SandboxSteps
    <2>1. UNCHANGED <<running, supervisor, forked, block_supervisor_fd_close, preloads>>
      BY <1>12 DEF SandboxSteps, launchVars, execVars, hostVars, appVars
    <2>2. CASE MakeStdinNull \/ \E k \in Cat : ForkCat(k)
      <3>1. main \in Unlisted
        BY <2>2 DEF MakeStdinNull, ForkCat, Serves, Unlisted
      <3>2. running = "zypak-sandbox"
        BY <1>12, <3>1 DEF SandboxSteps, FilesInv, NoFile
      <3>3. Stdout \in Cat
        BY DEF Cat
      <3> QED BY <2>1, <2>2, <3>2, <3>3, SanitizedTalks
    <2>3. CASE FindAllFds \/ OpenSpawnRequest \/ OpenSocketPairFails \/ SendSpawnRequest \/ ReadExitReply
               \/ MainEnds \/ SupervisorHangsUp
      BY <2>1, <2>3, TalkSame DEF FindAllFds, OpenSpawnRequest, OpenSocketPairFails, SendSpawnRequest, ReadExitReply,
           MainEnds, SupervisorHangsUp, Stub
    <2> QED BY <1>12, <2>2, <2>3 DEF SandboxSteps, SandboxStep
  <1>13. ASSUME NEW k \in Cat, CatStepsAlone(k)
         PROVE  TalkInv'
    BY <1>13, TalkSame DEF CatStepsAlone, CatSteps, ExecCat, ExecCatFails, CatEnds, launchVars, execVars, hostVars, appVars
  <1>14. CASE StartSteps
    <2>1. CASE ExecProgram /\ \E e : Exec("child", e) /\ UNCHANGED <<hostVars, sandboxVars>>
      <3>1. running # "application_main"
        BY <2>1 DEF ExecProgram, EnvInv, ModeChild
      <3> QED BY <2>1, <3>1, TalkExec DEF Exec, hostVars, appVars, sandboxVars, TalkInv
    <2>2. CASE UNCHANGED <<launchVars, main, fds>>
      BY <2>2, TalkSame DEF launchVars, execVars, hostVars, appVars
    <2> QED BY <1>14, <2>1, <2>2 DEF StartSteps, StartStepsAlone, ProcessEnds, sandboxVars
  <1>15. CASE UNCHANGED vars
    BY <1>15, TalkSame DEF vars, launchVars, execVars, hostVars, appVars, sandboxVars
  <1> QED BY <1>1, <1>2, <1>3, <1>4, <1>5, <1>6, <1>7, <1>8, <1>9, <1>10, <1>11, <1>12, <1>13, <1>14, <1>15, <1>16,
             MainTalks, CloseTalks DEF Next

(* The parts agree on the strategy, although each chooses by itself, and the *)
(* stub has what it needs to talk to the supervisor.                         *)
THEOREM StrategyAgreed == Spec => []SameStrategy
  <1>1. Init => TalkInv
    BY DEF Init, SandboxInit, TalkInv, Stub
  <1>2. EnvInv /\ BranchInv /\ FilesInv /\ TalkInv /\ [Next]_vars => TalkInv'
    BY TalkStep
  <1>3. EnvInv /\ BranchInv /\ TalkInv => SameStrategy
    BY DEF EnvInv, Agreed, Preloaded, BranchInv, TalkInv, SameStrategy, Stub, Preload
  <1> QED BY <1>1, <1>2, <1>3, EnvAlways, BranchAlways, FilesAlways, PTL DEF Spec

(* The request is never written to what the application had for stdin.       *)
THEOREM RequestAlwaysPrivate == Spec => []RequestStaysPrivate
  <1>1. FilesInv => RequestStaysPrivate
    BY DEF FilesInv, RequestStaysPrivate
  <1> QED BY <1>1, FilesAlways, PTL

(* A message that has no room for all descriptors carries the lowest ones,   *)
(* kMaxFileDescriptors of them.                                              *)
LEMMA RoomIsUsed ==
  ASSUME NEW O \in SUBSET Fd
  PROVE  LET R == {f \in O : Cardinality(O \cap 0 .. f - 1) < kMaxFileDescriptors}
         IN  R = O \/ Cardinality(R) = kMaxFileDescriptors
  <1> DEFINE Before(f) == O \cap 0 .. f - 1
             R == {f \in O : Cardinality(Before(f)) < kMaxFileDescriptors}
             Late == {f \in O : ~(Cardinality(Before(f)) < kMaxFileDescriptors)}
  <1>1. \A f \in Fd : f \in Nat
    BY LimitAssumption DEF Fd
  <1>2. ASSUME NEW f \in O
        PROVE  IsFiniteSet(Before(f)) /\ Cardinality(Before(f)) \in Nat
    <2>1. IsFiniteSet(0 .. f - 1)
      <3>1. 0 \in Int /\ f - 1 \in Int
        BY <1>1
      <3> QED BY <3>1, FS_Interval
    <2>2. Before(f) \subseteq 0 .. f - 1
      OBVIOUS
    <2>3. IsFiniteSet(Before(f))
      BY <2>1, <2>2, FS_Subset, Zenon
    <2> QED BY <2>3, FS_CardinalityType
  <1>3. ASSUME Late # {}
        PROVE  Cardinality(R) = kMaxFileDescriptors
    <2>1. Late \in SUBSET Nat
      BY <1>1
    <2>2. PICK m \in Late : \A f \in Late : m <= f
      BY <1>3, <2>1, LeastExists, Zenon
    <2>3. m \in O /\ m \in Nat /\ Cardinality(Before(m)) \in Nat /\ Cardinality(Before(m)) >= kMaxFileDescriptors
      <3>1. m \in O /\ ~(Cardinality(Before(m)) < kMaxFileDescriptors)
        BY <2>2
      <3> QED BY <1>1, <1>2, <3>1, MaxAssumption
    <2>4. R = Before(m)
      <3>1. ASSUME NEW f \in Before(m)
            PROVE  f \in R
        <4>1. f \in O /\ f < m /\ f \in Nat
          BY <1>1, <2>3
        <4> QED BY <2>2, <4>1, <2>3
      <3>2. ASSUME NEW f \in R
            PROVE  f \in Before(m)
        <4>1. f \in O /\ f \in Nat /\ Cardinality(Before(f)) < kMaxFileDescriptors
          BY <1>1
        <4>2. CASE f >= m
          <5>1. Before(m) \subseteq Before(f)
            BY <2>3, <4>1, <4>2
          <5>2. Cardinality(Before(m)) <= Cardinality(Before(f))
            BY <1>2, <4>1, <5>1, FS_Subset, Zenon
          <5>3. Cardinality(Before(f)) \in Nat
            BY <1>2, <4>1
          <5> QED BY <2>3, <4>1, <5>2, <5>3, MaxAssumption
        <4>3. CASE ~(f >= m)
          BY <2>3, <4>1, <4>3
        <4> QED BY <4>2, <4>3
      <3> QED BY <3>1, <3>2
    <2>5. Cardinality(Before(m)) <= kMaxFileDescriptors
      <3>1. CASE Before(m) = {}
        <4>1. Cardinality(Before(m)) = 0
          BY <3>1, FS_EmptySet
        <4> QED BY <4>1, MaxAssumption
      <3>2. CASE Before(m) # {}
        <4>1. Before(m) \in SUBSET (0 .. m)
          BY <2>3
        <4>2. PICK g \in Before(m) : \A f \in Before(m) : f <= g
          BY <2>3, <3>2, <4>1, GreatestExists, Zenon
        <4>3. g \in O /\ g \in Nat /\ g < m /\ g \in R
          BY <1>1, <2>3, <2>4, <4>2
        <4>4. Before(m) = Before(g) \cup {g} /\ g \notin Before(g)
          BY <2>3, <4>2, <4>3
        <4>5. Cardinality(Before(g) \cup {g}) = Cardinality(Before(g)) + 1
          BY <1>2, <4>3, <4>4, FS_AddElement, Zenon
        <4>6. Cardinality(Before(g)) < kMaxFileDescriptors /\ Cardinality(Before(g)) \in Nat
          BY <1>2, <4>3
        <4> QED BY <4>4, <4>5, <4>6, MaxAssumption
      <3> QED BY <3>1, <3>2
    <2>6. PICK n : n = Cardinality(Before(m))
      OBVIOUS
    <2>7. n = kMaxFileDescriptors
      BY <2>3, <2>5, <2>6, MaxAssumption
    <2>8. Cardinality(R) = n
      BY <2>4, <2>6, Zenon
    <2> QED BY <2>7, <2>8
  <1>4. Late = {} => R = O
    OBVIOUS
  <1> QED BY <1>3, <1>4

LEMMA ReceivedStep ==
  ASSUME FilesInv, ReceivedInv, [Next]_vars
  PROVE  ReceivedInv'
  <1>1. CASE FulfillSpawnRequest
    <2>1. PICK O \in SUBSET Fd : O = OpenIn(fd_map)
      BY DEF OpenIn
    <2>2. process' = [f \in Fd |-> IF Cardinality(O \cap 0 .. f - 1) < kMaxFileDescriptors
                                     THEN fd_map[f] ELSE NoFile] /\ fd_map' = fd_map
      BY <1>1, <2>1 DEF FulfillSpawnRequest, Received
    <2>3. PICK R : R = {f \in O : Cardinality(O \cap 0 .. f - 1) < kMaxFileDescriptors}
      OBVIOUS
    <2>4. OpenIn(process)' = R
      BY <2>1, <2>2, <2>3 DEF OpenIn
    <2>5. R = O \/ Cardinality(R) = kMaxFileDescriptors
      BY <2>1, <2>3, RoomIsUsed
    <2>6. \A f \in Fd : process'[f] # NoFile => process'[f] = fd_map'[f]
      BY <2>2
    <2>7. OpenIn(fd_map)' = O
      BY <2>1, <2>2 DEF OpenIn
    <2> QED BY <2>4, <2>5, <2>6, <2>7 DEF ReceivedInv
  <1>2. CASE process' = NoFds
    BY <1>2 DEF ReceivedInv, NoFds
  <1>3. CASE UNCHANGED <<process, fd_map>>
    BY <1>3 DEF ReceivedInv, OpenIn, NoFds
  <1>4. CASE main = "stub" /\ UNCHANGED process
    BY <1>2, <1>4 DEF FilesInv, Unlisted
  <1>5. CASE SandboxStep
    BY <1>3, <1>4, <1>5 DEF SandboxStep, MakeStdinNull, ForkCat, FindAllFds, OpenSpawnRequest, OpenSocketPairFails,
         SendSpawnRequest, ReadExitReply, MainEnds, SupervisorHangsUp, stubVars
  <1>6. CASE SandboxBranch \/ \E k \in Cat : CatStepsAlone(k)
    BY <1>3, <1>6 DEF SandboxBranch, Becomes, CatStepsAlone, CatSteps, ExecCat, ExecCatFails, CatEnds, stubVars
  <1>7. CASE UNCHANGED sandboxVars
    BY <1>3, <1>7 DEF sandboxVars, stubVars
  <1>8. ASSUME NEW p \in Path, LookAt(p) \/ ExecSandbox(p)
        PROVE  ReceivedInv'
    BY <1>7, <1>8 DEF LookAt, ExecSandbox
  <1>13. CASE MainOverride \/ Fork \/ SpawnLatest \/ \E f \in Fd \ {Stdin, Stdout, Stderr} : Close(f)
    BY <1>3, <1>7, <1>13 DEF MainOverride, Fork, SpawnLatest, Close, stubVars
  <1>9. CASE \/ \E supported \in BOOLEAN : HelperHost(supported)
             \/ StraceExec \/ HelperRefuses \/ WrapperScript
             \/ \E type \in {"none", "relauncher", "other"} : ExecSelf(type)
    BY <1>7, <1>9 DEF HelperHost, StraceExec, HelperRefuses, WrapperScript, ExecSelf
  <1>10. CASE ExecFlatpakSpawn \/ FlatpakSpawnRuns \/ FlatpakSpawnEnds \/ StraceExecHelper \/ HelperChild
    BY <1>7, <1>10 DEF ExecFlatpakSpawn, FlatpakSpawnRuns, FlatpakSpawnEnds, StraceExecHelper, HelperChild
  <1>11. CASE ChildEnds \/ StartSteps
    BY <1>2, <1>7, <1>11 DEF ChildEnds, StartSteps, StartStepsAlone, ProcessEnds
  <1>12. CASE UNCHANGED vars
    BY <1>7, <1>12 DEF vars
  <1> QED BY <1>1, <1>5, <1>6, <1>8, <1>9, <1>10, <1>11, <1>12, <1>13 DEF Next, SandboxSteps, RequestFulfilled

(* The process has the descriptors that it should have and no others.        *)
THEOREM DescriptorsSandboxed == Spec => []SandboxedDescriptors
  <1>1. Init => ReceivedInv
    BY DEF Init, SandboxInit, ReceivedInv
  <1>2. FilesInv /\ ReceivedInv /\ [Next]_vars => ReceivedInv'
    BY ReceivedStep
  <1>3. FilesInv /\ ReceivedInv => SandboxedDescriptors
    <2> SUFFICES ASSUME FilesInv, ReceivedInv, process # NoFds, NEW f \in OpenIn(process)
                 PROVE  Forwarded(f)
      BY DEF SandboxedDescriptors, ReceivedInv
    <2>1. f \in Fd /\ process[f] # NoFile /\ process[f] = fd_map[f]
      BY DEF OpenIn, ReceivedInv
    <2> QED BY <2>1 DEF FilesInv, Clean, Forwarded
  <1> QED BY <1>1, <1>2, <1>3, FilesAlways, PTL DEF Spec

-----------------------------------------------------------------------------
(* Nobody waits for a read that nobody is going to end.                      *)

(* The chroot helper has its end of the pair as long as it lives, and nobody *)
(* else has; a program that reads has asked it.                              *)
PairInv ==
  /\ helper_end = IF helper \in {"forked", "reading"} THEN {"helper"} ELSE {}
  /\ program = "reading" /\ helper \in {"forked", "reading"} => to_helper = "C"
  /\ HelperServed

LEMMA PairStep ==
  ASSUME PairInv, [Next]_vars
  PROVE  PairInv'
  <1>1. CASE HelperSteps \/ HelperFails
    BY <1>1 DEF PairInv, HelperServed, Unarmed, helperVars, HelperSteps, HelperFails, PrctlDeathSignal, AnswerChroot, HelperKilled,
                HelperExits, SetsDeathSignal, pairVars
  <1>2. CASE \/ SpawnHelper(Files(process)) \/ ExecProgram \/ GetenvSandboxApi \/ GetpidClient
             \/ \E t \in Other : GetpidOther(t)
    BY <1>2 DEF PairInv, HelperServed, Unarmed, helperVars, SpawnHelper, HelperEndHolders, ExecProgram, GetenvSandboxApi, GetpidClient,
                GetpidOther, pairVars
  <1>3. CASE SendChroot \/ SendChrootFails \/ ProgramReads \/ ProgramEnds
    BY <1>3 DEF PairInv, HelperServed, Unarmed, helperVars, SendChroot, SendChrootFails, ProgramReads, ReadChrootReply, ReadChrootEnd,
                ProgramEnds, SelfExeOpens, pairVars
  <1>4. CASE StartSteps
    BY <1>1, <1>2, <1>3, <1>4 DEF StartSteps, StartStepsAlone, StartStep
  <1>5. CASE HelperChild
    BY <1>5 DEF PairInv, HelperServed, Unarmed, helperVars, HelperChild, pairVars
  <1>6. CASE UNCHANGED startVars
    BY <1>6 DEF PairInv, HelperServed, Unarmed, helperVars, startVars, pairVars
  <1> QED BY <1>4, <1>5, <1>6, StartOrSame

(* Until a pipe has been made nobody has its writer.                         *)
CatsInv ==
  /\ cat_fds = [k \in Cat |-> cat_fds[k]]
  /\ main \in {"sanitize_stdin", "cat_stdout"} => \A f \in Fd : fds[f] \notin {Writer(Stdout), Writer(Stderr)}
  /\ main = "cat_stderr" => \A f \in Fd : fds[f] # Writer(Stderr)
  /\ CatsApart

LEMMA CatsSame ==
  ASSUME CatsInv, cat_fds' = cat_fds,
         main' = main \/ main' \notin {"sanitize_stdin", "cat_stdout", "cat_stderr"},
         \A f \in Fd : fds'[f] \in {fds[f], NoFile, "supervisor"}
  PROVE  CatsInv'
  BY DEF CatsInv, CatsApart, Writer, NoFile

LEMMA CatsStdin ==
  ASSUME FilesInv, CatsInv, MakeStdinNull
  PROVE  CatsInv'
  <1>1. PICK low : low = Lowest(Free(fds))
    OBVIOUS
  <1>2. /\ main = "sanitize_stdin" /\ main' = "cat_stdout" /\ cat_fds' = cat_fds
        /\ fds' = [fds EXCEPT ![Stdin] = Null, ![low] = NoFile]
    BY <1>1 DEF MakeStdinNull, NullStdin
  <1>3. \A f \in Fd : fds'[f] \in {fds[f], Null, NoFile}
    <2>1. fds = [f \in Fd |-> fds[f]]
      BY DEF FilesInv
    <2>2. fds' = [f \in Fd |-> IF f = low THEN NoFile ELSE IF f = Stdin THEN Null ELSE fds[f]]
      BY <1>2, <2>1
    <2>3. ASSUME NEW f \in Fd
          PROVE  fds'[f] = IF f = low THEN NoFile ELSE IF f = Stdin THEN Null ELSE fds[f]
      BY <2>2
    <2> QED BY <2>3
  <1>4. \A k \in Cat : Writer(k) \notin {Null, NoFile}
    BY DEF Writer, Null, NoFile
  <1>5. \A f \in Fd : fds'[f] \notin {Writer(Stdout), Writer(Stderr)}
    BY <1>2, <1>3, <1>4 DEF CatsInv, Cat
  <1>6. (\A f \in Fd : fds[f] \notin {Writer(Stdout), Writer(Stderr)})' /\ main' # "cat_stderr"
    BY <1>2, <1>5
  <1> QED BY <1>2, <1>6 DEF CatsInv, CatsApart

(* What a cat is given is what main has, but for the new pipe.               *)
LEMMA CatGiven ==
  ASSUME FilesInv, NEW k \in Cat, NEW f \in Fd
  PROVE  \/ CatFds(k)[f] \in {Reader(k), NoFile}
         \/ \E g \in Fd : CatFds(k)[f] = fds[g]
  <1>1. PICK rd, wr : rd = PipeReader(fds) /\ wr = PipeWriter(fds)
    OBVIOUS
  <1>2. PICK copied : copied = [fds EXCEPT ![rd] = Reader(k), ![wr] = NoFile, ![Stdin] = Reader(k)]
    OBVIOUS
  <1>3. \A g \in Fd : copied[g] \in {fds[g], Reader(k), NoFile}
    BY <1>2 DEF FilesInv
  <1>4. CatFds(k) = IF k = Stdout THEN copied ELSE [copied EXCEPT ![k] = copied[Stdout]]
    BY <1>1, <1>2 DEF CatFds, WriterInChild
  <1>5. CatFds(k)[f] \in {copied[f], copied[Stdout]}
    BY <1>2, <1>4 DEF FilesInv
  <1> QED BY <1>3, <1>5, StdioNumbers

LEMMA CatsForked ==
  ASSUME FilesInv, CatsInv, NEW k \in Cat, ForkCat(k)
  PROVE  CatsInv'
  <1>1. /\ main = (IF k = Stdout THEN "cat_stdout" ELSE "cat_stderr")
        /\ cat_fds' = [cat_fds EXCEPT ![k] = CatFds(k)]
        /\ \/ main' = (IF k = Stdout THEN "cat_stderr" ELSE "sanitized") /\ fds' = [fds EXCEPT ![k] = Writer(k)]
           \/ main' = "ended"
    BY DEF ForkCat, Serves
  <1>2. k \in {Stdout, Stderr} /\ Stdout # Stderr /\ k \in Fd
    BY StdioNumbers DEF Cat, Stdout, Stderr
  <1>3. /\ cat_fds' = [x \in Cat |-> cat_fds'[x]]
        /\ \A x \in Cat : cat_fds'[x] = IF x = k THEN CatFds(k) ELSE cat_fds[x]
    BY <1>1 DEF CatsInv
  <1>4. \A f \in Fd : CatFds(k)[f] # Writer(k) /\ (k = Stdout => CatFds(k)[f] # Writer(Stderr))
    BY <1>1, <1>2, CatGiven DEF CatsInv, Writer, Reader, NoFile
  <1>5. CatsApart'
    BY <1>2, <1>3, <1>4 DEF CatsInv, CatsApart, Cat, Writer
  <1>6. main' = "cat_stderr" => \A f \in Fd : fds'[f] # Writer(Stderr)
    BY <1>1, <1>2 DEF CatsInv, FilesInv, Writer
  <1> QED BY <1>1, <1>3, <1>5, <1>6 DEF CatsInv, Writer

LEMMA CatsGoOn ==
  ASSUME CatsInv, NEW k \in Cat, NEW elsewhere, CatSteps(k, elsewhere)
  PROVE  CatsInv'
  <1>1. /\ UNCHANGED <<main, fds>>
        /\ cat_fds' = cat_fds \/ cat_fds' = [cat_fds EXCEPT ![k] = NoFds]
    BY DEF CatSteps, ExecCat, ExecCatFails, CatEnds, WriterInChild
  <1>2. cat_fds' = [x \in Cat |-> cat_fds'[x]] /\ \A x \in Cat : cat_fds'[x] \in {cat_fds[x], NoFds}
    BY <1>1 DEF CatsInv
  <1>3. CatsApart'
    BY <1>2 DEF CatsInv, CatsApart, NoFds, NoFile, Writer, Cat
  <1> QED BY <1>1, <1>2, <1>3 DEF CatsInv, Writer

LEMMA CatsStep ==
  ASSUME FilesInv, CatsInv, [Next]_vars
  PROVE  CatsInv'
  <1>1. CASE SandboxStep
    <2>1. CASE FindAllFds \/ OpenSpawnRequest \/ OpenSocketPairFails \/ SendSpawnRequest \/ SupervisorHangsUp
      BY <2>1, CatsSame DEF FindAllFds, OpenSpawnRequest, OpenSocketPairFails, SendSpawnRequest, SupervisorHangsUp
    <2>2. CASE ReadExitReply \/ MainEnds
      BY <2>2, CatsSame DEF ReadExitReply, MainEnds, NoFds
    <2> QED BY <1>1, <2>1, <2>2, CatsStdin, CatsForked DEF SandboxStep
  <1>2. CASE UNCHANGED <<main, fds, cat_fds>>
    BY <1>2, CatsSame
  <1>3. CASE \/ RequestFulfilled \/ ChildEnds \/ StartSteps \/ HelperChild \/ StraceExecHelper
             \/ FlatpakSpawnRuns \/ FlatpakSpawnEnds \/ ExecFlatpakSpawn
    BY <1>2, <1>3 DEF RequestFulfilled, FulfillSpawnRequest, ChildEnds, StartSteps, StartStepsAlone, ProcessEnds,
                      HelperChild, StraceExecHelper, FlatpakSpawnRuns, FlatpakSpawnEnds, ExecFlatpakSpawn,
                      sandboxVars
  <1>4. CASE SandboxBranch
    BY <1>4, CatsSame DEF SandboxBranch, Becomes
  <1>5. ASSUME NEW p \in Path, LookAt(p) \/ ExecSandbox(p)
        PROVE  CatsInv'
    BY <1>2, <1>5 DEF LookAt, ExecSandbox, sandboxVars
  <1>6. CASE \/ \E supported \in BOOLEAN : HelperHost(supported)
             \/ StraceExec \/ HelperRefuses \/ WrapperScript \/ Fork
             \/ \E type \in {"none", "relauncher", "other"} : ExecSelf(type)
    BY <1>2, <1>6 DEF HelperHost, StraceExec, HelperRefuses, WrapperScript, Fork, ExecSelf, sandboxVars
  <1>7. CASE MainOverride
    <2>1. \A f \in Fd : fds'[f] \in {fds[f], "supervisor"}
      BY <1>7 DEF MainOverride, WithSupervisor, FilesInv
    <2> QED BY <1>7, <2>1, CatsSame DEF MainOverride
  <1>8. ASSUME NEW f \in Fd, Close(f)
        PROVE  CatsInv'
    <2>1. \A g \in Fd : fds'[g] \in {fds[g], NoFile}
      BY <1>8 DEF Close, Closed, FilesInv
    <2> QED BY <1>8, <2>1, CatsSame DEF Close
  <1>9. CASE SpawnLatest
    <2>1. \A f \in Fd : fds'[f] \in {fds[f], NoFile}
      BY <1>9 DEF SpawnLatest, StdioOnly
    <2> QED BY <1>9, <2>1, CatsSame DEF SpawnLatest
  <1>10. ASSUME NEW k \in Cat, CatStepsAlone(k)
         PROVE  CatsInv'
    BY <1>10, CatsGoOn DEF CatStepsAlone
  <1>11. CASE UNCHANGED vars
    BY <1>2, <1>11 DEF vars, sandboxVars
  <1> QED BY <1>1, <1>3, <1>4, <1>5, <1>6, <1>7, <1>8, <1>9, <1>10, <1>11 DEF Next, SandboxSteps

(* The reads of the cats, of the chroot helper and of the program that it    *)
(* serves can all end, for any descriptors that the application had, but for *)
(* a helper whose prctl failed or came too late.                             *)
THEOREM NobodyEverStranded == Spec => []NobodyStranded
  <1>1. Init => PairInv /\ CatsInv
    <2> SUFFICES ASSUME Init
                 PROVE  PairInv /\ CatsInv
      OBVIOUS
    <2>1. PairInv
      BY DEF Init, ChildStartInit, PairInv, HelperServed
    <2>2. \A f \in Fd : fds[f] \in {"stdin", "stdout", "stderr", "other", NoFile}
      BY DEF Init, SandboxInit, Passed, NoFile
    <2>3. cat_fds = [k \in Cat |-> NoFds] /\ main = "sanitize_stdin"
      BY DEF Init, SandboxInit
    <2>4. CatsApart
      BY <2>3 DEF CatsApart, Cat, NoFds, NoFile, Writer
    <2> QED BY <2>1, <2>2, <2>3, <2>4 DEF CatsInv, Writer, NoFile
  <1>2. PairInv /\ [Next]_vars => PairInv'
    BY PairStep
  <1>3. FilesInv /\ CatsInv /\ [Next]_vars => CatsInv'
    BY CatsStep
  <1>4. PairInv /\ CatsInv => NobodyStranded
    BY DEF PairInv, CatsInv, NobodyStranded, ClientServed
  <1> QED BY <1>1, <1>2, <1>3, <1>4, FilesAlways, PTL DEF Spec
=============================================================================
