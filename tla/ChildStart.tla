----------------------------- MODULE ChildStart -----------------------------
(***************************************************************************)
(* How a program of the spawn strategy is made to believe that it is in    *)
(* Chromium's own sandbox: the chroot helper that zypak-helper leaves      *)
(* behind (helper/chroot_helper.cc), the pid it sees once                  *)
(* (preload/child/bwrap_pid.cc), and the file it must not be able to open  *)
(* (preload/child/spawn_strategy/chroot_fake.cc).                          *)
(*                                                                         *)
(* A step is one call.  External is the program: its main thread tests its *)
(* environment and its pid, has the helper confine it, as it thinks, and   *)
(* checks that; its other threads call getpid when they like.              *)
(***************************************************************************)
EXTENDS Integers, FiniteSets

CONSTANTS
  Client,   \* the program's main thread
  Other     \* its other threads

ASSUME ClientAssumption == Client \notin Other

Caller == {Client} \cup Other

VARIABLES
  program,      \* zypak-helper and, after its exec, the program's main thread
  helper,       \* where the chroot helper is
  helper_files, \* the files behind the descriptors it was forked with
  death_signal, \* whether it has asked to be killed with the program, and is
  helper_end,   \* who has each end of the socket pair open
  parent_end,
  to_helper,    \* the bytes on the way
  to_parent,
  fake_next,    \* whether the next getpid is to return 1
  seen          \* what getpid returned to each thread

helperVars == <<helper, helper_files>>
pairVars == <<helper_end, parent_end, to_helper, to_parent>>
pidVars  == <<fake_next, seen>>
startVars == <<program, helperVars, death_signal, pairVars, pidVars>>

ChildStartInit ==
  /\ program = "none"
  /\ helper = "none"
  /\ helper_files = {}
  /\ death_signal = "none"
  /\ helper_end = {}
  /\ parent_end = {}
  /\ to_helper = "empty"
  /\ to_parent = "empty"
  /\ fake_next = FALSE
  /\ seen = [t \in Caller |-> "nothing"]

-----------------------------------------------------------------------------
(* zypak-helper.                                                             *)

(* After the fork each process has both ends, and the child what else its    *)
(* parent has open.  The parent's helper_end is closed when Spawn returns;   *)
(* the child closes nothing, its parent_end and its standard descriptors     *)
(* included.                                                                 *)
HelperEndHolders_Mutant == {"program", "helper"}
HelperEndHolders == {"helper"}

SpawnHelper(files) ==
  /\ program = "zypak-helper"
  /\ program' = "helper_spawned"
  /\ helper' = "forked"
  /\ helper_files' = files
  /\ helper_end' = HelperEndHolders
  /\ parent_end' = {"program", "helper"}
  /\ UNCHANGED <<death_signal, to_helper, to_parent, pidVars>>

(* execvp of the program, with the descriptor and the pid in its environment. *)
ExecProgram ==
  /\ program = "helper_spawned"
  /\ program' = "started"
  /\ UNCHANGED <<helperVars, death_signal, pairVars, pidVars>>

-----------------------------------------------------------------------------
(* StubSandboxChrootHelper.                                                  *)

(* The kernel sends the signal when the program ends: a prctl that comes     *)
(* later is too late.                                                        *)
SetsDeathSignal_Mutant == "none"
SetsDeathSignal == IF program = "ended" THEN "late" ELSE "set"

(* A prctl that fails is logged, and the helper goes on without.             *)
PrctlDeathSignal ==
  /\ helper = "forked"
  /\ death_signal' \in {SetsDeathSignal, "failed"}
  /\ helper' = "reading"
  /\ UNCHANGED <<program, helper_files, pairVars, pidVars>>

(* What the helper does at its end, whatever its exit code.                  *)
HelperExits ==
  /\ helper' = "ended"
  /\ helper_files' = {}
  /\ helper_end' = helper_end \ {"helper"}
  /\ parent_end' = parent_end \ {"helper"}

AnswerChroot ==
  /\ helper = "reading"
  /\ to_helper = "C"
  /\ to_helper' = "empty"
  /\ to_parent' = "O"
  /\ HelperExits
  /\ UNCHANGED <<program, death_signal, pidVars>>

(* The read or the write fails.  The read does not see an end of file: the   *)
(* helper itself has the parent's end.                                       *)
HelperFails ==
  /\ helper = "reading"
  /\ HelperExits
  /\ UNCHANGED <<program, death_signal, to_helper, to_parent, pidVars>>

HelperKilled ==
  /\ helper # "ended"
  /\ death_signal = "sent"
  /\ HelperExits
  /\ UNCHANGED <<program, death_signal, to_helper, to_parent, pidVars>>

-----------------------------------------------------------------------------
(* bwrap_pid.cc.                                                             *)

(* getenv of the variable that is looked at right before the pid.            *)
GetenvSandboxApi ==
  /\ program = "started"
  /\ program' = "tests_pid"
  /\ fake_next' = TRUE
  /\ UNCHANGED <<helperVars, death_signal, pairVars, seen>>

(* compare_exchange: whoever is first takes the fake, and with it the flag.  *)
Pid(fake) == IF fake THEN "one" ELSE "own"

GetpidClient ==
  /\ program = "tests_pid"
  /\ seen' = [seen EXCEPT ![Client] = Pid(fake_next)]
  /\ fake_next' = FALSE
  /\ program' = IF fake_next THEN "confine" ELSE "check_failed"
  /\ UNCHANGED <<helperVars, death_signal, pairVars>>

GetpidOther(t) ==
  /\ program \notin {"none", "zypak-helper", "helper_spawned", "ended"}
  /\ seen[t] = "nothing"
  /\ seen' = [seen EXCEPT ![t] = Pid(fake_next)]
  /\ fake_next' = FALSE
  /\ UNCHANGED <<program, helperVars, death_signal, pairVars>>

-----------------------------------------------------------------------------
(* The program and its chroot helper.                                        *)

SendChroot ==
  /\ program = "confine"
  /\ helper_end # {}
  /\ to_helper' = "C"
  /\ program' = "reading"
  /\ UNCHANGED <<helperVars, death_signal, helper_end, parent_end, to_parent, pidVars>>

SendChrootFails ==
  /\ program = "confine"
  /\ helper_end = {}
  /\ program' = "check_failed"
  /\ UNCHANGED <<helperVars, death_signal, pairVars, pidVars>>

(* chroot_fake.cc: the program finds no /proc/self/exe.                      *)
SelfExeOpens == FALSE

ReadChrootReply ==
  /\ program = "reading"
  /\ to_parent = "O"
  /\ to_parent' = "empty"
  /\ program' = IF SelfExeOpens THEN "check_failed" ELSE "confined"
  /\ UNCHANGED <<helperVars, death_signal, helper_end, parent_end, to_helper, pidVars>>

ReadChrootEnd ==
  /\ program = "reading"
  /\ to_parent = "empty"
  /\ helper_end = {}
  /\ program' = "check_failed"
  /\ UNCHANGED <<helperVars, death_signal, pairVars, pidVars>>

(* zypak-helper's exec fails, or the program ends.                           *)
ProgramEnds ==
  /\ program \notin {"none", "ended"}
  /\ program' = "ended"
  /\ helper_end' = helper_end \ {"program"}
  /\ parent_end' = parent_end \ {"program"}
  /\ death_signal' = IF death_signal = "set" THEN "sent" ELSE death_signal
  /\ UNCHANGED <<helperVars, to_helper, to_parent, pidVars>>

HelperSteps == PrctlDeathSignal \/ AnswerChroot \/ HelperKilled
ProgramReads == ReadChrootReply \/ ReadChrootEnd

StartStep ==
  \/ HelperSteps
  \/ HelperFails
  \/ GetenvSandboxApi
  \/ GetpidClient
  \/ \E t \in Other : GetpidOther(t)
  \/ SendChroot
  \/ SendChrootFails
  \/ ProgramReads

-----------------------------------------------------------------------------
(* A program that reads has its reply there, or the end of the file, or the  *)
(* helper has its question and is the only one to wait for.                  *)
ClientServed ==
  program = "reading" =>
    \/ to_parent = "O"
    \/ helper_end = {}
    \/ helper \in {"forked", "reading"} /\ to_helper = "C" /\ helper_end = {"helper"}

(* Nothing ends the read of a helper whose program is gone but the signal,   *)
(* for the helper has parent_end itself: it was not to come if the prctl     *)
(* failed or came too late.                                                  *)
Unarmed    == death_signal \in {"late", "failed"}
HelperLeft == helper = "reading" /\ program = "ended" /\ Unarmed

(* A helper that reads has its question there, or is to be killed with the   *)
(* program or already being killed, unless its prctl was of no use.          *)
HelperServed ==
  helper = "reading" =>
    \/ to_helper = "C"
    \/ death_signal = IF program = "ended" THEN "sent" ELSE "set"
    \/ Unarmed

(* The program is answered, or sees the end of file: with its own copy of    *)
(* helper_end open it would wait for ever for a helper that has failed.      *)
ClientAnswered == program = "reading" ~> program # "reading"

(* A helper that reads before the program ends is ended with it, unless its  *)
(* prctl failed.  It could not rely on the end of file, for it holds         *)
(* parent_end itself (StubSandboxChrootHelper).                              *)
HelperEnds ==
  []((helper = "reading" /\ program # "ended" /\ ~Unarmed /\ <>(program = "ended"))
       => <>(helper = "ended"))
=============================================================================
