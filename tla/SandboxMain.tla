---------------------------- MODULE SandboxMain ----------------------------
(***************************************************************************)
(* One run of zypak-sandbox (sandbox/main.cc): it replaces its standard    *)
(* descriptors, by /dev/null and by pipes to two forked cats, and becomes  *)
(* the mimic zygote or a stub.  The stub (sandbox/spawn_strategy/run.cc)   *)
(* has the supervisor start a process with the descriptors that are open.  *)
(*                                                                         *)
(* A step is what one process does to its own descriptors between two      *)
(* calls that concern another.  A call that makes a descriptor or a        *)
(* process may fail.  External are cat, the supervisor's end of the pair   *)
(* (see Supervisor) and the process that the portal starts.                *)
(***************************************************************************)
EXTENDS Integers, FiniteSets

CONSTANTS
  Limit,                \* descriptors are the numbers below it
  kZypakSupervisorFd,
  kMaxFileDescriptors   \* the most that Socket::Read takes with a message

Fd == 0 .. Limit - 1
Stdin  == 0
Stdout == 1
Stderr == 2
Cat    == {Stdout, Stderr}   \* a cat is known by the descriptor it serves

ASSUME LimitAssumption == Limit \in Nat
ASSUME SupervisorFdAssumption == kZypakSupervisorFd \in Fd \ {Stdin, Stdout, Stderr}
ASSUME MaxAssumption == kMaxFileDescriptors \in Nat

VARIABLES
  main,       \* where main is
  fds,        \* the files behind its descriptors
  cat,        \* where each forked cat is
  cat_fds,    \* the files behind its descriptors
  fd_map,     \* the copies of the stub, each under the number it is for
  request_pipe,    \* the file it takes for its end of the pair
  request,         \* the file it has sent its request to
  supervisor_end,  \* whether the supervisor has the other end of the pair
  process     \* the files behind the descriptors of the sandboxed process

stubVars == <<fd_map, request_pipe, request, supervisor_end>>
sandboxVars == <<main, fds, cat, cat_fds, stubVars, process>>

NoFile   == "none"
Null     == "/dev/null"
Reader(k) == IF k = Stdout THEN "stdout_reader" ELSE "stderr_reader"
Writer(k) == IF k = Stdout THEN "stdout_writer" ELSE "stderr_writer"

NoFds == [f \in Fd |-> NoFile]
OpenIn(table) == {f \in Fd : table[f] # NoFile}

(* The kernel takes the lowest number that is free.                          *)
Free(table) == Fd \ OpenIn(table)
Lowest(S) == CHOOSE f \in S : \A g \in S : f <= g

(* What the application may have before main: stdin may be closed, and there *)
(* may be others, the supervisor's number included.                          *)
Passed ==
  {[f \in Fd |-> CASE f = Stdin -> stdin
                   [] f = Stdout -> "stdout"
                   [] f = Stderr -> "stderr"
                   [] OTHER -> IF f \in others THEN "other" ELSE NoFile] :
     stdin \in {"stdin", NoFile}, others \in SUBSET (Stderr + 1 .. kZypakSupervisorFd + 1)}

SandboxInit ==
  /\ main = "sanitize_stdin"
  /\ fds \in Passed
  /\ cat = [k \in Cat |-> "none"]
  /\ cat_fds = [k \in Cat |-> NoFds]
  /\ fd_map = NoFds
  /\ request_pipe = NoFile
  /\ request = NoFile
  /\ supervisor_end = FALSE
  /\ process = NoFds

-----------------------------------------------------------------------------
(* SanitizeStdio.                                                            *)

(* open, dup2 to 0, and close of what open returned, be it 0 itself.         *)
NullStdin_Mutant(table) == table
NullStdin(table) == [table EXCEPT ![Stdin] = Null, ![Lowest(Free(table))] = NoFile]

MakeStdinNull ==
  /\ main = "sanitize_stdin"
  /\ Free(fds) # {}
  /\ fds' = NullStdin(fds)
  /\ main' = "cat_stdout"
  /\ UNCHANGED <<cat, cat_fds, stubVars, process>>

Serves(k) == main = IF k = Stdout THEN "cat_stdout" ELSE "cat_stderr"

PipeReader(table) == Lowest(Free(table))
PipeWriter(table) == Lowest(Free(table) \ {PipeReader(table)})

(* The child closes its writer first, so that it sees the end of file.       *)
WriterInChild_Mutant(k) == Writer(k)
WriterInChild(k) == NoFile

(* What the forked child makes of its descriptors before it executes cat.    *)
CatFds(k) ==
  LET rd == PipeReader(fds)
      wr == PipeWriter(fds)
      copied == [fds EXCEPT ![rd] = Reader(k), ![wr] = WriterInChild(k), ![Stdin] = Reader(k)]
  IN IF k = Stdout THEN copied ELSE [copied EXCEPT ![k] = copied[Stdout]]

(* The parent closes the reader, and the writer once it is descriptor k too. *)
ForkCat(k) ==
  /\ Serves(k)
  /\ Cardinality(Free(fds)) > 1
  /\ cat' = [cat EXCEPT ![k] = "forked"]
  /\ cat_fds' = [cat_fds EXCEPT ![k] = CatFds(k)]
  /\ \/ /\ main' = IF k = Stdout THEN "cat_stderr" ELSE "sanitized"
        /\ fds' = [fds EXCEPT ![k] = Writer(k)]
     \/ /\ main' = "ended"
        /\ fds' = NoFds
  /\ UNCHANGED <<stubVars, process>>

ExecCat(k) ==
  /\ cat[k] = "forked"
  /\ cat' = [cat EXCEPT ![k] = "running"]
  /\ UNCHANGED <<main, fds, cat_fds, stubVars, process>>

(* When exec fails the child runs on, as the parent does after the fork: dup2 *)
(* of the writer to k fails, for the writer is closed, and it exits.         *)
ExecCatFails(k) ==
  /\ cat[k] = "forked"
  /\ IF WriterInChild(k) = NoFile
       THEN /\ cat' = [cat EXCEPT ![k] = "ended"]
            /\ cat_fds' = [cat_fds EXCEPT ![k] = NoFds]
       ELSE /\ cat' = [cat EXCEPT ![k] = "sandbox"]
            /\ cat_fds' = [cat_fds EXCEPT ![k][k] = Writer(k)]
  /\ UNCHANGED <<main, fds, stubVars, process>>

Files(table) == {table[f] : f \in Fd}

Held(file) ==
  file \in Files(fds) \cup Files(process) \cup Files(cat_fds[Stdout]) \cup Files(cat_fds[Stderr])

(* A cat reads to the end of the file, which comes when nobody has the other *)
(* end: elsewhere is what processes have that are not of this module.        *)
CatEnds(k, elsewhere) ==
  /\ cat[k] = "running"
  /\ ~Held(Writer(k)) /\ Writer(k) \notin elsewhere
  /\ cat' = [cat EXCEPT ![k] = "ended"]
  /\ cat_fds' = [cat_fds EXCEPT ![k] = NoFds]
  /\ UNCHANGED <<main, fds, stubVars, process>>

-----------------------------------------------------------------------------
(* The strategies.                                                           *)

Becomes(branch) ==
  /\ main = "sanitized"
  /\ main' = branch
  /\ UNCHANGED <<fds, cat, cat_fds, stubVars, process>>

(* A dup of each descriptor in /proc/self/fd, but of the directory's own and *)
(* the supervisor's, made when the directory has been read.                  *)
NotForwarded_Mutant == {}
NotForwarded == {kZypakSupervisorFd}

FindAllFds ==
  /\ main = "stub"
  /\ fd_map' = [f \in Fd |-> IF f \in NotForwarded THEN NoFile ELSE fds[f]]
  /\ main' = "listed"
  /\ UNCHANGED <<fds, cat, cat_fds, request_pipe, request, supervisor_end, process>>

OpenSpawnRequest ==
  /\ main = "listed"
  /\ fds[kZypakSupervisorFd] = "supervisor"
  /\ request_pipe' = "pair"
  /\ supervisor_end' = TRUE
  /\ main' = "opened"
  /\ UNCHANGED <<fds, cat, cat_fds, fd_map, request, process>>

(* Without a pair the function returns false, which becomes descriptor 0.    *)
OpenSocketPairFails ==
  /\ main = "listed"
  /\ request_pipe' = fds[0]
  /\ main' = "opened"
  /\ UNCHANGED <<fds, cat, cat_fds, fd_map, request, supervisor_end, process>>

(* Only a socket takes a message.  The application's stdin may be one.       *)
Socket == {"pair", "stdin"}

SendSpawnRequest ==
  /\ main = "opened"
  /\ request_pipe \in Socket
  /\ request' = request_pipe
  /\ main' = "waiting"
  /\ UNCHANGED <<fds, cat, cat_fds, fd_map, request_pipe, supervisor_end, process>>

ReadExitReply ==
  /\ main = "waiting"
  /\ ~supervisor_end
  /\ main' = "ended"
  /\ fds' = NoFds
  /\ UNCHANGED <<cat, cat_fds, stubVars, process>>

(* Any call fails, an assertion does, or the strategy returns: main returns. *)
(* A stub is killed when the application ends.                               *)
MainEnds ==
  /\ main # "ended"
  /\ main' = "ended"
  /\ fds' = NoFds
  /\ UNCHANGED <<cat, cat_fds, stubVars, process>>

-----------------------------------------------------------------------------
(* The supervisor and the process.                                           *)

(* More than Socket::Read takes makes it fail, but FulfillSpawnRequest goes  *)
(* on with the arguments and as many descriptors as there was room for.      *)
Received(f) == Cardinality(OpenIn(fd_map) \cap 0 .. f - 1) < kMaxFileDescriptors

FulfillSpawnRequest ==
  /\ request = "pair"
  /\ supervisor_end
  /\ process' = [f \in Fd |-> IF Received(f) THEN fd_map[f] ELSE NoFile]
  /\ supervisor_end' = FALSE
  /\ UNCHANGED <<main, fds, cat, cat_fds, fd_map, request_pipe, request>>

(* The request is refused, or the supervisor has ended.                      *)
SupervisorHangsUp ==
  /\ supervisor_end
  /\ supervisor_end' = FALSE
  /\ UNCHANGED <<main, fds, cat, cat_fds, fd_map, request_pipe, request, process>>

ProcessEnds ==
  /\ process # NoFds
  /\ process' = NoFds
  /\ UNCHANGED <<main, fds, cat, cat_fds, fd_map, request_pipe, request, supervisor_end>>

CatSteps(k, elsewhere) == ExecCat(k) \/ ExecCatFails(k) \/ CatEnds(k, elsewhere)

(* The steps that concern zypak-sandbox alone.                               *)
SandboxStep ==
  \/ MakeStdinNull
  \/ \E k \in Cat : ForkCat(k)
  \/ FindAllFds
  \/ OpenSpawnRequest
  \/ OpenSocketPairFails
  \/ SendSpawnRequest
  \/ ReadExitReply
  \/ MainEnds
  \/ SupervisorHangsUp

-----------------------------------------------------------------------------
(* The process in the sandbox has the sanitised standard descriptors and     *)
(* those the application passed, each under its number, and none of the      *)
(* application's terminal, of the pipes' other ends or of the supervisor.    *)
(* With at most kMaxFileDescriptors it has all of them (FindAllFds,          *)
(* SendSpawnRequest, FulfillSpawnRequest).                                   *)
Forwarded(f) ==
  \/ f = Stdin /\ process[f] = Null
  \/ f \in Cat /\ process[f] = Writer(f)
  \/ f > Stderr /\ process[f] = "other"
SandboxedDescriptors ==
  process # NoFds =>
    /\ \A f \in OpenIn(process) : Forwarded(f)
    /\ \/ Cardinality(OpenIn(process)) = kMaxFileDescriptors
       \/ OpenIn(process) = OpenIn(fd_map)

(* The request only ever goes to the supervisor, not to what the application *)
(* had for stdin, although a failed socketpair makes it go to descriptor 0   *)
(* (OpenSpawnRequest).                                                       *)
RequestStaysPrivate == request \in {NoFile, "pair"}

(* No cat waits for the end of what it could write itself, nor two for each  *)
(* other: that of stderr has the writer of the other's pipe, not the other   *)
(* way round.                                                                *)
CatsApart ==
  \A f \in Fd : /\ cat_fds[Stdout][f] \notin {Writer(Stdout), Writer(Stderr)}
              /\ cat_fds[Stderr][f] # Writer(Stderr)
=============================================================================
