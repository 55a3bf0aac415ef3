---------------------------- MODULE ProcessTable ----------------------------
(***************************************************************************)
(* What the supervisor of the spawn strategy promises, without stubs,      *)
(* descriptors, messages or threads.                                       *)
(*                                                                         *)
(* Processes are asked for, and each request that has been taken is on the *)
(* supervisor's books: pending, until the external pid of its process is   *)
(* known or the call has failed; known, with the pid of its own process;   *)
(* started, once the process has been seen inside its sandbox; or removed, *)
(* after a failure and only then.  Nothing else ever happens to an entry.  *)
(*                                                                         *)
(* Supervisor states that it implements this module.                       *)
(***************************************************************************)
CONSTANTS
  Entry,    \* requests for a process
  Pid,      \* the pids a process may have
  None      \* no pid

VARIABLES
  process,  \* the pid of the process that runs for each request
  failed,   \* requests that the caller has been told, or will be, came to nothing
  started,  \* requests whose process has started
  known     \* where each request is on the books

vars == <<process, failed, started, known>>

Init ==
  /\ process = [r \in Entry |-> None]
  /\ failed = {}
  /\ started = {}
  /\ known = [r \in Entry |-> "absent"]

(* The process table takes a request.                                        *)
Add(r) ==
  /\ known[r] = "absent"
  /\ known' = [known EXCEPT ![r] = "pending"]
  /\ UNCHANGED <<process, failed, started>>

(* A process is made for it, with a pid that none on the books has; perhaps  *)
(* only after the request was given up.                                      *)
Spawn(r, p) ==
  /\ known[r] \in {"pending", "removed"}
  /\ process[r] = None
  /\ \A q \in Entry : process[q] = p => known[q] = "removed"
  /\ process' = [process EXCEPT ![r] = p]
  /\ UNCHANGED <<failed, started, known>>

Begin(r) ==
  /\ process[r] # None
  /\ started' = started \cup {r}
  /\ UNCHANGED <<process, failed, known>>

Fail(r) ==
  /\ known[r] = "pending"
  /\ failed' = failed \cup {r}
  /\ UNCHANGED <<process, started, known>>

(* The pid of the process becomes known, unless the request has failed.      *)
Learn(r) ==
  /\ known[r] = "pending"
  /\ process[r] # None
  /\ r \notin failed
  /\ known' = [known EXCEPT ![r] = "known"]
  /\ UNCHANGED <<process, failed, started>>

(* ... and that it has started.                                              *)
Start(r) ==
  /\ known[r] = "known"
  /\ r \in started
  /\ known' = [known EXCEPT ![r] = "started"]
  /\ UNCHANGED <<process, failed, started>>

(* A request that has failed is dropped.                                     *)
Remove(r) ==
  /\ known[r] = "pending"
  /\ r \in failed
  /\ known' = [known EXCEPT ![r] = "removed"]
  /\ UNCHANGED <<process, failed, started>>

Next ==
  \E r \in Entry :
    \/ Add(r)
    \/ \E p \in Pid : Spawn(r, p)
    \/ Begin(r) \/ Fail(r) \/ Learn(r) \/ Start(r) \/ Remove(r)

Spec == Init /\ [][Next]_vars

(* No request stays pending once its process or its failure is there, and no *)
(* start goes unnoticed.                                                     *)
Fairness ==
  \A r \in Entry : WF_vars(Learn(r) \/ Remove(r)) /\ WF_vars(Start(r))

FairSpec == Spec /\ Fairness
=============================================================================
