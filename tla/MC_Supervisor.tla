--------------------------- MODULE MC_Supervisor ---------------------------
(***************************************************************************)
(* Small instances of Supervisor for TLC.                                  *)
(***************************************************************************)
EXTENDS Supervisor, TLC

(* Stubs are interchangeable, and so are the pids of either namespace.     *)
Symmetry ==
  Permutations(Stub) \cup Permutations(StubPid) \cup Permutations(ExternalPid)

(* One pid for each stub, and one for each process: a run for liveness may   *)
(* not use Symmetry and keeps to these.  That numbers are given away again   *)
(* is left to the runs for safety, and to SupervisorRefinement.              *)
StubPids     == CHOOSE f \in [Stub -> StubPid] : \A s, x \in Stub : f[s] = f[x] => s = x
ExternalPids == CHOOSE f \in [Stub -> ExternalPid] : \A s, x \in Stub : f[s] = f[x] => s = x
OwnPids ==
  \A s \in Stub : pid[s] \in {None, StubPids[s]} /\ ext[s] \in {None, ExternalPids[s]}
=============================================================================
