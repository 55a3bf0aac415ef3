-------------------------- MODULE MC_MimicZygote ---------------------------
(***************************************************************************)
(* Small instances of MimicZygote for TLC.                                 *)
(***************************************************************************)
EXTENDS MimicZygote, TLC

(* Processes are interchangeable, and so are pids.                         *)
Symmetry == Permutations(Child) \cup Permutations(Pid)
=============================================================================
