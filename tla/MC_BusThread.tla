--------------------------- MODULE MC_BusThread ----------------------------
(***************************************************************************)
(* Small instances of BusThread for TLC.                                   *)
(***************************************************************************)
EXTENDS BusThread, TLC

(* The threads other than the one that runs main are interchangeable.      *)
Symmetry == Permutations(Thread \ {Main})
=============================================================================
