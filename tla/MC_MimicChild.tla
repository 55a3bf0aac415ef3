--------------------------- MODULE MC_MimicChild ---------------------------
(***************************************************************************)
(* Small instances of FdMap and MimicChild for TLC.                        *)
(***************************************************************************)
EXTENDS MimicChild, Functions

(* The keys of the sandbox service's number, of those at which the host's    *)
(* files may arrive, and of one that is no descriptor.                       *)
MCKeys == {1, 2, 3, 4, 6}

MCInit     == Init /\ Range(request) \subseteq MCKeys
MCFairSpec == MCInit /\ [][Next]_vars /\ Fairness
=============================================================================
