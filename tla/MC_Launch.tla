------------------------------ MODULE MC_Launch ------------------------------
(* Values for model checking Launch.  The application has the standard       *)
(* descriptors and up to two others, one of them under the supervisor's      *)
(* number, and there is room for the pipes.                                  *)
EXTENDS Launch
=============================================================================
