----------------------------- MODULE BusService -----------------------------
(***************************************************************************)
(* What the bus promises to those who call through it, without threads of  *)
(* its own, forks, event loops or connections.                             *)
(*                                                                         *)
(* A call is queued when it is asked for, made once, and answered after    *)
(* that; its caller waits from the asking to the answer.  When the bus is  *)
(* shut down for good, calls under way come to nothing, and at no other    *)
(* time.                                                                   *)
(*                                                                         *)
(* BusThread states that it implements this module.                        *)
(***************************************************************************)
CONSTANTS
  Caller,   \* whoever makes calls, one at a time
  MayEnd    \* whether the bus may be shut down

VARIABLES
  waiting,  \* callers whose call has not been answered
  queue,    \* calls that have not been made
  sent      \* calls that have been made and not answered

vars == <<waiting, queue, sent>>

Init ==
  /\ waiting = {}
  /\ queue = {}
  /\ sent = {}

Ask(c) ==
  /\ c \notin waiting
  /\ waiting' = waiting \cup {c}
  /\ queue' = queue \cup {c}
  /\ UNCHANGED sent

Make(c) ==
  /\ c \in queue
  /\ queue' = queue \ {c}
  /\ sent' = sent \cup {c}
  /\ UNCHANGED waiting

(* Answers may arrive together.                                              *)
Answer(calls) ==
  /\ sent' = sent \ calls
  /\ waiting' = waiting \ calls
  /\ UNCHANGED queue

End ==
  /\ MayEnd
  /\ queue' = {}
  /\ sent' = {}
  /\ UNCHANGED waiting

Next ==
  \/ \E c \in Caller : Ask(c) \/ Make(c)
  \/ \E calls \in SUBSET sent : Answer(calls)
  \/ End

Spec == Init /\ [][Next]_vars
=============================================================================
