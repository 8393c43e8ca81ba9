----------------------------- MODULE MCJobQueue -----------------------------
(***************************************************************************)
(* JobQueue for TLC: two clients, two orders, one with a listener and one  *)
(* with a barrier.                                                         *)
(***************************************************************************)
EXTENDS JobQueue

CONSTANTS o1, o2

MCArguments ==
  {[order |-> o1, listner |-> TRUE,  barrier |-> FALSE],
   [order |-> o2, listner |-> FALSE, barrier |-> TRUE]}

=============================================================================
