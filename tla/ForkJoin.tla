------------------------------ MODULE ForkJoin ------------------------------
(***************************************************************************)
(* What ThreadJobManager promises to the main loop: the pieces handed out  *)
(* by BeginProcessing are each executed once, and EndProcessing returns    *)
(* after the last of them, and does return.                                *)
(***************************************************************************)
CONSTANT Pieces

VARIABLES forked,  \* between BeginProcessing and the end of EndProcessing
          todo     \* pieces still to be executed

vars == <<forked, todo>>

Init == forked = FALSE /\ todo = {}

Fork(S) ==
  /\ ~forked
  /\ forked' = TRUE
  /\ todo' = S

Execute(p) ==
  /\ p \in todo
  /\ todo' = todo \ {p}
  /\ UNCHANGED forked

Join ==
  /\ forked
  /\ todo = {}
  /\ forked' = FALSE
  /\ UNCHANGED todo

Next ==
  \/ \E S \in SUBSET Pieces : Fork(S)
  \/ \E p \in Pieces : Execute(p)
  \/ Join

Spec == Init /\ [][Next]_vars

FairSpec == Spec /\ WF_vars(\E p \in Pieces : Execute(p)) /\ WF_vars(Join)

=============================================================================
