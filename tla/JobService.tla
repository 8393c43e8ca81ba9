----------------------------- MODULE JobService -----------------------------
(***************************************************************************)
(* What a job queue promises to the threads that use it, without saying    *)
(* how: one first-in first-out queue of calls, each run once, in order.    *)
(***************************************************************************)
EXTENDS Sequences, SequencesExt

CONSTANT Arguments   \* [order, listner, barrier] of an AddRequest call

VARIABLES queue,  \* the accepted orders that have not been run
          ran,    \* [args, res] of the orders run so far
          open    \* the queue has not been told to stop

vars == <<queue, ran, open>>

Init == queue = <<>> /\ ran = <<>> /\ open = TRUE

Submit(a) ==
  /\ open
  /\ queue' = Append(queue, a)
  /\ UNCHANGED <<ran, open>>

\* At most one occurrence of an order is withdrawn, and none that has run.
Cancel(i) ==
  /\ open
  /\ queue' = RemoveAt(queue, i)
  /\ UNCHANGED <<ran, open>>

Run ==
  /\ queue # <<>>
  /\ \E res \in BOOLEAN : ran' = Append(ran, [args |-> Head(queue), res |-> res])
  /\ queue' = Tail(queue)
  /\ UNCHANGED open

\* After Close the queue may still run what it holds, or drop it.
Close ==
  /\ open
  /\ open' = FALSE
  /\ UNCHANGED <<queue, ran>>

Drop ==
  /\ ~open
  /\ queue' = <<>>
  /\ UNCHANGED <<ran, open>>

Next ==
  \/ \E a \in Arguments : Submit(a)
  \/ \E i \in DOMAIN queue : Cancel(i)
  \/ Run
  \/ Close
  \/ Drop

Spec == Init /\ [][Next]_vars

FairSpec == Spec /\ WF_vars(open /\ Run)

=============================================================================
