---------------------------- MODULE BarrierRounds ----------------------------
(***************************************************************************)
(* Some of the threads meet at one ThreadBarrier again and again, each     *)
(* calling Block with the number of all that do.  Two of them are the      *)
(* start handshake of WinThread (start() and run() both call               *)
(* m_initSync.Block(2)).                                                   *)
(***************************************************************************)
EXTENDS ThreadBarrier, FiniteSets

CONSTANT MaxRounds   \* bound on the calls of Block per thread

ASSUME RoundsAssumption == MaxRounds \in Nat /\ IsFiniteSet(Threads)

VARIABLES parties,  \* the threads that meet
          rounds    \* calls of Block each thread has begun

vars == <<condVars, barrierVars, parties, rounds>>

TypeOK ==
  /\ BarrierTypeOK
  /\ parties \subseteq Threads
  /\ rounds \in [Threads -> 0..MaxRounds]

Init ==
  /\ BarrierInit
  /\ parties \in {S \in SUBSET Threads : Cardinality(S) > 1}
  /\ rounds = [t \in Threads |-> 0]

Meet(t) ==
  /\ t \in parties /\ rounds[t] < MaxRounds
  /\ BlockCall(t, Cardinality(parties))
  /\ rounds' = [rounds EXCEPT ![t] = @ + 1]
  /\ UNCHANGED parties

Proceed(t) ==
  /\ BarrierStep(t)
  /\ UNCHANGED <<parties, rounds>>

Next == \E t \in Threads : Meet(t) \/ Proceed(t)

Spec == Init /\ [][Next]_vars

\* The scheduler runs every thread, and every party comes to every round.
Fairness == \A t \in Threads : WF_vars(Meet(t) \/ Proceed(t))

FairSpec == Spec /\ Fairness

-----------------------------------------------------------------------------
(* Properties.                                                             *)

\* Block returned, or Block was released by a later phase.
Released(t) ==
  \/ bstep[t] \in {"broadcast", "leave"}
  \/ bstep[t] = "check" /\ phase # myPhase[t]

Arrived(t) == bstep[t] = "check" /\ phase = myPhase[t]

\* Where a thread is, as the rendezvous sees it.
Place(t) == CASE t \notin parties -> "away"
              [] Released(t) -> "released"
              [] Arrived(t) -> "in"
              [] OTHER -> "out"

place == [t \in Threads |-> Place(t)]

\* The barrier implements the rendezvous: Block never lets a thread through
\* before all have called it in the same round, and of two that meet, who may go
\* on does.
Meeting == INSTANCE Rendezvous WITH Parties <- Threads, at <- place

ImplementsRendezvous == Meeting!FairSpec

\* The counter agrees with the threads that are inside: it is what Block
\* compares with m_maxLocks, across two phases that overlap.
LocksCountArrivals == locks = Cardinality({t \in Threads : Arrived(t)})

\* A thread that is back from its k-th Block, or may come back from it, knows
\* that every thread has arrived there k times.
NobodyIsBehind ==
  \A t, u \in parties : (Outside(t) \/ Released(t)) =>
    /\ rounds[u] >= rounds[t]
    /\ rounds[u] = rounds[t] => bstep[u] # "enter"

\* ICondition.h:39, "Wake all threads waiting on this condition": the round
\* that a thread waits for is over, so the broadcast wakes it.  No run has this
\* property, because it does not hold: with three parties a waiter of the next
\* round may take its token.
BroadcastWakesAll ==
  \A t \in Threads : (bstep[t] = "check" /\ phase # myPhase[t]) ~> (bstep[t] = "out")

=============================================================================
