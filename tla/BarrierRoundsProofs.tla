------------------------- MODULE BarrierRoundsProofs -------------------------
(***************************************************************************)
(* Proofs about BarrierRounds, for any number of threads, of parties among *)
(* them and of rounds.  Nothing is assumed of the condition variable but   *)
(* that it leaves the barrier's own variables alone: what wakes whom only  *)
(* matters for liveness.                                                   *)
(*                                                                         *)
(* The argument is that all parties have completed the same number of      *)
(* rounds at any moment: the last to arrive finds all others waiting, so   *)
(* the flip of the phase completes a round for everybody at once, and      *)
(* nobody is left behind for the next flip to lock in.  The types of the   *)
(* condition variable are proved at the end, from a second invariant: its  *)
(* counter m_waiters is the number of threads asleep in wait().            *)
(***************************************************************************)
EXTENDS BarrierRounds, FiniteSetTheorems, TLAPS

BlockSteps == {"out", "enter", "check", "broadcast", "leave"}

\* The barrier is used by Block alone, and by the parties alone, with their number.
Shape ==
  /\ parties \subseteq Threads
  /\ rounds \in [Threads -> Nat]
  /\ locks \in Nat
  /\ phase \in {0, 1}
  /\ myPhase \in [Threads -> {0, 1}]
  /\ bstep \in [Threads -> BlockSteps]
  /\ target = [t \in Threads |-> 0]
  /\ \A t \in Threads : bstep[t] # "out" => t \in parties /\ maxLocks = Cardinality(parties)

\* The rounds that are over for thread t.
Completed(t) == IF Outside(t) \/ Released(t) THEN rounds[t] ELSE rounds[t] - 1

Together == \A t, u \in parties : Completed(t) = Completed(u)

Inv == Shape /\ LocksCountArrivals /\ Together

Waiting == {t \in Threads : Arrived(t)}

-----------------------------------------------------------------------------
LEMMA PartiesCounted ==
  ASSUME Shape, NEW t \in parties
  PROVE  /\ IsFiniteSet(Threads) /\ IsFiniteSet(parties \ {t})
         /\ Cardinality(parties) \in Nat
         /\ Cardinality(parties \ {t}) = Cardinality(parties) - 1
<1>1. IsFiniteSet(parties)
  BY RoundsAssumption, FS_Subset DEF Shape
<1> QED
  BY <1>1, RoundsAssumption, FS_RemoveElement, FS_CardinalityType

\* Whoever completes the count finds all others waiting, and only then.
LEMMA CompletesCount ==
  ASSUME Inv, NEW t \in Threads, bstep[t] = "enter"
  PROVE  /\ t \in parties /\ IsFiniteSet(Waiting)
         /\ locks + 1 = maxLocks => Waiting = parties \ {t}
         /\ locks + 1 # maxLocks => \E u \in parties \ {t} : ~Arrived(u)
<1>1. t \in parties /\ maxLocks = Cardinality(parties)
  BY DEF Inv, Shape
<1>2. Waiting \subseteq parties \ {t}
  BY DEF Inv, Shape, Waiting, Arrived
<1>3. /\ IsFiniteSet(parties \ {t}) /\ Cardinality(parties) \in Nat
      /\ Cardinality(parties \ {t}) = Cardinality(parties) - 1
  BY <1>1, PartiesCounted DEF Inv
<1>4. /\ IsFiniteSet(Waiting)
      /\ Cardinality(Waiting) = Cardinality(parties \ {t}) => Waiting = parties \ {t}
  BY <1>2, <1>3, FS_Subset
<1>5. locks = Cardinality(Waiting) /\ locks \in Nat
  BY DEF Inv, Shape, LocksCountArrivals, Waiting
<1>6. CASE locks + 1 = maxLocks
  BY <1>1, <1>3, <1>4, <1>5, <1>6
<1>7. CASE locks + 1 # maxLocks
  <2>1. Waiting # parties \ {t}
    BY <1>1, <1>3, <1>5, <1>7
  <2>2. PICK u \in parties \ {t} : u \notin Waiting
    BY <1>2, <2>1
  <2>3. u \in Threads
    BY <2>2 DEF Inv, Shape
  <2> QED
    BY <1>1, <1>4, <1>7, <2>2, <2>3 DEF Waiting
<1> QED
  BY <1>6, <1>7

-----------------------------------------------------------------------------
(* What each step does to the place of every thread.                       *)

LEMMA MeetEffect ==
  ASSUME Inv, NEW t \in Threads, Meet(t)
  PROVE  /\ Inv'
         /\ \A u \in Threads : (Released(u)' <=> Released(u)) /\ (Arrived(u)' <=> Arrived(u))
         /\ parties' = parties
<1>1. /\ t \in parties /\ bstep[t] = "out" /\ bstep' = [bstep EXCEPT ![t] = "enter"]
      /\ rounds' = [rounds EXCEPT ![t] = @ + 1]
      /\ UNCHANGED <<locks, phase, myPhase, target, parties>>
      /\ maxLocks' = IF Cardinality(parties) > 0 THEN Cardinality(parties) ELSE maxLocks
  BY DEF Meet, BlockCall, Outside, BGoto
<1>2. parties \ {t} \subseteq parties /\ Cardinality(parties) > 0
  <2>1. /\ IsFiniteSet(parties \ {t}) /\ Cardinality(parties) \in Nat
        /\ Cardinality(parties \ {t}) = Cardinality(parties) - 1
    BY <1>1, PartiesCounted DEF Inv
  <2>2. Cardinality(parties \ {t}) \in Nat
    BY <2>1, FS_CardinalityType
  <2> QED
    BY <2>1, <2>2
<1>3. Shape'
  BY <1>1, <1>2 DEF Inv, Shape, BlockSteps
<1>4. ASSUME NEW u \in Threads
      PROVE  /\ Released(u)' <=> Released(u)
             /\ Arrived(u)' <=> Arrived(u)
             /\ Completed(u)' = Completed(u)
  BY <1>1 DEF Inv, Shape, Released, Arrived, Completed, Outside
<1>5. LocksCountArrivals'
  <2>1. {u \in Threads : Arrived(u)}' = {u \in Threads : Arrived(u)}
    BY <1>4
  <2> QED
    BY <1>1, <2>1 DEF Inv, LocksCountArrivals
<1>6. Together'
  BY <1>1, <1>4 DEF Inv, Shape, Together
<1> QED
  BY <1>1, <1>3, <1>4, <1>5, <1>6 DEF Inv

LEMMA ArriveEarlyEffect ==
  ASSUME Inv, NEW t \in Threads, BlockArriveEarly(t), UNCHANGED <<parties, rounds>>
  PROVE  /\ Inv'
         /\ ~Released(t) /\ ~Arrived(t) /\ ~Released(t)' /\ Arrived(t)'
         /\ \A u \in Threads \ {t} :
              (Released(u)' <=> Released(u)) /\ (Arrived(u)' <=> Arrived(u))
<1>1. /\ bstep[t] = "enter" /\ bstep' = [bstep EXCEPT ![t] = "check"]
      /\ locks' = locks + 1 /\ myPhase' = [myPhase EXCEPT ![t] = phase]
      /\ UNCHANGED <<maxLocks, phase, target, parties, rounds>>
  BY DEF BlockArriveEarly, BGoto
<1>2. Shape'
  BY <1>1 DEF Inv, Shape, BlockSteps
<1>3. /\ ~Released(t) /\ ~Arrived(t) /\ ~Released(t)' /\ Arrived(t)'
      /\ Completed(t)' = Completed(t)
  BY <1>1 DEF Inv, Shape, Released, Arrived, Completed, Outside
<1>4. ASSUME NEW u \in Threads \ {t}
      PROVE  /\ Released(u)' <=> Released(u)
             /\ Arrived(u)' <=> Arrived(u)
             /\ Completed(u)' = Completed(u)
  BY <1>1 DEF Inv, Shape, Released, Arrived, Completed, Outside
<1>5. LocksCountArrivals'
  <2>1. Waiting' = Waiting \cup {t} /\ t \notin Waiting
    BY <1>3, <1>4 DEF Waiting
  <2>2. IsFiniteSet(Waiting)
    BY <1>1, CompletesCount
  <2>3. Cardinality(Waiting') = Cardinality(Waiting) + 1
    BY <2>1, <2>2, FS_AddElement
  <2> QED
    BY <1>1, <2>3 DEF Inv, LocksCountArrivals, Waiting
<1>6. Together'
  BY <1>1, <1>3, <1>4 DEF Inv, Shape, Together
<1> QED
  BY <1>2, <1>3, <1>4, <1>5, <1>6 DEF Inv

LEMMA ArriveLastEffect ==
  ASSUME Inv, NEW t \in Threads, BlockArriveLast(t), UNCHANGED <<parties, rounds>>
  PROVE  /\ Inv'
         /\ ~Released(t) /\ ~Arrived(t)
         /\ \A u \in parties \ {t} : Arrived(u)
         /\ \A u \in parties : Released(u)'
<1>1. /\ bstep[t] = "enter" /\ bstep' = [bstep EXCEPT ![t] = "broadcast"]
      /\ locks + 1 = maxLocks /\ locks' = 0 /\ phase' = 1 - phase
      /\ myPhase' = [myPhase EXCEPT ![t] = phase]
      /\ UNCHANGED <<maxLocks, target, parties, rounds>>
  BY DEF BlockArriveLast, NextPhase, BGoto
<1>2. t \in parties /\ Waiting = parties \ {t}
  BY <1>1, CompletesCount
<1>3. Shape'
  BY <1>1 DEF Inv, Shape, BlockSteps
<1>4. /\ ~Released(t) /\ ~Arrived(t) /\ Released(t)' /\ ~Arrived(t)'
      /\ Completed(t) = rounds[t] - 1 /\ Completed(t)' = rounds[t]
  BY <1>1 DEF Inv, Shape, Released, Arrived, Completed, Outside
<1>5. ASSUME NEW u \in parties \ {t}
      PROVE  /\ Arrived(u) /\ Released(u)' /\ ~Arrived(u)'
             /\ Completed(u) = rounds[u] - 1 /\ Completed(u)' = rounds[u]
  <2>1. u \in Threads /\ Arrived(u)
    BY <1>2 DEF Waiting
  <2>2. bstep[u] = "check" /\ phase = myPhase[u] /\ phase' # phase
    BY <1>1, <2>1 DEF Arrived, Inv, Shape
  <2>3. bstep'[u] = "check" /\ myPhase'[u] = myPhase[u]
    BY <1>1, <2>1, <2>2 DEF Inv, Shape
  <2> QED
    BY <1>1, <2>1, <2>2, <2>3 DEF Released, Arrived, Completed, Outside
<1>6. LocksCountArrivals'
  <2>1. ASSUME NEW u \in Threads
        PROVE  ~Arrived(u)'
    BY <1>1, <1>4, <1>5 DEF Inv, Shape, Arrived
  <2>2. {u \in Threads : Arrived(u)}' = {}
    BY <2>1
  <2> QED
    BY <1>1, <2>2, FS_EmptySet DEF LocksCountArrivals
<1>7. Together'
  <2>1. \A u \in parties : Completed(u) = rounds[u] - 1 /\ Completed(u)' = rounds[u] /\ rounds[u] \in Nat
    BY <1>4, <1>5 DEF Inv, Shape
  <2> QED
    BY <1>1, <2>1 DEF Inv, Together
<1> QED
  BY <1>3, <1>4, <1>5, <1>6, <1>7 DEF Inv

LEMMA ReturnEffect ==
  ASSUME Inv, NEW t \in Threads, BlockReturn(t) \/ LeaveBroadcast(t),
         UNCHANGED <<parties, rounds>>
  PROVE  /\ Inv'
         /\ Released(t) /\ ~Released(t)' /\ ~Arrived(t)'
         /\ \A u \in Threads \ {t} :
              (Released(u)' <=> Released(u)) /\ (Arrived(u)' <=> Arrived(u))
<1>1. /\ Released(t) /\ bstep' = [bstep EXCEPT ![t] = "out"]
      /\ UNCHANGED <<locks, maxLocks, phase, myPhase, target, parties, rounds>>
  BY DEF BlockReturn, LeaveBroadcast, BGoto, Released, Inv, Shape
<1>2. Shape'
  BY <1>1 DEF Inv, Shape, BlockSteps
<1>3. ~Arrived(t) /\ ~Released(t)' /\ ~Arrived(t)' /\ Completed(t)' = Completed(t)
  BY <1>1 DEF Inv, Shape, Released, Arrived, Completed, Outside
<1>4. ASSUME NEW u \in Threads \ {t}
      PROVE  /\ Released(u)' <=> Released(u)
             /\ Arrived(u)' <=> Arrived(u)
             /\ Completed(u)' = Completed(u)
  BY <1>1 DEF Inv, Shape, Released, Arrived, Completed, Outside
<1>5. LocksCountArrivals'
  <2>1. {u \in Threads : Arrived(u)}' = {u \in Threads : Arrived(u)}
    BY <1>3, <1>4
  <2> QED
    BY <1>1, <2>1 DEF Inv, LocksCountArrivals
<1>6. Together'
  BY <1>1, <1>3, <1>4 DEF Inv, Shape, Together
<1> QED
  BY <1>1, <1>2, <1>3, <1>4, <1>5, <1>6 DEF Inv

\* The rest of Block, and of the condition variable, moves nobody.
LEMMA OtherEffect ==
  ASSUME Inv, parties' = parties, rounds' = rounds,
         UNCHANGED <<locks, maxLocks, phase, myPhase, target>>,
         \/ bstep' = bstep
         \/ \E t \in Threads : bstep[t] = "broadcast" /\ bstep' = [bstep EXCEPT ![t] = "leave"]
  PROVE  /\ Inv'
         /\ \A u \in Threads : (Released(u)' <=> Released(u)) /\ (Arrived(u)' <=> Arrived(u))
<1>1. Shape'
  BY DEF Inv, Shape, BlockSteps
<1>2. ASSUME NEW u \in Threads
      PROVE  /\ Released(u)' <=> Released(u)
             /\ Arrived(u)' <=> Arrived(u)
             /\ Completed(u)' = Completed(u)
  BY DEF Inv, Shape, Released, Arrived, Completed, Outside
<1>3. LocksCountArrivals'
  <2>1. {u \in Threads : Arrived(u)}' = {u \in Threads : Arrived(u)}
    BY <1>2
  <2> QED
    BY <2>1 DEF Inv, LocksCountArrivals
<1>4. Together'
  BY <1>2 DEF Inv, Shape, Together
<1> QED
  BY <1>1, <1>2, <1>3, <1>4 DEF Inv

\* The steps of Next, by what they do.
LEMMA StepKinds ==
  ASSUME Shape, [Next]_vars
  PROVE  \/ \E t \in Threads : Meet(t)
         \/ /\ UNCHANGED <<parties, rounds>>
            /\ \/ \E t \in Threads : BlockArriveLast(t)
               \/ \E t \in Threads : BlockArriveEarly(t)
               \/ \E t \in Threads : BlockReturn(t) \/ LeaveBroadcast(t)
               \/ /\ UNCHANGED <<locks, maxLocks, phase, myPhase, target>>
                  /\ \/ bstep' = bstep
                     \/ \E t \in Threads : /\ bstep[t] = "broadcast"
                                           /\ bstep' = [bstep EXCEPT ![t] = "leave"]
<1>1. CASE UNCHANGED vars
  BY <1>1 DEF vars, barrierVars
<1>2. ASSUME NEW t \in Threads, Proceed(t)
      PROVE  /\ UNCHANGED <<parties, rounds>>
             /\ \/ BlockArriveLast(t) \/ BlockArriveEarly(t) \/ BlockReturn(t) \/ LeaveBroadcast(t)
                \/ /\ UNCHANGED <<locks, maxLocks, phase, myPhase, target>>
                   /\ \/ bstep' = bstep
                      \/ bstep[t] = "broadcast" /\ bstep' = [bstep EXCEPT ![t] = "leave"]
  <2>1. bstep[t] \in BlockSteps
    BY DEF Shape
  <2>2. ~Release(t) /\ ~SetMaxLocks(t) /\ ~ResetLocks(t)
    BY <2>1 DEF BlockSteps, Release, SetMaxLocks, ResetLocks
  <2>3. CASE BlockWait(t)
    BY <1>2, <2>3 DEF Proceed, BlockWait, barrierVars
  <2>4. CASE BroadcastCall(t)
    BY <1>2, <2>4 DEF Proceed, BroadcastCall, BGoto
  <2>5. CASE UNCHANGED barrierVars
    BY <1>2, <2>5 DEF Proceed, barrierVars
  <2> QED
    BY <1>2, <2>2, <2>3, <2>4, <2>5 DEF Proceed, BarrierStep, CallStep
<1> QED
  BY <1>1, <1>2 DEF Next

-----------------------------------------------------------------------------
LEMMA InvInit == Init => Inv
<1> SUFFICES ASSUME Init
             PROVE  Inv
  OBVIOUS
<1>1. Shape
  BY DEF Init, BarrierInit, Shape, BlockSteps
<1>2. Waiting = {}
  BY DEF Init, BarrierInit, Waiting, Arrived
<1>3. LocksCountArrivals
  BY <1>2, FS_EmptySet DEF Init, BarrierInit, LocksCountArrivals, Waiting
<1>4. Together
  BY <1>1 DEF Init, BarrierInit, Together, Completed, Outside, Shape
<1> QED
  BY <1>1, <1>3, <1>4 DEF Inv

LEMMA InvStep ==
  ASSUME Inv, [Next]_vars
  PROVE  Inv'
<1>1. Shape
  BY DEF Inv
<1>2. ASSUME NEW t \in Threads, Meet(t)
      PROVE  Inv'
  BY <1>2, MeetEffect
<1>3. ASSUME NEW t \in Threads, BlockArriveLast(t), UNCHANGED <<parties, rounds>>
      PROVE  Inv'
  BY <1>3, ArriveLastEffect
<1>4. ASSUME NEW t \in Threads, BlockArriveEarly(t), UNCHANGED <<parties, rounds>>
      PROVE  Inv'
  BY <1>4, ArriveEarlyEffect
<1>5. ASSUME NEW t \in Threads, BlockReturn(t) \/ LeaveBroadcast(t), UNCHANGED <<parties, rounds>>
      PROVE  Inv'
  BY <1>5, ReturnEffect
<1>6. ASSUME UNCHANGED <<parties, rounds>>, UNCHANGED <<locks, maxLocks, phase, myPhase, target>>,
             \/ bstep' = bstep
             \/ \E t \in Threads : bstep[t] = "broadcast" /\ bstep' = [bstep EXCEPT ![t] = "leave"]
      PROVE  Inv'
  BY <1>6, OtherEffect
<1> QED
  BY <1>1, <1>2, <1>3, <1>4, <1>5, <1>6, StepKinds

LEMMA InvAlways == Spec => []Inv
BY InvInit, InvStep, PTL DEF Spec

\* m_locks is the number of threads that wait for the phase to change, for any
\* number of threads: what Block compares with the count it was called with.
THEOREM LocksAreArrivals == Spec => []LocksCountArrivals
<1>1. Inv => LocksCountArrivals
  BY DEF Inv
<1> QED
  BY <1>1, InvAlways, PTL

\* Nobody leaves a round that somebody has not come to, for any number of
\* threads and rounds.
THEOREM NobodyLeavesEarly == Spec => []NobodyIsBehind
<1>1. ASSUME Inv
      PROVE  NobodyIsBehind
  <2>1. ASSUME NEW t \in parties, NEW u \in parties, Outside(t) \/ Released(t)
        PROVE  rounds[u] >= rounds[t] /\ (rounds[u] = rounds[t] => bstep[u] # "enter")
    <3>1. rounds[t] \in Nat /\ rounds[u] \in Nat
      BY <1>1 DEF Inv, Shape
    <3>2. Completed(t) = rounds[t] /\ Completed(u) = Completed(t)
      BY <1>1, <2>1 DEF Inv, Together, Completed
    <3>3. CASE Outside(u) \/ Released(u)
      BY <3>1, <3>2, <3>3 DEF Completed, Outside, Released
    <3>4. CASE ~(Outside(u) \/ Released(u))
      BY <3>1, <3>2, <3>4 DEF Completed
    <3> QED
      BY <3>3, <3>4
  <2> QED
    BY <2>1 DEF NobodyIsBehind
<1> QED
  BY <1>1, InvAlways, PTL

-----------------------------------------------------------------------------
(* The barrier implements the rendezvous.                                  *)

LEMMA PlaceCases ==
  ASSUME Inv, NEW t \in Threads
  PROVE  /\ Place(t) \in {"away", "out", "in", "released"}
         /\ Place(t) = "away" <=> t \notin parties
         /\ Place(t) = "released" <=> Released(t)
         /\ Place(t) = "in" <=> Arrived(t)
<1>1. Released(t) \/ Arrived(t) => t \in parties
  BY DEF Inv, Shape, Released, Arrived
<1>2. ~(Released(t) /\ Arrived(t))
  BY DEF Released, Arrived
<1> QED
  BY <1>1, <1>2 DEF Place

LEMMA NextPlace ==
  ASSUME Inv', parties' = parties, NEW t \in Threads
  PROVE  /\ t \notin parties => Place(t)' = "away"
         /\ t \in parties /\ Released(t)' => Place(t)' = "released"
         /\ t \in parties /\ ~Released(t)' /\ ~Arrived(t)' => Place(t)' = "out"
<1>1. Released(t)' \/ Arrived(t)' => t \in parties
  BY DEF Inv, Shape, Released, Arrived
<1>2. ~(Released(t)' /\ Arrived(t)')
  BY DEF Released, Arrived
<1> QED
  BY <1>1, <1>2, Zenon DEF Place

\* A thread that is seen where it was.
LEMMA SamePlace ==
  ASSUME parties' = parties, NEW u,
         (Released(u)' <=> Released(u)) /\ (Arrived(u)' <=> Arrived(u))
  PROVE  Place(u)' = Place(u)
BY DEF Place

LEMMA MeetingInit == Init => Meeting!Init
<1> SUFFICES ASSUME Init
             PROVE  Meeting!Init
  OBVIOUS
<1>1. Inv
  BY InvInit
<1>2. ASSUME NEW t \in Threads
      PROVE  Place(t) \in {"away", "out"}
  <2>1. ~Released(t) /\ ~Arrived(t)
    BY DEF Init, BarrierInit, Released, Arrived
  <2> QED
    BY <1>1, <2>1, PlaceCases
<1>3. place \in [Threads -> {"away", "out"}]
  BY <1>2 DEF place
<1> QED
  BY <1>3 DEF Meeting!Init

LEMMA SamePlaces ==
  ASSUME parties' = parties,
         \A u \in Threads : (Released(u)' <=> Released(u)) /\ (Arrived(u)' <=> Arrived(u))
  PROVE  place' = place
<1>1. \A u \in Threads : Place(u)' = Place(u)
  BY SamePlace
<1> QED
  BY <1>1 DEF place

\* When only t moves, the rendezvous sees only t move.
LEMMA OnePlace ==
  ASSUME parties' = parties, NEW t \in Threads,
         \A u \in Threads \ {t} :
            (Released(u)' <=> Released(u)) /\ (Arrived(u)' <=> Arrived(u))
  PROVE  place' = [place EXCEPT ![t] = Place(t)']
<1>1. \A u \in Threads \ {t} : Place(u)' = Place(u)
  BY SamePlace
<1> QED
  BY <1>1 DEF place

LEMMA PresentAreParties ==
  ASSUME Inv
  PROVE  Meeting!Present = parties
<1>1. \A t \in Threads : place[t] # "away" <=> t \in parties
  BY PlaceCases DEF place
<1> QED
  BY <1>1 DEF Meeting!Present, Inv, Shape

LEMMA MeetingArrive ==
  ASSUME Inv, Inv', NEW t \in Threads, BlockArriveEarly(t), UNCHANGED <<parties, rounds>>
  PROVE  Meeting!Arrive(t)
<1>1. /\ ~Released(t) /\ ~Arrived(t) /\ ~Released(t)' /\ Arrived(t)'
      /\ place' = [place EXCEPT ![t] = Place(t)']
  BY ArriveEarlyEffect, OnePlace
<1>2. /\ t \in parties /\ \E u \in parties \ {t} : ~Arrived(u)
      /\ parties \subseteq Threads
  BY CompletesCount DEF BlockArriveEarly, Inv, Shape
<1>3. Place(t) = "out" /\ Place(t)' = "in"
  BY <1>1, <1>2, PlaceCases DEF Place
<1>4. \A u \in parties : place[u] = "in" <=> Arrived(u)
  BY <1>2, PlaceCases DEF place
<1>5. place[t] = "out" /\ place' = [place EXCEPT ![t] = "in"]
  BY <1>1, <1>3 DEF place
<1> QED
  BY <1>2, <1>4, <1>5, PresentAreParties DEF Meeting!Arrive

LEMMA MeetingArriveLast ==
  ASSUME Inv, Inv', NEW t \in Threads, BlockArriveLast(t), UNCHANGED <<parties, rounds>>
  PROVE  Meeting!ArriveLast(t)
<1>1. /\ ~Released(t) /\ ~Arrived(t)
      /\ \A u \in parties \ {t} : Arrived(u)
      /\ \A u \in parties : Released(u)'
  BY ArriveLastEffect
<1>2. t \in parties /\ parties \subseteq Threads
  BY CompletesCount DEF BlockArriveLast, Inv, Shape
<1>3. Place(t) = "out"
  BY <1>1, <1>2 DEF Place
<1>4. \A u \in parties \ {t} : place[u] = "in"
  BY <1>1, <1>2, PlaceCases DEF place
<1>5. ASSUME NEW u \in Threads
      PROVE  Place(u)' = IF u \in parties THEN "released" ELSE "away"
  BY <1>1, NextPlace
<1>6. place[t] = "out" /\ place' = [u \in Threads |-> IF u \in parties THEN "released" ELSE "away"]
  BY <1>3, <1>5 DEF place
<1> QED
  BY <1>4, <1>6, PresentAreParties DEF Meeting!ArriveLast

LEMMA MeetingLeave ==
  ASSUME Inv, Inv', NEW t \in Threads, BlockReturn(t) \/ LeaveBroadcast(t),
         UNCHANGED <<parties, rounds>>
  PROVE  Meeting!Leave(t)
<1>1. /\ Released(t) /\ ~Released(t)' /\ ~Arrived(t)'
      /\ place' = [place EXCEPT ![t] = Place(t)']
  BY ReturnEffect, OnePlace
<1>2. t \in parties
  BY <1>1, PlaceCases DEF Place, Inv, Shape, Released
<1>3. Place(t) = "released" /\ Place(t)' = "out"
  BY <1>1, <1>2, NextPlace, PlaceCases
<1> QED
  BY <1>1, <1>3 DEF place, Meeting!Leave

\* For any number of threads and rounds, the barrier is a rendezvous: whatever
\* it does is what Rendezvous allows, its liveness aside.
THEOREM BarrierIsRendezvous == Spec => Meeting!Spec
<1>1. ASSUME Inv, Inv', [Next]_vars
      PROVE  [Meeting!Next]_place
  <2>1. Shape
    BY <1>1 DEF Inv
  <2>2. ASSUME NEW t \in Threads, Meet(t)
        PROVE  place' = place
    BY <1>1, <2>2, MeetEffect, SamePlaces
  <2>3. ASSUME NEW t \in Threads, BlockArriveLast(t), UNCHANGED <<parties, rounds>>
        PROVE  Meeting!ArriveLast(t)
    BY <1>1, <2>3, MeetingArriveLast
  <2>4. ASSUME NEW t \in Threads, BlockArriveEarly(t), UNCHANGED <<parties, rounds>>
        PROVE  Meeting!Arrive(t)
    BY <1>1, <2>4, MeetingArrive
  <2>5. ASSUME NEW t \in Threads, BlockReturn(t) \/ LeaveBroadcast(t),
               UNCHANGED <<parties, rounds>>
        PROVE  Meeting!Leave(t)
    BY <1>1, <2>5, MeetingLeave
  <2>6. ASSUME UNCHANGED <<parties, rounds>>,
               UNCHANGED <<locks, maxLocks, phase, myPhase, target>>,
               \/ bstep' = bstep
               \/ \E t \in Threads : bstep[t] = "broadcast" /\ bstep' = [bstep EXCEPT ![t] = "leave"]
        PROVE  place' = place
    BY <1>1, <2>6, OtherEffect, SamePlaces
  <2> QED
    BY <1>1, <2>1, <2>2, <2>3, <2>4, <2>5, <2>6, StepKinds DEF Meeting!Next
<1> QED
  BY <1>1, MeetingInit, InvAlways, PTL DEF Spec, Meeting!Spec

-----------------------------------------------------------------------------
(* Types.  m_waiters never falls below zero because it counts the threads  *)
(* that have begun to wait and have not yet taken themselves off again.    *)

Sleepers == {t \in Threads : cstep[t] \in {"acquire", "decrement"}}

WaitersCounted == CondTypeOK /\ waiters = Cardinality(Sleepers)

Counters == maxLocks \in Nat /\ rounds \in [Threads -> 0..MaxRounds]

\* Steps of the condition variable: nobody, one more or one less is asleep.
LEMMA SleepersKept ==
  ASSUME WaitersCounted, waiters' = waiters, cstep' \in [Threads -> CondSteps],
         \A t \in Threads : cstep'[t] \in {"acquire", "decrement"}
                              <=> cstep[t] \in {"acquire", "decrement"}
  PROVE  waiters' \in Nat /\ waiters' = Cardinality(Sleepers')
<1>1. Sleepers' = Sleepers
  BY DEF Sleepers
<1> QED
  BY <1>1 DEF WaitersCounted, CondTypeOK

LEMMA SleepersMore ==
  ASSUME WaitersCounted, NEW t \in Threads, cstep[t] = "none",
         waiters' = waiters + 1, cstep' = [cstep EXCEPT ![t] = "acquire"]
  PROVE  waiters' \in Nat /\ waiters' = Cardinality(Sleepers')
<1>1. Sleepers' = Sleepers \cup {t} /\ t \notin Sleepers
  BY DEF Sleepers, WaitersCounted, CondTypeOK
<1>2. IsFiniteSet(Sleepers)
  BY RoundsAssumption, FS_Subset DEF Sleepers
<1>3. Cardinality(Sleepers') = Cardinality(Sleepers) + 1
  BY <1>1, <1>2, FS_AddElement
<1> QED
  BY <1>3 DEF WaitersCounted, CondTypeOK

LEMMA SleepersLess ==
  ASSUME WaitersCounted, NEW t \in Threads, cstep[t] = "decrement",
         waiters' = waiters - 1, cstep' = [cstep EXCEPT ![t] = "readWaiters"]
  PROVE  waiters' \in Nat /\ waiters' = Cardinality(Sleepers')
<1>1. Sleepers' = Sleepers \ {t} /\ t \in Sleepers
  BY DEF Sleepers, WaitersCounted, CondTypeOK
<1>2. IsFiniteSet(Sleepers) /\ IsFiniteSet(Sleepers')
  BY <1>1, RoundsAssumption, FS_Subset DEF Sleepers
<1>3. Cardinality(Sleepers') = Cardinality(Sleepers) - 1
  BY <1>1, <1>2, FS_RemoveElement
<1>4. Cardinality(Sleepers') \in Nat
  BY <1>2, FS_CardinalityType
<1> QED
  BY <1>3, <1>4 DEF WaitersCounted

LEMMA CondCounted ==
  ASSUME WaitersCounted, [Next]_vars
  PROVE  WaitersCounted'
<1> USE DEF CondTypeOK, CondSteps
<1>1. CASE UNCHANGED condVars
  BY <1>1 DEF WaitersCounted, Sleepers, condVars
<1>2. ASSUME NEW t \in Threads, BlockArriveLast(t) \/ BlockArriveEarly(t) \/ BlockReturn(t)
                                \/ LeaveBroadcast(t) \/ Release(t)
      PROVE  WaitersCounted'
  <2>1. UNCHANGED <<waiters, sema, waitersDone, wasBroadcast, cstep>>
        /\ mutex' \in Threads \cup {NoThread}
    BY <1>2 DEF BlockArriveLast, BlockArriveEarly, BlockReturn, LeaveBroadcast, Release, Lock, Unlock
  <2> QED
    BY <2>1 DEF WaitersCounted, Sleepers
<1>3. ASSUME NEW t \in Threads, BlockWait(t)
      PROVE  WaitersCounted'
  <2>1. /\ cstep[t] = "none" /\ waiters' = waiters + 1
        /\ cstep' = [cstep EXCEPT ![t] = "acquire"] /\ mutex' = NoThread
        /\ UNCHANGED <<sema, waitersDone, wasBroadcast>>
    BY <1>3 DEF BlockWait, WaitBegin, Running, Unlock, Goto
  <2> QED
    BY <2>1, SleepersMore DEF WaitersCounted
<1>4. ASSUME NEW t \in Threads, WaitDecrement(t)
      PROVE  WaitersCounted'
  <2>1. /\ cstep[t] = "decrement" /\ waiters' = waiters - 1
        /\ cstep' = [cstep EXCEPT ![t] = "readWaiters"]
        /\ UNCHANGED <<mutex, sema, waitersDone, wasBroadcast>>
    BY <1>4 DEF WaitDecrement, Goto
  <2> QED
    BY <2>1, SleepersLess DEF WaitersCounted
<1>5. ASSUME NEW t \in Threads, WaitAcquire(t) \/ WaitReadWaiters(t) \/ WaitTestBroadcast(t)
                                \/ WaitSetDone(t) \/ WaitRelock(t)
      PROVE  WaitersCounted'
  <2>1. /\ waiters' = waiters /\ cstep' \in [Threads -> CondSteps]
        /\ \A u \in Threads : cstep'[u] \in {"acquire", "decrement"}
                                <=> cstep[u] \in {"acquire", "decrement"}
    BY <1>5 DEF WaitersCounted, WaitAcquire, WaitReadWaiters, WaitTestBroadcast, WaitSetDone,
                WaitRelock, Goto
  <2>2. mutex' \in Threads \cup {NoThread} /\ sema' \in Nat
    BY <1>5 DEF WaitersCounted, WaitAcquire, WaitReadWaiters, WaitTestBroadcast, WaitSetDone,
                WaitRelock, Lock
  <2>3. waitersDone' \in BOOLEAN /\ wasBroadcast' \in BOOLEAN
    BY <1>5, Zenon DEF WaitersCounted, WaitAcquire, WaitReadWaiters, WaitTestBroadcast, WaitSetDone,
                       WaitRelock
  <2> QED
    BY <2>1, <2>2, <2>3, SleepersKept DEF WaitersCounted
<1>6. ASSUME NEW t \in Threads, BroadcastRead(t) \/ BroadcastStep(t)
      PROVE  WaitersCounted'
  <2> USE <1>6 DEF WaitersCounted, BroadcastStep, BroadcastRead, BroadcastSet, BroadcastRelease,
                   BroadcastWaitDone, BroadcastClear
  <2>1. /\ waiters' = waiters /\ cstep' \in [Threads -> CondSteps]
        /\ \A u \in Threads : cstep'[u] \in {"acquire", "decrement"}
                                <=> cstep[u] \in {"acquire", "decrement"}
    BY DEF Running, Goto
  <2>2. mutex' \in Threads \cup {NoThread} /\ sema' \in Nat
    OBVIOUS
  <2>3. waitersDone' \in BOOLEAN /\ wasBroadcast' \in BOOLEAN
    BY Zenon
  <2> QED
    BY <2>1, <2>2, <2>3, SleepersKept
<1>7. ASSUME NEW t \in Threads, Meet(t) \/ SetMaxLocks(t) \/ ResetLocks(t)
      PROVE  WaitersCounted'
  BY <1>1, <1>7 DEF Meet, BlockCall, SetMaxLocks, ResetLocks
<1> QED
  BY <1>1, <1>2, <1>3, <1>4, <1>5, <1>6, <1>7
     DEF Next, Proceed, BarrierStep, CallStep, WaitStep, BroadcastCall, vars

LEMMA CountersStep ==
  ASSUME Inv, Counters, [Next]_vars
  PROVE  Counters'
<1>1. ASSUME NEW t \in Threads, Meet(t)
      PROVE  Counters'
  <2>1. t \in parties /\ rounds[t] < MaxRounds
    BY <1>1 DEF Meet
  <2>2. Cardinality(parties) \in Nat
    BY <2>1, PartiesCounted DEF Inv
  <2> QED
    BY <1>1, <2>1, <2>2, RoundsAssumption DEF Counters, Meet, BlockCall
<1>2. ASSUME UNCHANGED rounds, UNCHANGED maxLocks
      PROVE  Counters'
  BY <1>2 DEF Counters
<1>3. \/ \E t \in Threads : Meet(t)
      \/ UNCHANGED rounds /\ UNCHANGED maxLocks
  <2>1. Shape
    BY DEF Inv
  <2> QED
    BY <2>1, StepKinds DEF BlockArriveLast, BlockArriveEarly, BlockReturn, LeaveBroadcast
<1> QED
  BY <1>1, <1>2, <1>3

\* The types of the barrier and its condition variable: in particular
\* m_waiters, which wait() counts down again after it has slept, and m_locks
\* never fall below zero, for any number of threads and rounds.
THEOREM TypeCorrect == Spec => []TypeOK
<1>1. Init => WaitersCounted /\ Counters
  <2> SUFFICES ASSUME Init
               PROVE  WaitersCounted /\ Counters
    OBVIOUS
  <2>1. CondTypeOK
    BY DEF Init, BarrierInit, CondInit, CondTypeOK, CondSteps
  <2>2. Sleepers = {}
    BY DEF Init, BarrierInit, CondInit, Sleepers
  <2> QED
    BY <2>1, <2>2, FS_EmptySet, RoundsAssumption
       DEF Init, BarrierInit, CondInit, WaitersCounted, Counters
<1>2. Inv /\ WaitersCounted /\ Counters => TypeOK
  BY DEF Inv, Shape, BlockSteps, WaitersCounted, Counters, TypeOK, BarrierTypeOK, BarrierSteps
<1> QED
  BY <1>1, <1>2, InvInit, InvStep, CondCounted, CountersStep, PTL DEF Spec

=============================================================================
