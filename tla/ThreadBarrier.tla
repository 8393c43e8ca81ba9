---------------------------- MODULE ThreadBarrier ----------------------------
(***************************************************************************)
(* OS::ThreadBarrier (src/Engine/mrayEngine/src/ThreadBarrier.cpp): a      *)
(* reusable counting barrier.  Block arrives and waits for the phase to    *)
(* change, Signal only arrives, and whoever completes the count flips the  *)
(* phase and broadcasts with the mutex held.                               *)
(*                                                                         *)
(* Like WinCondition the module has no Next; a call is in progress while   *)
(* bstep[t] is not "out".  m_maxLocks, and m_locks in SetTargetCount, are  *)
(* written outside the mutex: those writes are steps of their own.         *)
(***************************************************************************)
EXTENDS WinCondition

VARIABLES locks,     \* m_locks
          maxLocks,  \* m_maxLocks
          phase,     \* m_phase
          myPhase,   \* the local variable phase of each Block in progress
          target,    \* the argument of a SetTargetCount in progress, else 0
          bstep      \* where each thread is inside a barrier call

barrierVars == <<locks, maxLocks, phase, myPhase, target, bstep>>

BarrierSteps == {"out", "enter", "check", "broadcast", "leave",
                 "release", "setMax", "setLocks"}

BarrierTypeOK ==
  /\ CondTypeOK
  /\ locks \in Nat
  /\ maxLocks \in Nat
  /\ phase \in {0, 1}
  /\ myPhase \in [Threads -> {0, 1}]
  /\ target \in [Threads -> Nat]
  /\ bstep \in [Threads -> BarrierSteps]

BarrierInit ==
  /\ CondInit
  /\ locks = 0 /\ maxLocks = 0 /\ phase = 0
  /\ myPhase = [t \in Threads |-> 0]
  /\ target = [t \in Threads |-> 0]
  /\ bstep = [t \in Threads |-> "out"]

BGoto(t, s) == bstep' = [bstep EXCEPT ![t] = s]

\* Thread t is outside the barrier and its condition variable.
Outside(t) == bstep[t] = "out"

\* Variant: the phase is counted up instead of flipped.
NextPhaseCounted ==
  /\ locks' = 0
  /\ phase' = phase + 1

\* Variant: the count is not reset with the phase.
NextPhaseKeep ==
  /\ locks' = locks
  /\ phase' = 1 - phase

NextPhase ==
  /\ locks' = 0
  /\ phase' = 1 - phase

-----------------------------------------------------------------------------
(* Block(count) and Signal(): the arrival is one step under the mutex,     *)
(* which the last to arrive keeps for the broadcast.                       *)

\* Variant: the count leaves out the caller.
BlockCallShort(t, count) ==
  /\ Outside(t)
  /\ maxLocks' = IF count > 0 THEN count - 1 ELSE maxLocks
  /\ BGoto(t, "enter")
  /\ UNCHANGED <<condVars, locks, phase, myPhase, target>>

BlockCall(t, count) ==
  /\ Outside(t)
  /\ maxLocks' = IF count > 0 THEN count ELSE maxLocks
  /\ BGoto(t, "enter")
  /\ UNCHANGED <<condVars, locks, phase, myPhase, target>>

BlockArriveLast(t) ==
  /\ bstep[t] = "enter"
  /\ locks + 1 = maxLocks
  /\ Lock(t)
  /\ NextPhase
  /\ myPhase' = [myPhase EXCEPT ![t] = phase]
  /\ BGoto(t, "broadcast")
  /\ UNCHANGED <<waiters, sema, waitersDone, wasBroadcast, cstep, maxLocks, target>>

BlockArriveEarly(t) ==
  /\ bstep[t] = "enter"
  /\ locks + 1 # maxLocks
  /\ Lock(t)
  /\ locks' = locks + 1
  /\ myPhase' = [myPhase EXCEPT ![t] = phase]
  /\ BGoto(t, "check")
  /\ UNCHANGED <<waiters, sema, waitersDone, wasBroadcast, cstep, maxLocks, phase, target>>

\* while(m_phase==phase) m_condition->wait(m_mutex)
BlockWait(t) ==
  /\ bstep[t] = "check"
  /\ phase = myPhase[t]
  /\ WaitBegin(t)
  /\ UNCHANGED barrierVars

BlockReturn(t) ==
  /\ bstep[t] = "check" /\ Running(t)
  /\ phase # myPhase[t]
  /\ Unlock(t)
  /\ BGoto(t, "out")
  /\ UNCHANGED <<waiters, sema, waitersDone, wasBroadcast, cstep,
                 locks, maxLocks, phase, myPhase, target>>

SignalArriveLast(t) ==
  /\ Outside(t)
  /\ locks + 1 = maxLocks
  /\ Lock(t)
  /\ NextPhase
  /\ BGoto(t, "broadcast")
  /\ UNCHANGED <<waiters, sema, waitersDone, wasBroadcast, cstep, maxLocks, myPhase, target>>

SignalArriveEarly(t) ==
  /\ Outside(t)
  /\ locks + 1 # maxLocks
  /\ mutex = NoThread
  /\ locks' = locks + 1
  /\ UNCHANGED <<condVars, maxLocks, phase, myPhase, target, bstep>>

SignalCall(t) == SignalArriveLast(t) \/ SignalArriveEarly(t)

-----------------------------------------------------------------------------
(* The broadcast, with the mutex held, and the return from it.             *)

BroadcastCall(t) ==
  /\ bstep[t] = "broadcast"
  /\ BroadcastRead(t)
  /\ BGoto(t, "leave")
  /\ UNCHANGED <<locks, maxLocks, phase, myPhase, target>>

LeaveBroadcast(t) ==
  /\ bstep[t] = "leave" /\ Running(t)
  /\ Unlock(t)
  /\ BGoto(t, IF target[t] > 0 THEN "setMax" ELSE "out")
  /\ UNCHANGED <<waiters, sema, waitersDone, wasBroadcast, cstep,
                 locks, maxLocks, phase, myPhase, target>>

-----------------------------------------------------------------------------
(* SetTargetCount(count), count > 0 in every call the engine makes.        *)

SetTargetCount(t, count) ==
  /\ Outside(t)
  /\ mutex = NoThread
  /\ target' = [target EXCEPT ![t] = count]
  /\ BGoto(t, IF locks > 0 THEN "release" ELSE "setMax")
  /\ UNCHANGED <<condVars, locks, maxLocks, phase, myPhase>>

Release(t) ==
  /\ bstep[t] = "release"
  /\ Lock(t)
  /\ NextPhase
  /\ BGoto(t, "broadcast")
  /\ UNCHANGED <<waiters, sema, waitersDone, wasBroadcast, cstep, maxLocks, myPhase, target>>

SetMaxLocks(t) ==
  /\ bstep[t] = "setMax"
  /\ maxLocks' = target[t]
  /\ BGoto(t, "setLocks")
  /\ UNCHANGED <<condVars, locks, phase, myPhase, target>>

ResetLocks(t) ==
  /\ bstep[t] = "setLocks"
  /\ locks' = 0
  /\ target' = [target EXCEPT ![t] = 0]
  /\ BGoto(t, "out")
  /\ UNCHANGED <<condVars, maxLocks, phase, myPhase>>

-----------------------------------------------------------------------------
(* The steps of a barrier call in progress, those of its condition variable *)
(* included.                                                                *)

CallStep(t) ==
  \/ BlockArriveLast(t) \/ BlockArriveEarly(t) \/ BlockWait(t) \/ BlockReturn(t)
  \/ BroadcastCall(t) \/ LeaveBroadcast(t)
  \/ Release(t) \/ SetMaxLocks(t) \/ ResetLocks(t)

BarrierStep(t) ==
  \/ CallStep(t)
  \/ (WaitStep(t) \/ BroadcastStep(t)) /\ UNCHANGED barrierVars

=============================================================================
