---------------------------- MODULE WinCondition ----------------------------
(***************************************************************************)
(* OS::WinCondition (src/Engine/mrayWin32/WinCondition.cpp), the condition *)
(* variable every blocking primitive of the engine is built on, together   *)
(* with the one OS::IMutex it is used with.  It is written with two        *)
(* kernel objects, a counting semaphore and an auto-reset event, and with  *)
(* counters that are touched one interlocked operation at a time: this     *)
(* module keeps each of these operations a step of its own, because other  *)
(* threads run between them.                                               *)
(*                                                                         *)
(* The module has no Next: modules that use a condition variable extend    *)
(* it.  Calling wait, signal or broadcast is one of the actions WaitBegin, *)
(* SignalRead and BroadcastRead; the call then runs through the steps of   *)
(* CondStep, and it has returned when cstep[t] is "none" again.            *)
(***************************************************************************)
EXTENDS Naturals

CONSTANTS Threads,   \* the threads that share the mutex and the condition
          NoThread   \* "the mutex is free"

ASSUME NoThreadAssumption == NoThread \notin Threads

VARIABLES mutex,         \* the thread inside the critical section, or NoThread
          waiters,       \* m_waiters
          sema,          \* count of the semaphore m_sema
          waitersDone,   \* the auto-reset event m_waitersDone is signalled
          wasBroadcast,  \* m_wasBroadcast
          cstep          \* where each thread is inside a condition call

condVars == <<mutex, waiters, sema, waitersDone, wasBroadcast, cstep>>

CondSteps ==
  {"none",
   "acquire", "decrement", "readWaiters", "testBroadcast", "setDone", "relock",
   "release",
   "setBroadcast", "releaseAll", "waitDone", "clearBroadcast"}

CondTypeOK ==
  /\ mutex \in Threads \cup {NoThread}
  /\ waiters \in Nat
  /\ sema \in Nat
  /\ waitersDone \in BOOLEAN
  /\ wasBroadcast \in BOOLEAN
  /\ cstep \in [Threads -> CondSteps]

CondInit ==
  /\ mutex = NoThread
  /\ waiters = 0
  /\ sema = 0
  /\ waitersDone = FALSE
  /\ wasBroadcast = FALSE
  /\ cstep = [t \in Threads |-> "none"]

Goto(t, s) == cstep' = [cstep EXCEPT ![t] = s]

\* Thread t runs its own code: it is not inside a condition call.
Running(t) == cstep[t] = "none"

-----------------------------------------------------------------------------
(* IMutex: a critical section.                                             *)

Lock(t) ==
  /\ mutex = NoThread
  /\ mutex' = t

Unlock(t) ==
  /\ mutex = t
  /\ mutex' = NoThread

-----------------------------------------------------------------------------
(* wait(m): called with the mutex held.  The interlocked increment is made *)
(* before the mutex is released, so one step stands for both.              *)

WaitBegin(t) ==
  /\ Running(t)
  /\ waiters' = waiters + 1
  /\ Unlock(t)
  /\ Goto(t, "acquire")
  /\ UNCHANGED <<sema, waitersDone, wasBroadcast>>

\* cooperativeWait(m_sema, INFINITE).  The cancel event it also waits for is
\* created by WinThread and set by no code, so it never ends the wait.
WaitAcquire(t) ==
  /\ cstep[t] = "acquire"
  /\ sema > 0
  /\ sema' = sema - 1
  /\ Goto(t, "decrement")
  /\ UNCHANGED <<mutex, waiters, waitersDone, wasBroadcast>>

WaitDecrement(t) ==
  /\ cstep[t] = "decrement"
  /\ waiters' = waiters - 1
  /\ Goto(t, "readWaiters")
  /\ UNCHANGED <<mutex, sema, waitersDone, wasBroadcast>>

\* Variant: the waiter tests the counter as it was before its decrement.
WaitReadWaitersOld(t) ==
  /\ cstep[t] = "readWaiters"
  /\ Goto(t, IF waiters = 1 THEN "testBroadcast" ELSE "relock")
  /\ UNCHANGED <<mutex, waiters, sema, waitersDone, wasBroadcast>>

\* The second interlocked operation: another waiter may have decremented the
\* counter since, and then both read zero.
WaitReadWaiters(t) ==
  /\ cstep[t] = "readWaiters"
  /\ Goto(t, IF waiters = 0 THEN "testBroadcast" ELSE "relock")
  /\ UNCHANGED <<mutex, waiters, sema, waitersDone, wasBroadcast>>

WaitTestBroadcast(t) ==
  /\ cstep[t] = "testBroadcast"
  /\ Goto(t, IF wasBroadcast THEN "setDone" ELSE "relock")
  /\ UNCHANGED <<mutex, waiters, sema, waitersDone, wasBroadcast>>

WaitSetDone(t) ==
  /\ cstep[t] = "setDone"
  /\ waitersDone' = TRUE
  /\ Goto(t, "relock")
  /\ UNCHANGED <<mutex, waiters, sema, wasBroadcast>>

\* ~ReverseScopedLock: wait returns with the mutex held again.
WaitRelock(t) ==
  /\ cstep[t] = "relock"
  /\ Lock(t)
  /\ Goto(t, "none")
  /\ UNCHANGED <<waiters, sema, waitersDone, wasBroadcast>>

-----------------------------------------------------------------------------
(* signal(): the mutex need not be held; the counter is read, and the      *)
(* semaphore released in a later step.                                     *)

SignalRead(t) ==
  /\ Running(t)
  /\ Goto(t, IF waiters > 0 THEN "release" ELSE "none")
  /\ UNCHANGED <<mutex, waiters, sema, waitersDone, wasBroadcast>>

SignalRelease(t) ==
  /\ cstep[t] = "release"
  /\ sema' = sema + 1
  /\ Goto(t, "none")
  /\ UNCHANGED <<mutex, waiters, waitersDone, wasBroadcast>>

-----------------------------------------------------------------------------
(* broadcast(): one token per waiter, then wait for the last of them.  The *)
(* counter is read twice, before and after m_wasBroadcast is set; a        *)
(* ReleaseSemaphore of zero tokens fails and changes nothing.              *)

BroadcastRead(t) ==
  /\ Running(t)
  /\ Goto(t, IF waiters > 0 THEN "setBroadcast" ELSE "none")
  /\ UNCHANGED <<mutex, waiters, sema, waitersDone, wasBroadcast>>

BroadcastSet(t) ==
  /\ cstep[t] = "setBroadcast"
  /\ wasBroadcast' = TRUE
  /\ Goto(t, "releaseAll")
  /\ UNCHANGED <<mutex, waiters, sema, waitersDone>>

BroadcastRelease(t) ==
  /\ cstep[t] = "releaseAll"
  /\ sema' = sema + waiters
  /\ Goto(t, "waitDone")
  /\ UNCHANGED <<mutex, waiters, waitersDone, wasBroadcast>>

BroadcastWaitDone(t) ==
  /\ cstep[t] = "waitDone"
  /\ waitersDone
  /\ waitersDone' = FALSE
  /\ Goto(t, "clearBroadcast")
  /\ UNCHANGED <<mutex, waiters, sema, wasBroadcast>>

BroadcastClear(t) ==
  /\ cstep[t] = "clearBroadcast"
  /\ wasBroadcast' = FALSE
  /\ Goto(t, "none")
  /\ UNCHANGED <<mutex, waiters, sema, waitersDone>>

-----------------------------------------------------------------------------
(* The steps of a call in progress.                                        *)

WaitStep(t) ==
  \/ WaitAcquire(t)
  \/ WaitDecrement(t)
  \/ WaitReadWaiters(t)
  \/ WaitTestBroadcast(t)
  \/ WaitSetDone(t)
  \/ WaitRelock(t)

BroadcastStep(t) ==
  \/ BroadcastSet(t)
  \/ BroadcastRelease(t)
  \/ BroadcastWaitDone(t)
  \/ BroadcastClear(t)

=============================================================================
