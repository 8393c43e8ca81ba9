--------------------------- MODULE FrameJobsProofs ---------------------------
(***************************************************************************)
(* Proofs about FrameJobs, for any number of queues, jobs, pieces and      *)
(* frames.                                                                 *)
(*                                                                         *)
(* The argument: while the jobs of a frame are out, each of them is with   *)
(* one worker, once (DealtOnce), and each piece is in one job, once        *)
(* (CutOnce).  So the jobs that have not signalled can be counted, and the *)
(* counter of the barrier lacks just them (CountMatchesJobs): the main     *)
(* thread is released by the last signal and not before.  Where a worker   *)
(* is in its job then tells which pieces have been executed (Progress).    *)
(***************************************************************************)
EXTENDS FrameJobs, DistinctSeqs, FiniteSetTheorems

\* The jobs of the frame are out: they are being submitted, or the main thread
\* waits for them at the barrier.
JobsOut ==
  \/ mpc \in {"submit", "best", "end"} /\ Outside(Main)
  \/ bstep[Main] = "enter"
  \/ Blocked

\* Where the main thread is inside the barrier, and in which call.
MainAt ==
  /\ bstep[Main] \in {"release", "setMax", "setLocks"} => mpc = "submit"
  /\ bstep[Main] \in {"enter", "check"} => mpc = "report"
  /\ bstep[Main] \in {"broadcast", "leave"} => mpc \in {"submit", "report", "inlineDone"}
  /\ IF mpc = "submit" /\ ~Outside(Main)
       THEN mj = 0 /\ target[Main] = used + 1
       ELSE target[Main] = 0
  /\ bstep[Main] = "setLocks" => maxLocks = used + 1
  /\ mpc \in {"submit", "best", "end", "report"} => isMT /\ used = Cardinality(Busy)
  /\ mpc \in {"inline", "inlineDone"} => ~isMT
  /\ mpc = "inlineDone" => mj < JobCount
  /\ mpc = "best" => mj \in Busy

\* The workers only signal the barrier, from ExecuteJob.
WorkersAt ==
  \A w \in Workers :
    /\ bstep[w] \in {"out", "broadcast", "leave"}
    /\ bstep[w] # "out" => wpc[w] = "signalled"
    /\ target[w] = 0
    /\ wpc[w] # "idle" => batch[w] # <<>>
    /\ wpc[w] = "pieces" => pos[w] <= Len(pieces[Head(batch[w])]) + 1

\* Nobody but the main thread waits on the condition variable.
MainWaits ==
  /\ waiters = IF cstep[Main] \in {"acquire", "decrement"} THEN 1 ELSE 0
  /\ \A w \in Workers :
       cstep[w] \in {"none", "setBroadcast", "releaseAll", "waitDone", "clearBroadcast"}

\* The jobs a worker has taken and not counted at the barrier.
InHand(w) == IF wpc[w] = "signalled" THEN Tail(batch[w]) ELSE batch[w]

\* Each job is with one worker, once, and only while the jobs are out.
DealtOnce ==
  /\ \A w \in Workers :
       /\ IsInjective(requests[w]) /\ IsInjective(batch[w])
       /\ ToSet(requests[w]) \cap ToSet(InHand(w)) = {}
       /\ Due(w) \subseteq Busy
       /\ ~JobsOut => Due(w) = {}
       /\ mpc \in {"submit", "best"} => \A j \in Due(w) : j < mj
  /\ \A v, w \in Workers : v # w => Due(v) \cap Due(w) = {}

\* Each piece is in one job, once.
CutOnce ==
  /\ \A j \in Jobs : IsInjective(pieces[j])
  /\ \A j, k \in Jobs : j # k => ToSet(pieces[j]) \cap ToSet(pieces[k]) = {}

\* A worker is in job j and past its i-th piece.
Behind(j, i) == \E w \in Workers : wpc[w] = "pieces" /\ Head(batch[w]) = j /\ i < pos[w]

\* The i-th piece of job j has been executed in this frame.
Ran(j, i) ==
  \/ mpc = "frame"
  \/ mpc = "inline" /\ j < mj
  \/ mpc = "inlineDone" /\ j <= mj
  \/ /\ mpc \in {"submit", "best", "end", "report"}
     /\ j \notin Unsignalled \/ Behind(j, i)

\* The listeners of job j have been called in this frame.
Told(j) == mpc = "frame" \/ (mpc \in {"report", "inline", "inlineDone"} /\ j < mj)

Progress ==
  /\ \A p \in Pieces \ Added : executed[p] = 0 /\ reported[p] = 0
  /\ \A j \in Jobs : \A i \in DOMAIN pieces[j] :
       /\ executed[pieces[j][i]] = IF Ran(j, i) THEN 1 ELSE 0
       /\ reported[pieces[j][i]] = IF Told(j) THEN 1 ELSE 0

Inv ==
  TypeOK /\ MainAt /\ WorkersAt /\ MainWaits /\ DealtOnce /\ CutOnce /\ CountMatchesJobs /\ Progress

-----------------------------------------------------------------------------
(* The constants, and what depends on the pieces and the queues alone.     *)

LEMMA WorkersTyped ==
  /\ Workers \subseteq Threads \ {Main} /\ Main \in Threads
  /\ \A i \in DOMAIN Queues : Queues[i] \in Workers
  /\ 1 \in DOMAIN Queues /\ DOMAIN Queues = 1..Len(Queues) /\ Len(Queues) \in Nat
  /\ JobCount \in Nat \ {0} /\ MaxPieces \in Nat /\ MaxFrames \in Nat
  /\ 0 \in Jobs
<1>1. Queues \in Seq(Threads \ {Main}) /\ Queues # <<>>
  BY FrameAssumption
<1>2. Len(Queues) \in Nat \ {0} /\ DOMAIN Queues = 1..Len(Queues)
  BY <1>1
<1> QED
  BY <1>1, <1>2, FrameAssumption DEF Workers, ToSet, Jobs

LEMMA JobsCounted ==
  ASSUME NEW S, S \subseteq Jobs
  PROVE  IsFiniteSet(S) /\ Cardinality(S) \in 0..JobCount
<1>1. IsFiniteSet(Jobs) /\ Cardinality(Jobs) = JobCount
  <2>1. 0 \in Int /\ JobCount - 1 \in Int /\ ~(0 > JobCount - 1)
    BY WorkersTyped
  <2> QED
    BY <2>1, FS_Interval, WorkersTyped DEF Jobs
<1>2. IsFiniteSet(S) /\ Cardinality(S) <= Cardinality(Jobs)
  BY <1>1, FS_Subset
<1>3. Cardinality(S) \in Nat
  BY <1>2, FS_CardinalityType
<1> QED
  BY <1>1, <1>2, <1>3, WorkersTyped

LEMMA InvInit == Init => Inv
<1> SUFFICES ASSUME Init PROVE Inv
  OBVIOUS
<1>1. \A j \in Jobs : pieces[j] = <<>> /\ ToSet(pieces[j]) = {} /\ IsInjective(pieces[j])
  BY ToSetEmpty DEF Init
<1>2. \A w \in Workers : /\ wpc[w] = "idle" /\ requests[w] = <<>> /\ batch[w] = <<>>
                         /\ InHand(w) = <<>> /\ Due(w) = {}
                         /\ IsInjective(requests[w]) /\ IsInjective(batch[w])
  BY ToSetEmpty DEF Init, InHand, Due
<1>3. ~JobsOut
  BY WorkersTyped DEF Init, BarrierInit, JobsOut, Blocked
<1>4. TypeOK
  <2>1. /\ pieces \in [Jobs -> Seq(Pieces)]
        /\ requests \in [Workers -> Seq(Jobs)] /\ batch \in [Workers -> Seq(Jobs)]
    BY DEF Init
  <2>2. BarrierTypeOK
    BY DEF Init, BarrierInit, BarrierTypeOK, CondInit, CondTypeOK, CondSteps, BarrierSteps
  <2>3. /\ used \in 0..JobCount /\ mj \in 0..JobCount /\ frames \in 0..MaxFrames
        /\ mq \in 1..(Len(Queues) + 1) /\ bestQ \in DOMAIN Queues /\ currStack \in Jobs
    BY WorkersTyped DEF Init
  <2>4. /\ wpc \in [Workers -> {"idle", "pieces", "signalled"}] /\ pos \in [Workers -> Nat \ {0}]
        /\ executed \in [Pieces -> Nat] /\ reported \in [Pieces -> Nat]
        /\ bestCnt \in Nat /\ mpc \in MainSteps
    BY DEF Init, MainSteps
  <2>5. isMT \in BOOLEAN
    BY Zenon DEF Init
  <2> QED
    BY <2>1, <2>2, <2>3, <2>4, <2>5 DEF TypeOK
<1>5. MainAt /\ WorkersAt /\ MainWaits
  BY WorkersTyped DEF Init, BarrierInit, CondInit, MainAt, WorkersAt, MainWaits, Outside
<1>6. DealtOnce /\ CutOnce
  <2>1. \A w \in Workers : ToSet(requests[w]) \cap ToSet(InHand(w)) = {}
    BY <1>2, ToSetEmpty
  <2> QED
    BY <1>1, <1>2, <2>1 DEF DealtOnce, CutOnce
<1>7. CountMatchesJobs
  BY <1>3 DEF CountMatchesJobs, JobsOut
<1>8. Progress
  BY <1>1 DEF Progress, Init
<1> QED
  BY <1>4, <1>5, <1>6, <1>7, <1>8 DEF Inv

-----------------------------------------------------------------------------
(* When the jobs are not out nothing is with the workers, and they are not *)
(* in ExecuteJob.                                                          *)

LEMMA NoElements ==
  ASSUME NEW S, NEW s \in Seq(S)
  PROVE  /\ ToSet(s) = {} => s = <<>>
         /\ s # <<>> => Head(s) \in ToSet(s) /\ Head(s) \in S
<1>1. s # <<>> => Head(s) \in ToSet(s)
  BY ToSetTail
<1> QED
  BY <1>1

LEMMA HandsTyped ==
  ASSUME Inv, NEW w \in Workers
  PROVE  /\ InHand(w) \in Seq(Jobs) /\ requests[w] \in Seq(Jobs) /\ batch[w] \in Seq(Jobs)
         /\ Due(w) = ToSet(requests[w]) \cup ToSet(InHand(w)) /\ Due(w) \subseteq Busy
         /\ wpc[w] = "pieces" => /\ batch[w] # <<>> /\ InHand(w) = batch[w]
                                 /\ Head(batch[w]) \in Due(w) /\ Head(batch[w]) \in Jobs
<1>1. /\ requests[w] \in Seq(Jobs) /\ batch[w] \in Seq(Jobs) /\ Due(w) \subseteq Busy
      /\ wpc[w] # "idle" => batch[w] # <<>>
      /\ wpc[w] \in {"idle", "pieces", "signalled"}
  BY DEF Inv, TypeOK, WorkersAt, DealtOnce
<1>2. InHand(w) \in Seq(Jobs)
  BY <1>1, ToSetTail DEF InHand
<1>3. Due(w) = ToSet(requests[w]) \cup ToSet(InHand(w))
  BY DEF Due, InHand
<1>4. CASE wpc[w] = "pieces"
  <2>1. batch[w] # <<>> /\ InHand(w) = batch[w]
    BY <1>1, <1>4 DEF InHand
  <2> QED
    BY <1>1, <1>2, <1>3, <2>1, NoElements
<1> QED
  BY <1>1, <1>2, <1>3, <1>4

LEMMA NothingDue ==
  ASSUME Inv, ~JobsOut, NEW w \in Workers
  PROVE  requests[w] = <<>> /\ InHand(w) = <<>> /\ wpc[w] # "pieces"
<1>1. Due(w) = {}
  BY DEF Inv, DealtOnce
<1> QED
  BY <1>1, HandsTyped, NoElements

LEMMA WhenJobsOut ==
  ASSUME Inv
  PROVE  /\ JobsOut => mpc \in {"submit", "best", "end", "report"}
         /\ mpc = "report" /\ Outside(Main) => ~JobsOut
         /\ mpc = "submit" /\ ~Outside(Main) => ~JobsOut
         /\ mpc \in {"best", "end", "reset", "fill", "frame", "inline"} => Outside(Main)
BY WorkersTyped DEF Inv, MainAt, JobsOut, Blocked, Outside, TypeOK, BarrierTypeOK, BarrierSteps

LEMMA UnsignalledCounted ==
  ASSUME Inv
  PROVE  /\ Unsignalled \subseteq Busy /\ Busy \subseteq Jobs
         /\ IsFiniteSet(Unsignalled) /\ Cardinality(Unsignalled) \in Nat
         /\ Cardinality(Unsignalled) = 0 <=> Unsignalled = {}
         /\ ~JobsOut /\ mpc \notin {"submit", "best"} => Unsignalled = {}
         /\ \A w \in Workers : Due(w) \subseteq Unsignalled
<1>1. Unsignalled \subseteq Busy /\ Busy \subseteq Jobs
  <2>1. Busy \subseteq Jobs
    BY DEF Busy
  <2>2. \A w \in Workers : Due(w) \subseteq Busy
    BY DEF Inv, DealtOnce
  <2> QED
    BY <2>1, <2>2 DEF Unsignalled
<1>2. IsFiniteSet(Unsignalled)
  BY <1>1, JobsCounted
<1>3. ~JobsOut /\ mpc \notin {"submit", "best"} => Unsignalled = {}
  BY DEF Inv, DealtOnce, Unsignalled
<1>4. \A w \in Workers : Due(w) \subseteq Unsignalled
  BY DEF Unsignalled
<1> QED
  BY <1>1, <1>2, <1>3, <1>4, FS_CardinalityType, FS_EmptySet

LEMMA RemoveFirstNothing ==
  ASSUME NEW x
  PROVE  RemoveFirst(<<>>, x) = <<>>
BY DEF RemoveFirst

-----------------------------------------------------------------------------
(* Types, and the condition variable: the main thread counts itself in and *)
(* out of m_waiters, so the counter does not fall below zero.              *)

LEMMA CondKept ==
  ASSUME Inv, [Next]_vars
  PROVE  CondTypeOK' /\ MainWaits'
<1> USE DEF CondTypeOK, CondSteps
<1> DEFINE Users == Workers \cup {Main}
<1>1. CondTypeOK /\ MainWaits /\ WorkersAt /\ Main \in Threads /\ Workers \subseteq Threads \ {Main}
  BY WorkersTyped DEF Inv, TypeOK, BarrierTypeOK
<1>2. CASE UNCHANGED condVars
  BY <1>1, <1>2 DEF MainWaits, condVars
<1>3. ASSUME NEW t \in Users, BlockArriveLast(t) \/ BlockArriveEarly(t) \/ BlockReturn(t)
                              \/ LeaveBroadcast(t) \/ Release(t) \/ SignalArriveLast(t)
      PROVE  CondTypeOK' /\ MainWaits'
  <2>1. UNCHANGED <<waiters, sema, waitersDone, wasBroadcast, cstep>>
        /\ mutex' \in Threads \cup {NoThread}
    BY <1>1, <1>3 DEF BlockArriveLast, BlockArriveEarly, BlockReturn, LeaveBroadcast, Release,
                      SignalArriveLast, Lock, Unlock
  <2> QED
    BY <1>1, <2>1 DEF MainWaits
<1>4. ASSUME NEW t \in Users, BlockWait(t)
      PROVE  CondTypeOK' /\ MainWaits'
  <2>1. /\ t = Main /\ cstep[t] = "none" /\ waiters' = waiters + 1
        /\ cstep' = [cstep EXCEPT ![t] = "acquire"] /\ mutex' = NoThread
        /\ UNCHANGED <<sema, waitersDone, wasBroadcast>>
    BY <1>1, <1>4 DEF BlockWait, WaitBegin, Running, Unlock, Goto, WorkersAt
  <2> QED
    BY <1>1, <2>1 DEF MainWaits
<1>5. ASSUME NEW t \in Users, WaitStep(t)
      PROVE  CondTypeOK' /\ MainWaits'
  <2> USE DEF WaitStep, WaitAcquire, WaitDecrement, WaitReadWaiters, WaitTestBroadcast, WaitSetDone,
              WaitRelock
  <2>1. /\ t = Main
        /\ cstep' \in [Threads -> CondSteps]
        /\ \A w \in Workers : cstep'[w] = cstep[w]
    BY <1>1, <1>5 DEF Goto, MainWaits
  <2>2. /\ waiters' = IF cstep'[Main] \in {"acquire", "decrement"} THEN 1 ELSE 0
        /\ waiters' \in Nat
    BY <1>1, <1>5, <2>1 DEF Goto, MainWaits
  <2>3. mutex' \in Threads \cup {NoThread} /\ sema' \in Nat
    BY <1>1, <1>5 DEF Lock
  <2>4. waitersDone' \in BOOLEAN /\ wasBroadcast' \in BOOLEAN
    BY <1>1, <1>5, Zenon
  <2> QED
    BY <1>1, <2>1, <2>2, <2>3, <2>4 DEF MainWaits
<1>6. ASSUME NEW t \in Users, BroadcastRead(t) \/ BroadcastStep(t)
      PROVE  CondTypeOK' /\ MainWaits'
  <2> USE <1>1, <1>6 DEF BroadcastStep, BroadcastRead, BroadcastSet, BroadcastRelease,
                         BroadcastWaitDone, BroadcastClear
  <2>1. /\ waiters' = waiters /\ cstep' \in [Threads -> CondSteps]
        /\ cstep[t] \notin {"acquire", "decrement"} /\ cstep'[t] \notin {"acquire", "decrement"}
        /\ \A u \in Threads \ {t} : cstep'[u] = cstep[u]
        /\ cstep'[t] \in {"none", "setBroadcast", "releaseAll", "waitDone", "clearBroadcast"}
    BY DEF Running, Goto
  <2>2. mutex' \in Threads \cup {NoThread} /\ sema' \in Nat
    OBVIOUS
  <2>3. waitersDone' \in BOOLEAN /\ wasBroadcast' \in BOOLEAN
    BY Zenon
  <2> QED
    BY <2>1, <2>2, <2>3 DEF MainWaits
<1>7. ASSUME NEW t \in Users, InBarrier(t)
      PROVE  CondTypeOK' /\ MainWaits'
  BY <1>2, <1>3, <1>4, <1>5, <1>6, <1>7
     DEF InBarrier, BarrierStep, CallStep, BroadcastCall, SetMaxLocks, ResetLocks
<1>8. ASSUME NEW t \in Users, SignalCall(t)
      PROVE  CondTypeOK' /\ MainWaits'
  BY <1>2, <1>3, <1>8 DEF SignalCall, SignalArriveEarly
<1>9. ASSUME NEW w \in Workers, WorkerStep(w)
      PROVE  CondTypeOK' /\ MainWaits'
  BY <1>2, <1>8, <1>9 DEF WorkerStep, TakeBatch, StartJob, ExecutePiece, SignalJob, FinishJob
<1>10. CASE MainStep
  BY <1>2, <1>8, <1>10
     DEF MainStep, ResetJob, ResetDone, AddPiece, BeginProcessing, SetTargetCount, SkipJob, SubmitJob,
         ReadOrdersCount, AddRequest, SubmitDone, EndProcessing, BlockCall, ReportJob, BeginInline,
         InlineJob, InlineReport, FrameDone
<1> QED
  BY <1>2, <1>7, <1>9, <1>10 DEF Next, vars, StartFrame

BarrierTypes ==
  /\ locks \in Nat
  /\ maxLocks \in Nat
  /\ phase \in {0, 1}
  /\ myPhase \in [Threads -> {0, 1}]
  /\ target \in [Threads -> Nat]
  /\ bstep \in [Threads -> BarrierSteps]

ManagerTypes ==
  /\ pieces \in [Jobs -> Seq(Pieces)]
  /\ currStack \in Jobs
  /\ used \in 0..JobCount
  /\ mpc \in MainSteps
  /\ mj \in 0..JobCount
  /\ mq \in 1..(Len(Queues) + 1)
  /\ bestQ \in DOMAIN Queues
  /\ bestCnt \in Nat
  /\ frames \in 0..MaxFrames

PoolTypes ==
  /\ requests \in [Workers -> Seq(Jobs)]
  /\ batch \in [Workers -> Seq(Jobs)]
  /\ wpc \in [Workers -> {"idle", "pieces", "signalled"}]
  /\ pos \in [Workers -> Nat \ {0}]

HistoryTypes == executed \in [Pieces -> Nat] /\ reported \in [Pieces -> Nat]

LEMMA TypesTogether ==
  TypeOK <=> /\ CondTypeOK /\ BarrierTypes /\ ManagerTypes /\ PoolTypes /\ HistoryTypes
             /\ isMT \in BOOLEAN
BY DEF TypeOK, BarrierTypeOK, BarrierTypes, ManagerTypes, PoolTypes, HistoryTypes

LEMMA CallTyped ==
  ASSUME BarrierTypes, NEW t \in Threads, CallStep(t) \/ SignalCall(t)
  PROVE  BarrierTypes'
<1> USE DEF BarrierTypes, BGoto, BarrierSteps, NextPhase
<1>1. CASE BlockArriveLast(t) \/ BlockArriveEarly(t)
  BY <1>1 DEF BlockArriveLast, BlockArriveEarly
<1>2. CASE BlockWait(t) \/ BlockReturn(t) \/ BroadcastCall(t) \/ LeaveBroadcast(t)
  BY <1>2 DEF BlockWait, BlockReturn, BroadcastCall, LeaveBroadcast, barrierVars
<1>3. CASE Release(t) \/ SetMaxLocks(t) \/ ResetLocks(t)
  BY <1>3 DEF Release, SetMaxLocks, ResetLocks
<1>4. CASE SignalArriveLast(t) \/ SignalArriveEarly(t)
  BY <1>4 DEF SignalArriveLast, SignalArriveEarly
<1> QED
  BY <1>1, <1>2, <1>3, <1>4 DEF CallStep, SignalCall

LEMMA SetupTyped ==
  ASSUME BarrierTypes, NEW t \in Threads, NEW n \in Nat, SetTargetCount(t, n) \/ BlockCall(t, n)
  PROVE  BarrierTypes'
BY DEF SetTargetCount, BlockCall, BarrierTypes, BGoto, BarrierSteps

LEMMA BarrierTyped ==
  ASSUME Inv, [Next]_vars
  PROVE  BarrierTypes'
<1>1. BarrierTypes /\ ManagerTypes
  BY TypesTogether DEF Inv
<1>2. Cardinality(Busy) + 1 \in Nat /\ used + 1 \in Nat
  BY <1>1, JobsCounted DEF Busy, ManagerTypes
<1>3. CASE UNCHANGED barrierVars
  BY <1>1, <1>3 DEF barrierVars, BarrierTypes
<1>4. ASSUME NEW w \in Workers, WorkerStep(w)
      PROVE  BarrierTypes'
  BY <1>1, <1>3, <1>4, CallTyped, WorkersTyped
     DEF WorkerStep, TakeBatch, StartJob, ExecutePiece, SignalJob, FinishJob
<1>5. CASE MainStep
  BY <1>1, <1>2, <1>3, <1>5, CallTyped, SetupTyped, WorkersTyped
     DEF MainStep, ResetJob, ResetDone, AddPiece, BeginProcessing, SkipJob, SubmitJob,
         ReadOrdersCount, AddRequest, SubmitDone, EndProcessing, ReportJob, BeginInline,
         InlineJob, InlineReport, FrameDone
<1>6. ASSUME NEW t \in Workers \cup {Main}, InBarrier(t)
      PROVE  BarrierTypes'
  BY <1>1, <1>3, <1>6, CallTyped, WorkersTyped DEF InBarrier, BarrierStep
<1> QED
  BY <1>3, <1>4, <1>5, <1>6 DEF Next, vars, StartFrame

LEMMA ModeTyped ==
  ASSUME Inv, [Next]_vars
  PROVE  isMT' \in BOOLEAN
<1>1. ASSUME NEW mt \in BOOLEAN, NEW reset \in BOOLEAN, StartFrame(mt, reset)
      PROVE  isMT' \in BOOLEAN
  BY <1>1, Zenon DEF StartFrame
<1>2. CASE isMT' = isMT
  <2>1. isMT \in BOOLEAN
    BY TypesTogether DEF Inv
  <2> QED
    BY <1>2, <2>1, Zenon
<1>3. MainStep => isMT' = isMT
  BY DEF MainStep, ResetJob, ResetDone, AddPiece, BeginProcessing, SkipJob, SubmitJob,
         ReadOrdersCount, AddRequest, SubmitDone, EndProcessing, ReportJob, BeginInline,
         InlineJob, InlineReport, FrameDone
<1> QED
  BY <1>1, <1>2, <1>3
     DEF Next, WorkerStep, TakeBatch, StartJob, ExecutePiece, SignalJob, FinishJob,
         InBarrier, managerVars, vars

LEMMA ManagerTyped ==
  ASSUME Inv, [Next]_vars
  PROVE  ManagerTypes'
<1>1. ManagerTypes /\ PoolTypes /\ Cardinality(Busy) \in 0..JobCount
  BY TypesTogether, JobsCounted DEF Inv, Busy
<1>2. /\ mpc = "best" => mj \in Jobs /\ mj + 1 \in 0..JobCount
      /\ mj \in 0..JobCount /\ mj < JobCount => mj \in Jobs /\ mj + 1 \in 0..JobCount
      /\ mpc = "inlineDone" => mj + 1 \in 0..JobCount
  BY <1>1, WorkersTyped DEF Inv, MainAt, Busy, Jobs, ManagerTypes
<1> USE <1>1, <1>2, WorkersTyped DEF ManagerTypes, MainSteps
<1>3. CASE UNCHANGED managerVars
  BY <1>3 DEF managerVars
<1>4. ASSUME NEW mt \in BOOLEAN, NEW reset \in BOOLEAN, StartFrame(mt, reset)
      PROVE  ManagerTypes'
  BY <1>4 DEF StartFrame
<1>5. CASE ResetJob
  BY <1>5 DEF ResetJob
<1>6. CASE ResetDone \/ BeginProcessing \/ SubmitJob \/ SubmitDone \/ EndProcessing \/ BeginInline
  BY <1>6 DEF ResetDone, BeginProcessing, SubmitJob, SubmitDone, EndProcessing, BeginInline
<1>7. CASE AddPiece
  <2>1. (currStack + 1) % JobCount \in Jobs
    BY DEF Jobs
  <2>2. pieces' \in [Jobs -> Seq(Pieces)]
    BY <1>7 DEF AddPiece
  <2> QED
    BY <1>7, <2>1, <2>2 DEF AddPiece
<1>8. CASE ReadOrdersCount
  <2>1. mq \in DOMAIN Queues /\ mq + 1 \in 1..(Len(Queues) + 1)
    BY <1>8 DEF ReadOrdersCount
  <2>2. Len(requests[Queues[mq]]) \in Nat
    BY <2>1 DEF PoolTypes
  <2>3. bestQ' \in DOMAIN Queues
    BY <1>8, <2>1 DEF ReadOrdersCount
  <2>4. bestCnt' \in Nat
    BY <1>8, <2>2 DEF ReadOrdersCount
  <2> QED
    BY <1>8, <2>1, <2>3, <2>4 DEF ReadOrdersCount
<1>9. CASE SkipJob \/ AddRequest \/ ReportJob \/ InlineReport \/ InlineJob \/ FrameDone
  <2>1. mj' \in 0..JobCount /\ mpc' \in MainSteps
    BY <1>9 DEF SkipJob, AddRequest, ReportJob, InlineReport, InlineJob, FrameDone
  <2>2. UNCHANGED <<pieces, currStack, used, mq, bestQ, bestCnt, frames>>
    BY <1>9 DEF SkipJob, AddRequest, ReportJob, InlineReport, InlineJob, FrameDone
  <2> QED
    BY <2>1, <2>2
<1> QED
  BY <1>3, <1>4, <1>5, <1>6, <1>7, <1>8, <1>9
     DEF Next, MainStep, WorkerStep, TakeBatch, StartJob, ExecutePiece, SignalJob, FinishJob,
         InBarrier, vars

LEMMA PoolTyped ==
  ASSUME Inv, [Next]_vars
  PROVE  PoolTypes'
<1>1. PoolTypes /\ ManagerTypes
  BY TypesTogether DEF Inv
<1>2. CASE UNCHANGED poolVars
  BY <1>1, <1>2 DEF poolVars, PoolTypes
<1>3. ASSUME NEW w \in Workers, WorkerStep(w)
      PROVE  PoolTypes'
  <2>1. batch[w] # <<>> => Tail(batch[w]) \in Seq(Jobs)
    BY <1>1 DEF PoolTypes
  <2>2. wpc[w] = "signalled" => batch[w] # <<>>
    BY DEF Inv, WorkersAt
  <2>3. CASE TakeBatch(w)
    BY <1>1, <2>3 DEF PoolTypes, TakeBatch
  <2>4. CASE StartJob(w)
    BY <1>1, <2>4 DEF PoolTypes, StartJob
  <2>5. CASE ExecutePiece(w)
    BY <1>1, <2>5 DEF PoolTypes, ExecutePiece
  <2>6. CASE SignalJob(w)
    BY <1>1, <2>6 DEF PoolTypes, SignalJob
  <2>7. CASE FinishJob(w)
    BY <1>1, <2>1, <2>2, <2>7 DEF PoolTypes, FinishJob
  <2> QED
    BY <1>3, <2>3, <2>4, <2>5, <2>6, <2>7 DEF WorkerStep
<1>4. CASE ResetJob
  <2>1. Queues[1] \in Workers /\ requests[Queues[1]] = <<>>
    BY <1>4, WorkersTyped, WhenJobsOut, NothingDue DEF ResetJob
  <2> QED
    BY <1>1, <1>4, <2>1, RemoveFirstNothing DEF ResetJob, PoolTypes
<1>5. CASE AddRequest
  <2>1. Queues[bestQ] \in Workers
    BY <1>1, WorkersTyped DEF ManagerTypes
  <2>2. mj \in Jobs
    BY <1>5 DEF AddRequest, Inv, MainAt, Busy
  <2> QED
    BY <1>1, <1>5, <2>1, <2>2 DEF AddRequest, PoolTypes
<1> QED
  BY <1>2, <1>3, <1>4, <1>5
     DEF Next, MainStep, StartFrame, ResetDone, AddPiece, BeginProcessing, SkipJob, SubmitJob,
         ReadOrdersCount, SubmitDone, EndProcessing, ReportJob, BeginInline,
         InlineJob, InlineReport, FrameDone, InBarrier, vars

LEMMA HistoryTyped ==
  ASSUME Inv, [Next]_vars
  PROVE  HistoryTypes'
<1>1. HistoryTypes /\ PoolTypes /\ ManagerTypes
  BY TypesTogether DEF Inv
<1>2. CASE UNCHANGED history
  BY <1>1, <1>2 DEF history, HistoryTypes
<1>3. ASSUME NEW w \in Workers, ExecutePiece(w)
      PROVE  HistoryTypes'
  <2>1. executed' \in [Pieces -> Nat] /\ reported' = reported
    <3> DEFINE p == pieces[Head(batch[w])][pos[w]]
    <3>1. executed' = [executed EXCEPT ![p] = @ + 1] /\ reported' = reported
      BY <1>3 DEF ExecutePiece
    <3>2. Head(batch[w]) \in Jobs
      BY <1>3, HandsTyped DEF ExecutePiece
    <3>3. p \in Pieces
      BY <1>1, <1>3, <3>2 DEF ExecutePiece, PoolTypes, ManagerTypes
    <3> HIDE DEF p
    <3> QED
      BY <1>1, <3>1, <3>3 DEF HistoryTypes
  <2> QED
    BY <1>1, <2>1 DEF HistoryTypes
<1>4. ASSUME NEW mt, NEW reset, StartFrame(mt, reset)
      PROVE  HistoryTypes'
  BY <1>4 DEF StartFrame, HistoryTypes
<1>5. CASE InlineJob
  BY <1>1, <1>5 DEF InlineJob, HistoryTypes
<1>6. CASE ReportJob \/ InlineReport
  BY <1>1, <1>6 DEF ReportJob, InlineReport, SignalJobsDone, HistoryTypes
<1> QED
  BY <1>2, <1>3, <1>4, <1>5, <1>6
     DEF Next, MainStep, ResetJob, ResetDone, AddPiece, BeginProcessing, SkipJob, SubmitJob,
         ReadOrdersCount, AddRequest, SubmitDone, EndProcessing, BeginInline, FrameDone, InBarrier,
         WorkerStep, TakeBatch, StartJob, SignalJob, FinishJob, vars

LEMMA TypeKept ==
  ASSUME Inv, [Next]_vars
  PROVE  TypeOK'
<1>1. TypeOK' <=> /\ CondTypeOK' /\ BarrierTypes' /\ ManagerTypes' /\ PoolTypes' /\ HistoryTypes'
                  /\ isMT' \in BOOLEAN
  BY DEF TypeOK, BarrierTypeOK, BarrierTypes, ManagerTypes, PoolTypes, HistoryTypes
<1> QED
  BY <1>1, CondKept, BarrierTyped, ManagerTyped, ModeTyped, PoolTyped, HistoryTyped

-----------------------------------------------------------------------------
(* The barrier.  A step that leaves the jobs where they are, and does not  *)
(* end the time they are out, changes only what the barrier counts.        *)

LEMMA CountAsOut ==
  CountMatchesJobs <=>
    (JobsOut => /\ maxLocks = used + 1
                /\ locks + Cardinality(Unsignalled) = used + (IF Blocked THEN 1 ELSE 0))
BY DEF CountMatchesJobs, JobsOut

LEMMA HandsStay ==
  ASSUME UNCHANGED <<pieces, requests, batch, wpc>>
  PROVE  /\ Busy' = Busy /\ Added' = Added /\ (CutOnce' <=> CutOnce)
         /\ \A w \in Workers : Due(w)' = Due(w) /\ InHand(w)' = InHand(w)
BY DEF Busy, Added, CutOnce, Due, InHand

LEMMA WorkStays ==
  ASSUME Inv, UNCHANGED <<pieces, requests, batch, wpc, pos, executed, reported, mpc, mj>>,
         JobsOut' \/ ~JobsOut \/ Unsignalled = {}
  PROVE  DealtOnce' /\ CutOnce' /\ Progress' /\ Unsignalled' = Unsignalled /\ Busy' = Busy
<1>1. /\ Busy' = Busy /\ Added' = Added /\ CutOnce'
      /\ \A w \in Workers : Due(w)' = Due(w) /\ InHand(w)' = InHand(w)
  BY HandsStay DEF Inv
<1>2. Unsignalled' = Unsignalled
  BY <1>1 DEF Unsignalled
<1>3. DealtOnce'
  <2>1. Unsignalled = {} => \A w \in Workers : Due(w) = {}
    BY DEF Unsignalled
  <2> QED
    BY <1>1, <2>1 DEF Inv, DealtOnce
<1>4. Progress'
  <2>1. \A j, i : (Ran(j, i)' <=> Ran(j, i)) /\ (Told(j)' <=> Told(j))
    BY <1>2 DEF Ran, Told, Behind
  <2> QED
    BY <1>1, <2>1 DEF Inv, Progress
<1> QED
  BY <1>1, <1>2, <1>3, <1>4

Work == MainAt /\ WorkersAt /\ DealtOnce /\ CutOnce /\ CountMatchesJobs /\ Progress

\* A worker that completed the count broadcasts and leaves.
LEMMA WorkerInBarrierKeeps ==
  ASSUME Inv, [Next]_vars, NEW w \in Workers, BroadcastCall(w) \/ LeaveBroadcast(w),
         UNCHANGED <<managerVars, poolVars, history>>
  PROVE  Work'
<1>1. /\ w # Main /\ w \in Threads /\ Main \in Threads /\ bstep \in [Threads -> BarrierSteps]
      /\ wpc[w] = "signalled" /\ target[w] = 0
  BY WorkersTyped DEF Inv, WorkersAt, BroadcastCall, LeaveBroadcast, TypeOK, BarrierTypeOK
<1>2. /\ UNCHANGED <<locks, maxLocks, phase, myPhase, target>>
      /\ \A t \in Threads \ {w} : bstep'[t] = bstep[t]
      /\ bstep'[w] \in {"leave", "out"}
  BY <1>1 DEF BroadcastCall, LeaveBroadcast, BGoto
<1>3. /\ UNCHANGED <<pieces, requests, batch, wpc, pos, executed, reported, mpc, mj, used, isMT>>
      /\ bstep'[Main] = bstep[Main]
  BY <1>1, <1>2 DEF managerVars, poolVars, history
<1>4. JobsOut' = JobsOut /\ Blocked' = Blocked /\ Outside(Main)' = Outside(Main)
  BY <1>2, <1>3 DEF JobsOut, Blocked, Outside
<1>5. DealtOnce' /\ CutOnce' /\ Progress' /\ Unsignalled' = Unsignalled /\ Busy' = Busy
  BY <1>3, <1>4, WorkStays
<1>6. MainAt'
  BY <1>2, <1>3, <1>4, <1>5 DEF Inv, MainAt
<1>7. WorkersAt'
  BY <1>1, <1>2, <1>3, WorkersTyped DEF Inv, WorkersAt
<1>8. CountMatchesJobs'
  BY <1>2, <1>3, <1>4, <1>5, CountAsOut DEF Inv, CountMatchesJobs, JobsOut
<1> QED
  BY <1>5, <1>6, <1>7, <1>8 DEF Work

LEMMA MainInBarrierKeeps ==
  ASSUME Inv, [Next]_vars, CallStep(Main), UNCHANGED <<managerVars, poolVars, history>>
  PROVE  Work'
<1>1. /\ Main \in Threads /\ Workers \subseteq Threads \ {Main}
      /\ bstep \in [Threads -> BarrierSteps] /\ myPhase \in [Threads -> {0, 1}]
      /\ target \in [Threads -> Nat] /\ locks \in Nat /\ used \in Nat
  BY WorkersTyped, TypesTogether DEF Inv, BarrierTypes, ManagerTypes
<1>2. /\ UNCHANGED <<pieces, requests, batch, wpc, pos, executed, reported, mpc, mj, used, isMT>>
      /\ Busy' = Busy
  BY DEF managerVars, poolVars, history, Busy
<1>3. \A w \in Workers : bstep'[w] = bstep[w] /\ target'[w] = target[w]
  BY <1>1 DEF CallStep, BlockArriveLast, BlockArriveEarly, BlockWait, BlockReturn, BroadcastCall,
              LeaveBroadcast, Release, SetMaxLocks, ResetLocks, BGoto, barrierVars
<1>4. WorkersAt'
  BY <1>2, <1>3 DEF Inv, WorkersAt
<1>5. MainAt /\ CountMatchesJobs
  BY DEF Inv
<1>6. /\ IsFiniteSet(Unsignalled) /\ Cardinality(Unsignalled) \in Nat
      /\ Cardinality(Unsignalled) = 0 <=> Unsignalled = {}
  BY UnsignalledCounted
<1>7. SUFFICES /\ JobsOut' \/ ~JobsOut \/ Unsignalled = {}
               /\ MainAt'
               /\ Unsignalled' = Unsignalled => CountMatchesJobs'
  BY <1>2, <1>4, WorkStays DEF Work
<1> USE <1>1, <1>2, <1>5 DEF Outside
<1>8. CASE BlockArriveLast(Main)
  <2>1. /\ bstep[Main] = "enter" /\ bstep'[Main] = "broadcast" /\ mpc = "report"
        /\ UNCHANGED <<maxLocks, target>> /\ locks + 1 = maxLocks
    BY <1>8 DEF BlockArriveLast, BGoto, MainAt
  <2>2. Unsignalled = {}
    BY <1>6, <2>1 DEF CountMatchesJobs, Blocked
  <2>3. ~JobsOut'
    BY <2>1 DEF JobsOut, Blocked
  <2>4. MainAt'
    BY <2>1 DEF MainAt
  <2> QED
    BY <2>2, <2>3, <2>4 DEF CountMatchesJobs, JobsOut
<1>9. CASE BlockArriveEarly(Main)
  <2>1. /\ bstep[Main] = "enter" /\ bstep'[Main] = "check" /\ mpc = "report"
        /\ UNCHANGED <<maxLocks, target, phase>> /\ myPhase'[Main] = phase /\ locks' = locks + 1
    BY <1>9 DEF BlockArriveEarly, BGoto, MainAt
  <2>2. Blocked' /\ JobsOut' /\ ~Blocked
    BY <2>1 DEF JobsOut, Blocked
  <2>3. MainAt'
    BY <2>1 DEF MainAt
  <2>4. maxLocks = used + 1 /\ locks + Cardinality(Unsignalled) = used
    BY <2>1, <2>2 DEF CountMatchesJobs
  <2> QED
    BY <1>6, <2>1, <2>2, <2>3, <2>4 DEF CountMatchesJobs
<1>10. CASE BlockWait(Main)
  <2>1. UNCHANGED barrierVars
    BY <1>10 DEF BlockWait
  <2> QED
    BY <2>1 DEF barrierVars, MainAt, JobsOut, Blocked, CountMatchesJobs
<1>11. CASE BlockReturn(Main)
  <2>1. /\ bstep[Main] = "check" /\ bstep'[Main] = "out" /\ mpc = "report"
        /\ UNCHANGED <<maxLocks, target>> /\ phase # myPhase[Main]
    BY <1>11 DEF BlockReturn, BGoto, MainAt
  <2>2. ~JobsOut /\ ~JobsOut'
    BY <2>1 DEF JobsOut, Blocked
  <2>3. MainAt'
    BY <2>1 DEF MainAt
  <2> QED
    BY <2>2, <2>3 DEF CountMatchesJobs, JobsOut
<1>12. CASE BroadcastCall(Main) \/ Release(Main)
  <2>1. /\ bstep[Main] \in {"broadcast", "release"} /\ bstep'[Main] \in {"leave", "broadcast"}
        /\ UNCHANGED <<maxLocks, target>>
        /\ bstep[Main] = "release" => mpc = "submit"
        /\ bstep[Main] = "broadcast" => mpc \in {"submit", "report", "inlineDone"}
    BY <1>12 DEF BroadcastCall, Release, BGoto, MainAt
  <2>2. ~JobsOut /\ ~JobsOut'
    BY <2>1 DEF JobsOut, Blocked
  <2>3. MainAt'
    BY <2>1 DEF MainAt
  <2> QED
    BY <2>2, <2>3 DEF CountMatchesJobs, JobsOut
<1>13. CASE LeaveBroadcast(Main)
  <2>1. /\ bstep[Main] = "leave" /\ bstep'[Main] = IF target[Main] > 0 THEN "setMax" ELSE "out"
        /\ UNCHANGED <<maxLocks, target>> /\ mpc \in {"submit", "report", "inlineDone"}
    BY <1>13 DEF LeaveBroadcast, BGoto, MainAt
  <2>2. target[Main] > 0 <=> mpc = "submit"
    BY <2>1 DEF MainAt
  <2>3. ~JobsOut /\ ~JobsOut'
    BY <2>1, <2>2 DEF JobsOut, Blocked
  <2>4. MainAt'
    BY <2>1, <2>2 DEF MainAt
  <2> QED
    BY <2>3, <2>4 DEF CountMatchesJobs, JobsOut
<1>14. CASE SetMaxLocks(Main)
  <2>1. /\ bstep[Main] = "setMax" /\ bstep'[Main] = "setLocks" /\ mpc = "submit"
        /\ maxLocks' = target[Main] /\ target' = target
    BY <1>14 DEF SetMaxLocks, BGoto, MainAt
  <2>2. ~JobsOut /\ ~JobsOut'
    BY <2>1 DEF JobsOut, Blocked
  <2>3. MainAt'
    BY <2>1 DEF MainAt
  <2> QED
    BY <2>2, <2>3 DEF CountMatchesJobs, JobsOut
<1>15. CASE ResetLocks(Main)
  <2>1. /\ bstep[Main] = "setLocks" /\ bstep'[Main] = "out" /\ mpc = "submit" /\ mj = 0
        /\ maxLocks' = maxLocks /\ maxLocks = used + 1 /\ locks' = 0 /\ target'[Main] = 0
    BY <1>15 DEF ResetLocks, BGoto, MainAt
  <2>2. ~JobsOut /\ ~Blocked'
    BY <2>1 DEF JobsOut, Blocked
  <2>3. MainAt'
    BY <2>1 DEF MainAt
  <2>4. Unsignalled = Busy
    <3>1. \A w \in Workers : Due(w) = {}
      BY <2>2 DEF Inv, DealtOnce
    <3>2. \A j \in Busy : j >= mj
      BY <2>1 DEF Busy, Jobs
    <3> QED
      BY <2>1, <3>1, <3>2 DEF Unsignalled
  <2>5. used = Cardinality(Busy)
    BY <2>1 DEF MainAt
  <2> QED
    BY <2>1, <2>2, <2>3, <2>4, <2>5 DEF CountMatchesJobs
<1> QED
  BY <1>8, <1>9, <1>10, <1>11, <1>12, <1>13, <1>14, <1>15 DEF CallStep

\* The steps of the condition variable change nothing else.
LEMMA BarrierKeeps ==
  ASSUME Inv, [Next]_vars, NEW t \in Workers \cup {Main}, InBarrier(t)
  PROVE  Work'
<1>1. UNCHANGED <<managerVars, poolVars, history>>
  BY DEF InBarrier
<1>2. CASE t = Main /\ CallStep(t)
  BY <1>1, <1>2, MainInBarrierKeeps
<1>3. CASE t \in Workers /\ CallStep(t)
  <2>1. bstep[t] \in {"out", "broadcast", "leave"}
    BY <1>3 DEF Inv, WorkersAt
  <2>2. BroadcastCall(t) \/ LeaveBroadcast(t)
    BY <1>3, <2>1 DEF CallStep, BlockArriveLast, BlockArriveEarly, BlockWait, BlockReturn,
                      Release, SetMaxLocks, ResetLocks
  <2> QED
    BY <1>1, <1>3, <2>2, WorkerInBarrierKeeps
<1>4. CASE UNCHANGED barrierVars
  <2>1. UNCHANGED <<pieces, requests, batch, wpc, pos, executed, reported, mpc, mj, used, isMT,
                    locks, maxLocks, phase, myPhase, target, bstep>>
    BY <1>1, <1>4 DEF managerVars, poolVars, history, barrierVars
  <2>2. JobsOut' = JobsOut /\ Blocked' = Blocked /\ Outside(Main)' = Outside(Main)
    BY <2>1 DEF JobsOut, Blocked, Outside
  <2>3. DealtOnce' /\ CutOnce' /\ Progress' /\ Unsignalled' = Unsignalled /\ Busy' = Busy
    BY <2>1, <2>2, WorkStays
  <2>4. MainAt' /\ WorkersAt' /\ CountMatchesJobs'
    BY <2>1, <2>2, <2>3 DEF Inv, MainAt, WorkersAt, CountMatchesJobs
  <2> QED
    BY <2>3, <2>4 DEF Work
<1> QED
  BY <1>2, <1>3, <1>4 DEF InBarrier, BarrierStep

-----------------------------------------------------------------------------
(* The workers.                                                            *)

\* A step that leaves every worker the jobs it has to count.
LEMMA DueStays ==
  ASSUME Inv, UNCHANGED <<barrierVars, managerVars>>,
         \A w \in Workers : Due(w)' = Due(w)
  PROVE  /\ MainAt' /\ CutOnce' /\ CountMatchesJobs'
         /\ JobsOut' = JobsOut /\ Unsignalled' = Unsignalled /\ Busy' = Busy /\ Added' = Added
         /\ UNCHANGED <<executed, reported>> =>
              ((\A j \in Jobs : \A i \in DOMAIN pieces[j] : Behind(j, i)' <=> Behind(j, i)) => Progress')
<1>1. UNCHANGED <<pieces, mpc, mj, used, isMT, locks, maxLocks, phase, myPhase, target, bstep>>
  BY DEF barrierVars, managerVars
<1>2. Busy' = Busy /\ Added' = Added /\ CutOnce'
  BY <1>1 DEF Busy, Added, Inv, CutOnce
<1>3. JobsOut' = JobsOut /\ Blocked' = Blocked /\ Outside(Main)' = Outside(Main)
  BY <1>1 DEF JobsOut, Blocked, Outside
<1>4. Unsignalled' = Unsignalled
  BY <1>1, <1>2 DEF Unsignalled
<1>5. MainAt' /\ CountMatchesJobs'
  BY <1>1, <1>2, <1>3, <1>4 DEF Inv, MainAt, CountMatchesJobs
<1>6. ASSUME UNCHANGED <<executed, reported>>,
             \A j \in Jobs : \A i \in DOMAIN pieces[j] : Behind(j, i)' <=> Behind(j, i)
      PROVE  Progress'
  <2>1. \A j \in Jobs : \A i \in DOMAIN pieces[j] : (Ran(j, i)' <=> Ran(j, i)) /\ (Told(j)' <=> Told(j))
    BY <1>1, <1>4, <1>6 DEF Ran, Told
  <2> QED
    BY <1>1, <1>2, <1>6, <2>1 DEF Inv, Progress
<1> QED
  BY <1>2, <1>3, <1>4, <1>5, <1>6

LEMMA TakeBatchKeeps ==
  ASSUME Inv, NEW w \in Workers, TakeBatch(w)
  PROVE  Work'
<1>1. /\ batch[w] = <<>> /\ wpc[w] = "idle"
      /\ UNCHANGED <<barrierVars, managerVars, executed, reported>>
  BY TypesTogether DEF TakeBatch, Inv, WorkersAt, PoolTypes, history
<1>2. /\ requests'[w] = <<>> /\ batch'[w] = requests[w] /\ UNCHANGED <<wpc, pos>>
      /\ \A v \in Workers \ {w} : requests'[v] = requests[v] /\ batch'[v] = batch[v]
  BY TypesTogether DEF TakeBatch, Inv, PoolTypes
<1>3. InHand(w) = <<>> /\ InHand(w)' = requests[w]
  BY <1>1, <1>2 DEF InHand
<1>4. \A v \in Workers : /\ Due(v)' = Due(v)
                         /\ v # w => InHand(v)' = InHand(v)
  BY <1>1, <1>2, <1>3, ToSetEmpty DEF Due, InHand
<1>5. \A j, i : Behind(j, i)' <=> Behind(j, i)
  BY <1>1, <1>2 DEF Behind
<1>6. /\ MainAt' /\ CutOnce' /\ CountMatchesJobs' /\ Progress'
      /\ JobsOut' = JobsOut /\ Busy' = Busy /\ UNCHANGED <<mpc, mj, pieces, bstep, target>>
  BY <1>1, <1>4, <1>5, DueStays DEF managerVars, barrierVars
<1>7. WorkersAt'
  BY <1>1, <1>2, <1>6 DEF Inv, WorkersAt
<1>8. DealtOnce'
  <2>1. \A v \in Workers : /\ IsInjective(requests'[v]) /\ IsInjective(batch'[v])
                           /\ ToSet(requests'[v]) \cap ToSet(InHand(v)') = {}
    BY <1>2, <1>3, <1>4, ToSetEmpty DEF Inv, DealtOnce
  <2> QED
    BY <1>4, <1>6, <2>1 DEF Inv, DealtOnce
<1> QED
  BY <1>6, <1>7, <1>8 DEF Work

LEMMA StartJobKeeps ==
  ASSUME Inv, NEW w \in Workers, StartJob(w)
  PROVE  Work'
<1>1. /\ wpc[w] = "idle" /\ batch[w] # <<>>
      /\ UNCHANGED <<barrierVars, managerVars, executed, reported, requests, batch>>
  BY DEF StartJob, history
<1>2. /\ wpc'[w] = "pieces" /\ pos'[w] = 1
      /\ \A v \in Workers \ {w} : wpc'[v] = wpc[v] /\ pos'[v] = pos[v]
  BY TypesTogether DEF StartJob, Inv, PoolTypes
<1>3. \A v \in Workers : Due(v)' = Due(v) /\ InHand(v)' = InHand(v)
  BY <1>1, <1>2 DEF Due, InHand
<1>4. \A j \in Jobs : \A i \in DOMAIN pieces[j] : Behind(j, i)' <=> Behind(j, i)
  <2>1. \A j \in Jobs : \A i \in DOMAIN pieces[j] : ~(i < 1)
    BY TypesTogether DEF Inv, ManagerTypes
  <2> QED
    BY <1>1, <1>2, <2>1 DEF Behind
<1>5. /\ MainAt' /\ CutOnce' /\ CountMatchesJobs' /\ Progress'
      /\ JobsOut' = JobsOut /\ Busy' = Busy /\ UNCHANGED <<mpc, mj, pieces, bstep, target>>
  BY <1>1, <1>3, <1>4, DueStays DEF managerVars, barrierVars
<1>6. WorkersAt'
  <2>1. Len(pieces[Head(batch[w])]) \in Nat
    BY <1>1, NoElements, TypesTogether DEF Inv, ManagerTypes, PoolTypes
  <2>2. bstep[w] = "out"
    BY <1>1 DEF Inv, WorkersAt
  <2> QED
    BY <1>1, <1>2, <1>5, <2>1, <2>2 DEF Inv, WorkersAt
<1>7. DealtOnce'
  BY <1>1, <1>3, <1>5 DEF Inv, DealtOnce
<1> QED
  BY <1>5, <1>6, <1>7 DEF Work

LEMMA FinishJobKeeps ==
  ASSUME Inv, NEW w \in Workers, FinishJob(w)
  PROVE  Work'
<1>1. /\ wpc[w] = "signalled" /\ bstep[w] = "out" /\ batch[w] # <<>> /\ batch[w] \in Seq(Jobs)
      /\ UNCHANGED <<barrierVars, managerVars, executed, reported, requests, pos>>
  BY TypesTogether DEF FinishJob, Outside, history, Inv, WorkersAt, PoolTypes
<1>2. /\ wpc'[w] = "idle" /\ batch'[w] = Tail(batch[w])
      /\ \A v \in Workers \ {w} : wpc'[v] = wpc[v] /\ batch'[v] = batch[v]
  BY TypesTogether DEF FinishJob, Inv, PoolTypes
<1>3. \A v \in Workers : Due(v)' = Due(v) /\ InHand(v)' = InHand(v)
  BY <1>1, <1>2 DEF Due, InHand
<1>4. \A j, i : Behind(j, i)' <=> Behind(j, i)
  BY <1>1, <1>2 DEF Behind
<1>5. /\ MainAt' /\ CutOnce' /\ CountMatchesJobs' /\ Progress'
      /\ JobsOut' = JobsOut /\ Busy' = Busy /\ UNCHANGED <<mpc, mj, pieces, bstep, target>>
  BY <1>1, <1>3, <1>4, DueStays DEF managerVars, barrierVars
<1>6. WorkersAt'
  BY <1>1, <1>2, <1>5 DEF Inv, WorkersAt
<1>7. DealtOnce'
  <2>1. IsInjective(batch'[w])
    BY <1>1, <1>2, ToSetTail DEF Inv, DealtOnce
  <2> QED
    BY <1>1, <1>2, <1>3, <1>5, <2>1 DEF Inv, DealtOnce
<1> QED
  BY <1>5, <1>6, <1>7 DEF Work

\* What a worker in ExecuteJob holds.
LEMMA InJob ==
  ASSUME Inv, NEW w \in Workers, wpc[w] = "pieces"
  PROVE  /\ batch[w] # <<>> /\ batch[w] \in Seq(Jobs) /\ Head(batch[w]) \in Jobs
         /\ Head(batch[w]) \in Due(w) /\ Head(batch[w]) \in Unsignalled
         /\ \A v \in Workers \ {w} : Head(batch[w]) \notin Due(v)
         /\ \A v \in Workers : wpc[v] = "pieces" /\ Head(batch[v]) = Head(batch[w]) => v = w
         /\ Due(w) = ToSet(requests[w]) \cup ToSet(batch[w])
         /\ JobsOut /\ mpc \in {"submit", "best", "end", "report"}
<1>1. /\ batch[w] # <<>> /\ batch[w] \in Seq(Jobs) /\ Head(batch[w]) \in Jobs
      /\ Head(batch[w]) \in Due(w) /\ Due(w) = ToSet(requests[w]) \cup ToSet(batch[w])
  BY HandsTyped
<1>2. \A v \in Workers \ {w} : Head(batch[w]) \notin Due(v)
  BY <1>1 DEF Inv, DealtOnce
<1>3. \A v \in Workers : wpc[v] = "pieces" => Head(batch[v]) \in Due(v)
  BY HandsTyped
<1>4. JobsOut
  BY <1>1 DEF Inv, DealtOnce
<1> QED
  BY <1>1, <1>2, <1>3, <1>4, UnsignalledCounted, WhenJobsOut

LEMMA ExecutePieceKeeps ==
  ASSUME Inv, NEW w \in Workers, ExecutePiece(w)
  PROVE  Work'
<1>. PICK h, k, q : h = Head(batch[w]) /\ k = pos[w] /\ q = pieces[h][k]
  OBVIOUS
<1>1. /\ wpc[w] = "pieces" /\ k <= Len(pieces[h]) /\ executed' = [executed EXCEPT ![q] = @ + 1]
      /\ UNCHANGED <<barrierVars, managerVars, reported, requests, batch, wpc>>
  BY DEF ExecutePiece
<1>2. pos'[w] = pos[w] + 1 /\ \A v \in Workers \ {w} : pos'[v] = pos[v]
  BY TypesTogether DEF ExecutePiece, Inv, PoolTypes
<1>3. /\ pos[w] \in Nat \ {0} /\ h \in Jobs /\ Len(pieces[h]) \in Nat
      /\ k \in DOMAIN pieces[h] /\ q \in Pieces
      /\ executed \in [Pieces -> Nat] /\ \A j \in Jobs : pieces[j] \in Seq(Pieces)
  <2>1. h \in Jobs
    BY <1>1, InJob
  <2>2. pos[w] \in Nat \ {0} /\ executed \in [Pieces -> Nat] /\ \A j \in Jobs : pieces[j] \in Seq(Pieces)
    BY TypesTogether DEF Inv, PoolTypes, ManagerTypes, HistoryTypes
  <2> QED
    BY <1>1, <2>1, <2>2
<1>4. \A v \in Workers : Due(v)' = Due(v) /\ InHand(v)' = InHand(v)
  BY <1>1 DEF Due, InHand
<1>5. /\ MainAt' /\ CutOnce' /\ CountMatchesJobs'
      /\ JobsOut' = JobsOut /\ Unsignalled' = Unsignalled /\ Busy' = Busy /\ Added' = Added
      /\ UNCHANGED <<mpc, mj, pieces, bstep, target>>
  BY <1>1, <1>4, DueStays DEF managerVars, barrierVars
<1>6. WorkersAt'
  <2>1. pos'[w] <= Len(pieces[Head(batch[w])]) + 1
    BY <1>1, <1>2, <1>3
  <2> QED
    BY <1>1, <1>2, <1>5, <2>1 DEF Inv, WorkersAt
<1>7. DealtOnce'
  BY <1>1, <1>4, <1>5 DEF Inv, DealtOnce
<1>8. /\ ~Behind(h, k) /\ Behind(h, k)'
      /\ \A j \in Jobs : \A i \in DOMAIN pieces[j] :
           ~(j = h /\ i = k) => (Behind(j, i)' <=> Behind(j, i))
  <2>1. \A v \in Workers : wpc[v] = "pieces" /\ Head(batch[v]) = h => v = w
    BY <1>1, InJob
  <2>2. \A j \in Jobs : \A i \in DOMAIN pieces[j] : i \in Nat
    BY <1>3
  <2>3. ~Behind(h, k)
    BY <1>1, <1>3, <2>1 DEF Behind
  <2>4. Behind(h, k)'
    BY <1>1, <1>2, <1>3 DEF Behind
  <2>5. ASSUME NEW j \in Jobs, NEW i \in DOMAIN pieces[j], ~(j = h /\ i = k), NEW v \in Workers
        PROVE  (wpc'[v] = "pieces" /\ Head(batch'[v]) = j /\ i < pos'[v])
                 <=> (wpc[v] = "pieces" /\ Head(batch[v]) = j /\ i < pos[v])
    <3>1. CASE v = w
      <4>1. i \in Nat /\ (i < k + 1 <=> i < k \/ i = k)
        BY <1>3, <2>2
      <4> QED
        BY <1>1, <1>2, <2>5, <3>1, <4>1
    <3>2. CASE v # w
      BY <1>1, <1>2, <3>2
    <3> QED
      BY <3>1, <3>2
  <2> QED
    BY <2>3, <2>4, <2>5 DEF Behind
<1>9. ~Ran(h, k) /\ Ran(h, k)'
  <2>1. h \in Unsignalled /\ mpc \in {"submit", "best", "end", "report"}
    BY <1>1, InJob
  <2> QED
    BY <1>5, <1>8, <2>1 DEF Ran
<1>10. \A j \in Jobs : Told(j)' <=> Told(j)
  BY <1>5 DEF Told
<1>11. \A j \in Jobs : \A i \in DOMAIN pieces[j] :
         ~(j = h /\ i = k) => (Ran(j, i)' <=> Ran(j, i)) /\ pieces[j][i] # q /\ pieces[j][i] \in Pieces
  <2>1. ASSUME NEW j \in Jobs, NEW i \in DOMAIN pieces[j], ~(j = h /\ i = k)
        PROVE  pieces[j][i] # q /\ pieces[j][i] \in Pieces
    <3>1. CASE j = h
      BY <1>3, <2>1, <3>1 DEF Inv, CutOnce, IsInjective
    <3>2. CASE j # h
      <4>1. pieces[j][i] \in ToSet(pieces[j]) /\ q \in ToSet(pieces[h])
        BY <1>3, <2>1 DEF ToSet
      <4>2. ToSet(pieces[j]) \cap ToSet(pieces[h]) = {}
        BY <1>3, <3>2 DEF Inv, CutOnce
      <4>3. pieces[j][i] \in Pieces
        BY <1>3
      <4> QED
        BY <4>1, <4>2, <4>3
    <3> QED
      BY <3>1, <3>2
  <2> QED
    BY <1>5, <1>8, <2>1 DEF Ran
<1>12. q \in Added
  <2>1. q \in ToSet(pieces[h])
    BY <1>3 DEF ToSet
  <2> QED
    BY <1>3, <2>1 DEF Added
<1>13. Progress'
  <2>1. executed'[q] = executed[q] + 1 /\ \A p \in Pieces \ {q} : executed'[p] = executed[p]
    BY <1>1, <1>3
  <2>2. executed[q] = 0
    BY <1>3, <1>9 DEF Inv, Progress
  <2>3. \A p \in Pieces \ Added : executed'[p] = 0 /\ reported'[p] = 0
    BY <1>1, <1>12, <2>1 DEF Inv, Progress
  <2>4. ASSUME NEW j \in Jobs, NEW i \in DOMAIN pieces[j]
        PROVE  /\ executed'[pieces[j][i]] = IF Ran(j, i)' THEN 1 ELSE 0
               /\ reported'[pieces[j][i]] = IF Told(j)' THEN 1 ELSE 0
    <3>1. CASE j = h /\ i = k
      <4>1. pieces[j][i] = q /\ executed'[q] = 1 /\ reported[q] = IF Told(j) THEN 1 ELSE 0
        BY <2>1, <2>2, <3>1 DEF Inv, Progress
      <4> QED
        BY <1>1, <1>9, <1>10, <3>1, <4>1
    <3>2. CASE ~(j = h /\ i = k)
      <4>1. executed'[pieces[j][i]] = executed[pieces[j][i]] /\ (Ran(j, i)' <=> Ran(j, i))
        BY <1>11, <2>1, <3>2
      <4> QED
        BY <1>1, <1>10, <4>1 DEF Inv, Progress
    <3> QED
      BY <3>1, <3>2
  <2> QED
    BY <1>5, <2>3, <2>4 DEF Progress
<1> QED
  BY <1>5, <1>6, <1>7, <1>13 DEF Work

LEMMA SignalJobKeeps ==
  ASSUME Inv, NEW w \in Workers, SignalJob(w)
  PROVE  Work'
<1>. PICK h : h = Head(batch[w])
  OBVIOUS
<1>1. /\ wpc[w] = "pieces" /\ pos[w] > Len(pieces[h]) /\ SignalCall(w)
      /\ UNCHANGED <<managerVars, requests, batch, pos, executed, reported>>
  BY DEF SignalJob, history
<1>2. wpc'[w] = "signalled" /\ \A v \in Workers \ {w} : wpc'[v] = wpc[v]
  BY TypesTogether DEF SignalJob, Inv, PoolTypes
<1>3. /\ batch[w] # <<>> /\ batch[w] \in Seq(Jobs) /\ h \in Jobs
      /\ h \in Due(w) /\ h \in Unsignalled
      /\ \A v \in Workers \ {w} : h \notin Due(v)
      /\ \A v \in Workers : wpc[v] = "pieces" /\ Head(batch[v]) = h => v = w
      /\ Due(w) = ToSet(requests[w]) \cup ToSet(batch[w])
      /\ JobsOut /\ mpc \in {"submit", "best", "end", "report"}
  BY <1>1, InJob
<1>4. /\ UNCHANGED <<pieces, mpc, mj, used, isMT>> /\ UNCHANGED <<maxLocks, myPhase, target>>
      /\ bstep'[w] \in {"out", "broadcast"} /\ \A t \in Threads \ {w} : bstep'[t] = bstep[t]
      /\ w # Main /\ Main \in Threads /\ Workers \subseteq Threads
  <2>1. w \in Threads \ {Main} /\ Main \in Threads /\ Workers \subseteq Threads
    BY WorkersTyped
  <2>2. bstep \in [Threads -> BarrierSteps]
    BY TypesTogether DEF Inv, BarrierTypes
  <2> QED
    BY <1>1, <2>1, <2>2
       DEF SignalCall, SignalArriveLast, SignalArriveEarly, Outside, BGoto, managerVars
<1>5. Busy' = Busy /\ Added' = Added /\ CutOnce'
  BY <1>4 DEF Busy, Added, Inv, CutOnce
<1>6. /\ InHand(w) = batch[w] /\ InHand(w)' = Tail(batch[w])
      /\ IsInjective(batch[w]) /\ h \notin ToSet(Tail(batch[w])) /\ h \notin ToSet(requests[w])
      /\ ToSet(batch[w]) = {h} \cup ToSet(Tail(batch[w]))
  <2>1. InHand(w) = batch[w] /\ InHand(w)' = Tail(batch[w])
    BY <1>1, <1>2 DEF InHand
  <2>2. IsInjective(batch[w]) /\ ToSet(requests[w]) \cap ToSet(batch[w]) = {}
    BY <2>1 DEF Inv, DealtOnce
  <2>3. ToSet(batch[w]) = {h} \cup ToSet(Tail(batch[w]))
    BY <1>3, ToSetHeadTail
  <2>4. h \notin ToSet(Tail(batch[w]))
    BY <1>3, <2>2, ToSetTail
  <2> QED
    BY <2>1, <2>2, <2>3, <2>4
<1>7. /\ Due(w)' = Due(w) \ {h}
      /\ \A v \in Workers \ {w} : Due(v)' = Due(v) /\ InHand(v)' = InHand(v)
  <2>1. Due(w)' = ToSet(requests[w]) \cup ToSet(Tail(batch[w]))
    BY <1>1, <1>2 DEF Due
  <2>2. \A v \in Workers \ {w} : Due(v)' = Due(v) /\ InHand(v)' = InHand(v)
    BY <1>1, <1>2 DEF Due, InHand
  <2> QED
    BY <1>3, <1>6, <2>1, <2>2
<1>8. Unsignalled' = Unsignalled \ {h}
  <2>1. \A v \in Workers : Due(v)' = Due(v) \ {h}
    BY <1>3, <1>7
  <2>2. mpc \in {"submit", "best"} => h < mj
    BY <1>3 DEF Inv, DealtOnce
  <2>3. h \in Int /\ mj \in Int
    BY <1>3, TypesTogether, WorkersTyped DEF Inv, ManagerTypes, Jobs
  <2> QED
    BY <1>4, <1>5, <2>1, <2>2, <2>3 DEF Unsignalled
<1>9. /\ IsFiniteSet(Unsignalled) /\ Cardinality(Unsignalled) \in Nat
      /\ Cardinality(Unsignalled') = Cardinality(Unsignalled) - 1
      /\ Cardinality(Unsignalled') \in Nat
      /\ Cardinality(Unsignalled') = 0 <=> Unsignalled' = {}
  <2>1. IsFiniteSet(Unsignalled) /\ Cardinality(Unsignalled) \in Nat
    BY UnsignalledCounted
  <2>2. IsFiniteSet(Unsignalled') /\ Cardinality(Unsignalled') = Cardinality(Unsignalled) - 1
    BY <1>3, <1>8, <2>1, FS_RemoveElement
  <2> QED
    BY <2>1, <2>2, FS_CardinalityType, FS_EmptySet
<1>10. maxLocks = used + 1 /\ locks + Cardinality(Unsignalled) = used + (IF Blocked THEN 1 ELSE 0)
  BY <1>3, CountAsOut DEF Inv
<1>11. locks \in Nat /\ used \in Nat /\ phase \in {0, 1} /\ myPhase \in [Threads -> {0, 1}]
  BY TypesTogether DEF Inv, BarrierTypes, ManagerTypes
<1>12. /\ JobsOut' \/ Unsignalled' = {}
       /\ CountMatchesJobs'
  <2>1. CASE SignalArriveLast(w)
    <3>1. locks + 1 = maxLocks /\ phase' = 1 - phase
      BY <2>1 DEF SignalArriveLast, NextPhase
    <3>2. Blocked /\ Unsignalled' = {}
      BY <1>9, <1>10, <1>11, <3>1
    <3>3. ~JobsOut'
      BY <1>4, <1>11, <3>1, <3>2 DEF Blocked, JobsOut, Inv, MainAt, Outside
    <3> QED
      BY <3>2, <3>3 DEF CountMatchesJobs, JobsOut
  <2>2. CASE SignalArriveEarly(w)
    <3>1. locks' = locks + 1 /\ phase' = phase
      BY <2>2 DEF SignalArriveEarly
    <3>2. JobsOut' /\ Blocked' = Blocked
      BY <1>3, <1>4, <3>1 DEF JobsOut, Blocked, Outside
    <3> QED
      BY <1>4, <1>9, <1>10, <1>11, <3>1, <3>2 DEF CountMatchesJobs
  <2> QED
    BY <1>1, <2>1, <2>2 DEF SignalCall
<1>13. MainAt'
  BY <1>4, <1>5 DEF Inv, MainAt, Outside
<1>14. WorkersAt'
  BY <1>1, <1>2, <1>3, <1>4 DEF Inv, WorkersAt
<1>15. DealtOnce'
  <2>1. \A v \in Workers : Due(v)' \subseteq Due(v) /\ Due(v)' \subseteq Unsignalled'
    BY <1>7, <1>8, <1>3, UnsignalledCounted
  <2>2. \A v \in Workers : /\ IsInjective(requests'[v]) /\ IsInjective(batch'[v])
                           /\ ToSet(requests'[v]) \cap ToSet(InHand(v)') = {}
    BY <1>1, <1>6, <1>7 DEF Inv, DealtOnce
  <2>3. \A v \in Workers : Due(v) \subseteq Busy
    BY DEF Inv, DealtOnce
  <2>4. \A v \in Workers : mpc \in {"submit", "best"} => \A j \in Due(v) : j < mj
    BY DEF Inv, DealtOnce
  <2>5. \A u, v \in Workers : u # v => Due(u) \cap Due(v) = {}
    BY DEF Inv, DealtOnce
  <2> QED
    BY <1>4, <1>5, <1>12, <2>1, <2>2, <2>3, <2>4, <2>5 DEF DealtOnce
<1>16. Progress'
  <2>1. ASSUME NEW j \in Jobs, NEW i \in DOMAIN pieces[j]
        PROVE  Ran(j, i)' <=> Ran(j, i)
    <3>1. CASE j = h
      <4>1. i < pos[w]
        <5>1. i \in 1..Len(pieces[h]) /\ Len(pieces[h]) \in Nat /\ pos[w] \in Nat
          BY <3>1, TypesTogether DEF Inv, ManagerTypes, PoolTypes
        <5> QED
          BY <1>1, <5>1
      <4>2. Behind(j, i)
        BY <1>1, <3>1, <4>1 DEF Behind
      <4>3. j \notin Unsignalled'
        BY <1>8, <3>1
      <4> QED
        BY <1>3, <1>4, <4>2, <4>3 DEF Ran
    <3>2. CASE j # h
      <4>1. Behind(j, i)' <=> Behind(j, i)
        BY <1>1, <1>2, <3>2 DEF Behind
      <4>2. j \in Unsignalled' <=> j \in Unsignalled
        BY <1>8, <3>2
      <4> QED
        BY <1>3, <1>4, <4>1, <4>2 DEF Ran
    <3> QED
      BY <3>1, <3>2
  <2>2. \A j \in Jobs : Told(j)' <=> Told(j)
    BY <1>4 DEF Told
  <2> QED
    BY <1>1, <1>4, <1>5, <2>1, <2>2 DEF Inv, Progress
<1> QED
  BY <1>5, <1>12, <1>13, <1>14, <1>15, <1>16 DEF Work

LEMMA WorkerKeeps ==
  ASSUME Inv, NEW w \in Workers, WorkerStep(w)
  PROVE  Work'
BY TakeBatchKeeps, StartJobKeeps, ExecutePieceKeeps, SignalJobKeeps, FinishJobKeeps DEF WorkerStep

-----------------------------------------------------------------------------
(* The main thread while the jobs are not out.                             *)

LEMMA PieceOfJob ==
  ASSUME Inv, NEW j \in Jobs, NEW i \in DOMAIN pieces[j]
  PROVE  /\ pieces[j][i] \in Pieces /\ pieces[j][i] \in Added /\ j \in Busy
         /\ \A k \in Jobs : pieces[j][i] \in ToSet(pieces[k]) <=> j = k
<1>1. pieces[j] \in Seq(Pieces)
  BY TypesTogether DEF Inv, ManagerTypes
<1>2. pieces[j][i] \in ToSet(pieces[j]) /\ pieces[j][i] \in Pieces /\ pieces[j] # <<>>
  BY <1>1 DEF ToSet
<1>3. pieces[j][i] \in Added /\ j \in Busy
  BY <1>2 DEF Added, Busy
<1> QED
  BY <1>2, <1>3 DEF Inv, CutOnce

LEMMA QuietKeeps ==
  ASSUME Inv, ~JobsOut, ~JobsOut', UNCHANGED <<requests, batch, wpc, pos>>,
         \A w \in Workers : bstep'[w] = bstep[w] /\ target'[w] = target[w]
  PROVE  DealtOnce' /\ WorkersAt' /\ CountMatchesJobs'
<1>1. \A w \in Workers : /\ wpc[w] # "pieces" /\ Due(w) = {}
                         /\ Due(w)' = Due(w) /\ InHand(w)' = InHand(w)
  BY NothingDue DEF Due, InHand, Inv, DealtOnce
<1>2. DealtOnce'
  BY <1>1 DEF Inv, DealtOnce
<1>3. WorkersAt'
  BY <1>1 DEF Inv, WorkersAt
<1> QED
  BY <1>2, <1>3 DEF CountMatchesJobs, JobsOut

\* Nothing is executed or reported before the frame has begun to be processed.
LEMMA FreshPieces ==
  ASSUME Inv, mpc \in {"reset", "fill"}, NEW p \in Pieces
  PROVE  executed[p] = 0 /\ reported[p] = 0
<1>1. CASE p \in Added
  <2>1. PICK j \in Jobs : p \in ToSet(pieces[j])
    BY <1>1 DEF Added
  <2>2. PICK i \in DOMAIN pieces[j] : pieces[j][i] = p
    BY <2>1 DEF ToSet
  <2>3. ~Ran(j, i) /\ ~Told(j)
    BY DEF Ran, Told
  <2> QED
    BY <2>2, <2>3 DEF Inv, Progress
<1>2. CASE p \notin Added
  BY <1>2 DEF Inv, Progress
<1> QED
  BY <1>1, <1>2

LEMMA FreshProgress ==
  ASSUME TypeOK', \A p \in Pieces : executed'[p] = 0 /\ reported'[p] = 0,
         \A j \in Jobs : \A i \in DOMAIN pieces'[j] : ~Ran(j, i)' /\ ~Told(j)'
  PROVE  Progress'
<1>1. \A j \in Jobs : \A i \in DOMAIN pieces'[j] : pieces'[j][i] \in Pieces
  BY DEF TypeOK
<1> QED
  BY <1>1 DEF Progress

LEMMA PrepareKeeps ==
  ASSUME Inv, [Next]_vars,
         (\E mt, reset \in BOOLEAN : StartFrame(mt, reset)) \/ ResetJob \/ ResetDone \/ AddPiece
         \/ BeginInline
  PROVE  Work'
<1>1. /\ mpc \in {"frame", "reset", "fill"} /\ mpc' \in {"reset", "fill", "inline"}
      /\ UNCHANGED <<condVars, barrierVars>>
      /\ mpc' = "inline" => ~isMT' /\ mj' = 0 /\ mpc = "fill"
  BY DEF StartFrame, ResetJob, ResetDone, AddPiece, BeginInline
<1>2. UNCHANGED <<locks, maxLocks, phase, myPhase, target, bstep>> /\ Outside(Main)
  BY <1>1, WhenJobsOut DEF barrierVars
<1>3. ~JobsOut /\ ~JobsOut'
  BY <1>1, <1>2 DEF JobsOut, Blocked, Outside
<1>4. UNCHANGED <<requests, batch, wpc, pos>>
  <2>1. CASE ResetJob
    <3>1. Queues[1] \in Workers /\ requests[Queues[1]] = <<>>
      BY <1>3, NothingDue, WorkersTyped
    <3>2. requests \in [Workers -> Seq(Jobs)]
      BY TypesTogether DEF Inv, PoolTypes
    <3>3. requests' = requests
      BY <2>1, <3>1, <3>2, RemoveFirstNothing DEF ResetJob
    <3> QED
      BY <2>1, <3>3 DEF ResetJob
  <2> QED
    BY <2>1 DEF StartFrame, ResetDone, AddPiece, BeginInline, poolVars
<1>5. DealtOnce' /\ WorkersAt' /\ CountMatchesJobs'
  BY <1>2, <1>3, <1>4, QuietKeeps
<1>6. MainAt'
  BY <1>1, <1>2 DEF Inv, MainAt, Outside
<1>7. CutOnce'
  <2>1. pieces \in [Jobs -> Seq(Pieces)] /\ CutOnce
    BY TypesTogether DEF Inv, ManagerTypes
  <2>2. CASE ResetJob
    <3>1. \A j \in Jobs : pieces'[j] = pieces[j] \/ pieces'[j] = <<>>
      BY <2>1, <2>2 DEF ResetJob
    <3> QED
      BY <2>1, <3>1, ToSetEmpty DEF CutOnce
  <2>3. CASE AddPiece
    <3>1. PICK p \in Pieces : p \notin Added /\ pieces' = [pieces EXCEPT ![currStack] = Append(@, p)]
      BY <2>3 DEF AddPiece
    <3>2. currStack \in Jobs
      BY TypesTogether DEF Inv, ManagerTypes
    <3>3. \A j \in Jobs : p \notin ToSet(pieces[j])
      BY <3>1 DEF Added
    <3>4. /\ ToSet(pieces'[currStack]) = ToSet(pieces[currStack]) \cup {p}
          /\ IsInjective(pieces'[currStack])
      BY <2>1, <3>1, <3>2, <3>3, ToSetAppend DEF CutOnce
    <3>5. \A j \in Jobs \ {currStack} : pieces'[j] = pieces[j]
      BY <2>1, <3>1
    <3>6. \A j \in Jobs : /\ IsInjective(pieces'[j])
                          /\ ToSet(pieces'[j]) \subseteq ToSet(pieces[j]) \cup {p}
                          /\ j # currStack => p \notin ToSet(pieces'[j])
      BY <2>1, <3>3, <3>4, <3>5 DEF CutOnce
    <3>7. ASSUME NEW j \in Jobs, NEW k \in Jobs, j # k
          PROVE  ToSet(pieces'[j]) \cap ToSet(pieces'[k]) = {}
      <4>1. ToSet(pieces[j]) \cap ToSet(pieces[k]) = {}
        BY <2>1, <3>7 DEF CutOnce
      <4>2. p \notin ToSet(pieces'[j]) \/ p \notin ToSet(pieces'[k])
        BY <3>6, <3>7
      <4> QED
        BY <3>6, <4>1, <4>2
    <3> QED
      BY <3>6, <3>7 DEF CutOnce
  <2>4. CASE pieces' = pieces
    BY <2>1, <2>4 DEF CutOnce
  <2> QED
    BY <2>2, <2>3, <2>4 DEF StartFrame, ResetDone, BeginInline
<1>8. Progress'
  <2>1. \A p \in Pieces : executed'[p] = 0 /\ reported'[p] = 0
    <3>1. CASE mpc = "frame"
      BY <3>1 DEF StartFrame, ResetJob, ResetDone, AddPiece, BeginInline
    <3>2. CASE mpc \in {"reset", "fill"}
      <4>1. UNCHANGED <<executed, reported>>
        BY <3>2 DEF StartFrame, ResetJob, ResetDone, AddPiece, BeginInline, history
      <4> QED
        BY <3>2, <4>1, FreshPieces
    <3> QED
      BY <1>1, <3>1, <3>2
  <2>2. \A j \in Jobs : \A i \in DOMAIN pieces'[j] : ~Ran(j, i)' /\ ~Told(j)'
    BY <1>1, WorkersTyped DEF Ran, Told, Jobs
  <2> QED
    BY <2>1, <2>2, FreshProgress, TypeKept
<1> QED
  BY <1>5, <1>6, <1>7, <1>8 DEF Work

LEMMA BeginProcessingKeeps ==
  ASSUME Inv, [Next]_vars, BeginProcessing
  PROVE  Work'
<1>1. /\ mpc = "fill" /\ mpc' = "submit" /\ mj' = 0 /\ isMT /\ used' = Cardinality(Busy)
      /\ UNCHANGED <<pieces, isMT, requests, batch, wpc, pos, executed, reported>>
  BY DEF BeginProcessing, poolVars, history
<1>2. /\ bstep[Main] = "out" /\ bstep'[Main] \in {"release", "setMax"}
      /\ target'[Main] = Cardinality(Busy) + 1
      /\ \A w \in Workers : bstep'[w] = bstep[w] /\ target'[w] = target[w]
  <2>1. bstep \in [Threads -> BarrierSteps] /\ target \in [Threads -> Nat]
    BY TypesTogether DEF Inv, BarrierTypes
  <2> QED
    BY <2>1, WorkersTyped DEF BeginProcessing, SetTargetCount, BGoto, Outside
<1>3. ~JobsOut /\ ~JobsOut'
  BY <1>1, <1>2 DEF JobsOut, Blocked, Outside
<1>4. DealtOnce' /\ WorkersAt' /\ CountMatchesJobs'
  BY <1>1, <1>2, <1>3, QuietKeeps
<1>5. Busy' = Busy /\ CutOnce'
  BY <1>1, HandsStay DEF Inv
<1>6. MainAt'
  BY <1>1, <1>2, <1>5 DEF MainAt, Outside
<1>7. Progress'
  <2>1. \A p \in Pieces : executed'[p] = 0 /\ reported'[p] = 0
    BY <1>1, FreshPieces
  <2>2. \A j \in Jobs : ~Told(j)'
    BY <1>1 DEF Told
  <2>3. \A j \in Busy : j \in Unsignalled'
    BY <1>1, <1>5 DEF Unsignalled, Busy, Jobs
  <2>4. \A j, i : ~Behind(j, i)'
    BY <1>1, <1>3, NothingDue DEF Behind
  <2>5. \A j \in Jobs : \A i \in DOMAIN pieces'[j] : ~Ran(j, i)'
    BY <1>1, <2>3, <2>4, PieceOfJob DEF Ran
  <2> QED
    BY <2>1, <2>2, <2>5, FreshProgress, TypeKept
<1> QED
  BY <1>4, <1>5, <1>6, <1>7 DEF Work

\* Frames without workers, and the reports of the other ones.
LEMMA InlineJobKeeps ==
  ASSUME Inv, [Next]_vars, InlineJob
  PROVE  Work'
<1>1. /\ mpc = "inline" /\ mj < JobCount /\ mj \in Jobs /\ mpc' = "inlineDone" /\ mj' = mj
      /\ UNCHANGED <<pieces, used, isMT, requests, batch, wpc, pos, reported>>
      /\ executed' = [p \in Pieces |-> IF p \in ToSet(pieces[mj]) THEN executed[p] + 1 ELSE executed[p]]
      /\ SignalCall(Main) \/ UNCHANGED barrierVars
  BY TypesTogether, WorkersTyped DEF InlineJob, poolVars, Inv, ManagerTypes, Jobs
<1>2. /\ bstep[Main] = "out" /\ bstep'[Main] \in {"out", "broadcast"} /\ target' = target
      /\ \A w \in Workers : bstep'[w] = bstep[w]
  <2>1. bstep \in [Threads -> BarrierSteps] /\ Outside(Main)
    BY <1>1, TypesTogether, WhenJobsOut DEF Inv, BarrierTypes
  <2> QED
    BY <1>1, <2>1, WorkersTyped
       DEF SignalCall, SignalArriveLast, SignalArriveEarly, BGoto, Outside, barrierVars
<1>3. ~JobsOut /\ ~JobsOut'
  BY <1>1, <1>2 DEF JobsOut, Blocked, Outside
<1>4. DealtOnce' /\ WorkersAt' /\ CountMatchesJobs'
  BY <1>1, <1>2, <1>3, QuietKeeps
<1>5. Busy' = Busy /\ CutOnce' /\ Added' = Added
  BY <1>1, HandsStay DEF Inv
<1>6. MainAt'
  BY <1>1, <1>2, <1>5 DEF Inv, MainAt, Outside
<1>7. Progress'
  <2>1. \A p \in Pieces \ Added : p \notin ToSet(pieces[mj])
    BY <1>1 DEF Added
  <2>2. ASSUME NEW j \in Jobs, NEW i \in DOMAIN pieces[j]
        PROVE  /\ executed'[pieces[j][i]] = IF Ran(j, i)' THEN 1 ELSE 0
               /\ Told(j)' <=> Told(j)
    <3>1. pieces[j][i] \in Pieces /\ (pieces[j][i] \in ToSet(pieces[mj]) <=> j = mj)
      BY <1>1, PieceOfJob
    <3>2. j \in Int /\ mj \in Int
      BY <1>1, WorkersTyped DEF Jobs
    <3>3. executed[pieces[j][i]] = IF j < mj THEN 1 ELSE 0
      BY <1>1 DEF Inv, Progress, Ran
    <3>4. executed'[pieces[j][i]] = IF j <= mj THEN 1 ELSE 0
      BY <1>1, <3>1, <3>2, <3>3
    <3> QED
      BY <1>1, <3>4 DEF Ran, Told
  <2> QED
    BY <1>1, <1>5, <2>1, <2>2 DEF Inv, Progress
<1> QED
  BY <1>4, <1>5, <1>6, <1>7 DEF Work

LEMMA ReportKeeps ==
  ASSUME Inv, [Next]_vars, ReportJob \/ InlineReport
  PROVE  Work'
<1>1. /\ mj \in Jobs /\ mj' = mj + 1 /\ UNCHANGED barrierVars
      /\ UNCHANGED <<pieces, used, isMT, requests, batch, wpc, pos, executed>>
      /\ \/ mpc = "report" /\ mpc' = "report" /\ Unsignalled = {}
         \/ mpc = "inlineDone" /\ mpc' = "inline"
      /\ reported' = [p \in Pieces |-> IF p \in ToSet(pieces[mj]) THEN reported[p] + 1 ELSE reported[p]]
      /\ bstep[Main] = "out"
  <2>1. mj < JobCount
    BY DEF ReportJob, InlineReport, Inv, MainAt
  <2>2. mj \in Jobs
    BY <2>1, TypesTogether, WorkersTyped DEF Inv, ManagerTypes, Jobs
  <2>3. mpc = "report" /\ Outside(Main) => Unsignalled = {}
    BY WhenJobsOut, UnsignalledCounted
  <2> QED
    BY <2>2, <2>3 DEF ReportJob, InlineReport, SignalJobsDone, poolVars, Outside
<1>2. UNCHANGED <<locks, maxLocks, phase, myPhase, target, bstep>>
  BY <1>1 DEF barrierVars
<1>3. ~JobsOut /\ ~JobsOut'
  BY <1>1, <1>2 DEF JobsOut, Blocked, Outside
<1>4. DealtOnce' /\ WorkersAt' /\ CountMatchesJobs'
  BY <1>1, <1>2, <1>3, QuietKeeps
<1>5. Busy' = Busy /\ CutOnce' /\ Added' = Added
  BY <1>1, HandsStay DEF Inv
<1>6. MainAt'
  BY <1>1, <1>2, <1>5 DEF Inv, MainAt, Outside
<1>7. Progress'
  <2>1. \A p \in Pieces \ Added : p \notin ToSet(pieces[mj])
    BY <1>1 DEF Added
  <2>2. \A w \in Workers : Due(w)' = {}
    BY <1>3, <1>4 DEF DealtOnce
  <2>3. mpc = "report" => Unsignalled' = {}
    BY <1>1, <2>2 DEF Unsignalled
  <2>4. ASSUME NEW j \in Jobs, NEW i \in DOMAIN pieces[j]
        PROVE  /\ reported'[pieces[j][i]] = IF Told(j)' THEN 1 ELSE 0
               /\ Ran(j, i)' <=> Ran(j, i)
    <3>1. pieces[j][i] \in Pieces /\ (pieces[j][i] \in ToSet(pieces[mj]) <=> j = mj)
      BY <1>1, PieceOfJob
    <3>2. j \in Int /\ mj \in Int
      BY <1>1, WorkersTyped DEF Jobs
    <3>3. reported[pieces[j][i]] = IF j < mj THEN 1 ELSE 0
      BY <1>1 DEF Inv, Progress, Told
    <3>4. reported'[pieces[j][i]] = IF j < mj + 1 THEN 1 ELSE 0
      BY <1>1, <3>1, <3>2, <3>3
    <3>5. Ran(j, i)' <=> Ran(j, i)
      BY <1>1, <2>3, <3>2 DEF Ran
    <3> QED
      BY <1>1, <3>4, <3>5 DEF Told
  <2> QED
    BY <1>1, <1>5, <2>1, <2>4 DEF Inv, Progress
<1> QED
  BY <1>4, <1>5, <1>6, <1>7 DEF Work

LEMMA FrameDoneKeeps ==
  ASSUME Inv, [Next]_vars, FrameDone
  PROVE  Work'
<1>1. /\ mpc \in {"report", "inline"} /\ mpc' = "frame" /\ bstep[Main] = "out" /\ mj = JobCount
      /\ UNCHANGED barrierVars
      /\ UNCHANGED <<pieces, used, isMT, requests, batch, wpc, pos, executed, reported>>
  BY DEF FrameDone, poolVars, history, Outside
<1>2. UNCHANGED <<locks, maxLocks, phase, myPhase, target, bstep>>
  BY <1>1 DEF barrierVars
<1>3. ~JobsOut /\ ~JobsOut'
  BY <1>1, <1>2 DEF JobsOut, Blocked, Outside
<1>4. DealtOnce' /\ WorkersAt' /\ CountMatchesJobs'
  BY <1>1, <1>2, <1>3, QuietKeeps
<1>5. CutOnce' /\ Added' = Added
  BY <1>1, HandsStay DEF Inv
<1>6. MainAt'
  BY <1>1, <1>2 DEF Inv, MainAt, Outside
<1>7. Progress'
  <2>1. mpc = "report" => Unsignalled = {}
    BY <1>3, UnsignalledCounted
  <2>2. \A j \in Jobs : j < mj
    BY <1>1, WorkersTyped DEF Jobs
  <2>3. \A j \in Jobs : \A i \in DOMAIN pieces[j] : Ran(j, i) /\ Told(j) /\ Ran(j, i)' /\ Told(j)'
    BY <1>1, <2>1, <2>2 DEF Ran, Told
  <2> QED
    BY <1>1, <1>5, <2>3 DEF Inv, Progress
<1> QED
  BY <1>4, <1>5, <1>6, <1>7 DEF Work

-----------------------------------------------------------------------------
(* The main thread while the jobs are out: it goes over the jobs, and each *)
(* that has pieces moves from "still to be submitted" to a queue.          *)

LEMMA SubmitKeeps ==
  ASSUME Inv, [Next]_vars,
         SkipJob \/ SubmitJob \/ ReadOrdersCount \/ AddRequest \/ SubmitDone \/ EndProcessing
  PROVE  Work'
<1>1. /\ mpc \in {"submit", "best", "end"} /\ bstep[Main] = "out"
      /\ mpc' \in {"submit", "best", "end", "report"}
      /\ UNCHANGED <<pieces, used, isMT, batch, wpc, pos, executed, reported>>
  BY WhenJobsOut DEF SkipJob, SubmitJob, ReadOrdersCount, AddRequest, SubmitDone, EndProcessing,
                     poolVars, history, Outside
<1>2. /\ UNCHANGED <<locks, target>> /\ \A w \in Workers : bstep'[w] = bstep[w]
      /\ \/ mpc' = "report" /\ bstep'[Main] = "enter" /\ maxLocks' = used + 1 /\ mj' = 0
         \/ mpc' # "report" /\ bstep'[Main] = "out" /\ maxLocks' = maxLocks
  <2>1. CASE EndProcessing
    <3>1. bstep \in [Threads -> BarrierSteps] /\ used + 1 > 0
      BY TypesTogether DEF Inv, BarrierTypes, ManagerTypes
    <3>2. /\ UNCHANGED <<locks, target>> /\ bstep' = [bstep EXCEPT ![Main] = "enter"]
          /\ maxLocks' = used + 1 /\ mj' = 0 /\ mpc' = "report"
      BY <2>1, <3>1 DEF EndProcessing, BlockCall, BGoto
    <3> QED
      BY <3>1, <3>2, WorkersTyped
  <2>2. CASE ~EndProcessing
    BY <1>1, <2>2 DEF SkipJob, SubmitJob, ReadOrdersCount, AddRequest, SubmitDone, barrierVars
  <2> QED
    BY <2>1, <2>2
<1>3. JobsOut /\ JobsOut' /\ ~Blocked /\ ~Blocked'
  BY <1>1, <1>2 DEF JobsOut, Blocked, Outside
<1>4. Busy' = Busy /\ CutOnce' /\ Added' = Added
  BY <1>1 DEF Busy, Added, Inv, CutOnce
<1>5. mj \in Nat /\ JobCount \in Nat /\ \A j \in Busy : j \in Nat /\ j < JobCount
  BY TypesTogether, WorkersTyped DEF Inv, ManagerTypes, Busy, Jobs
<1>6. /\ DealtOnce' /\ Unsignalled' = Unsignalled
  <2>1. CASE AddRequest
    <3>. PICK w \in Workers : w = Queues[bestQ]
      BY TypesTogether, WorkersTyped DEF Inv, ManagerTypes
    <3>1. /\ mpc = "best" /\ mpc' = "submit" /\ mj' = mj + 1 /\ mj \in Busy /\ mj \in Jobs
          /\ requests'[w] = Append(requests[w], mj)
          /\ \A v \in Workers \ {w} : requests'[v] = requests[v]
      BY <2>1, TypesTogether DEF AddRequest, Inv, PoolTypes, MainAt, Busy
    <3>2. \A v \in Workers : mj \notin Due(v)
      BY <1>5, <3>1 DEF Inv, DealtOnce
    <3>3. \A v \in Workers : InHand(v)' = InHand(v) /\ (v # w => Due(v)' = Due(v))
      BY <1>1, <3>1 DEF InHand, Due
    <3>4. /\ ToSet(requests'[w]) = ToSet(requests[w]) \cup {mj}
          /\ IsInjective(requests'[w]) /\ Due(w)' = Due(w) \cup {mj}
          /\ ToSet(requests'[w]) \cap ToSet(InHand(w)') = {}
      <4>1. /\ requests[w] \in Seq(Jobs) /\ Due(w) = ToSet(requests[w]) \cup ToSet(InHand(w))
        BY HandsTyped
      <4>2. IsInjective(requests[w]) /\ ToSet(requests[w]) \cap ToSet(InHand(w)) = {}
        BY DEF Inv, DealtOnce
      <4>3. ToSet(requests'[w]) = ToSet(requests[w]) \cup {mj} /\ IsInjective(requests'[w])
        BY <3>1, <3>2, <4>1, <4>2, ToSetAppend
      <4>4. Due(w)' = ToSet(requests'[w]) \cup ToSet(InHand(w)')
        BY DEF Due, InHand
      <4> QED
        BY <3>2, <3>3, <4>1, <4>2, <4>3, <4>4
    <3>5. Unsignalled' = Unsignalled
      <4>1. {j \in Busy : j >= mj} = {j \in Busy : j >= mj + 1} \cup {mj}
        <5>1. \A j \in Busy : j >= mj <=> (j >= mj + 1 \/ j = mj)
          BY <1>5
        <5> QED
          BY <3>1, <5>1
      <4>2. UNION {Due(v)' : v \in Workers} = (UNION {Due(v) : v \in Workers}) \cup {mj}
        BY <3>3, <3>4
      <4> QED
        BY <1>4, <3>1, <4>1, <4>2 DEF Unsignalled
    <3>6. \A v \in Workers : \A j \in Due(v)' : j < mj'
      <4>1. \A v \in Workers : \A j \in Due(v) : j < mj /\ j \in Nat
        BY <1>5, <3>1 DEF Inv, DealtOnce
      <4> QED
        BY <1>5, <3>1, <3>3, <3>4, <4>1
    <3>7. \A v \in Workers : /\ IsInjective(requests'[v]) /\ IsInjective(batch'[v])
                             /\ ToSet(requests'[v]) \cap ToSet(InHand(v)') = {}
                             /\ Due(v)' \subseteq Busy
      BY <1>1, <3>1, <3>3, <3>4 DEF Inv, DealtOnce
    <3>8. \A u, v \in Workers : u # v => Due(u)' \cap Due(v)' = {}
      BY <3>2, <3>3, <3>4 DEF Inv, DealtOnce
    <3> QED
      BY <1>3, <1>4, <3>5, <3>6, <3>7, <3>8 DEF DealtOnce
  <2>2. CASE ~AddRequest
    <3>1. requests' = requests /\ \A v \in Workers : Due(v)' = Due(v) /\ InHand(v)' = InHand(v)
      <4>1. requests' = requests
        BY <2>2 DEF SkipJob, SubmitJob, ReadOrdersCount, SubmitDone, EndProcessing, poolVars
      <4> QED
        BY <1>1, <4>1, HandsStay
    <3>2. \/ mpc = "submit" /\ mj' = mj + 1 /\ mj \notin Busy /\ mpc' = "submit"
          \/ mj' = mj /\ mpc \in {"submit", "best"} /\ mpc' \in {"submit", "best"}
          \/ mpc = "submit" /\ mj = JobCount /\ mpc' = "end"
          \/ mpc = "end" /\ mpc' = "report"
      BY <2>2 DEF SkipJob, SubmitJob, ReadOrdersCount, SubmitDone, EndProcessing
    <3>3. Unsignalled' = Unsignalled
      <4>1. mj \notin Busy => {j \in Busy : j >= mj} = {j \in Busy : j >= mj + 1}
        BY <1>5
      <4>2. mj = JobCount => {j \in Busy : j >= mj} = {}
        BY <1>5
      <4> QED
        BY <1>4, <3>1, <3>2, <4>1, <4>2 DEF Unsignalled
    <3>4. mpc' \in {"submit", "best"} => \A v \in Workers : \A j \in Due(v) : j < mj'
      <4>1. \A v \in Workers : \A j \in Due(v) : j \in Nat
        BY <1>5 DEF Inv, DealtOnce
      <4>2. mpc \in {"submit", "best"} => \A v \in Workers : \A j \in Due(v) : j < mj
        BY DEF Inv, DealtOnce
      <4> QED
        BY <1>5, <3>2, <4>1, <4>2
    <3> QED
      BY <1>1, <1>3, <1>4, <3>1, <3>3, <3>4 DEF Inv, DealtOnce
  <2> QED
    BY <2>1, <2>2
<1>7. MainAt'
  <2>1. mpc' = "best" => mj' \in Busy
    BY <1>1 DEF Inv, MainAt, SkipJob, SubmitJob, ReadOrdersCount, AddRequest, SubmitDone, EndProcessing
  <2> QED
    BY <1>1, <1>2, <1>4, <2>1 DEF Inv, MainAt, Outside
<1>8. WorkersAt'
  BY <1>1, <1>2 DEF Inv, WorkersAt
<1>9. CountMatchesJobs'
  BY <1>1, <1>2, <1>3, <1>6, CountAsOut DEF Inv, CountMatchesJobs
<1>10. Progress'
  <2>1. ASSUME NEW j \in Jobs, NEW i
        PROVE  (Ran(j, i)' <=> Ran(j, i)) /\ (Told(j)' <=> Told(j))
    <3>1. Behind(j, i)' <=> Behind(j, i)
      BY <1>1 DEF Behind
    <3>2. Ran(j, i)' <=> Ran(j, i)
      BY <1>1, <1>6, <3>1 DEF Ran
    <3>3. ~(j < 0)
      BY WorkersTyped DEF Jobs
    <3> QED
      BY <1>1, <1>2, <3>2, <3>3 DEF Told
  <2> QED
    BY <1>1, <1>4, <2>1 DEF Inv, Progress
<1> QED
  BY <1>4, <1>6, <1>7, <1>8, <1>9, <1>10 DEF Work

-----------------------------------------------------------------------------
LEMMA InvStep == Inv /\ [Next]_vars => Inv'
<1> SUFFICES ASSUME Inv, [Next]_vars
             PROVE  Inv'
  OBVIOUS
<1>1. TypeOK' /\ MainWaits'
  BY TypeKept, CondKept
<1>2. ASSUME Next
      PROVE  Work'
  BY <1>2, BarrierKeeps, WorkerKeeps, PrepareKeeps, BeginProcessingKeeps, InlineJobKeeps,
     ReportKeeps, FrameDoneKeeps, SubmitKeeps DEF Next, MainStep
<1>3. ASSUME UNCHANGED vars
      PROVE  Work'
  <2>1. UNCHANGED <<barrierVars, managerVars, poolVars, history>>
    BY <1>3 DEF vars
  <2>2. \A w \in Workers : Due(w)' = Due(w) /\ InHand(w)' = InHand(w)
    BY <2>1 DEF Due, InHand, poolVars
  <2>3. \A j, i : Behind(j, i)' <=> Behind(j, i)
    BY <2>1 DEF Behind, poolVars
  <2>4. MainAt' /\ CutOnce' /\ CountMatchesJobs' /\ Progress' /\ JobsOut' = JobsOut /\ Busy' = Busy
    BY <2>1, <2>2, <2>3, DueStays DEF history
  <2>5. WorkersAt'
    BY <2>1 DEF Inv, WorkersAt, barrierVars, managerVars, poolVars
  <2>6. DealtOnce'
    BY <2>1, <2>2, <2>4 DEF Inv, DealtOnce, managerVars, poolVars
  <2> QED
    BY <2>4, <2>5, <2>6 DEF Work
<1>4. Work'
  BY <1>2, <1>3
<1> QED
  BY <1>1, <1>4 DEF Inv, Work

LEMMA InvAlways == Spec => []Inv
BY InvInit, InvStep, PTL DEF Spec

(***************************************************************************)
(* Theorems.                                                               *)
(***************************************************************************)

\* Every variable keeps its type: in particular m_waiters does not fall below
\* zero, the index of a worker stays in the pieces of its job, and FindBestQueue
\* returns a queue that exists.
THEOREM FrameTypeCorrect == Spec => []TypeOK
<1>1. Inv => TypeOK
  BY DEF Inv
<1> QED
  BY <1>1, InvAlways, PTL

\* While the jobs of a frame are out, the counter of the barrier lacks the jobs
\* that have not signalled and the main thread, and nothing else.
THEOREM NoSignalIsLost == Spec => []CountMatchesJobs
<1>1. Inv => CountMatchesJobs
  BY DEF Inv
<1> QED
  BY <1>1, InvAlways, PTL

\* No worker is in ExecuteJob, or will be, while the main thread changes the
\* pieces of a job or calls their listeners.
THEOREM PiecesAreFree == Spec => []PiecesNotShared
<1>1. Inv => PiecesNotShared
  <2> SUFFICES ASSUME Inv, mpc \in {"reset", "fill", "frame"} \/ (mpc = "report" /\ Outside(Main)),
                      NEW w \in Workers
               PROVE  wpc[w] # "pieces" /\ requests[w] = <<>>
    BY DEF PiecesNotShared
  <2>1. ~JobsOut
    BY WhenJobsOut
  <2> QED
    BY <2>1, NothingDue
<1> QED
  BY <1>1, InvAlways, PTL

\* At the end of a frame each piece has been executed once and its listener
\* told once, in either mode and over any number of queues.
THEOREM EveryPieceServed == Spec => []FrameServed
<1>1. Inv => FrameServed
  <2> SUFFICES ASSUME Inv, mpc = "frame", NEW p \in Pieces
               PROVE  /\ executed[p] = IF p \in Added THEN 1 ELSE 0
                      /\ reported[p] = executed[p]
    BY DEF FrameServed
  <2>1. CASE p \notin Added
    BY <2>1 DEF Inv, Progress
  <2>2. CASE p \in Added
    <3>1. PICK j \in Jobs : p \in ToSet(pieces[j])
      BY <2>2 DEF Added
    <3>2. PICK i \in DOMAIN pieces[j] : pieces[j][i] = p
      BY <3>1 DEF ToSet
    <3>3. Ran(j, i) /\ Told(j)
      BY DEF Ran, Told
    <3> QED
      BY <2>2, <3>2, <3>3 DEF Inv, Progress
  <2> QED
    BY <2>1, <2>2
<1> QED
  BY <1>1, InvAlways, PTL

-----------------------------------------------------------------------------
(* FrameJobs implements ForkJoin: BeginProcessing is Fork, a piece that is *)
(* executed is one of those to do, and the return from EndProcessing is    *)
(* Join; everything else stutters.                                         *)

ToDo == IF Forked THEN {p \in Added : executed[p] = 0} ELSE {}

LEMMA ForkStays ==
  ASSUME Forked' <=> Forked, Forked => UNCHANGED <<pieces, executed>>
  PROVE  UNCHANGED <<Forked, ToDo>>
BY DEF ToDo, Added

\* A worker executes a piece that is still to do.
LEMMA PieceToDo ==
  ASSUME Inv, NEW w \in Workers, ExecutePiece(w)
  PROVE  \E q \in Added : /\ executed[q] = 0 /\ executed' = [executed EXCEPT ![q] = 1]
                          /\ q \in Pieces /\ Forked /\ Forked' /\ pieces' = pieces
<1>. PICK h, k, q : h = Head(batch[w]) /\ k = pos[w] /\ q = pieces[h][k]
  OBVIOUS
<1>1. /\ wpc[w] = "pieces" /\ k <= Len(pieces[h]) /\ executed' = [executed EXCEPT ![q] = executed[q] + 1]
      /\ UNCHANGED <<pieces, isMT, mpc, bstep>>
  BY DEF ExecutePiece, managerVars, barrierVars
<1>2. /\ h \in Jobs /\ h \in Unsignalled /\ JobsOut /\ mpc \in {"submit", "best", "end", "report"}
      /\ \A v \in Workers : wpc[v] = "pieces" /\ Head(batch[v]) = h => v = w
  BY <1>1, InJob
<1>3. k \in DOMAIN pieces[h] /\ k \in Nat
  BY <1>1, <1>2, TypesTogether DEF Inv, PoolTypes, ManagerTypes
<1>4. q \in Added /\ q \in Pieces
  BY <1>2, <1>3, PieceOfJob
<1>5. ~Behind(h, k)
  BY <1>2, <1>3 DEF Behind
<1>6. executed[q] = 0
  BY <1>2, <1>3, <1>5 DEF Inv, Progress, Ran
<1>7. Forked
  BY <1>2, WhenJobsOut DEF Forked, Inv, MainAt
<1>8. Forked'
  BY <1>1, <1>7 DEF Forked, Outside
<1>9. executed' = [executed EXCEPT ![q] = 1]
  BY <1>1, <1>6
<1>10. pieces' = pieces
  BY <1>1
<1> QED
  BY <1>4, <1>6, <1>7, <1>8, <1>9, <1>10

\* EndProcessing returns when nothing is to do.
LEMMA NothingToDo ==
  ASSUME Inv, mpc = "report", ~JobsOut
  PROVE  \A p \in Added : executed[p] = 1
<1> SUFFICES ASSUME NEW p \in Added PROVE executed[p] = 1
  OBVIOUS
<1>1. PICK j \in Jobs : p \in ToSet(pieces[j])
  BY DEF Added
<1>2. PICK i \in DOMAIN pieces[j] : pieces[j][i] = p
  BY <1>1 DEF ToSet
<1>3. Ran(j, i)
  BY UnsignalledCounted DEF Ran
<1> QED
  BY <1>2, <1>3 DEF Inv, Progress

LEMMA MapsToForkJoin ==
  ASSUME Inv, [Next]_vars
  PROVE  [Manager!Next]_(Manager!vars)
<1>1. UNCHANGED <<Forked, ToDo>> => UNCHANGED Manager!vars
  BY DEF Manager!vars, ToDo
<1>2. ASSUME NEW w \in Workers, ExecutePiece(w)
      PROVE  Manager!Next
  <2>1. PICK q \in Added : /\ executed[q] = 0 /\ executed' = [executed EXCEPT ![q] = 1]
                           /\ q \in Pieces /\ Forked /\ Forked' /\ pieces' = pieces
    BY <1>2, PieceToDo
  <2>2. executed'[q] = 1 /\ \A p \in Pieces \ {q} : executed'[p] = executed[p]
    BY <2>1, TypesTogether DEF Inv, HistoryTypes
  <2>3. Added' = Added /\ Added \subseteq Pieces
    BY <2>1, TypesTogether, ToSetTyped DEF Added, Inv, ManagerTypes
  <2>4. ToDo' = ToDo \ {q} /\ q \in ToDo
    BY <2>1, <2>2, <2>3 DEF ToDo
  <2>5. Manager!Execute(q)
    BY <2>1, <2>4 DEF Manager!Execute, ToDo
  <2> QED
    BY <2>1, <2>5 DEF Manager!Next
<1>3. ASSUME NEW w \in Workers, WorkerStep(w), ~ExecutePiece(w)
      PROVE  UNCHANGED <<Forked, ToDo>>
  <2>1. /\ UNCHANGED <<isMT, mpc, pieces, executed>> /\ bstep'[Main] = bstep[Main]
    <3>1. bstep \in [Threads -> BarrierSteps] /\ w # Main /\ Main \in Threads
      BY TypesTogether, WorkersTyped DEF Inv, BarrierTypes
    <3>2. CASE TakeBatch(w) \/ StartJob(w) \/ FinishJob(w)
      BY <3>2 DEF TakeBatch, StartJob, FinishJob, managerVars, barrierVars, history
    <3>3. CASE SignalJob(w)
      <4>1. SignalCall(w) /\ UNCHANGED <<isMT, mpc, pieces, executed>>
        BY <3>3 DEF SignalJob, managerVars, history
      <4>2. bstep'[Main] = bstep[Main]
        BY <4>1, <3>1 DEF SignalCall, SignalArriveLast, SignalArriveEarly, BGoto
      <4> QED
        BY <4>1, <4>2
    <3> QED
      BY <1>3, <3>2, <3>3 DEF WorkerStep
  <2>2. Forked' <=> Forked
    BY <2>1 DEF Forked, Outside
  <2> QED
    BY <2>1, <2>2, ForkStays
<1>4. CASE BeginProcessing
  <2>1. mpc = "fill" /\ mpc' = "submit" /\ isMT /\ isMT'
    BY <1>4 DEF BeginProcessing
  <2>2. ~Forked /\ Forked'
    BY <2>1 DEF Forked
  <2>3. ToDo' \subseteq Pieces
    <3>1. pieces' \in [Jobs -> Seq(Pieces)]
      BY TypeKept DEF TypeOK
    <3> QED
      BY <3>1, ToSetTyped DEF ToDo, Added
  <2>4. PICK S : S = ToDo'
    OBVIOUS
  <2>5. S \in SUBSET Pieces /\ Manager!Fork(S)
    BY <2>2, <2>3, <2>4 DEF Manager!Fork, ToDo
  <2> QED
    BY <2>5 DEF Manager!Next
<1>5. ASSUME NEW t \in Workers \cup {Main}, InBarrier(t)
      PROVE  UNCHANGED <<Forked, ToDo>> \/ Manager!Join
  <2>1. UNCHANGED <<isMT, mpc, pieces, executed>>
    BY <1>5 DEF InBarrier, managerVars, history
  <2>2. CASE Outside(Main)' <=> Outside(Main)
    <3>1. Forked' <=> Forked
      BY <2>1, <2>2 DEF Forked
    <3> QED
      BY <2>1, <3>1, ForkStays
  <2>3. CASE ~(Outside(Main)' <=> Outside(Main))
    <3>1. bstep \in [Threads -> BarrierSteps] /\ Main \in Threads /\ Workers \subseteq Threads \ {Main}
      BY TypesTogether, WorkersTyped DEF Inv, BarrierTypes
    <3>2. BlockReturn(Main) \/ LeaveBroadcast(Main) \/ ResetLocks(Main)
      BY <1>5, <2>3, <3>1
         DEF InBarrier, BarrierStep, CallStep, BlockArriveLast, BlockArriveEarly, BlockWait,
             BlockReturn, BroadcastCall, LeaveBroadcast, Release, SetMaxLocks, ResetLocks, BGoto,
             Outside, barrierVars
    <3>3. ~Outside(Main) /\ Outside(Main)' /\ ~JobsOut
      BY <2>3, <3>2 DEF BlockReturn, LeaveBroadcast, ResetLocks, Outside, JobsOut, Blocked
    <3>4. CASE isMT /\ mpc = "report"
      <4>1. Forked /\ ~Forked'
        BY <2>1, <3>3, <3>4 DEF Forked
      <4>2. ToDo = {} /\ ToDo' = {}
        BY <3>3, <3>4, <4>1, NothingToDo DEF ToDo
      <4>3. Forked = TRUE /\ Forked' = FALSE /\ ToDo' = ToDo
        BY <4>1, <4>2
      <4> QED
        BY <4>2, <4>3 DEF Manager!Join, ToDo
    <3>5. CASE ~(isMT /\ mpc = "report")
      <4>1. Forked' <=> Forked
        BY <2>1, <3>5 DEF Forked
      <4> QED
        BY <2>1, <4>1, ForkStays
    <3> QED
      BY <3>4, <3>5
  <2> QED
    BY <2>2, <2>3
<1>6. ASSUME MainStep \/ (\E mt, reset \in BOOLEAN : StartFrame(mt, reset)), ~BeginProcessing
      PROVE  UNCHANGED <<Forked, ToDo>>
  <2>1. \/ ~Forked /\ ~Forked'
        \/ Forked /\ Forked' /\ UNCHANGED <<pieces, executed>>
    <3>1. CASE (\E mt, reset \in BOOLEAN : StartFrame(mt, reset)) \/ ResetJob \/ ResetDone \/ AddPiece
               \/ BeginInline \/ InlineJob \/ InlineReport \/ ReportJob \/ FrameDone
      <4>1. ~Forked
        BY <3>1 DEF StartFrame, ResetJob, ResetDone, AddPiece, BeginInline, InlineJob, InlineReport,
                    ReportJob, FrameDone, Forked
      <4>2. mpc' \notin {"submit", "best", "end"} /\ (mpc' = "report" => Outside(Main)')
        BY <3>1 DEF StartFrame, ResetJob, ResetDone, AddPiece, BeginInline, InlineJob, InlineReport,
                    ReportJob, FrameDone, Outside, barrierVars
      <4> QED
        BY <4>1, <4>2 DEF Forked
    <3>2. CASE SkipJob \/ SubmitJob \/ ReadOrdersCount \/ AddRequest \/ SubmitDone \/ EndProcessing
      <4>1. /\ isMT /\ mpc \in {"submit", "best", "end"}
            /\ UNCHANGED <<isMT, pieces, executed>>
        BY <3>2 DEF SkipJob, SubmitJob, ReadOrdersCount, AddRequest, SubmitDone, EndProcessing,
                    history, Inv, MainAt
      <4>2. mpc' \in {"submit", "best", "end"} \/ (mpc' = "report" /\ ~Outside(Main)')
        <5>1. bstep \in [Threads -> BarrierSteps] /\ Main \in Threads
          BY TypesTogether, WorkersTyped DEF Inv, BarrierTypes
        <5> QED
          BY <3>2, <5>1 DEF SkipJob, SubmitJob, ReadOrdersCount, AddRequest, SubmitDone, EndProcessing,
                            BlockCall, BGoto, Outside
      <4> QED
        BY <4>1, <4>2 DEF Forked
    <3> QED
      BY <1>6, <3>1, <3>2 DEF MainStep
  <2> QED
    BY <2>1, ForkStays
<1>7. CASE UNCHANGED vars
  <2>1. UNCHANGED <<isMT, mpc, pieces, executed, bstep>>
    BY <1>7 DEF vars, managerVars, barrierVars, history
  <2>2. Forked' <=> Forked
    BY <2>1 DEF Forked, Outside
  <2> QED
    BY <1>1, <2>1, <2>2, ForkStays
<1>8. Manager!Join => Manager!Next
  BY DEF Manager!Next
<1> QED
  BY <1>1, <1>2, <1>3, <1>4, <1>5, <1>6, <1>7, <1>8 DEF Next

\* ThreadJobManager keeps the promise of ForkJoin, but for the liveness that
\* FairSpec adds: no piece is executed twice, none that was not handed out, and
\* EndProcessing does not return before the last of them.
THEOREM FramesForkAndJoin == Spec => Manager!Spec
<1>1. Init => Manager!Init
  BY DEF Init, Forked, Manager!Init
<1> QED
  BY <1>1, InvAlways, MapsToForkJoin, PTL DEF Spec, Manager!Spec

=============================================================================
