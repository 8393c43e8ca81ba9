------------------------------ MODULE FrameJobs ------------------------------
(***************************************************************************)
(* A frame of the engine: ThreadJobManager (ThreadJobManager.cpp) cuts the *)
(* work into pieces, spreads them over a few jobs, submits the jobs to the *)
(* queues of the JobPool (JobPool.cpp) and joins with the workers at a     *)
(* ThreadBarrier.  The main thread is the only one that blocks at this     *)
(* barrier; the workers only signal it.                                    *)
(*                                                                         *)
(* The queues appear here as JobService describes them, split in the part  *)
(* GetOrdersCount counts and the batch a worker has taken; the barrier and *)
(* its condition variable appear in full.                                  *)
(***************************************************************************)
EXTENDS ThreadBarrier, Sequences, FiniteSets, SequencesExt

CONSTANTS Main,
          Queues,      \* the workers of the JobPool, a sequence ordered by queue id
          JobCount,    \* number of jobs of the manager, 4 in the code
          MaxPieces,   \* bound on the pieces added in a frame
          MaxFrames    \* bound on the number of frames

Workers == ToSet(Queues)
Jobs == 0..(JobCount - 1)
Pieces == 1..MaxPieces

ASSUME FrameAssumption ==
  /\ Main \in Threads
  /\ Queues \in Seq(Threads \ {Main}) /\ Queues # <<>> /\ IsInjective(Queues)
  /\ JobCount \in Nat \ {0}
  /\ MaxPieces \in Nat /\ MaxFrames \in Nat

NoJob == JobCount

VARIABLES pieces,      \* m_pieces of each job
          currStack,   \* m_currStack
          used,        \* m_usedThreadsCount
          isMT,        \* m_isMT
          mpc,         \* where the main thread is
          mj,          \* its loop index over the jobs
          mq, bestQ, bestCnt,  \* locals of FindBestQueue
          requests,    \* m_requests of each queue
          batch,       \* what its worker has taken
          wpc,         \* where each worker is in TimedJob::ExecuteJob
          pos,         \* its index into the pieces of the job
          executed,    \* history: executions of each piece in this frame
          reported,    \* history: SignalJobDone calls for it in this frame
          frames       \* frames begun, at most MaxFrames

managerVars == <<pieces, currStack, used, isMT, mpc, mj, mq, bestQ, bestCnt, frames>>
poolVars == <<requests, batch, wpc, pos>>
history == <<executed, reported>>
vars == <<condVars, barrierVars, managerVars, poolVars, history>>

MainSteps == {"frame", "reset", "fill", "submit", "best", "inline", "inlineDone", "end", "block", "report"}

TypeOK ==
  /\ BarrierTypeOK
  /\ pieces \in [Jobs -> Seq(Pieces)]
  /\ currStack \in Jobs
  /\ used \in 0..JobCount
  /\ isMT \in BOOLEAN
  /\ mpc \in MainSteps
  /\ mj \in 0..JobCount
  /\ mq \in 1..(Len(Queues) + 1)
  /\ bestQ \in DOMAIN Queues
  /\ bestCnt \in Nat
  /\ requests \in [Workers -> Seq(Jobs)]
  /\ batch \in [Workers -> Seq(Jobs)]
  /\ wpc \in [Workers -> {"idle", "pieces", "signalled"}]
  /\ pos \in [Workers -> Nat \ {0}]
  /\ executed \in [Pieces -> Nat]
  /\ reported \in [Pieces -> Nat]
  /\ frames \in 0..MaxFrames

Init ==
  /\ BarrierInit
  /\ pieces = [j \in Jobs |-> <<>>]
  /\ currStack = 0 /\ used = 0 /\ isMT = FALSE
  /\ mpc = "frame" /\ mj = 0 /\ mq = 1 /\ bestQ = 1 /\ bestCnt = 0
  /\ requests = [w \in Workers |-> <<>>]
  /\ batch = [w \in Workers |-> <<>>]
  /\ wpc = [w \in Workers |-> "idle"]
  /\ pos = [w \in Workers |-> 1]
  /\ executed = [p \in Pieces |-> 0]
  /\ reported = [p \in Pieces |-> 0]
  /\ frames = 0

Added == UNION {ToSet(pieces[j]) : j \in Jobs}
Busy == {j \in Jobs : pieces[j] # <<>>}

-----------------------------------------------------------------------------
(* The main thread: between frames it may change the mode and either keeps *)
(* its pieces, as RenderManager does, or starts with Reset, as             *)
(* SceneManager does.                                                      *)

StartFrame(mt, reset) ==
  /\ mpc = "frame"
  /\ frames < MaxFrames
  /\ frames' = frames + 1
  /\ isMT' = mt
  /\ mpc' = IF reset THEN "reset" ELSE "fill"
  /\ mj' = 0
  /\ executed' = [p \in Pieces |-> 0]
  /\ reported' = [p \in Pieces |-> 0]
  /\ UNCHANGED <<condVars, barrierVars, pieces, currStack, used, mq, bestQ, bestCnt, poolVars>>

\* Reset: JobPool::RemoveRequest asks the first queue only, because
\* JobQueue::RemoveRequest always returns true.
ResetJob ==
  /\ mpc = "reset" /\ mj < JobCount
  /\ pieces' = [pieces EXCEPT ![mj] = <<>>]
  /\ requests' = [requests EXCEPT ![Queues[1]] = RemoveFirst(@, mj)]
  /\ mj' = mj + 1
  /\ UNCHANGED <<condVars, barrierVars, currStack, used, isMT, mpc, mq, bestQ, bestCnt, frames,
                 batch, wpc, pos, history>>

ResetDone ==
  /\ mpc = "reset" /\ mj = JobCount
  /\ currStack' = 0 /\ used' = 0
  /\ mpc' = "fill"
  /\ UNCHANGED <<condVars, barrierVars, pieces, isMT, mj, mq, bestQ, bestCnt, frames, poolVars, history>>

AddPiece ==
  /\ mpc = "fill"
  /\ \E p \in Pieces : /\ p \notin Added
                       /\ \A q \in Pieces : q < p => q \in Added
                       /\ pieces' = [pieces EXCEPT ![currStack] = Append(@, p)]
  /\ currStack' = (currStack + 1) % JobCount
  /\ UNCHANGED <<condVars, barrierVars, used, isMT, mpc, mj, mq, bestQ, bestCnt, frames, poolVars, history>>

\* Variant: the barrier does not count the main thread.
BeginProcessingShort ==
  /\ mpc = "fill" /\ isMT
  /\ used' = Cardinality(Busy)
  /\ SetTargetCount(Main, Cardinality(Busy))
  /\ mpc' = "submit" /\ mj' = 0
  /\ UNCHANGED <<pieces, currStack, isMT, mq, bestQ, bestCnt, frames, poolVars, history>>

\* BeginProcessing, multi-threaded: count the jobs and set up the barrier.
BeginProcessing ==
  /\ mpc = "fill" /\ isMT
  /\ used' = Cardinality(Busy)
  /\ SetTargetCount(Main, Cardinality(Busy) + 1)
  /\ mpc' = "submit" /\ mj' = 0
  /\ UNCHANGED <<pieces, currStack, isMT, mq, bestQ, bestCnt, frames, poolVars, history>>

\* The loop over the jobs, and JobPool::AddRequest for one that has pieces.
SkipJob ==
  /\ mpc = "submit" /\ Outside(Main)
  /\ mj < JobCount /\ mj \notin Busy
  /\ mj' = mj + 1
  /\ UNCHANGED <<condVars, barrierVars, pieces, currStack, used, isMT, mpc, mq, bestQ, bestCnt, frames,
                 poolVars, history>>

SubmitJob ==
  /\ mpc = "submit" /\ Outside(Main)
  /\ mj \in Busy
  /\ mpc' = "best" /\ mq' = 1
  /\ UNCHANGED <<condVars, barrierVars, pieces, currStack, used, isMT, mj, bestQ, bestCnt, frames,
                 poolVars, history>>

\* FindBestQueue: one GetOrdersCount at a time, while the workers go on.
ReadOrdersCount ==
  /\ mpc = "best" /\ mq <= Len(Queues)
  /\ LET c == Len(requests[Queues[mq]])
         better == mq = 1 \/ c < bestCnt
     IN  /\ bestQ' = IF better THEN mq ELSE bestQ
         /\ bestCnt' = IF better THEN c ELSE bestCnt
  /\ mq' = mq + 1
  /\ UNCHANGED <<condVars, barrierVars, pieces, currStack, used, isMT, mpc, mj, frames, poolVars, history>>

AddRequest ==
  /\ mpc = "best" /\ mq > Len(Queues)
  /\ requests' = [requests EXCEPT ![Queues[bestQ]] = Append(@, mj)]
  /\ mpc' = "submit" /\ mj' = mj + 1
  /\ UNCHANGED <<condVars, barrierVars, pieces, currStack, used, isMT, mq, bestQ, bestCnt, frames,
                 batch, wpc, pos, history>>

SubmitDone ==
  /\ mpc = "submit" /\ Outside(Main) /\ mj = JobCount
  /\ mpc' = "end"
  /\ UNCHANGED <<condVars, barrierVars, pieces, currStack, used, isMT, mj, mq, bestQ, bestCnt, frames,
                 poolVars, history>>

\* Variant: the main thread does not count itself.
EndProcessingShort ==
  /\ mpc = "end"
  /\ BlockCall(Main, used)
  /\ mpc' = "report" /\ mj' = 0
  /\ UNCHANGED <<pieces, currStack, used, isMT, mq, bestQ, bestCnt, frames, poolVars, history>>

\* EndProcessing, multi-threaded: join, then SignalJobsDone for every job.
EndProcessing ==
  /\ mpc = "end"
  /\ BlockCall(Main, used + 1)
  /\ mpc' = "report" /\ mj' = 0
  /\ UNCHANGED <<pieces, currStack, used, isMT, mq, bestQ, bestCnt, frames, poolVars, history>>

SignalJobsDone ==
  reported' = [p \in Pieces |-> IF p \in ToSet(pieces[mj]) THEN reported[p] + 1 ELSE reported[p]]

ReportJob ==
  /\ mpc = "report" /\ Outside(Main) /\ mj < JobCount
  /\ SignalJobsDone
  /\ mj' = mj + 1
  /\ UNCHANGED <<condVars, barrierVars, pieces, currStack, used, isMT, mpc, mq, bestQ, bestCnt, frames,
                 poolVars, executed>>

\* BeginProcessing, single-threaded: the main thread executes each job itself,
\* and the job signals the barrier as it does on a worker.
BeginInline ==
  /\ mpc = "fill" /\ ~isMT
  /\ mpc' = "inline" /\ mj' = 0
  /\ UNCHANGED <<condVars, barrierVars, pieces, currStack, used, isMT, mq, bestQ, bestCnt, frames,
                 poolVars, history>>

InlineJob ==
  /\ mpc = "inline" /\ mj < JobCount
  /\ executed' = [p \in Pieces |-> IF p \in ToSet(pieces[mj]) THEN executed[p] + 1 ELSE executed[p]]
  /\ IF mj \in Busy THEN SignalCall(Main) ELSE UNCHANGED <<condVars, barrierVars>>
  /\ mpc' = "inlineDone"
  /\ UNCHANGED <<pieces, currStack, used, isMT, mj, mq, bestQ, bestCnt, frames, poolVars, reported>>

InlineReport ==
  /\ mpc = "inlineDone" /\ Outside(Main)
  /\ SignalJobsDone
  /\ mpc' = "inline" /\ mj' = mj + 1
  /\ UNCHANGED <<condVars, barrierVars, pieces, currStack, used, isMT, mq, bestQ, bestCnt, frames,
                 poolVars, executed>>

FrameDone ==
  /\ mpc \in {"report", "inline"} /\ Outside(Main) /\ mj = JobCount
  /\ mpc' = "frame"
  /\ UNCHANGED <<condVars, barrierVars, pieces, currStack, used, isMT, mj, mq, bestQ, bestCnt, frames,
                 poolVars, history>>

-----------------------------------------------------------------------------
(* The workers: TimedJob::ExecuteJob, job after job.                       *)

TakeBatch(w) ==
  /\ batch[w] = <<>> /\ requests[w] # <<>>
  /\ batch' = [batch EXCEPT ![w] = requests[w]]
  /\ requests' = [requests EXCEPT ![w] = <<>>]
  /\ UNCHANGED <<condVars, barrierVars, managerVars, wpc, pos, history>>

\* Variant: the loop over the pieces skips the first.
StartJobSecond(w) ==
  /\ wpc[w] = "idle" /\ batch[w] # <<>>
  /\ wpc' = [wpc EXCEPT ![w] = "pieces"]
  /\ pos' = [pos EXCEPT ![w] = 2]
  /\ UNCHANGED <<condVars, barrierVars, managerVars, requests, batch, history>>

StartJob(w) ==
  /\ wpc[w] = "idle" /\ batch[w] # <<>>
  /\ wpc' = [wpc EXCEPT ![w] = "pieces"]
  /\ pos' = [pos EXCEPT ![w] = 1]
  /\ UNCHANGED <<condVars, barrierVars, managerVars, requests, batch, history>>

ExecutePiece(w) ==
  /\ wpc[w] = "pieces"
  /\ LET todo == pieces[Head(batch[w])]
     IN  /\ pos[w] <= Len(todo)
         /\ executed' = [executed EXCEPT ![todo[pos[w]]] = @ + 1]
  /\ pos' = [pos EXCEPT ![w] = @ + 1]
  /\ UNCHANGED <<condVars, barrierVars, managerVars, requests, batch, wpc, reported>>

\* Variant: the job signals before it has executed its pieces.
SignalJobEarly(w) ==
  /\ wpc[w] = "pieces"
  /\ SignalCall(w)
  /\ wpc' = [wpc EXCEPT ![w] = "signalled"]
  /\ UNCHANGED <<managerVars, requests, batch, pos, history>>

SignalJob(w) ==
  /\ wpc[w] = "pieces"
  /\ pos[w] > Len(pieces[Head(batch[w])])
  /\ SignalCall(w)
  /\ wpc' = [wpc EXCEPT ![w] = "signalled"]
  /\ UNCHANGED <<managerVars, requests, batch, pos, history>>

FinishJob(w) ==
  /\ wpc[w] = "signalled" /\ Outside(w)
  /\ batch' = [batch EXCEPT ![w] = Tail(@)]
  /\ wpc' = [wpc EXCEPT ![w] = "idle"]
  /\ UNCHANGED <<condVars, barrierVars, managerVars, requests, pos, history>>

-----------------------------------------------------------------------------
MainStep ==
  \/ ResetJob \/ ResetDone \/ AddPiece
  \/ BeginProcessing \/ SkipJob \/ SubmitJob \/ ReadOrdersCount \/ AddRequest \/ SubmitDone
  \/ EndProcessing \/ ReportJob
  \/ BeginInline \/ InlineJob \/ InlineReport
  \/ FrameDone

WorkerStep(w) ==
  \/ TakeBatch(w) \/ StartJob(w) \/ ExecutePiece(w) \/ SignalJob(w) \/ FinishJob(w)

InBarrier(t) == BarrierStep(t) /\ UNCHANGED <<managerVars, poolVars, history>>

Next ==
  \/ \E mt, reset \in BOOLEAN : StartFrame(mt, reset)
  \/ MainStep
  \/ \E w \in Workers : WorkerStep(w)
  \/ \E t \in Workers \cup {Main} : InBarrier(t)

Spec == Init /\ [][Next]_vars

\* Every thread runs; starting a frame is up to the application.
Fairness ==
  /\ WF_vars(MainStep)
  /\ \A w \in Workers : WF_vars(WorkerStep(w))
  /\ \A t \in Workers \cup {Main} : WF_vars(InBarrier(t))

FairSpec == Spec /\ Fairness

-----------------------------------------------------------------------------
(* Properties.                                                             *)

\* The jobs worker w still has to count at the barrier.
Due(w) ==
  ToSet(requests[w]) \cup ToSet(IF wpc[w] = "signalled" THEN Tail(batch[w]) ELSE batch[w])

\* The jobs of the frame that have not counted at the barrier.
Unsignalled ==
  (UNION {Due(w) : w \in Workers}) \cup
  (IF mpc \in {"submit", "best"} THEN {j \in Busy : j >= mj} ELSE {})

\* The main thread has arrived and EndProcessing is not released yet.
Blocked == bstep[Main] = "check" /\ phase = myPhase[Main]

\* While the jobs of a frame are out, the counter of the barrier lacks just the
\* jobs that have not signalled and the main thread itself: no signal of an
\* earlier or of a single-threaded frame is left in it, and none is lost, so
\* the last arrival is the one that completes the count.
CountMatchesJobs ==
  (\/ mpc \in {"submit", "best", "end"} /\ Outside(Main)
   \/ bstep[Main] = "enter"
   \/ Blocked) =>
    /\ maxLocks = used + 1
    /\ locks + Cardinality(Unsignalled) = used + (IF Blocked THEN 1 ELSE 0)

\* The vector of pieces of a job is not locked: whenever the main thread
\* changes it or calls the listeners of its pieces, no worker is inside
\* ExecuteJob, and none will be before the next BeginProcessing.
PiecesNotShared ==
  (mpc \in {"reset", "fill", "frame"} \/ (mpc = "report" /\ Outside(Main))) =>
    \A w \in Workers : wpc[w] # "pieces" /\ requests[w] = <<>>

\* At the end of a frame every piece has been executed once and its listener
\* has been told once, in either mode, however the jobs were spread.
FrameServed ==
  (mpc = "frame" /\ frames > 0) =>
    \A p \in Pieces : /\ executed[p] = IF p \in Added THEN 1 ELSE 0
                      /\ reported[p] = executed[p]

\* EndProcessing is the join of the fork in BeginProcessing.
Forked == isMT /\ (mpc \in {"submit", "best", "end"} \/ (mpc = "report" /\ ~Outside(Main)))

Manager == INSTANCE ForkJoin WITH
  forked <- Forked,
  todo   <- IF Forked THEN {p \in Added : executed[p] = 0} ELSE {}

ImplementsForkJoin == Manager!FairSpec

=============================================================================
