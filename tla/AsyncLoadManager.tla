--------------------------- MODULE AsyncLoadManager ---------------------------
(***************************************************************************)
(* AsyncLoadManager (src/Engine/mrayEngine/src/AsyncLoadManager.cpp): load *)
(* requests wait in one queue per priority, and a single job order, which  *)
(* is submitted to the JobPool when it is not in use, pops and loads them  *)
(* until the queues are empty.  The flag m_jobInUse is read and written    *)
(* without a lock: by AddRequest on the thread of the caller, and by the   *)
(* completion listener on the worker.                                      *)
(***************************************************************************)
EXTENDS Naturals, Sequences, FiniteSets, SequencesExt

CONSTANTS Callers,     \* threads that call AddRequest
          Workers,     \* threads of the JobPool
          Requests,    \* IAsyncLoadRequest objects
          NoRequest,
          Priorities   \* a set of numbers; the lowest is served first

ASSUME LoadAssumption ==
  /\ NoRequest \notin Requests
  /\ Priorities \subseteq Nat

VARIABLES queues,     \* m_requestQueues
          jobInUse,   \* m_jobInUse
          submitted,  \* submissions of m_loadingJob no worker has taken yet
          cpc,        \* where each caller is in AddRequest
          wpc, cur,   \* where each worker is in the loading job; its request
          loaded,     \* m_loaded of each request
          started     \* history: StartLoading calls on each request

loadVars == <<queues, jobInUse, submitted, cpc, wpc, cur, loaded, started>>

LoadTypeOK ==
  /\ queues \in [Priorities -> Seq(Requests)]
  /\ jobInUse \in BOOLEAN
  /\ submitted \in Nat
  /\ cpc \in [Callers -> {"idle", "test", "mark", "submit"}]
  /\ wpc \in [Workers -> {"idle", "pop", "start", "loading", "failed", "complete"}]
  /\ cur \in [Workers -> Requests \cup {NoRequest}]
  /\ loaded \in [Requests -> BOOLEAN]
  /\ started \in [Requests -> Nat]

LoadInit ==
  /\ queues = [p \in Priorities |-> <<>>]
  /\ jobInUse = FALSE
  /\ submitted = 0
  /\ cpc = [c \in Callers |-> "idle"]
  /\ wpc = [w \in Workers |-> "idle"]
  /\ cur = [w \in Workers |-> NoRequest]
  /\ loaded = [r \in Requests |-> FALSE]
  /\ started = [r \in Requests |-> 0]

Queued == UNION {ToSet(queues[p]) : p \in Priorities}

-----------------------------------------------------------------------------
(* AddRequest, on the thread of the caller.                                *)

\* The accessor pushes under its mutex.
PushRequest(c, r, p) ==
  /\ cpc[c] = "idle"
  /\ queues' = [queues EXCEPT ![p] = Append(@, r)]
  /\ cpc' = [cpc EXCEPT ![c] = "test"]
  /\ UNCHANGED <<jobInUse, submitted, wpc, cur, loaded, started>>

TestInUse(c) ==
  /\ cpc[c] = "test"
  /\ cpc' = [cpc EXCEPT ![c] = IF jobInUse THEN "idle" ELSE "mark"]
  /\ UNCHANGED <<queues, jobInUse, submitted, wpc, cur, loaded, started>>

\* Variant: the flag is not set.
MarkInUseForgotten(c) ==
  /\ cpc[c] = "mark"
  /\ cpc' = [cpc EXCEPT ![c] = "submit"]
  /\ UNCHANGED <<queues, jobInUse, submitted, wpc, cur, loaded, started>>

MarkInUse(c) ==
  /\ cpc[c] = "mark"
  /\ jobInUse' = TRUE
  /\ cpc' = [cpc EXCEPT ![c] = "submit"]
  /\ UNCHANGED <<queues, submitted, wpc, cur, loaded, started>>

SubmitJob(c) ==
  /\ cpc[c] = "submit"
  /\ submitted' = submitted + 1
  /\ cpc' = [cpc EXCEPT ![c] = "idle"]
  /\ UNCHANGED <<queues, jobInUse, wpc, cur, loaded, started>>

-----------------------------------------------------------------------------
(* The loading job, on a worker of the pool.                               *)

\* Variant: a worker starts the job although nobody submitted it.
TakeJobUnasked(w) ==
  /\ wpc[w] = "idle"
  /\ submitted' = submitted - 1
  /\ wpc' = [wpc EXCEPT ![w] = "pop"]
  /\ UNCHANGED <<queues, jobInUse, cpc, cur, loaded, started>>

TakeJob(w) ==
  /\ wpc[w] = "idle" /\ submitted > 0
  /\ submitted' = submitted - 1
  /\ wpc' = [wpc EXCEPT ![w] = "pop"]
  /\ UNCHANGED <<queues, jobInUse, cpc, cur, loaded, started>>

\* Variant: the request stays at the front of its queue.
PopRequestKeep(w) ==
  /\ wpc[w] = "pop"
  /\ \E p \in Priorities :
       /\ queues[p] # <<>>
       /\ \A q \in Priorities : q < p => queues[q] = <<>>
       /\ cur' = [cur EXCEPT ![w] = Head(queues[p])]
  /\ wpc' = [wpc EXCEPT ![w] = "start"]
  /\ UNCHANGED <<queues, jobInUse, submitted, cpc, loaded, started>>

\* PopRequest, under the mutex of the accessor.
PopRequest(w) ==
  /\ wpc[w] = "pop"
  /\ \E p \in Priorities :
       /\ queues[p] # <<>>
       /\ \A q \in Priorities : q < p => queues[q] = <<>>
       /\ cur' = [cur EXCEPT ![w] = Head(queues[p])]
       /\ queues' = [queues EXCEPT ![p] = Tail(@)]
  /\ wpc' = [wpc EXCEPT ![w] = "start"]
  /\ UNCHANGED <<jobInUse, submitted, cpc, loaded, started>>

FindNone(w) ==
  /\ wpc[w] = "pop"
  /\ Queued = {}
  /\ wpc' = [wpc EXCEPT ![w] = "complete"]
  /\ UNCHANGED <<queues, jobInUse, submitted, cpc, cur, loaded, started>>

\* Variant: m_loaded is set before the work is done.
StartLoadingDone(w) ==
  /\ wpc[w] = "start"
  /\ started' = [started EXCEPT ![cur[w]] = @ + 1]
  /\ loaded' = [loaded EXCEPT ![cur[w]] = TRUE]
  /\ wpc' = [wpc EXCEPT ![w] = "loading"]
  /\ UNCHANGED <<queues, jobInUse, submitted, cpc, cur>>

\* StartLoading begins: TextureAsyncLoader calls loadInternal ...
StartLoading(w) ==
  /\ wpc[w] = "start"
  /\ started' = [started EXCEPT ![cur[w]] = @ + 1]
  /\ wpc' = [wpc EXCEPT ![w] = "loading"]
  /\ UNCHANGED <<queues, jobInUse, submitted, cpc, cur, loaded>>

\* Variant: the job ends after one request.
FinishLoadingOnce(w) ==
  /\ wpc[w] = "loading"
  /\ loaded' = [loaded EXCEPT ![cur[w]] = TRUE]
  /\ cur' = [cur EXCEPT ![w] = NoRequest]
  /\ wpc' = [wpc EXCEPT ![w] = "complete"]
  /\ UNCHANGED <<queues, jobInUse, submitted, cpc, started>>

\* ... and sets m_loaded at the end, the last access to the request.
FinishLoading(w) ==
  /\ wpc[w] = "loading"
  /\ loaded' = [loaded EXCEPT ![cur[w]] = TRUE]
  /\ cur' = [cur EXCEPT ![w] = NoRequest]
  /\ wpc' = [wpc EXCEPT ![w] = "pop"]
  /\ UNCHANGED <<queues, jobInUse, submitted, cpc, started>>

\* A request of another kind may fail; then OnFailedLoading is called.
FailLoading(w) ==
  /\ wpc[w] = "loading"
  /\ wpc' = [wpc EXCEPT ![w] = "failed"]
  /\ UNCHANGED <<queues, jobInUse, submitted, cpc, cur, loaded, started>>

OnFailedLoading(w) ==
  /\ wpc[w] = "failed"
  /\ cur' = [cur EXCEPT ![w] = NoRequest]
  /\ wpc' = [wpc EXCEPT ![w] = "pop"]
  /\ UNCHANGED <<queues, jobInUse, submitted, cpc, loaded, started>>

LoadingComplete(w) ==
  /\ wpc[w] = "complete"
  /\ jobInUse' = FALSE
  /\ wpc' = [wpc EXCEPT ![w] = "idle"]
  /\ UNCHANGED <<queues, submitted, cpc, cur, loaded, started>>

-----------------------------------------------------------------------------
FinishAdd(c) == TestInUse(c) \/ MarkInUse(c) \/ SubmitJob(c)

\* The loading job with requests that never fail, as those of textures.
LoadStep(w) ==
  \/ TakeJob(w) \/ PopRequest(w) \/ FindNone(w)
  \/ StartLoading(w) \/ FinishLoading(w)
  \/ LoadingComplete(w)

FailStep(w) == FailLoading(w) \/ OnFailedLoading(w)

\* Each request object is added once.
Fresh(r) == r \notin Queued /\ started[r] = 0 /\ \A w \in Workers : cur[w] # r

ManagerNext ==
  \/ \E c \in Callers, r \in Requests, p \in Priorities : Fresh(r) /\ PushRequest(c, r, p)
  \/ \E c \in Callers : FinishAdd(c)
  \/ \E w \in Workers : LoadStep(w) \/ FailStep(w)

ManagerSpec == LoadInit /\ [][ManagerNext]_loadVars

ManagerFairness ==
  /\ \A c \in Callers : WF_loadVars(FinishAdd(c))
  /\ \A w \in Workers : WF_loadVars(LoadStep(w) \/ FailStep(w))

ManagerFairSpec == ManagerSpec /\ ManagerFairness

-----------------------------------------------------------------------------
(* Properties.                                                             *)

\* Although two callers may both find m_jobInUse clear and submit the job
\* twice, so that two workers pop at a time, a request is loaded once: it is
\* in one queue, once, or in the hands of one worker, or done.
LoadedOnce ==
  /\ \A r \in Requests : started[r] <= 1
  /\ \A p, q \in Priorities : p # q => ToSet(queues[p]) \cap ToSet(queues[q]) = {}
  /\ \A p \in Priorities : IsInjective(queues[p])
  /\ \A w \in Workers : cur[w] # NoRequest =>
       /\ cur[w] \notin Queued
       /\ \A v \in Workers : cur[v] = cur[w] => v = w
       /\ (wpc[w] = "start") = (started[cur[w]] = 0)

\* Requests are stranded only by a caller that read m_jobInUse before the
\* completion of the job cleared it: a caller that finds the flag clear always
\* gets its request, and all that were stranded before it, out of the queue.
ClearFlagDrains == \A c \in Callers, r \in Requests :
  (cpc[c] \in {"mark", "submit"} /\ r \in Queued) ~> (r \notin Queued)

=============================================================================
