------------------------------ MODULE JobQueue ------------------------------
(***************************************************************************)
(* JobQueue (src/Engine/mrayEngine/src/JobQueue.cpp): the queue of work    *)
(* orders in front of one worker thread.  Client threads add and remove    *)
(* orders, the worker takes whole batches and runs them, and the owner     *)
(* (JobPool) finally deletes the queue, which has to stop the worker.      *)
(*                                                                         *)
(* LoadRequest objects travel through the queue by pointer and are reused  *)
(* through the graveyard, so they are modelled as a heap of identities     *)
(* with fields.  A LoadRequest erased by RemoveRequest belongs to no list  *)
(* any more: it is never reused and never deleted.                         *)
(***************************************************************************)
EXTENDS WinCondition, Sequences, SequencesExt

CONSTANTS Worker,     \* the thread of the queue
          Owner,      \* the thread that deletes the queue
          Requests,   \* the LoadRequest objects that new may return
          NoRequest,
          NoOrder,    \* a cleared order field
          Arguments,  \* what AddRequest is called with: [order, listner, barrier]
          MaxCalls    \* bound on the calls of AddRequest and RemoveRequest

ASSUME ThreadsAssumption == Worker \in Threads /\ Owner \in Threads /\ Worker # Owner
ASSUME RequestAssumption == NoRequest \notin Requests
ASSUME CallsAssumption == MaxCalls \in Nat

Clients == Threads \ {Worker, Owner}

Orders == {a.order : a \in Arguments}

ASSUME ArgumentsAssumption ==
  /\ \A a \in Arguments : /\ a = [order |-> a.order, listner |-> a.listner, barrier |-> a.barrier]
                          /\ a.listner \in BOOLEAN
                          /\ a.barrier \in BOOLEAN
  /\ NoOrder \notin Orders

VARIABLES requests,    \* m_requests of the queue
          graveyard,   \* m_graveyard
          terminated,  \* m_terminated
          allocated,   \* LoadRequest objects created so far
          fields,      \* the fields of each LoadRequest
          batch,       \* m_requests of the thread function
          it,          \* its iterator: batch[it] is the request being served
          result,      \* what ExecuteJob returned for batch[it]
          wpc,         \* where the worker is in execute()
          active,      \* WinThread::active of the worker
          cpc, hand,   \* where each client is; the request it is filling in
          opc,         \* where the owner is in ~JobQueue
          calls,       \* calls made so far, at most MaxCalls
          ran,         \* history: [args, res] of every ExecuteJob, in order
          heard,       \* history: [order, res] of every listener call
          signalled    \* history: number of barrier->Signal() calls

queueVars  == <<requests, graveyard, allocated, fields>>
workerVars == <<batch, it, result, wpc>>
clientVars == <<cpc, hand, calls>>
ownerVars  == <<opc, terminated, active>>
history    == <<ran, heard, signalled>>
vars == <<condVars, queueVars, workerVars, clientVars, ownerVars, history>>

NoFields == [order |-> NoOrder, listner |-> FALSE, barrier |-> FALSE]

WorkerSteps == {"test", "lock", "wait", "woken", "run", "listner", "barrier", "exited", "broken"}
ClientSteps == {"idle", "push", "signal"}
OwnerSteps  == {"alive", "signal", "kill", "join", "deleted"}

TypeOK ==
  /\ CondTypeOK
  /\ requests \in Seq(Requests)
  /\ graveyard \in Seq(Requests)
  /\ batch \in Seq(Requests)
  /\ it \in Nat \ {0}
  /\ allocated \subseteq Requests
  /\ fields \in [Requests -> [order : Orders \cup {NoOrder}, listner : BOOLEAN, barrier : BOOLEAN]]
  /\ result \in BOOLEAN
  /\ terminated \in BOOLEAN
  /\ active \in BOOLEAN
  /\ wpc \in WorkerSteps
  /\ cpc \in [Clients -> ClientSteps]
  /\ hand \in [Clients -> Requests \cup {NoRequest}]
  /\ opc \in OwnerSteps
  /\ calls \in 0..MaxCalls
  /\ ran \in Seq([args : Arguments, res : BOOLEAN])
  /\ heard \in Seq([order : Orders, res : BOOLEAN])
  /\ signalled \in Nat

Init ==
  /\ CondInit
  /\ requests = <<>> /\ graveyard = <<>> /\ allocated = {}
  /\ fields = [r \in Requests |-> NoFields]
  /\ batch = <<>> /\ it = 1 /\ result = FALSE /\ wpc = "test"
  /\ cpc = [c \in Clients |-> "idle"]
  /\ hand = [c \in Clients |-> NoRequest]
  /\ calls = 0
  /\ opc = "alive" /\ terminated = FALSE /\ active = TRUE
  /\ ran = <<>> /\ heard = <<>> /\ signalled = 0

-----------------------------------------------------------------------------
(* Clients.  m_graveYardMutex and, here, m_reqMutex protect sections with  *)
(* no blocking call inside: such a section is one step, and one that locks *)
(* m_reqMutex needs it free.                                               *)

\* A client may start a call: the queue is not being deleted.
MayCall(c) ==
  /\ cpc[c] = "idle" /\ Running(c)
  /\ opc = "alive"
  /\ calls < MaxCalls
  /\ calls' = calls + 1

\* Variant: a recycled LoadRequest stays in the graveyard.
CreateRequestNoErase(c, a) ==
  /\ MayCall(c)
  /\ \E r \in Requests :
       /\ \/ graveyard # <<>> /\ r = Head(graveyard) /\ UNCHANGED allocated
          \/ graveyard = <<>> /\ r \notin allocated /\ allocated' = allocated \cup {r}
       /\ hand' = [hand EXCEPT ![c] = r]
       /\ fields' = [fields EXCEPT ![r] = a]
  /\ cpc' = [cpc EXCEPT ![c] = "push"]
  /\ UNCHANGED <<condVars, requests, graveyard, workerVars, ownerVars, history>>

\* Variant: the fields are assigned only when the LoadRequest is new.
CreateRequestStale(c, a) ==
  /\ MayCall(c)
  /\ \E r \in Requests :
       /\ hand' = [hand EXCEPT ![c] = r]
       /\ \/ graveyard # <<>> /\ r = Head(graveyard)
             /\ graveyard' = Tail(graveyard) /\ UNCHANGED <<allocated, fields>>
          \/ graveyard = <<>> /\ r \notin allocated
             /\ allocated' = allocated \cup {r} /\ UNCHANGED graveyard
             /\ fields' = [fields EXCEPT ![r] = a]
  /\ cpc' = [cpc EXCEPT ![c] = "push"]
  /\ UNCHANGED <<condVars, requests, workerVars, ownerVars, history>>

\* _createRequest and the assignments of AddRequest: the LoadRequest comes
\* from the front of the graveyard, or from new when the graveyard is empty.
CreateRequest(c, a) ==
  /\ MayCall(c)
  /\ \E r \in Requests :
       /\ \/ graveyard # <<>> /\ r = Head(graveyard)
             /\ graveyard' = Tail(graveyard) /\ UNCHANGED allocated
          \/ graveyard = <<>> /\ r \notin allocated
             /\ allocated' = allocated \cup {r} /\ UNCHANGED graveyard
       /\ hand' = [hand EXCEPT ![c] = r]
       /\ fields' = [fields EXCEPT ![r] = a]
  /\ cpc' = [cpc EXCEPT ![c] = "push"]
  /\ UNCHANGED <<condVars, requests, workerVars, ownerVars, history>>

\* Variant: the worker is woken only when the queue already held work.
PushRequestQuiet(c) ==
  /\ cpc[c] = "push" /\ Running(c)
  /\ mutex = NoThread
  /\ requests' = Append(requests, hand[c])
  /\ hand' = [hand EXCEPT ![c] = NoRequest]
  /\ cpc' = [cpc EXCEPT ![c] = IF requests = <<>> THEN "idle" ELSE "signal"]
  /\ UNCHANGED <<condVars, graveyard, allocated, fields, calls, workerVars, ownerVars, history>>

PushRequest(c) ==
  /\ cpc[c] = "push" /\ Running(c)
  /\ mutex = NoThread
  /\ requests' = Append(requests, hand[c])
  /\ hand' = [hand EXCEPT ![c] = NoRequest]
  /\ cpc' = [cpc EXCEPT ![c] = "signal"]
  /\ UNCHANGED <<condVars, graveyard, allocated, fields, calls, workerVars, ownerVars, history>>

\* m_workCond->signal(), after the mutex has been released.
SignalWork(c) ==
  /\ cpc[c] = "signal"
  /\ SignalRead(c)
  /\ cpc' = [cpc EXCEPT ![c] = "idle"]
  /\ UNCHANGED <<queueVars, hand, calls, workerVars, ownerVars, history>>

\* The position of the first request for order o.
IsFirst(i, o) ==
  /\ i \in DOMAIN requests
  /\ fields[requests[i]].order = o
  /\ \A j \in DOMAIN requests : j < i => fields[requests[j]].order # o

\* RemoveRequest: signals whenever the queue was not empty, found or not; on
\* an empty queue it does nothing.
RemoveRequest(c, o) ==
  /\ MayCall(c)
  /\ mutex = NoThread
  /\ requests # <<>>
  /\ \/ \E i \in DOMAIN requests : IsFirst(i, o) /\ requests' = RemoveAt(requests, i)
     \/ (\A i \in DOMAIN requests : ~IsFirst(i, o)) /\ UNCHANGED requests
  /\ cpc' = [cpc EXCEPT ![c] = "signal"]
  /\ UNCHANGED <<condVars, graveyard, allocated, fields, hand, workerVars, ownerVars, history>>

-----------------------------------------------------------------------------
(* The worker: JobQueueThreadFunc::execute.                                *)

\* while(caller->isActive())
TestActive ==
  /\ wpc = "test"
  /\ wpc' = IF active THEN "lock" ELSE "exited"
  /\ UNCHANGED <<condVars, queueVars, batch, it, result, clientVars, ownerVars, history>>

\* mutex->lock() and an empty queue: the mutex is kept, for wait.
FindQueueDone ==
  /\ wpc = "lock"
  /\ Lock(Worker)
  /\ requests = <<>>
  /\ wpc' = "wait"
  /\ UNCHANGED <<waiters, sema, waitersDone, wasBroadcast, cstep, queueVars,
                 batch, it, result, clientVars, ownerVars, history>>

SleepOnQueue ==
  /\ wpc = "wait"
  /\ WaitBegin(Worker)
  /\ wpc' = "woken"
  /\ UNCHANGED <<queueVars, batch, it, result, clientVars, ownerVars, history>>

\* Variant: the queue is copied into the batch and not cleared.
TakeBatchNoClear ==
  /\ batch' = requests
  /\ requests' = requests
  /\ it' = 1
  /\ wpc' = "run"

\* m_requests = m_resQueue->m_requests; m_resQueue->m_requests.clear().
TakeBatch ==
  /\ batch' = requests
  /\ requests' = <<>>
  /\ it' = 1
  /\ wpc' = "run"

TakeAwake ==
  /\ wpc = "lock"
  /\ mutex = NoThread
  /\ requests # <<>>
  /\ TakeBatch
  /\ UNCHANGED <<condVars, graveyard, allocated, fields, result, clientVars, ownerVars, history>>

\* wait has returned, for whatever reason, and the queue is alive.
TakeWoken ==
  /\ wpc = "woken" /\ Running(Worker)
  /\ ~terminated
  /\ TakeBatch
  /\ Unlock(Worker)
  /\ UNCHANGED <<waiters, sema, waitersDone, wasBroadcast, cstep, graveyard, allocated, fields,
                 result, clientVars, ownerVars, history>>

\* wait has returned and the queue is being deleted: break, with m_reqMutex
\* still locked and never to be unlocked; WinThread::run then clears active.
ExitWoken ==
  /\ wpc = "woken" /\ Running(Worker)
  /\ terminated
  /\ wpc' = "broken"
  /\ active' = FALSE
  /\ UNCHANGED <<condVars, queueVars, batch, it, result, clientVars, opc, terminated, history>>

Current == fields[batch[it]]

\* Variant: a job that failed is not reported to its listener.
ExecuteJobSilentFailure ==
  /\ wpc = "run" /\ it <= Len(batch)
  /\ \E res \in BOOLEAN :
       /\ result' = res
       /\ ran' = Append(ran, [args |-> Current, res |-> res])
       /\ wpc' = IF res THEN "listner" ELSE "barrier"
  /\ UNCHANGED <<condVars, queueVars, batch, it, clientVars, ownerVars, heard, signalled>>

ExecuteJob ==
  /\ wpc = "run" /\ it <= Len(batch)
  /\ \E res \in BOOLEAN :
       /\ result' = res
       /\ ran' = Append(ran, [args |-> Current, res |-> res])
  /\ wpc' = "listner"
  /\ UNCHANGED <<condVars, queueVars, batch, it, clientVars, ownerVars, heard, signalled>>

\* if(r->listner) (*r->listner)(r->order,res)
CallListner ==
  /\ wpc = "listner"
  /\ heard' = IF Current.listner
              THEN Append(heard, [order |-> Current.order, res |-> result])
              ELSE heard
  /\ wpc' = "barrier"
  /\ UNCHANGED <<condVars, queueVars, batch, it, result, clientVars, ownerVars, ran, signalled>>

\* Variant: a job that failed does not count at its barrier.
SignalBarrierOnSuccess ==
  /\ wpc = "barrier"
  /\ signalled' = IF Current.barrier /\ result THEN signalled + 1 ELSE signalled
  /\ it' = it + 1
  /\ wpc' = "run"
  /\ UNCHANGED <<condVars, queueVars, batch, result, clientVars, ownerVars, ran, heard>>

\* if(r->barrier) r->barrier->Signal()
SignalBarrier ==
  /\ wpc = "barrier"
  /\ signalled' = IF Current.barrier THEN signalled + 1 ELSE signalled
  /\ it' = it + 1
  /\ wpc' = "run"
  /\ UNCHANGED <<condVars, queueVars, batch, result, clientVars, ownerVars, ran, heard>>

\* _addToGraveYard for the whole batch, under m_graveYardMutex.
BuryBatch ==
  /\ wpc = "run" /\ it > Len(batch)
  /\ graveyard' = graveyard \o batch
  /\ fields' = [r \in Requests |->
                  IF r \in ToSet(batch)
                  THEN [order |-> NoOrder, listner |-> FALSE, barrier |-> fields[r].barrier]
                  ELSE fields[r]]
  /\ batch' = <<>>
  /\ it' = 1
  /\ wpc' = "test"
  /\ UNCHANGED <<condVars, requests, allocated, result, clientVars, ownerVars, history>>

-----------------------------------------------------------------------------
(* The owner: ~JobQueue, called once every client is done with the queue.  *)

BeginDelete ==
  /\ opc = "alive"
  /\ \A c \in Clients : cpc[c] = "idle" /\ Running(c)
  /\ terminated' = TRUE
  /\ opc' = "signal"
  /\ UNCHANGED <<condVars, queueVars, workerVars, clientVars, active, history>>

\* Variant: the destructor does not wake the worker.
SignalTerminatedSilent ==
  /\ opc = "signal"
  /\ opc' = "kill"
  /\ UNCHANGED <<condVars, queueVars, workerVars, clientVars, terminated, active, history>>

SignalTerminated ==
  /\ opc = "signal"
  /\ SignalRead(Owner)
  /\ opc' = "kill"
  /\ UNCHANGED <<queueVars, workerVars, clientVars, terminated, active, history>>

\* killThread: WinThread::terminate clears active ...
Terminate ==
  /\ opc = "kill" /\ Running(Owner)
  /\ active' = FALSE
  /\ opc' = "join"
  /\ UNCHANGED <<condVars, queueVars, workerVars, clientVars, terminated, history>>

\* Variant: the destructor does not wait for the end of the thread.
DeleteQueueNoJoin ==
  /\ opc = "join"
  /\ opc' = "deleted"
  /\ requests' = <<>> /\ graveyard' = <<>>
  /\ UNCHANGED <<condVars, allocated, fields, workerVars, clientVars, terminated, active, history>>

\* ... and waits for the end of the thread; then everything is released.
DeleteQueue ==
  /\ opc = "join"
  /\ wpc \in {"exited", "broken"}
  /\ opc' = "deleted"
  /\ requests' = <<>> /\ graveyard' = <<>>
  /\ UNCHANGED <<condVars, allocated, fields, workerVars, clientVars, terminated, active, history>>

-----------------------------------------------------------------------------
ClientStep(c) ==
  \/ \E a \in Arguments : CreateRequest(c, a)
  \/ PushRequest(c)
  \/ \E o \in Orders : RemoveRequest(c, o)
  \/ SignalWork(c)

\* A condition call in progress: wait for the worker, signal for the others.
CondStep(t) ==
  /\ IF t = Worker THEN WaitStep(t) ELSE SignalRelease(t)
  /\ UNCHANGED <<queueVars, workerVars, clientVars, ownerVars, history>>

WorkerStep ==
  \/ TestActive \/ FindQueueDone \/ SleepOnQueue
  \/ TakeAwake \/ TakeWoken \/ ExitWoken
  \/ ExecuteJob \/ CallListner \/ SignalBarrier \/ BuryBatch

OwnerStep == BeginDelete \/ SignalTerminated \/ Terminate \/ DeleteQueue

Next ==
  \/ \E c \in Clients : ClientStep(c)
  \/ \E t \in Threads : CondStep(t)
  \/ WorkerStep
  \/ OwnerStep

Spec == Init /\ [][Next]_vars

\* Every thread that can go on does, whatever the scheduler.  No client has
\* to start a call, and the owner does not have to delete the queue.
Fairness ==
  /\ \A t \in Threads : WF_vars(CondStep(t))
  /\ WF_vars(WorkerStep)
  /\ \A c \in Clients : WF_vars(PushRequest(c) \/ SignalWork(c))
  /\ WF_vars(SignalTerminated \/ Terminate \/ DeleteQueue)

FairSpec == Spec /\ Fairness

-----------------------------------------------------------------------------
(* Properties.                                                             *)

\* A LoadRequest pointer is never in two hands: a client filling it in, the
\* queue, the worker's batch and the graveyard hold different objects, and
\* none of them holds one twice.  Reuse through the graveyard (_createRequest,
\* _addToGraveYard) would otherwise overwrite a request still to be run.
OneOwner ==
  /\ IsInjective(requests) /\ IsInjective(batch) /\ IsInjective(graveyard)
  /\ ToSet(requests) \cap ToSet(batch) = {}
  /\ ToSet(requests) \cap ToSet(graveyard) = {}
  /\ ToSet(batch) \cap ToSet(graveyard) = {}
  /\ \A c \in Clients : cpc[c] = "push" =>
       /\ hand[c] \notin ToSet(requests) \cup ToSet(batch) \cup ToSet(graveyard)
       /\ \A d \in Clients : hand[d] = hand[c] => d = c

\* The worker never sleeps beside work: if it is blocked in wait while orders
\* are queued, a token is in the semaphore or some client has yet to finish
\* the signal() that follows its push_back (AddRequest signals after unlock).
NoLostWakeup ==
  (cstep[Worker] = "acquire" /\ requests # <<>>) =>
    \/ sema > 0
    \/ \E c \in Clients : cpc[c] = "signal" \/ cstep[c] = "release"

\* The jobs of the first n that were run with a listener, and with a barrier.
WithListner(n) == {k \in 1..n : ran[k].args.listner}
WithBarrier(n) == {k \in 1..n : ran[k].args.barrier}

\* How many jobs have come past their listener, and past their barrier.
PastListner == IF wpc = "listner" THEN Len(ran) - 1 ELSE Len(ran)
PastBarrier == IF wpc \in {"listner", "barrier"} THEN Len(ran) - 1 ELSE Len(ran)

\* Each job that was run is reported once, in the order of execution, to the
\* listener it was added with and with its own result, although the fields
\* are read from a LoadRequest that is reused.
ListnersHear ==
  /\ Len(heard) = Cardinality(WithListner(PastListner))
  /\ \A k \in WithListner(PastListner) :
       heard[Cardinality(WithListner(k))] = [order |-> ran[k].args.order, res |-> ran[k].res]

\* Each job that was run with a barrier counts once at that barrier, after its
\* listener has been called.
BarriersCounted == signalled = Cardinality(WithBarrier(PastBarrier))

\* Once ~JobQueue has deleted the mutexes and the condition no thread is
\* inside the condition: no wait or signal is in progress, and the counter of
\* waiters is back at zero.  No client holds m_reqMutex, and no worker that left
\* its loop at the test of isActive(); but one that left it by the break on
\* IsTerminated() holds the mutex that is deleted.
DeletedIsQuiet ==
  opc = "deleted" =>
    /\ waiters = 0
    /\ \A t \in Threads : Running(t)
    /\ mutex = IF wpc = "broken" THEN Worker ELSE NoThread

\* What one would expect of a destructor: it deletes a mutex that nobody holds.
\* No run has this property, because it does not hold: see DeletedIsQuiet.
DeletedIsFree == opc = "deleted" => mutex = NoThread

\* What clients are promised (JobService): the orders still to be run are the
\* rest of the batch followed by the queue.
Args(s) == [i \in DOMAIN s |-> fields[s[i]]]
Unserved == SubSeq(batch, IF wpc \in {"listner", "barrier"} THEN it + 1 ELSE it, Len(batch))

Service == INSTANCE JobService WITH
  queue <- Args(Unserved) \o Args(requests),
  open  <- opc = "alive"

\* The queue implements the service: orders run in the order in which they
\* were added, once each, unless removed before; and while the queue lives
\* the next order is always eventually run.
ImplementsService == Service!FairSpec

\* The destructor completes when it finds the worker waiting for work.
SleepingWorkerStops == (opc = "signal" /\ waiters > 0) ~> (opc = "deleted")

\* WinCondition.cpp:53, "wait in timeslices, giving testCancel() a change to
\* exit the thread if requested": a thread asked to terminate ends.  No run has
\* this property, because it does not hold: a worker that tested active before
\* may go on to wait, after the only signal of the destructor.
TerminateReturns == (opc = "join") ~> (opc = "deleted")

=============================================================================
