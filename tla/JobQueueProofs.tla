--------------------------- MODULE JobQueueProofs ---------------------------
(***************************************************************************)
(* Proofs about JobQueue, for any number of clients, orders, requests and  *)
(* calls.  The inductive invariant has two parts that are each inductive   *)
(* by themselves: Control, on the program counters, the mutex and the      *)
(* condition variable, and Ownership, on the LoadRequest objects.  The     *)
(* types of the histories follow from the second.  On top of them stand    *)
(* Quiet, on the destructor, and Reports, on what the worker tells; and    *)
(* from all of them the queue implements JobService.                       *)
(***************************************************************************)
EXTENDS JobQueue, DistinctSeqs, FiniteSetTheorems, TLAPS

-----------------------------------------------------------------------------
(* Control.                                                                *)

ControlTypes ==
  /\ waiters \in Nat
  /\ sema \in Nat
  /\ cstep \in [Threads -> CondSteps]
  /\ cpc \in [Clients -> ClientSteps]

\* Only the worker waits, only the others signal, and nobody broadcasts.
CallersInv ==
  /\ wasBroadcast = FALSE
  /\ cstep[Worker] \in {"none", "acquire", "decrement", "readWaiters", "testBroadcast", "relock"}
  /\ \A t \in Threads \ {Worker} : cstep[t] \in {"none", "release"}

\* The counter of waiters counts the worker from the call of wait until it has
\* taken a token; a wait in progress is the one in the loop; and the worker
\* calls wait with the mutex held and the queue still empty.
WaitInv ==
  /\ waiters = IF cstep[Worker] \in {"acquire", "decrement"} THEN 1 ELSE 0
  /\ cstep[Worker] # "none" => wpc = "woken"
  /\ wpc = "wait" => mutex = Worker /\ requests = <<>>

Control == ControlTypes /\ CallersInv /\ WaitInv /\ NoLostWakeup

LEMMA ClientFacts ==
  /\ Worker \in Threads
  /\ Owner \in Threads \ {Worker}
  /\ NoThread # Worker
  /\ \A c \in Clients : c \in Threads \ {Worker} /\ c # Owner
BY ThreadsAssumption, NoThreadAssumption DEF Clients

LEMMA ControlInit == Init => Control
BY ClientFacts
   DEF Init, CondInit, Control, ControlTypes, CallersInv, WaitInv, NoLostWakeup,
       CondSteps, ClientSteps

LEMMA ControlStep == Control /\ [Next]_vars => Control'
<1> SUFFICES ASSUME Control, [Next]_vars
             PROVE  Control'
  OBVIOUS
<1> USE ClientFacts
           DEF Control, ControlTypes, CallersInv, WaitInv, NoLostWakeup, CondSteps, ClientSteps,
               condVars, queueVars, workerVars, clientVars, ownerVars, history
<1>1. ASSUME NEW c \in Clients, NEW a \in Arguments, CreateRequest(c, a)
      PROVE  Control'
  BY <1>1 DEF CreateRequest, MayCall, Running
<1>2. ASSUME NEW c \in Clients, PushRequest(c)
      PROVE  Control'
  BY <1>2 DEF PushRequest, Running
<1>3. ASSUME NEW c \in Clients, NEW o \in Orders, RemoveRequest(c, o)
      PROVE  Control'
  BY <1>3 DEF RemoveRequest, MayCall, Running
<1>4. ASSUME NEW c \in Clients, SignalWork(c)
      PROVE  Control'
  BY <1>4 DEF SignalWork, SignalRead, Running, Goto
<1>5. ASSUME NEW t \in Threads, CondStep(t)
      PROVE  Control'
  <2>1. CASE t = Worker
    BY <1>5, <2>1 DEF CondStep, WaitStep, WaitAcquire, WaitDecrement, WaitReadWaiters,
                      WaitTestBroadcast, WaitSetDone, WaitRelock, Lock, Goto
  <2>2. CASE t # Worker
    BY <1>5, <2>2 DEF CondStep, SignalRelease, Goto
  <2> QED
    BY <2>1, <2>2
<1>6. CASE WorkerStep
  <2>1. CASE TestActive \/ ExecuteJob \/ CallListner \/ SignalBarrier \/ BuryBatch
    BY <2>1 DEF TestActive, ExecuteJob, CallListner, SignalBarrier, BuryBatch
  <2>2. CASE FindQueueDone
    BY <2>2 DEF FindQueueDone, Lock
  <2>3. CASE SleepOnQueue
    BY <2>3 DEF SleepOnQueue, WaitBegin, Unlock, Running, Goto
  <2>4. CASE TakeAwake
    BY <2>4 DEF TakeAwake, TakeBatch
  <2>5. CASE TakeWoken
    BY <2>5 DEF TakeWoken, TakeBatch, Unlock, Running
  <2>6. CASE ExitWoken
    BY <2>6 DEF ExitWoken, Running
  <2> QED
    BY <1>6, <2>1, <2>2, <2>3, <2>4, <2>5, <2>6 DEF WorkerStep
<1>7. CASE OwnerStep
  <2>1. CASE SignalTerminated
    BY <2>1 DEF SignalTerminated, SignalRead, Running, Goto
  <2>2. CASE BeginDelete \/ Terminate \/ DeleteQueue
    BY <2>2 DEF BeginDelete, Terminate, DeleteQueue
  <2> QED
    BY <1>7, <2>1, <2>2 DEF OwnerStep
<1>8. CASE UNCHANGED vars
  BY <1>8 DEF vars
<1> QED
  BY <1>1, <1>2, <1>3, <1>4, <1>5, <1>6, <1>7, <1>8 DEF Next, ClientStep

\* The worker never sleeps beside work: JobQueueThreadFunc::execute tests the
\* queue and calls wait under one lock, and AddRequest signals after its push.
THEOREM NoWakeupIsLost == Spec => []NoLostWakeup
<1>1. Control => NoLostWakeup
  BY DEF Control
<1> QED
  BY ControlInit, ControlStep, <1>1, PTL DEF Spec

-----------------------------------------------------------------------------
(* Ownership.                                                              *)

ListTypes ==
  /\ requests \in Seq(Requests)
  /\ batch \in Seq(Requests)
  /\ graveyard \in Seq(Requests)
  /\ allocated \subseteq Requests
  /\ hand \in [Clients -> Requests \cup {NoRequest}]
  /\ cpc \in [Clients -> ClientSteps]

\* Only objects that exist are in use, and a client holds one just while it
\* is in AddRequest: _createRequest cannot return one that is in use.
InUseAllocated ==
  /\ ToSet(requests) \cup ToSet(batch) \cup ToSet(graveyard) \subseteq allocated
  /\ \A c \in Clients : IF cpc[c] = "push" THEN hand[c] \in allocated ELSE hand[c] = NoRequest

Ownership == ListTypes /\ InUseAllocated /\ OneOwner

\* What matters of a step that leaves the lists alone.
LEMMA OwnershipFrame ==
  ASSUME Ownership,
         UNCHANGED <<requests, batch, graveyard, allocated, hand>>,
         cpc' \in [Clients -> ClientSteps],
         \A c \in Clients : cpc'[c] = "push" <=> cpc[c] = "push"
  PROVE  Ownership'
BY DEF Ownership, ListTypes, InUseAllocated, OneOwner

LEMMA OwnershipInit == Init => Ownership
BY ToSetEmpty DEF Init, Ownership, ListTypes, InUseAllocated, OneOwner, ClientSteps

LEMMA CreateOwnership ==
  ASSUME Ownership, NEW c \in Clients, NEW a \in Arguments, CreateRequest(c, a)
  PROVE  Ownership'
<1> USE DEF Ownership, ListTypes, InUseAllocated, OneOwner, ClientSteps
<1>1. PICK r \in Requests :
        /\ \/ graveyard # <<>> /\ r = Head(graveyard)
              /\ graveyard' = Tail(graveyard) /\ UNCHANGED allocated
           \/ graveyard = <<>> /\ r \notin allocated
              /\ allocated' = allocated \cup {r} /\ UNCHANGED graveyard
        /\ hand' = [hand EXCEPT ![c] = r]
  BY DEF CreateRequest
<1>2. /\ cpc[c] = "idle" /\ hand[c] = NoRequest
      /\ cpc' = [cpc EXCEPT ![c] = "push"]
      /\ UNCHANGED <<requests, batch>>
  BY DEF CreateRequest, MayCall, workerVars
<1>3. /\ graveyard' \in Seq(Requests) /\ IsInjective(graveyard')
      /\ ToSet(graveyard') \subseteq ToSet(graveyard)
      /\ r \notin ToSet(graveyard') \cup ToSet(requests) \cup ToSet(batch)
      /\ allocated \subseteq allocated' /\ allocated' \subseteq Requests /\ r \in allocated'
      /\ \A d \in Clients : hand[d] # r
  <2>1. CASE graveyard # <<>> /\ r = Head(graveyard)
             /\ graveyard' = Tail(graveyard) /\ UNCHANGED allocated
    BY <1>1, <2>1, ToSetTail, RequestAssumption
  <2>2. CASE graveyard = <<>> /\ r \notin allocated
             /\ allocated' = allocated \cup {r} /\ UNCHANGED graveyard
    BY <1>1, <2>2, ToSetEmpty, RequestAssumption
  <2> QED
    BY <1>1, <2>1, <2>2
<1> QED
  BY <1>1, <1>2, <1>3

LEMMA PushOwnership ==
  ASSUME Ownership, NEW c \in Clients, PushRequest(c)
  PROVE  Ownership'
<1> USE DEF Ownership, ListTypes, InUseAllocated, OneOwner, ClientSteps
<1>1. /\ cpc[c] = "push" /\ hand[c] \in Requests
      /\ requests' = Append(requests, hand[c])
      /\ hand' = [hand EXCEPT ![c] = NoRequest]
      /\ cpc' = [cpc EXCEPT ![c] = "signal"]
      /\ UNCHANGED <<batch, graveyard, allocated>>
  BY DEF PushRequest, workerVars
<1>2. /\ requests' \in Seq(Requests) /\ IsInjective(requests')
      /\ ToSet(requests') = ToSet(requests) \cup {hand[c]}
  BY <1>1, ToSetAppend
<1> QED
  BY <1>1, <1>2, RequestAssumption

LEMMA RemoveOwnership ==
  ASSUME Ownership, NEW c \in Clients, NEW o \in Orders, RemoveRequest(c, o)
  PROVE  Ownership'
<1> USE DEF Ownership, ListTypes, InUseAllocated, OneOwner, ClientSteps
<1>1. /\ requests' \in Seq(Requests) /\ IsInjective(requests')
      /\ ToSet(requests') \subseteq ToSet(requests)
  BY ToSetRemoveAt DEF RemoveRequest, IsFirst
<1>2. /\ cpc[c] = "idle" /\ cpc' = [cpc EXCEPT ![c] = "signal"]
      /\ UNCHANGED <<batch, graveyard, allocated, hand>>
  BY DEF RemoveRequest, MayCall, workerVars
<1> QED
  BY <1>1, <1>2

LEMMA WorkerOwnership ==
  ASSUME Ownership, WorkerStep
  PROVE  Ownership'
<1>1. CASE TakeAwake \/ TakeWoken
  <2>1. /\ batch' = requests /\ requests' = <<>>
        /\ UNCHANGED <<graveyard, allocated, hand, cpc>>
    BY <1>1 DEF TakeAwake, TakeWoken, TakeBatch, clientVars
  <2> QED
    BY <2>1, ToSetEmpty DEF Ownership, ListTypes, InUseAllocated, OneOwner
<1>2. CASE BuryBatch
  <2>1. /\ graveyard' = graveyard \o batch /\ batch' = <<>>
        /\ UNCHANGED <<requests, allocated, hand, cpc>>
    BY <1>2 DEF BuryBatch, clientVars
  <2> USE DEF Ownership, ListTypes, InUseAllocated, OneOwner
  <2>2. /\ graveyard' \in Seq(Requests) /\ IsInjective(graveyard')
        /\ ToSet(graveyard') = ToSet(graveyard) \cup ToSet(batch)
    BY <2>1, ToSetConcat
  <2> QED
    BY <2>1, <2>2, ToSetEmpty
<1>3. CASE TestActive \/ FindQueueDone \/ SleepOnQueue \/ ExitWoken
           \/ ExecuteJob \/ CallListner \/ SignalBarrier
  <2>1. UNCHANGED <<requests, batch, graveyard, allocated, hand, cpc>>
    BY <1>3 DEF TestActive, FindQueueDone, SleepOnQueue, ExitWoken, ExecuteJob, CallListner,
                SignalBarrier, queueVars, clientVars, workerVars
  <2> QED
    BY <2>1, OwnershipFrame DEF Ownership, ListTypes
<1> QED
  BY <1>1, <1>2, <1>3 DEF WorkerStep

LEMMA OwnerOwnership ==
  ASSUME Ownership, OwnerStep
  PROVE  Ownership'
<1>1. CASE DeleteQueue
  <2>1. /\ requests' = <<>> /\ graveyard' = <<>>
        /\ UNCHANGED <<batch, allocated, hand, cpc>>
    BY <1>1 DEF DeleteQueue, workerVars, clientVars
  <2> QED
    BY <2>1, ToSetEmpty DEF Ownership, ListTypes, InUseAllocated, OneOwner
<1>2. CASE BeginDelete \/ SignalTerminated \/ Terminate
  <2>1. UNCHANGED <<requests, batch, graveyard, allocated, hand, cpc>>
    BY <1>2 DEF BeginDelete, SignalTerminated, Terminate, queueVars, clientVars, workerVars
  <2> QED
    BY <2>1, OwnershipFrame DEF Ownership, ListTypes
<1> QED
  BY <1>1, <1>2 DEF OwnerStep

LEMMA OwnershipStep == Ownership /\ [Next]_vars => Ownership'
<1> SUFFICES ASSUME Ownership, [Next]_vars
             PROVE  Ownership'
  OBVIOUS
<1>1. ASSUME NEW c \in Clients, SignalWork(c)
      PROVE  Ownership'
  BY <1>1, OwnershipFrame
     DEF SignalWork, queueVars, workerVars, Ownership, ListTypes, ClientSteps
<1>2. ASSUME NEW t \in Threads, CondStep(t)
      PROVE  Ownership'
  BY <1>2, OwnershipFrame
     DEF CondStep, queueVars, workerVars, clientVars, Ownership, ListTypes
<1>3. CASE UNCHANGED vars
  BY <1>3, OwnershipFrame
     DEF vars, queueVars, workerVars, clientVars, Ownership, ListTypes
<1> QED
  BY <1>1, <1>2, <1>3, CreateOwnership, PushOwnership, RemoveOwnership,
     WorkerOwnership, OwnerOwnership
     DEF Next, ClientStep

\* A LoadRequest is in one hand: _createRequest and _addToGraveYard recycle
\* the objects of JobQueue without ever giving one out that is in use.
THEOREM RequestsHaveOneOwner == Spec => []OneOwner
<1>1. Ownership => OneOwner
  BY DEF Ownership
<1> QED
  BY OwnershipInit, OwnershipStep, <1>1, PTL DEF Spec

-----------------------------------------------------------------------------
(* Types.  The histories record the fields of the request being served, so *)
(* their types need that no request is cleared before it has been served.  *)

FieldTypes == [order : Orders \cup {NoOrder}, listner : BOOLEAN, barrier : BOOLEAN]

OtherTypes ==
  /\ it \in Nat \ {0}
  /\ fields \in [Requests -> FieldTypes]
  /\ result \in BOOLEAN
  /\ terminated \in BOOLEAN
  /\ active \in BOOLEAN
  /\ wpc \in WorkerSteps
  /\ opc \in OwnerSteps
  /\ calls \in 0..MaxCalls
  /\ ran \in Seq([args : Arguments, res : BOOLEAN])
  /\ heard \in Seq([order : Orders, res : BOOLEAN])
  /\ signalled \in Nat

LiveFields ==
  /\ wpc \in {"listner", "barrier"} => it \in DOMAIN batch
  /\ \A r \in ToSet(requests) \cup ToSet(batch) : fields[r] \in Arguments
  /\ \A c \in Clients : cpc[c] = "push" => fields[hand[c]] \in Arguments

Types == CondTypeOK /\ OtherTypes /\ LiveFields

IInv == Control /\ Ownership /\ Types

LEMMA ArgumentTypes ==
  \A a \in Arguments : a \in FieldTypes /\ a.order \in Orders
<1> SUFFICES ASSUME NEW a \in Arguments
             PROVE  a \in FieldTypes /\ a.order \in Orders
  OBVIOUS
<1>1. a.order \in Orders
  BY DEF Orders
<1> QED
  BY <1>1, ArgumentsAssumption DEF FieldTypes

\* What matters of a step that leaves the requests and their fields alone.
LEMMA FieldsFrame ==
  ASSUME LiveFields,
         UNCHANGED <<requests, batch, fields, hand>>,
         wpc' \in {"listner", "barrier"} => it' \in DOMAIN batch,
         \A c \in Clients : cpc'[c] = "push" => cpc[c] = "push"
  PROVE  LiveFields'
BY DEF LiveFields

LEMMA CondTypes ==
  ASSUME IInv, [Next]_vars
  PROVE  CondTypeOK'
<1> USE ClientFacts
        DEF IInv, Types, Control, ControlTypes, CallersInv, WaitInv, CondTypeOK, CondSteps, condVars
<1>1. ASSUME NEW c \in Clients, ClientStep(c)
      PROVE  CondTypeOK'
  BY <1>1 DEF ClientStep, CreateRequest, PushRequest, RemoveRequest, SignalWork, SignalRead, Goto
<1>2. ASSUME NEW t \in Threads, CondStep(t)
      PROVE  CondTypeOK'
  <2>1. CASE t = Worker
    BY <1>2, <2>1 DEF CondStep, WaitStep, WaitAcquire, WaitDecrement, WaitReadWaiters,
                      WaitTestBroadcast, WaitSetDone, WaitRelock, Lock, Goto
  <2>2. CASE t # Worker
    BY <1>2, <2>2 DEF CondStep, SignalRelease, Goto
  <2> QED
    BY <2>1, <2>2
<1>3. CASE WorkerStep
  BY <1>3 DEF WorkerStep, TestActive, FindQueueDone, SleepOnQueue, TakeAwake, TakeWoken, ExitWoken,
              ExecuteJob, CallListner, SignalBarrier, BuryBatch, WaitBegin, Lock, Unlock, Goto
<1>4. CASE OwnerStep
  BY <1>4 DEF OwnerStep, BeginDelete, SignalTerminated, Terminate, DeleteQueue, SignalRead, Goto
<1>5. CASE UNCHANGED vars
  BY <1>5 DEF vars
<1> QED
  BY <1>1, <1>2, <1>3, <1>4, <1>5 DEF Next

LEMMA ClientTypes ==
  ASSUME IInv, NEW c \in Clients, ClientStep(c)
  PROVE  OtherTypes' /\ LiveFields'
<1> USE CallsAssumption
        DEF IInv, Types, OtherTypes, LiveFields, Ownership, ListTypes, InUseAllocated, ClientSteps,
            workerVars, clientVars, queueVars, ownerVars, history
<1>1. ASSUME NEW a \in Arguments, CreateRequest(c, a)
      PROVE  OtherTypes' /\ LiveFields'
  <2>1. PICK r \in Requests : /\ hand' = [hand EXCEPT ![c] = r]
                              /\ fields' = [fields EXCEPT ![r] = a]
    BY <1>1 DEF CreateRequest
  <2> QED
    BY <1>1, <2>1, ArgumentTypes DEF CreateRequest, MayCall
<1>2. CASE PushRequest(c)
  <2>1. /\ ToSet(requests') = ToSet(requests) \cup {hand[c]}
        /\ fields[hand[c]] \in Arguments
    BY <1>2, ToSetAppend DEF PushRequest
  <2> QED
    BY <1>2, <2>1 DEF PushRequest
<1>3. ASSUME NEW o \in Orders, RemoveRequest(c, o)
      PROVE  OtherTypes' /\ LiveFields'
  <2>1. ToSet(requests') \subseteq ToSet(requests)
    BY <1>3, ToSetRemoveAt DEF RemoveRequest, IsFirst
  <2> QED
    BY <1>3, <2>1 DEF RemoveRequest, MayCall
<1>4. CASE SignalWork(c)
  BY <1>4 DEF SignalWork
<1> QED
  BY <1>1, <1>2, <1>3, <1>4 DEF ClientStep

LEMMA WorkerTypes ==
  ASSUME IInv, WorkerStep
  PROVE  OtherTypes' /\ LiveFields'
<1> USE DEF IInv, Types, OtherTypes, Ownership, ListTypes, WorkerSteps,
            workerVars, clientVars, queueVars, ownerVars, history
<1>1. CASE TestActive \/ FindQueueDone \/ SleepOnQueue \/ ExitWoken
  BY <1>1, FieldsFrame DEF TestActive, FindQueueDone, SleepOnQueue, ExitWoken
<1>2. CASE TakeAwake \/ TakeWoken
  BY <1>2, ToSetEmpty DEF TakeAwake, TakeWoken, TakeBatch, LiveFields
<1>3. CASE ExecuteJob
  <2>1. it \in DOMAIN batch /\ Current \in Arguments
    BY <1>3 DEF ExecuteJob, Current, LiveFields, ToSet
  <2>2. OtherTypes'
    BY <1>3, <2>1 DEF ExecuteJob
  <2>3. LiveFields'
    BY <1>3, <2>1, FieldsFrame DEF ExecuteJob
  <2> QED
    BY <2>2, <2>3
<1>4. CASE CallListner
  <2>1. it \in DOMAIN batch /\ Current \in Arguments
    BY <1>4 DEF CallListner, Current, LiveFields, ToSet
  <2>2. Current.order \in Orders
    BY <2>1, ArgumentTypes
  <2>3. heard' \in Seq([order : Orders, res : BOOLEAN])
    <3>1. [order |-> Current.order, res |-> result] \in [order : Orders, res : BOOLEAN]
      BY <2>2
    <3>2. \/ heard' = heard
          \/ heard' = Append(heard, [order |-> Current.order, res |-> result])
      BY <1>4 DEF CallListner
    <3>3. heard \in Seq([order : Orders, res : BOOLEAN])
      OBVIOUS
    <3>4. Append(heard, [order |-> Current.order, res |-> result])
            \in Seq([order : Orders, res : BOOLEAN])
      <4> DEFINE H == [order : Orders, res : BOOLEAN]
                 h == [order |-> Current.order, res |-> result]
      <4>1. heard \in Seq(H) /\ h \in H
        BY <3>1, <3>3
      <4> HIDE DEF H, h
      <4>2. Append(heard, h) \in Seq(H)
        BY <4>1, AppendProperties
      <4> QED
        BY <4>2 DEF H, h
    <3> QED
      BY <3>2, <3>3, <3>4, Zenon
  <2>4. /\ wpc' = "barrier"
        /\ UNCHANGED <<it, fields, result, terminated, active, opc, calls, ran, signalled>>
    BY <1>4 DEF CallListner
  <2>5. OtherTypes'
    BY <2>3, <2>4
  <2>6. LiveFields'
    BY <1>4, <2>1, FieldsFrame DEF CallListner
  <2> QED
    BY <2>5, <2>6
<1>5. CASE SignalBarrier
  BY <1>5, FieldsFrame DEF SignalBarrier
<1>6. CASE BuryBatch
  <2>1. \A r \in Requests : fields'[r] = IF r \in ToSet(batch)
                                         THEN [order |-> NoOrder, listner |-> FALSE,
                                               barrier |-> fields[r].barrier]
                                         ELSE fields[r]
    BY <1>6 DEF BuryBatch
  <2>2. OtherTypes'
    BY <1>6 DEF BuryBatch, FieldTypes
  <2>3. \A r \in ToSet(requests) : r \in Requests /\ r \notin ToSet(batch)
    <3>1. ToSet(requests) \cap ToSet(batch) = {}
      BY DEF OneOwner
    <3>2. ToSet(requests) \subseteq Requests
      BY ToSetTyped
    <3> QED
      BY <3>1, <3>2, Zenon
  <2>4. \A c \in Clients : cpc[c] = "push" => hand[c] \in Requests /\ hand[c] \notin ToSet(batch)
    BY DEF OneOwner, InUseAllocated
  <2>5. UNCHANGED <<requests, hand, cpc>> /\ batch' = <<>> /\ wpc' = "test"
    BY <1>6 DEF BuryBatch
  <2>6. LiveFields'
    BY <2>1, <2>3, <2>4, <2>5, ToSetEmpty DEF LiveFields
  <2> QED
    BY <2>2, <2>6
<1> QED
  BY <1>1, <1>2, <1>3, <1>4, <1>5, <1>6 DEF WorkerStep

LEMMA OwnerTypes ==
  ASSUME IInv, OwnerStep
  PROVE  OtherTypes' /\ LiveFields'
<1> USE DEF IInv, Types, OtherTypes, OwnerSteps,
            workerVars, clientVars, queueVars, ownerVars, history
<1>1. CASE DeleteQueue
  BY <1>1, ToSetEmpty DEF DeleteQueue, LiveFields
<1>2. CASE BeginDelete \/ SignalTerminated \/ Terminate
  BY <1>2, FieldsFrame DEF BeginDelete, SignalTerminated, Terminate, LiveFields
<1> QED
  BY <1>1, <1>2 DEF OwnerStep

LEMMA IInvInit == Init => IInv
<1> SUFFICES ASSUME Init
             PROVE  Types
  BY ControlInit, OwnershipInit DEF IInv
<1>1. CondTypeOK
  BY DEF Init, CondInit, CondTypeOK, CondSteps
<1>2. OtherTypes
  <2>1. NoFields \in FieldTypes
    BY DEF NoFields, FieldTypes
  <2>2. fields \in [Requests -> FieldTypes]
    BY <2>1 DEF Init
  <2>3. calls \in 0..MaxCalls
    BY CallsAssumption DEF Init
  <2>4. /\ ran \in Seq([args : Arguments, res : BOOLEAN])
        /\ heard \in Seq([order : Orders, res : BOOLEAN])
    BY EmptySeq DEF Init
  <2>5. it \in Nat \ {0} /\ signalled \in Nat
    BY DEF Init
  <2>6. wpc \in WorkerSteps /\ opc \in OwnerSteps
    BY DEF Init, WorkerSteps, OwnerSteps
  <2>7. result \in BOOLEAN /\ terminated \in BOOLEAN /\ active \in BOOLEAN
    BY Zenon DEF Init
  <2> QED
    BY <2>2, <2>3, <2>4, <2>5, <2>6, <2>7 DEF OtherTypes
<1>3. LiveFields
  BY ToSetEmpty DEF Init, LiveFields
<1> QED
  BY <1>1, <1>2, <1>3 DEF Types

LEMMA IInvStep == IInv /\ [Next]_vars => IInv'
<1> SUFFICES ASSUME IInv, [Next]_vars
             PROVE  IInv'
  OBVIOUS
<1>1. Control' /\ Ownership'
  BY ControlStep, OwnershipStep DEF IInv
<1>2. OtherTypes' /\ LiveFields'
  <2>1. ASSUME NEW t \in Threads, CondStep(t)
        PROVE  OtherTypes' /\ LiveFields'
    BY <2>1 DEF IInv, Types, OtherTypes, LiveFields, CondStep,
                workerVars, clientVars, queueVars, ownerVars, history
  <2>2. CASE UNCHANGED vars
    BY <2>2 DEF IInv, Types, OtherTypes, LiveFields,
                vars, workerVars, clientVars, queueVars, ownerVars, history
  <2> QED
    BY <2>1, <2>2, ClientTypes, WorkerTypes, OwnerTypes DEF Next
<1> QED
  BY <1>1, <1>2, CondTypes DEF IInv, Types

\* Every variable of the queue keeps its type: in particular ran and heard
\* record only arguments that AddRequest was called with, so JobQueueThreadFunc
\* never serves a LoadRequest that _addToGraveYard has cleared.
THEOREM TypeCorrect == Spec => []TypeOK
<1>1. IInv => TypeOK
  BY DEF IInv, Types, OtherTypes, Ownership, ListTypes, TypeOK, FieldTypes
<1> QED
  BY IInvInit, IInvStep, <1>1, PTL DEF Spec

-----------------------------------------------------------------------------
(* The destructor.                                                         *)

\* The mutex is the worker's from the test of the queue to wait, from the end of
\* wait to the step after it, and for good after the break.
WorkerHolds ==
  \/ wpc \in {"wait", "broken"}
  \/ wpc = "woken" /\ cstep[Worker] = "none"

\* The owner is in a call of the condition only while it has yet to terminate
\* the worker; from the moment it begins, the clients have no call in progress.
\* Between the steps nobody but the worker holds the mutex.
Quiet ==
  /\ opc # "kill" => Running(Owner)
  /\ opc # "alive" => \A c \in Clients : cpc[c] = "idle" /\ Running(c)
  /\ opc = "deleted" => wpc \in {"exited", "broken"}
  /\ mutex = IF WorkerHolds THEN Worker ELSE NoThread

LEMMA QuietInit == Init => Quiet
BY ClientFacts DEF Init, CondInit, Quiet, WorkerHolds, Running

LEMMA QuietStep ==
  ASSUME IInv, Quiet, [Next]_vars
  PROVE  Quiet'
<1> USE ClientFacts
        DEF Quiet, WorkerHolds, Running, IInv, Control, ControlTypes, CallersInv, CondSteps,
            condVars, queueVars, workerVars, clientVars, ownerVars, history
<1>1. ASSUME NEW c \in Clients, ClientStep(c)
      PROVE  Quiet'
  BY <1>1 DEF ClientStep, CreateRequest, PushRequest, RemoveRequest, SignalWork, MayCall,
              SignalRead, Goto
<1>2. ASSUME NEW t \in Threads, CondStep(t)
      PROVE  Quiet'
  <2>1. CASE t = Worker
    <3>1. \A u \in Threads \ {Worker} : cstep'[u] = cstep[u]
      BY <1>2, <2>1 DEF CondStep, WaitStep, WaitAcquire, WaitDecrement, WaitReadWaiters,
                        WaitTestBroadcast, WaitSetDone, WaitRelock, Goto
    <3>2. mutex' = IF WorkerHolds' THEN Worker ELSE NoThread
      BY <1>2, <2>1 DEF CondStep, WaitStep, WaitAcquire, WaitDecrement, WaitReadWaiters,
                        WaitTestBroadcast, WaitSetDone, WaitRelock, Lock, Goto, WaitInv
    <3> QED
      BY <1>2, <3>1, <3>2 DEF CondStep
  <2>2. CASE t # Worker
    BY <1>2, <2>2 DEF CondStep, SignalRelease, Goto
  <2> QED
    BY <2>1, <2>2
<1>3. CASE WorkerStep
  <2>1. UNCHANGED <<opc, cpc>> /\ \A u \in Threads \ {Worker} : cstep'[u] = cstep[u]
    BY <1>3 DEF WorkerStep, TestActive, FindQueueDone, SleepOnQueue, TakeAwake, TakeWoken, ExitWoken,
                ExecuteJob, CallListner, SignalBarrier, BuryBatch, WaitBegin, Goto
  <2>2. wpc \notin {"exited", "broken"}
    BY <1>3 DEF WorkerStep, TestActive, FindQueueDone, SleepOnQueue, TakeAwake, TakeWoken, ExitWoken,
                ExecuteJob, CallListner, SignalBarrier, BuryBatch
  <2>3. mutex' = IF WorkerHolds' THEN Worker ELSE NoThread
    BY <1>3 DEF WorkerStep, TestActive, FindQueueDone, SleepOnQueue, TakeAwake, TakeWoken, ExitWoken,
                TakeBatch, ExecuteJob, CallListner, SignalBarrier, BuryBatch, Lock, Unlock, WaitBegin,
                Goto
  <2> QED
    BY <2>1, <2>2, <2>3
<1>4. CASE OwnerStep
  BY <1>4 DEF OwnerStep, BeginDelete, SignalTerminated, Terminate, DeleteQueue, SignalRead, Goto
<1>5. CASE UNCHANGED vars
  BY <1>5 DEF vars
<1> QED
  BY <1>1, <1>2, <1>3, <1>4, <1>5 DEF Next

\* When ~JobQueue deletes its mutexes and its condition, nobody is inside the
\* condition, and nobody holds m_reqMutex but a worker that left by the break.
THEOREM DestroyedInPeace == Spec => []DeletedIsQuiet
<1>1. IInv /\ Quiet => DeletedIsQuiet
  <2> SUFFICES ASSUME IInv, Quiet, opc = "deleted"
               PROVE  /\ waiters = 0
                      /\ \A t \in Threads : Running(t)
                      /\ mutex = IF wpc = "broken" THEN Worker ELSE NoThread
    BY DEF DeletedIsQuiet
  <2>1. wpc \in {"exited", "broken"} /\ Running(Owner) /\ \A c \in Clients : Running(c)
    BY DEF Quiet
  <2>2. cstep[Worker] = "none" /\ waiters = 0
    BY <2>1 DEF IInv, Control, WaitInv
  <2>3. mutex = IF wpc = "broken" THEN Worker ELSE NoThread
    BY <2>1 DEF Quiet, WorkerHolds
  <2> QED
    BY <2>1, <2>2, <2>3 DEF Clients, Running
<1> QED
  BY IInvInit, IInvStep, QuietInit, QuietStep, <1>1, PTL DEF Spec

-----------------------------------------------------------------------------
(* The reports.  What is remembered of the job that is being served is     *)
(* what its request still says: nobody else has the request, and so nobody *)
(* writes to it, before the batch is buried.                               *)

Serving == wpc \in {"run", "listner", "barrier"}

Remembered ==
  /\ ~Serving => batch = <<>>
  /\ wpc \in {"listner", "barrier"} =>
       ran # <<>> /\ ran[Len(ran)] = [args |-> Current, res |-> result]

Reports == Remembered /\ ListnersHear /\ BarriersCounted

\* The jobs that are counted, up to a number n of jobs run.
LEMMA ReportsCounted ==
  ASSUME NEW n \in Nat
  PROVE  /\ IsFiniteSet(WithListner(n)) /\ IsFiniteSet(WithBarrier(n))
         /\ Cardinality(WithListner(n)) \in Nat /\ Cardinality(WithBarrier(n)) \in Nat
<1>1. IsFiniteSet(1..n)
  BY FS_Interval
<1>2. WithListner(n) \subseteq 1..n /\ WithBarrier(n) \subseteq 1..n
  BY DEF WithListner, WithBarrier
<1>3. IsFiniteSet(WithListner(n)) /\ IsFiniteSet(WithBarrier(n))
  BY <1>1, <1>2, FS_Subset
<1> QED
  BY <1>3, FS_CardinalityType

LEMMA ReportsNumbered ==
  ASSUME NEW n \in Nat, NEW k \in WithListner(n)
  PROVE  k \in 1..n /\ Cardinality(WithListner(k)) \in 1..Cardinality(WithListner(n))
<1>1. /\ k \in 1..n /\ k \in WithListner(k)
      /\ WithListner(k) \subseteq WithListner(n)
  BY DEF WithListner
<1>2. Cardinality(WithListner(k)) <= Cardinality(WithListner(n))
  BY <1>1, ReportsCounted, FS_Subset
<1>3. Cardinality(WithListner(k)) # 0
  BY <1>1, ReportsCounted, FS_EmptySet
<1> QED
  BY <1>1, <1>2, <1>3, ReportsCounted

LEMMA OneMoreCounted ==
  ASSUME NEW S, IsFiniteSet(S), NEW x, x \notin S, NEW b
  PROVE  Cardinality(S \cup (IF b THEN {x} ELSE {})) = Cardinality(S) + (IF b THEN 1 ELSE 0)
<1>1. Cardinality(S) \in Nat /\ Cardinality(S \cup {x}) = Cardinality(S) + 1
  BY FS_CardinalityType, FS_AddElement
<1> QED
  BY <1>1

\* One more job counts once, if it has a listner or a barrier.
LEMMA ReportsOneMore ==
  ASSUME NEW n \in Nat
  PROVE  /\ Cardinality(WithListner(n + 1))
              = Cardinality(WithListner(n)) + (IF ran[n + 1].args.listner THEN 1 ELSE 0)
         /\ WithListner(n + 1)
              = WithListner(n) \cup (IF ran[n + 1].args.listner THEN {n + 1} ELSE {})
         /\ Cardinality(WithBarrier(n + 1))
              = Cardinality(WithBarrier(n)) + (IF ran[n + 1].args.barrier THEN 1 ELSE 0)
<1>1. 1..(n + 1) = (1..n) \cup {n + 1} /\ n + 1 \notin 1..n
  OBVIOUS
<1>2. /\ WithListner(n + 1)
           = WithListner(n) \cup (IF ran[n + 1].args.listner THEN {n + 1} ELSE {})
      /\ n + 1 \notin WithListner(n)
  BY <1>1 DEF WithListner
<1>3. /\ WithBarrier(n + 1)
           = WithBarrier(n) \cup (IF ran[n + 1].args.barrier THEN {n + 1} ELSE {})
      /\ n + 1 \notin WithBarrier(n)
  BY <1>1 DEF WithBarrier
<1>4. Cardinality(WithListner(n + 1))
        = Cardinality(WithListner(n)) + (IF ran[n + 1].args.listner THEN 1 ELSE 0)
  BY <1>2, ReportsCounted, OneMoreCounted
<1>5. Cardinality(WithBarrier(n + 1))
        = Cardinality(WithBarrier(n)) + (IF ran[n + 1].args.barrier THEN 1 ELSE 0)
  BY <1>3, ReportsCounted, OneMoreCounted
<1> QED
  BY <1>2, <1>4, <1>5

\* What matters of a step that reports nothing.
LEMMA ReportsFrame ==
  ASSUME ListnersHear, BarriersCounted, UNCHANGED history,
         PastListner' = PastListner, PastBarrier' = PastBarrier
  PROVE  ListnersHear' /\ BarriersCounted'
BY DEF ListnersHear, BarriersCounted, WithListner, WithBarrier, history

LEMMA ReportsInit == Init => Reports
<1> SUFFICES ASSUME Init
             PROVE  ListnersHear /\ BarriersCounted
  BY DEF Init, Reports, Remembered, Serving
<1>1. PastListner = 0 /\ PastBarrier = 0 /\ Len(heard) = 0 /\ signalled = 0
  BY DEF Init, PastListner, PastBarrier
<1>2. WithListner(0) = {} /\ WithBarrier(0) = {}
  BY DEF WithListner, WithBarrier
<1>3. Cardinality({}) = 0
  BY FS_EmptySet
<1> QED
  BY <1>1, <1>2, <1>3 DEF ListnersHear, BarriersCounted

\* What a client fills in is neither in the batch nor in the queue.
LEMMA ListedKeepFields ==
  ASSUME IInv, NEW c \in Clients, ClientStep(c)
  PROVE  \A r \in ToSet(batch) \cup ToSet(requests) : r \in Requests /\ fields'[r] = fields[r]
<1>1. ToSet(batch) \subseteq Requests /\ ToSet(requests) \subseteq Requests
  BY ToSetTyped DEF IInv, Ownership, ListTypes
<1>2. ASSUME NEW a \in Arguments, CreateRequest(c, a)
      PROVE  \A r \in ToSet(batch) \cup ToSet(requests) : fields'[r] = fields[r]
  <2>1. PICK r \in Requests : hand' = [hand EXCEPT ![c] = r] /\ fields' = [fields EXCEPT ![r] = a]
    BY <1>2 DEF CreateRequest
  <2>2. /\ hand'[c] = r /\ cpc'[c] = "push"
        /\ UNCHANGED <<requests, batch>>
    BY <1>2, <2>1 DEF CreateRequest, workerVars, IInv, Ownership, ListTypes
  <2>3. r \notin ToSet(batch) \cup ToSet(requests)
    BY <1>2, <2>2, CreateOwnership DEF IInv, Ownership, OneOwner
  <2> QED
    BY <1>1, <2>1, <2>3 DEF IInv, Types, OtherTypes
<1>3. CASE PushRequest(c) \/ (\E o \in Orders : RemoveRequest(c, o)) \/ SignalWork(c)
  <2>1. fields' = fields
    BY <1>3 DEF PushRequest, RemoveRequest, SignalWork, queueVars
  <2> QED
    BY <1>1, <2>1
<1> QED
  BY <1>1, <1>2, <1>3 DEF ClientStep

LEMMA ClientReports ==
  ASSUME IInv, Reports, NEW c \in Clients, ClientStep(c)
  PROVE  Reports'
<1>1. UNCHANGED <<workerVars, history>>
  BY DEF ClientStep, CreateRequest, PushRequest, RemoveRequest, SignalWork
<1>2. wpc \in {"listner", "barrier"} => Current' = Current
  BY <1>1, ListedKeepFields DEF Current, ToSet, workerVars, IInv, Types, LiveFields
<1>3. Remembered'
  BY <1>1, <1>2 DEF Reports, Remembered, Serving, workerVars, history
<1> QED
  BY <1>1, <1>3, ReportsFrame
     DEF Reports, PastListner, PastBarrier, workerVars, history

LEMMA ExecuteReports ==
  ASSUME IInv, Reports, ExecuteJob
  PROVE  Reports'
<1>n. PICK n \in Nat : n = Len(ran)
  BY DEF IInv, Types, OtherTypes
<1>1. PICK res \in BOOLEAN : /\ result' = res
                             /\ ran' = Append(ran, [args |-> Current, res |-> res])
  BY DEF ExecuteJob
<1>2. /\ wpc = "run" /\ wpc' = "listner"
      /\ UNCHANGED <<batch, it, fields, heard, signalled>>
  BY DEF ExecuteJob, queueVars
<1>3. /\ Current \in Arguments
      /\ ran \in Seq([args : Arguments, res : BOOLEAN])
  BY <1>2 DEF ExecuteJob, Current, IInv, Types, OtherTypes, LiveFields, Ownership, ListTypes, ToSet
<1>4. /\ n \in Nat /\ Len(ran') = n + 1 /\ ran' # <<>>
      /\ ran'[n + 1] = [args |-> Current, res |-> res]
      /\ \A k \in 1..n : ran'[k] = ran[k]
  <2> DEFINE R == [args : Arguments, res : BOOLEAN]
             e == [args |-> Current, res |-> res]
  <2>1. ran \in Seq(R) /\ e \in R /\ ran' = Append(ran, e)
    BY <1>1, <1>3
  <2> HIDE DEF R, e
  <2>2. /\ n \in Nat /\ Len(ran') = n + 1 /\ ran' # <<>> /\ ran'[n + 1] = e
        /\ \A k \in 1..n : ran'[k] = ran[k]
    BY <1>n, <2>1, AppendProperties
  <2> QED
    BY <2>2 DEF e
<1>5. Remembered'
  BY <1>n, <1>1, <1>2, <1>4 DEF Remembered, Serving, Current
<1>6. PastListner' = n /\ PastListner = n /\ PastBarrier' = n /\ PastBarrier = n
  BY <1>n, <1>2, <1>4 DEF PastListner, PastBarrier
<1>7. \A m \in 0..n : WithListner(m)' = WithListner(m) /\ WithBarrier(m)' = WithBarrier(m)
  BY <1>4 DEF WithListner, WithBarrier
<1>8. WithListner(n)' = WithListner(n) /\ WithBarrier(n)' = WithBarrier(n)
  BY <1>4, <1>7
<1>9. BarriersCounted'
  BY <1>2, <1>6, <1>8 DEF Reports, BarriersCounted
<1>10. ListnersHear'
  <2>1. \A k \in WithListner(n) : k \in 1..n /\ ran'[k] = ran[k] /\ WithListner(k)' = WithListner(k)
    BY <1>4, <1>7 DEF WithListner
  <2> QED
    BY <1>2, <1>6, <1>8, <2>1 DEF Reports, ListnersHear
<1> QED
  BY <1>5, <1>9, <1>10 DEF Reports

LEMMA ListnerReports ==
  ASSUME IInv, Reports, CallListner
  PROVE  Reports'
<1> DEFINE e == [order |-> Current.order, res |-> result]
<1>1. /\ wpc = "listner" /\ wpc' = "barrier"
      /\ UNCHANGED <<batch, it, result, fields, ran, signalled>>
      /\ heard' = IF Current.listner THEN Append(heard, e) ELSE heard
  BY DEF CallListner, queueVars
<1>2. PICK n \in Nat : /\ Len(ran) = n + 1
                      /\ ran[n + 1] = [args |-> Current, res |-> result]
  <2>1. ran # <<>> /\ Len(ran) \in Nat /\ ran[Len(ran)] = [args |-> Current, res |-> result]
    BY <1>1 DEF Reports, Remembered, IInv, Types, OtherTypes
  <2>2. Len(ran) - 1 \in Nat /\ Len(ran) = (Len(ran) - 1) + 1
    BY <2>1 DEF IInv, Types, OtherTypes
  <2> QED
    BY <2>1, <2>2
<1>a. ran[n + 1].args.listner = Current.listner
  BY <1>2
<1>3. PastListner = n /\ PastListner' = n + 1 /\ PastBarrier' = PastBarrier
  BY <1>1, <1>2 DEF PastListner, PastBarrier
<1>4. Remembered'
  BY <1>1 DEF Reports, Remembered, Serving, Current
<1>5. BarriersCounted'
  BY <1>1, <1>3 DEF Reports, BarriersCounted, WithBarrier
<1>6. /\ Len(heard) = Cardinality(WithListner(n))
      /\ \A k \in WithListner(n) : /\ Cardinality(WithListner(k)) \in 1..Len(heard)
                                   /\ heard[Cardinality(WithListner(k))]
                                        = [order |-> ran[k].args.order, res |-> ran[k].res]
  BY <1>2, <1>3, ReportsNumbered DEF Reports, ListnersHear
<1>7. Len(heard) \in Nat /\ \E T : heard \in Seq(T) /\ e \in T
  <2> DEFINE H == [order : Orders, res : BOOLEAN]
  <2>1. Len(heard) \in Nat /\ heard \in Seq(H)
    BY DEF IInv, Types, OtherTypes
  <2>2. Current \in Arguments
    BY <1>1 DEF Current, IInv, Types, LiveFields, ToSet
  <2>3. e \in H
    BY <2>2, ArgumentTypes DEF IInv, Types, OtherTypes
  <2> QED
    BY <2>1, <2>3
<1> HIDE DEF e
<1>8. CASE Current.listner
  <2>1. /\ WithListner(n + 1) = WithListner(n) \cup {n + 1}
        /\ Cardinality(WithListner(n + 1)) = Len(heard) + 1
    BY <1>2, <1>6, <1>8, <1>a, ReportsOneMore
  <2>2. /\ Len(heard') = Len(heard) + 1 /\ heard'[Len(heard) + 1] = e
        /\ \A j \in 1..Len(heard) : heard'[j] = heard[j]
    BY <1>1, <1>7, <1>8, AppendProperties
  <2>3. ASSUME NEW k \in WithListner(n + 1)
        PROVE  heard'[Cardinality(WithListner(k))]
                 = [order |-> ran[k].args.order, res |-> ran[k].res]
    BY <1>2, <1>6, <2>1, <2>2, <2>3 DEF e
  <2>4. \A k : WithListner(k)' = WithListner(k)
    BY <1>1 DEF WithListner
  <2>5. ListnersHear'
    BY <1>1, <1>3, <2>1, <2>2, <2>3, <2>4 DEF ListnersHear
  <2> QED
    BY <1>4, <1>5, <2>5 DEF Reports
<1>9. CASE ~Current.listner
  <2>1. WithListner(n + 1) = WithListner(n)
    BY <1>2, <1>9, <1>a, ReportsOneMore
  <2>2. \A k : WithListner(k)' = WithListner(k)
    BY <1>1 DEF WithListner
  <2>3. heard' = heard
    BY <1>1, <1>9
  <2>4. ListnersHear'
    BY <1>1, <1>3, <1>6, <2>1, <2>2, <2>3 DEF ListnersHear
  <2> QED
    BY <1>4, <1>5, <2>4 DEF Reports
<1> QED
  BY <1>8, <1>9

LEMMA BarrierReports ==
  ASSUME IInv, Reports, SignalBarrier
  PROVE  Reports'
<1>1. /\ wpc = "barrier" /\ wpc' = "run"
      /\ UNCHANGED <<batch, fields, ran, heard>>
      /\ signalled' = IF Current.barrier THEN signalled + 1 ELSE signalled
  BY DEF SignalBarrier, queueVars
<1>2. PICK n \in Nat : /\ Len(ran) = n + 1
                      /\ ran[n + 1] = [args |-> Current, res |-> result]
  <2>1. ran # <<>> /\ Len(ran) \in Nat /\ ran[Len(ran)] = [args |-> Current, res |-> result]
    BY <1>1 DEF Reports, Remembered, IInv, Types, OtherTypes
  <2>2. Len(ran) - 1 \in Nat /\ Len(ran) = (Len(ran) - 1) + 1
    BY <2>1 DEF IInv, Types, OtherTypes
  <2> QED
    BY <2>1, <2>2
<1>a. ran[n + 1].args.barrier = Current.barrier
  BY <1>2
<1>3. PastBarrier = n /\ PastBarrier' = n + 1 /\ PastListner' = PastListner
  BY <1>1, <1>2 DEF PastListner, PastBarrier
<1>4. Remembered'
  BY <1>1 DEF Reports, Remembered, Serving
<1>5. ListnersHear'
  BY <1>1, <1>3 DEF Reports, ListnersHear, WithListner
<1>6. WithBarrier(n + 1)' = WithBarrier(n + 1)
  BY <1>1 DEF WithBarrier
<1>7. signalled' = Cardinality(WithBarrier(n + 1))
  <2>1. signalled = Cardinality(WithBarrier(n)) /\ Cardinality(WithBarrier(n)) \in Nat
    BY <1>3, ReportsCounted DEF Reports, BarriersCounted
  <2>2. Cardinality(WithBarrier(n + 1))
          = Cardinality(WithBarrier(n)) + (IF Current.barrier THEN 1 ELSE 0)
    BY <1>a, ReportsOneMore
  <2> QED
    BY <1>1, <2>1, <2>2
<1>8. BarriersCounted'
  BY <1>3, <1>6, <1>7 DEF BarriersCounted
<1> QED
  BY <1>4, <1>5, <1>8 DEF Reports

LEMMA ReportsStep ==
  ASSUME IInv, Reports, [Next]_vars
  PROVE  Reports'
<1>1. CASE TestActive \/ FindQueueDone \/ SleepOnQueue \/ TakeAwake \/ TakeWoken \/ ExitWoken
           \/ BuryBatch
  <2>1. UNCHANGED history /\ wpc \notin {"listner", "barrier"} /\ wpc' \notin {"listner", "barrier"}
    BY <1>1 DEF TestActive, FindQueueDone, SleepOnQueue, TakeAwake, TakeWoken, ExitWoken, TakeBatch,
                BuryBatch
  <2>2. ~Serving' => batch' = <<>>
    BY <1>1 DEF TestActive, FindQueueDone, SleepOnQueue, TakeAwake, TakeWoken, ExitWoken, TakeBatch,
                BuryBatch, Reports, Remembered, Serving
  <2> QED
    BY <2>1, <2>2, ReportsFrame DEF Reports, Remembered, PastListner, PastBarrier, history
<1>2. CASE OwnerStep \/ (\E t \in Threads : CondStep(t)) \/ UNCHANGED vars
  <2>1. UNCHANGED <<workerVars, fields, history>>
    BY <1>2 DEF OwnerStep, BeginDelete, SignalTerminated, Terminate, DeleteQueue, CondStep, queueVars,
                vars
  <2> QED
    BY <2>1, ReportsFrame
       DEF Reports, Remembered, Serving, Current, PastListner, PastBarrier, workerVars, history
<1> QED
  BY <1>1, <1>2, ClientReports, ExecuteReports, ListnerReports, BarrierReports
     DEF Next, WorkerStep

\* Each job is reported to the listner and counted at the barrier it was added
\* with, once and in order: JobQueueThreadFunc::execute reads both from the
\* LoadRequest after the job, and nobody reuses it before _addToGraveYard.
THEOREM JobsAreReported == Spec => []ListnersHear
<1>1. Reports => ListnersHear
  BY DEF Reports
<1> QED
  BY IInvInit, IInvStep, ReportsInit, ReportsStep, <1>1, PTL DEF Spec

THEOREM BarriersAreSignalled == Spec => []BarriersCounted
<1>1. Reports => BarriersCounted
  BY DEF Reports
<1> QED
  BY IInvInit, IInvStep, ReportsInit, ReportsStep, <1>1, PTL DEF Spec

-----------------------------------------------------------------------------
(* The service.  A queue taken over by the worker is what clients still    *)
(* wait for: the rest of the batch, then the queue.                        *)

Waiting == Args(Unserved) \o Args(requests)

LEMMA WaitingTypes ==
  ASSUME IInv
  PROVE  /\ Unserved \in Seq(Requests)
         /\ ToSet(Unserved) \subseteq ToSet(batch)
         /\ Args(Unserved) \in Seq(FieldTypes) /\ Args(requests) \in Seq(FieldTypes)
<1> DEFINE first == IF wpc \in {"listner", "barrier"} THEN it + 1 ELSE it
<1>1. /\ first \in Nat \ {0} /\ Len(batch) \in Nat /\ batch \in Seq(Requests)
      /\ DOMAIN batch = 1..Len(batch)
  BY DEF IInv, Types, OtherTypes, Ownership, ListTypes
<1>2. Unserved = SubSeq(batch, first, Len(batch))
  BY DEF Unserved
<1> HIDE DEF first
<1>3. \A i \in first..Len(batch) : i \in DOMAIN batch /\ batch[i] \in Requests
  BY <1>1
<1>4. /\ Unserved \in Seq(Requests)
      /\ Len(Unserved) = IF first <= Len(batch) THEN Len(batch) - first + 1 ELSE 0
      /\ \A i \in 1..(Len(batch) - first + 1) : Unserved[i] = batch[first + i - 1]
  BY <1>1, <1>2, <1>3, SubSeqProperties
<1>5. ASSUME NEW i \in DOMAIN Unserved
      PROVE  Unserved[i] \in ToSet(batch)
  <2>1. i \in 1..(Len(batch) - first + 1) /\ first + i - 1 \in first..Len(batch)
    BY <1>1, <1>4
  <2>2. Unserved[i] = batch[first + i - 1] /\ first + i - 1 \in DOMAIN batch
    BY <1>3, <1>4, <2>1
  <2> QED
    BY <2>2 DEF ToSet
<1>6. ToSet(Unserved) \subseteq ToSet(batch)
  BY <1>5 DEF ToSet
<1>7. fields \in [Requests -> FieldTypes] /\ requests \in Seq(Requests)
  BY DEF IInv, Types, OtherTypes, Ownership, ListTypes
<1>8. Args(Unserved) = Mapped(fields, Unserved) /\ Args(requests) = Mapped(fields, requests)
  BY DEF Args, Mapped
<1>9. Mapped(fields, Unserved) \in Seq(FieldTypes) /\ Mapped(fields, requests) \in Seq(FieldTypes)
  <2> HIDE DEF Unserved
  <2> QED
    BY <1>4, <1>7, MappedTyped, Zenon
<1> QED
  BY <1>4, <1>6, <1>8, <1>9

\* Between batches nothing is left of the last one.
LEMMA NothingUnserved ==
  ASSUME IInv, wpc \notin {"listner", "barrier"}, batch = <<>> \/ it > Len(batch)
  PROVE  Unserved = <<>>
<1>1. it \in Int /\ Len(batch) \in Int /\ Len(batch) < it
  BY DEF IInv, Types, OtherTypes, Ownership, ListTypes
<1> QED
  BY <1>1, SubSeqEmpty DEF Unserved

LEMMA ArgsKept ==
  ASSUME NEW s, \A r \in ToSet(s) : fields'[r] = fields[r]
  PROVE  [i \in DOMAIN s |-> fields'[s[i]]] = Args(s)
BY DEF Args, ToSet

LEMMA WaitingKept ==
  ASSUME IInv, Unserved' = Unserved, requests' = requests,
         \A r \in ToSet(Unserved) \cup ToSet(requests) : fields'[r] = fields[r]
  PROVE  /\ Args(Unserved)' = Args(Unserved) /\ Args(requests)' = Args(requests)
         /\ Waiting' = Waiting
<1>1. Args(Unserved)' = Args(Unserved)
  BY ArgsKept DEF Args
<1>2. Args(requests)' = Args(requests)
  BY ArgsKept DEF Args
<1> QED
  BY <1>1, <1>2 DEF Waiting

LEMMA ServiceInit == Init => Service!Init
<1> SUFFICES ASSUME Init
             PROVE  Service!Init
  OBVIOUS
<1>1. Unserved = <<>> /\ requests = <<>>
  BY SubSeqEmpty DEF Init, Unserved
<1>2. Args(<<>>) = <<>>
  BY DEF Args
<1>3. <<>> \o <<>> = <<>>
  OBVIOUS
<1> QED
  BY <1>1, <1>2, <1>3 DEF Init, Service!Init

\* What the service does not see.
LEMMA ServiceStutter ==
  ASSUME Waiting' = Waiting, ran' = ran, opc' = "alive" <=> opc = "alive"
  PROVE  UNCHANGED Service!vars
BY DEF Waiting, Service!vars

LEMMA SubmitStep ==
  ASSUME IInv, Quiet, NEW c \in Clients, PushRequest(c)
  PROVE  Service!Next
<1> DEFINE a == fields[hand[c]]
<1>1. /\ cpc[c] = "push" /\ requests' = Append(requests, hand[c])
      /\ UNCHANGED <<fields, batch, it, wpc, ran, opc>>
  BY DEF PushRequest, workerVars, ownerVars, history
<1>2. opc = "alive"
  BY <1>1 DEF Quiet
<1>3. hand[c] \in Requests /\ a \in Arguments /\ a \in FieldTypes
  BY <1>1, ArgumentTypes
     DEF IInv, Types, LiveFields, Ownership, ListTypes, InUseAllocated
<1>4. Args(Unserved)' = Args(Unserved)
  BY <1>1 DEF Args, Unserved
<1>5. Args(requests)' = Append(Args(requests), a)
  <2>1. Args(requests)' = Mapped(fields, Append(requests, hand[c]))
    BY <1>1 DEF Args, Mapped
  <2>2. Args(requests) = Mapped(fields, requests) /\ requests \in Seq(Requests)
    BY DEF Args, Mapped, IInv, Ownership, ListTypes
  <2> QED
    BY <1>3, <2>1, <2>2, MappedAppend
<1>6. Waiting' = Append(Waiting, a)
  <2> HIDE DEF a
  <2> QED
    BY <1>3, <1>4, <1>5, WaitingTypes, AppendConcat DEF Waiting
<1>7. Service!Submit(a)
  BY <1>1, <1>2, <1>6 DEF Waiting, Service!Submit
<1> QED
  BY <1>3, <1>7 DEF Service!Next

LEMMA CancelStep ==
  ASSUME IInv, NEW c \in Clients, NEW o \in Orders, RemoveRequest(c, o)
  PROVE  [Service!Next]_(Service!vars)
<1>1. /\ opc = "alive"
      /\ UNCHANGED <<fields, batch, it, wpc, ran, opc>>
  BY DEF RemoveRequest, MayCall, workerVars, ownerVars, history
<1>2. CASE UNCHANGED requests
  BY <1>1, <1>2, ServiceStutter DEF Waiting, Args, Unserved
<1>3. ASSUME NEW i \in DOMAIN requests, requests' = RemoveAt(requests, i)
      PROVE  Service!Next
  <2> DEFINE k == Len(Args(Unserved)) + i
  <2>1. Args(Unserved)' = Args(Unserved)
    BY <1>1 DEF Args, Unserved
  <2>2. /\ i \in DOMAIN Args(requests)
        /\ Args(requests)' = RemoveAt(Args(requests), i)
    <3>1. Args(requests)' = Mapped(fields, RemoveAt(requests, i))
      BY <1>1, <1>3 DEF Args, Mapped
    <3>2. Args(requests) = Mapped(fields, requests) /\ requests \in Seq(Requests)
      BY DEF Args, Mapped, IInv, Ownership, ListTypes
    <3> QED
      BY <3>1, <3>2, MappedRemoveAt
  <2>3. k \in DOMAIN Waiting /\ Waiting' = RemoveAt(Waiting, k)
    <3>1. PICK u \in Seq(FieldTypes), q \in Seq(FieldTypes) :
            u = Args(Unserved) /\ q = Args(requests)
      BY WaitingTypes
    <3>2. Len(u) + i \in DOMAIN (u \o q) /\ RemoveAt(u \o q, Len(u) + i) = u \o RemoveAt(q, i)
      BY <2>2, <3>1, RemoveAtConcat
    <3> QED
      BY <2>1, <2>2, <3>1, <3>2 DEF Waiting
  <2>4. Service!Cancel(k)
    <3>1. (opc = "alive")' = (opc = "alive")
      BY <1>1
    <3> QED
      BY <1>1, <2>3, <3>1 DEF Waiting, Service!Cancel, Service!RemoveAt, RemoveAt
  <2> QED
    BY <2>3, <2>4 DEF Waiting, Service!Next
<1> QED
  BY <1>2, <1>3 DEF RemoveRequest

LEMMA RunStep ==
  ASSUME IInv, ExecuteJob
  PROVE  Service!Next
<1>1. /\ wpc = "run" /\ wpc' = "listner" /\ it <= Len(batch)
      /\ UNCHANGED <<requests, batch, it, fields, opc>>
  BY DEF ExecuteJob, queueVars, ownerVars
<1>2. PICK res \in BOOLEAN : ran' = Append(ran, [args |-> Current, res |-> res])
  BY DEF ExecuteJob
<1>3. /\ it \in 1..Len(batch) /\ Len(batch) \in it..Len(batch)
      /\ batch \in Seq(Requests)
  BY <1>1 DEF IInv, Types, OtherTypes, Ownership, ListTypes
<1>4. Unserved = SubSeq(batch, it, Len(batch)) /\ Unserved' = SubSeq(batch, it + 1, Len(batch))
  BY <1>1 DEF Unserved
<1>5. Unserved # <<>> /\ Head(Unserved) = batch[it] /\ Unserved' = Tail(Unserved)
  <2> DEFINE w == SubSeq(batch, it, Len(batch))
  <2>1. w \in Seq(Requests) /\ Len(w) # 0
    <3>1. \A i \in it..Len(batch) : batch[i] \in Requests
      BY <1>3
    <3> QED
      BY <1>3, <3>1, SubSeqProperties
  <2>2. Head(w) = batch[it] /\ Tail(w) = SubSeq(batch, it + 1, Len(batch))
    BY <1>3, HeadTailOfSubSeq
  <2> HIDE DEF w
  <2>3. w # <<>>
    BY <2>1, EmptySeq
  <2> QED
    BY <1>4, <2>2, <2>3 DEF w
<1>6. /\ Args(Unserved) # <<>> /\ Head(Args(Unserved)) = Current
      /\ Args(Unserved)' = Tail(Args(Unserved))
  <2>1. Args(Unserved)' = Mapped(fields, Tail(Unserved))
    BY <1>1, <1>5 DEF Args, Mapped
  <2>2. Args(Unserved) = Mapped(fields, Unserved)
    BY DEF Args, Mapped
  <2>3. Unserved \in Seq(Requests) /\ Unserved # <<>>
    BY <1>5, WaitingTypes
  <2> HIDE DEF Unserved
  <2>4. Mapped(fields, Unserved) # <<>>
    <3>1. Len(Unserved) # 0
      BY <2>3, EmptySeq
    <3>2. Len(Mapped(fields, Unserved)) = Len(Unserved)
      BY <2>3, MappedSeq, Zenon
    <3> QED
      BY <3>1, <3>2, EmptySeq
  <2>5. /\ Mapped(fields, Tail(Unserved)) = Tail(Mapped(fields, Unserved))
        /\ Head(Mapped(fields, Unserved)) = fields[Head(Unserved)]
    BY <2>3, MappedTail
  <2> QED
    BY <1>5, <2>1, <2>2, <2>4, <2>5 DEF Current
<1>7. Args(requests)' = Args(requests)
  BY <1>1 DEF Args
<1>8. Waiting # <<>> /\ Head(Waiting) = Current /\ Waiting' = Tail(Waiting)
  BY <1>6, <1>7, WaitingTypes, HeadTailConcat DEF Waiting
<1>9. Service!Run
  BY <1>1, <1>2, <1>8 DEF Waiting, Service!Run
<1> QED
  BY <1>9 DEF Service!Next

\* The worker takes the queue over: the queue becomes the batch.
LEMMA TakeKept ==
  ASSUME IInv, Reports, TakeAwake \/ TakeWoken
  PROVE  UNCHANGED Service!vars
<1>1. /\ wpc \in {"lock", "woken"} /\ wpc' = "run" /\ it' = 1
      /\ batch' = requests /\ requests' = <<>>
      /\ UNCHANGED <<fields, ran, opc>>
  BY DEF TakeAwake, TakeWoken, TakeBatch, ownerVars, history
<1>2. Unserved = <<>>
  BY <1>1, NothingUnserved DEF Reports, Remembered, Serving
<1>3. Unserved' = requests
  <2>1. SubSeq(requests, 1, Len(requests)) = requests
    BY SubSeqFull DEF IInv, Ownership, ListTypes
  <2> QED
    BY <1>1, <2>1 DEF Unserved
<1>4. Args(Unserved)' = Args(requests) /\ Args(requests)' = <<>> /\ Args(Unserved) = <<>>
  BY <1>1, <1>2, <1>3 DEF Args
<1>5. Args(requests) \o <<>> = Args(requests) /\ <<>> \o Args(requests) = Args(requests)
  BY WaitingTypes, ConcatEmptySeq
<1>6. Waiting' = Waiting
  BY <1>4, <1>5 DEF Waiting
<1> QED
  BY <1>1, <1>6, ServiceStutter

LEMMA BuryKept ==
  ASSUME IInv, BuryBatch
  PROVE  UNCHANGED Service!vars
<1>1. /\ wpc = "run" /\ it > Len(batch)
      /\ wpc' = "test" /\ batch' = <<>> /\ it' = 1
      /\ UNCHANGED <<requests, ran, opc>>
      /\ \A r \in Requests : r \notin ToSet(batch) => fields'[r] = fields[r]
  BY DEF BuryBatch, ownerVars, history
<1>2. Unserved = <<>>
  BY <1>1, NothingUnserved
<1>3. Unserved' = <<>>
  BY <1>1, SubSeqEmpty DEF Unserved
<1>4. ToSet(Unserved) = {}
  BY <1>2, ToSetEmpty
<1>5. \A r \in ToSet(requests) : r \in Requests /\ r \notin ToSet(batch)
  <2>1. ToSet(requests) \subseteq Requests
    BY ToSetTyped DEF IInv, Ownership, ListTypes
  <2> QED
    BY <2>1 DEF IInv, Ownership, OneOwner
<1>6. Waiting' = Waiting
  BY <1>1, <1>2, <1>3, <1>4, <1>5, WaitingKept
<1> QED
  BY <1>1, <1>6, ServiceStutter

LEMMA ServiceFrame ==
  ASSUME IInv, UNCHANGED <<requests, batch, ran>>, Unserved' = Unserved,
         opc' = "alive" <=> opc = "alive",
         \A r \in ToSet(batch) \cup ToSet(requests) : fields'[r] = fields[r]
  PROVE  UNCHANGED Service!vars
<1>1. ToSet(Unserved) \subseteq ToSet(batch)
  BY WaitingTypes
<1>2. Waiting' = Waiting
  BY <1>1, WaitingKept
<1> QED
  BY <1>2, ServiceStutter

LEMMA ClientService ==
  ASSUME IInv, Quiet, NEW c \in Clients, ClientStep(c)
  PROVE  [Service!Next]_(Service!vars)
<1>1. CASE (\E a \in Arguments : CreateRequest(c, a)) \/ SignalWork(c)
  <2>1. UNCHANGED <<requests, batch, it, wpc, ran, opc>>
    BY <1>1 DEF CreateRequest, SignalWork, queueVars, workerVars, ownerVars, history
  <2>2. Unserved' = Unserved
    BY <2>1 DEF Unserved
  <2> QED
    BY <2>1, <2>2, ListedKeepFields, ServiceFrame
<1> QED
  BY <1>1, SubmitStep, CancelStep DEF ClientStep

LEMMA WorkerService ==
  ASSUME IInv, Reports, WorkerStep
  PROVE  [Service!Next]_(Service!vars)
<1>1. CASE TestActive \/ FindQueueDone \/ SleepOnQueue \/ ExitWoken \/ CallListner \/ SignalBarrier
  <2>1. UNCHANGED <<requests, batch, fields, ran, opc>>
    BY <1>1 DEF TestActive, FindQueueDone, SleepOnQueue, ExitWoken, CallListner, SignalBarrier,
                queueVars, ownerVars, history
  <2>2. Unserved' = Unserved
    BY <1>1 DEF TestActive, FindQueueDone, SleepOnQueue, ExitWoken, CallListner, SignalBarrier,
                Unserved
  <2> QED
    BY <2>1, <2>2, ServiceFrame
<1> QED
  BY <1>1, TakeKept, BuryKept, RunStep DEF WorkerStep

LEMMA OwnerService ==
  ASSUME IInv, Quiet, Reports, OwnerStep
  PROVE  [Service!Next]_(Service!vars)
<1>1. CASE SignalTerminated \/ Terminate
  <2>1. UNCHANGED <<requests, batch, it, wpc, fields, ran>> /\ opc # "alive" /\ opc' # "alive"
    BY <1>1 DEF SignalTerminated, Terminate, queueVars, workerVars, history
  <2> QED
    BY <2>1, ServiceFrame DEF Unserved
<1>2. CASE BeginDelete
  <2>1. UNCHANGED <<requests, batch, it, wpc, fields, ran>> /\ opc = "alive" /\ opc' = "signal"
    BY <1>2 DEF BeginDelete, queueVars, workerVars, history
  <2>2. UNCHANGED Waiting
    BY <2>1 DEF Waiting, Args, Unserved
  <2>3. Service!Close
    BY <2>1, <2>2 DEF Waiting, Service!Close
  <2> QED
    BY <2>3 DEF Service!Next
<1>3. CASE DeleteQueue
  <2>1. /\ opc = "join" /\ opc' = "deleted" /\ wpc \in {"exited", "broken"} /\ requests' = <<>>
        /\ UNCHANGED <<batch, it, wpc, fields, ran>>
    BY <1>3 DEF DeleteQueue, workerVars, history
  <2>2. Unserved = <<>> /\ Unserved' = Unserved
    BY <2>1, NothingUnserved DEF Reports, Remembered, Serving, Unserved
  <2>3. Args(Unserved)' = <<>> /\ Args(requests)' = <<>>
    BY <2>1, <2>2 DEF Args
  <2>4. Waiting' = <<>>
    BY <2>3 DEF Waiting
  <2>5. Service!Drop
    BY <2>1, <2>4 DEF Waiting, Service!Drop
  <2> QED
    BY <2>5 DEF Service!Next
<1> QED
  BY <1>1, <1>2, <1>3 DEF OwnerStep

\* JobQueue does what JobService says: an order is run once, in the order in
\* which AddRequest was called, with the arguments it was called with, unless
\* RemoveRequest took it back or ~JobQueue dropped it, however the threads
\* interleave and however often a LoadRequest is reused.
THEOREM QueueServes == Spec => Service!Spec
<1>1. ASSUME IInv, Quiet, Reports, [Next]_vars
      PROVE  [Service!Next]_(Service!vars)
  <2>1. CASE (\E t \in Threads : CondStep(t)) \/ UNCHANGED vars
    <3>1. UNCHANGED <<requests, batch, it, wpc, fields, ran, opc>>
      BY <2>1 DEF CondStep, vars, queueVars, workerVars, ownerVars, history
    <3>2. Unserved' = Unserved
      BY <3>1 DEF Unserved
    <3> QED
      BY <1>1, <3>1, <3>2, ServiceFrame
  <2> QED
    BY <1>1, <2>1, ClientService, WorkerService, OwnerService DEF Next
<1> QED
  BY <1>1, ServiceInit, IInvInit, IInvStep, QuietInit, QuietStep, ReportsInit, ReportsStep, PTL
     DEF Spec, Service!Spec

=============================================================================
