---------------------------- MODULE LoadingProofs ----------------------------
(***************************************************************************)
(* Proofs about AsyncLoadManager, for any number of callers, workers,      *)
(* requests and priorities; and about TextureLoading, for any number of    *)
(* workers, textures and requests.                                         *)
(***************************************************************************)
EXTENDS TextureLoading, DistinctSeqs, FiniteSetTheorems

(***************************************************************************)
(* A request moves from one queue to one worker, and is started there.     *)
(***************************************************************************)
QueuesDiffer ==
  /\ \A p, q \in Priorities : p # q => ToSet(queues[p]) \cap ToSet(queues[q]) = {}
  /\ \A p \in Priorities : IsInjective(queues[p])

Hands ==
  \A w \in Workers :
    /\ cur[w] # NoRequest <=> wpc[w] \in {"start", "loading", "failed"}
    /\ cur[w] # NoRequest =>
         /\ cur[w] \notin Queued
         /\ \A v \in Workers : cur[v] = cur[w] => v = w
         /\ started[cur[w]] = IF wpc[w] = "start" THEN 0 ELSE 1

Starts ==
  /\ \A r \in Requests : started[r] <= 1
  /\ \A r \in Queued : started[r] = 0

LoadInv == LoadTypeOK /\ QueuesDiffer /\ Hands /\ Starts

LEMMA LoadInvInit == LoadInit => LoadInv
<1> SUFFICES ASSUME LoadInit PROVE LoadInv
  OBVIOUS
<1>1. \A p \in Priorities : ToSet(queues[p]) = {} /\ IsInjective(queues[p])
  BY ToSetEmpty DEF LoadInit
<1>2. Queued = {}
  BY <1>1 DEF Queued
<1>3. LoadTypeOK
  <2>1. queues \in [Priorities -> Seq(Requests)]
    BY DEF LoadInit
  <2> QED
    BY <2>1 DEF LoadInit, LoadTypeOK
<1> QED
  BY <1>1, <1>2, <1>3 DEF LoadInit, LoadInv, QueuesDiffer, Hands, Starts

LEMMA PushKeeps ==
  ASSUME LoadInv, NEW c \in Callers, NEW r \in Requests, NEW p \in Priorities,
         Fresh(r), PushRequest(c, r, p)
  PROVE  LoadInv' /\ Queued' = Queued \cup {r}
<1>1. /\ queues[p] \in Seq(Requests) /\ r \notin Queued /\ r \notin ToSet(queues[p])
      /\ queues' = [queues EXCEPT ![p] = Append(queues[p], r)]
      /\ UNCHANGED <<jobInUse, submitted, wpc, cur, loaded, started>>
  BY DEF LoadInv, LoadTypeOK, Fresh, PushRequest, Queued
<1>2. \A q \in Priorities : queues'[q] = IF q = p THEN Append(queues[p], r) ELSE queues[q]
  BY <1>1 DEF LoadInv, LoadTypeOK
<1>3. \A q \in Priorities : ToSet(queues'[q]) = IF q = p THEN ToSet(queues[p]) \cup {r} ELSE ToSet(queues[q])
  <2>1. ToSet(Append(queues[p], r)) = ToSet(queues[p]) \cup {r}
    BY <1>1, ToSetAppend
  <2> QED
    BY <1>2, <2>1
<1>4. Queued' = Queued \cup {r}
  BY <1>3 DEF Queued
<1>5. LoadTypeOK'
  BY <1>1, ToSetAppend DEF LoadInv, LoadTypeOK, PushRequest
<1>6. QueuesDiffer'
  <2>1. \A q \in Priorities : IsInjective(queues'[q])
    BY <1>1, <1>2, ToSetAppend DEF LoadInv, QueuesDiffer
  <2>2. ASSUME NEW q \in Priorities, NEW s \in Priorities, q # s
        PROVE  ToSet(queues'[q]) \cap ToSet(queues'[s]) = {}
    <3>1. r \notin ToSet(queues[q]) /\ r \notin ToSet(queues[s])
      BY <1>1 DEF Queued
    <3>2. ToSet(queues[q]) \cap ToSet(queues[s]) = {}
      BY <2>2 DEF LoadInv, QueuesDiffer
    <3> QED
      BY <1>3, <2>2, <3>1, <3>2
  <2> QED
    BY <2>1, <2>2 DEF QueuesDiffer
<1>7. Hands' /\ Starts'
  BY <1>1, <1>4 DEF LoadInv, Hands, Starts, Fresh
<1> QED
  BY <1>4, <1>5, <1>6, <1>7 DEF LoadInv

LEMMA FinishAddKeeps ==
  ASSUME LoadInv, NEW c \in Callers, FinishAdd(c)
  PROVE  LoadInv' /\ UNCHANGED <<queues, wpc, cur, loaded, started>>
<1>1. UNCHANGED <<queues, wpc, cur, loaded, started>>
  BY DEF FinishAdd, TestInUse, MarkInUse, SubmitJob
<1>2. LoadTypeOK'
  <2>1. /\ jobInUse' \in BOOLEAN /\ submitted' \in Nat
        /\ \E s \in {"idle", "mark", "submit"} : cpc' = [cpc EXCEPT ![c] = s]
    <3>1. jobInUse \in BOOLEAN /\ submitted \in Nat
      BY DEF LoadInv, LoadTypeOK
    <3>2. CASE TestInUse(c)
      BY <3>1, <3>2 DEF TestInUse
    <3>3. CASE MarkInUse(c)
      BY <3>1, <3>3 DEF MarkInUse
    <3>4. CASE SubmitJob(c)
      BY <3>1, <3>4 DEF SubmitJob
    <3> QED
      BY <3>2, <3>3, <3>4 DEF FinishAdd
  <2> QED
    BY <1>1, <2>1 DEF LoadInv, LoadTypeOK
<1> QED
  BY <1>1, <1>2 DEF LoadInv, QueuesDiffer, Hands, Starts, Queued

LEMMA PopKeeps ==
  ASSUME LoadInv, NEW w \in Workers, PopRequest(w)
  PROVE  LoadInv' /\ Queued' \subseteq Queued /\ cur'[w] \in Queued \ Queued'
<1>1. PICK p \in Priorities : /\ queues[p] # <<>>
                              /\ cur' = [cur EXCEPT ![w] = Head(queues[p])]
                              /\ queues' = [queues EXCEPT ![p] = Tail(queues[p])]
  BY DEF PopRequest
<1> DEFINE r == Head(queues[p])
<1>2. /\ wpc[w] = "pop" /\ wpc' = [wpc EXCEPT ![w] = "start"]
      /\ UNCHANGED <<jobInUse, submitted, cpc, loaded, started>>
      /\ queues[p] \in Seq(Requests) /\ IsInjective(queues[p])
  BY DEF PopRequest, LoadInv, LoadTypeOK, QueuesDiffer
<1>3. /\ Tail(queues[p]) \in Seq(Requests) /\ r \in ToSet(queues[p]) /\ r \in Requests
      /\ ToSet(Tail(queues[p])) \subseteq ToSet(queues[p]) /\ IsInjective(Tail(queues[p]))
      /\ r \notin ToSet(Tail(queues[p]))
  BY <1>1, <1>2, ToSetTail, ToSetTyped
<1>4. \A q \in Priorities : queues'[q] = IF q = p THEN Tail(queues[p]) ELSE queues[q]
  BY <1>1 DEF LoadInv, LoadTypeOK
<1>5. /\ \A v \in Workers : cur'[v] = IF v = w THEN r ELSE cur[v]
      /\ \A v \in Workers : wpc'[v] = IF v = w THEN "start" ELSE wpc[v]
  BY <1>1, <1>2 DEF LoadInv, LoadTypeOK
<1> HIDE DEF r
<1>6. r \in Queued /\ Queued' \subseteq Queued /\ r \notin Queued' /\ r # NoRequest
  <2>1. \A q \in Priorities : ToSet(queues'[q]) \subseteq ToSet(queues[q]) /\ r \notin ToSet(queues'[q])
    <3>1. \A q \in Priorities : q # p => r \notin ToSet(queues[q])
      BY <1>3 DEF LoadInv, QueuesDiffer
    <3> QED
      BY <1>3, <1>4, <3>1
  <2> QED
    BY <1>3, <2>1, LoadAssumption DEF Queued, LoadAssumption
<1>7. LoadTypeOK'
  BY <1>1, <1>2, <1>3 DEF LoadInv, LoadTypeOK, r
<1>8. QueuesDiffer'
  BY <1>3, <1>4 DEF LoadInv, QueuesDiffer
<1>9. Starts'
  BY <1>2, <1>6 DEF LoadInv, Starts
<1>10. Hands'
  <2>1. started[r] = 0
    BY <1>6 DEF LoadInv, Starts
  <2>2. \A v \in Workers : cur[v] # r
    BY <1>6 DEF LoadInv, Hands
  <2>3. \A v \in Workers \ {w} : cur'[v] = cur[v] /\ wpc'[v] = wpc[v]
    BY <1>5
  <2>4. cur'[w] = r /\ wpc'[w] = "start" /\ started' = started
    BY <1>2, <1>5
  <2> QED
    BY <1>6, <2>1, <2>2, <2>3, <2>4 DEF LoadInv, Hands
<1> QED
  BY <1>5, <1>6, <1>7, <1>8, <1>9, <1>10 DEF LoadInv

\* The other steps of a worker, which leave the queues alone.
LEMMA WorkKeeps ==
  ASSUME LoadInv, NEW w \in Workers,
         \/ TakeJob(w) \/ FindNone(w) \/ StartLoading(w) \/ FinishLoading(w)
         \/ LoadingComplete(w) \/ FailLoading(w) \/ OnFailedLoading(w)
  PROVE  LoadInv' /\ UNCHANGED <<queues, cpc>>
<1>1. UNCHANGED <<queues, cpc>> /\ Queued' = Queued
  BY DEF TakeJob, FindNone, StartLoading, FinishLoading, LoadingComplete, FailLoading,
     OnFailedLoading, Queued
<1>2. QueuesDiffer'
  BY <1>1 DEF LoadInv, QueuesDiffer
<1>3. CASE TakeJob(w) \/ FindNone(w) \/ LoadingComplete(w)
  <2>1. LoadTypeOK'
    <3>1. submitted' \in Nat
      BY <1>3 DEF TakeJob, FindNone, LoadingComplete, LoadInv, LoadTypeOK
    <3>2. jobInUse' \in BOOLEAN
      BY <1>3 DEF TakeJob, FindNone, LoadingComplete, LoadInv, LoadTypeOK
    <3>3. wpc' \in [Workers -> {"idle", "pop", "start", "loading", "failed", "complete"}]
      BY <1>3 DEF TakeJob, FindNone, LoadingComplete, LoadInv, LoadTypeOK
    <3>4. UNCHANGED <<queues, cpc, cur, loaded, started>>
      BY <1>3 DEF TakeJob, FindNone, LoadingComplete
    <3> QED
      BY <3>1, <3>2, <3>3, <3>4 DEF LoadInv, LoadTypeOK
  <2>2. /\ UNCHANGED <<cur, started>> /\ wpc[w] \notin {"start", "loading", "failed"}
        /\ \E s \in {"pop", "complete", "idle"} : wpc' = [wpc EXCEPT ![w] = s]
    BY <1>3 DEF TakeJob, FindNone, LoadingComplete
  <2>3. Hands' /\ Starts'
    BY <1>1, <2>2 DEF LoadInv, LoadTypeOK, Hands, Starts
  <2> QED
    BY <1>1, <1>2, <2>1, <2>3 DEF LoadInv
<1>4. CASE StartLoading(w)
  <2>1. /\ wpc[w] = "start" /\ wpc' = [wpc EXCEPT ![w] = "loading"] /\ cur' = cur
        /\ started' = [started EXCEPT ![cur[w]] = started[cur[w]] + 1]
        /\ cur[w] # NoRequest /\ cur[w] \in Requests /\ started[cur[w]] = 0 /\ cur[w] \notin Queued
    BY <1>4 DEF StartLoading, LoadInv, LoadTypeOK, Hands
  <2>2. \A r \in Requests : started'[r] = IF r = cur[w] THEN 1 ELSE started[r]
    BY <2>1 DEF LoadInv, LoadTypeOK
  <2>3. \A v \in Workers : wpc'[v] = IF v = w THEN "loading" ELSE wpc[v]
    BY <2>1 DEF LoadInv, LoadTypeOK
  <2>4. LoadTypeOK'
    BY <1>4, <2>1 DEF StartLoading, LoadInv, LoadTypeOK
  <2>5. Starts'
    <3>1. Queued \subseteq Requests
      BY ToSetTyped DEF Queued, LoadInv, LoadTypeOK
    <3> QED
      BY <1>1, <2>1, <2>2, <3>1 DEF LoadInv, Starts
  <2>6. Hands'
    <3>1. \A v \in Workers : cur[v] # NoRequest => cur[v] \in Requests
      BY DEF LoadInv, LoadTypeOK
    <3> QED
      BY <1>1, <2>1, <2>2, <2>3, <3>1 DEF LoadInv, Hands
  <2> QED
    BY <1>1, <1>2, <2>4, <2>5, <2>6 DEF LoadInv
<1>5. CASE FinishLoading(w) \/ OnFailedLoading(w)
  <2>1. /\ wpc' = [wpc EXCEPT ![w] = "pop"] /\ cur' = [cur EXCEPT ![w] = NoRequest]
        /\ started' = started
    BY <1>5 DEF FinishLoading, OnFailedLoading
  <2>2. LoadTypeOK'
    <3>1. wpc[w] \in {"loading", "failed"} => cur[w] \in Requests
      BY DEF LoadInv, LoadTypeOK, Hands
    <3> QED
      BY <1>5, <3>1 DEF FinishLoading, OnFailedLoading, LoadInv, LoadTypeOK
  <2>3. \A v \in Workers : /\ wpc'[v] = IF v = w THEN "pop" ELSE wpc[v]
                           /\ cur'[v] = IF v = w THEN NoRequest ELSE cur[v]
    BY <2>1 DEF LoadInv, LoadTypeOK
  <2>4. Hands' /\ Starts'
    BY <1>1, <2>1, <2>3 DEF LoadInv, Hands, Starts
  <2> QED
    BY <1>1, <1>2, <2>2, <2>4 DEF LoadInv
<1>6. CASE FailLoading(w)
  <2>1. wpc[w] = "loading" /\ wpc' = [wpc EXCEPT ![w] = "failed"] /\ UNCHANGED <<cur, started>>
    BY <1>6 DEF FailLoading
  <2>2. LoadTypeOK'
    BY <1>6 DEF FailLoading, LoadInv, LoadTypeOK
  <2>3. \A v \in Workers : wpc'[v] = IF v = w THEN "failed" ELSE wpc[v]
    BY <2>1 DEF LoadInv, LoadTypeOK
  <2>4. Hands' /\ Starts'
    BY <1>1, <2>1, <2>3 DEF LoadInv, Hands, Starts
  <2> QED
    BY <1>1, <1>2, <2>2, <2>4 DEF LoadInv
<1> QED
  BY <1>3, <1>4, <1>5, <1>6

LEMMA LoadInvStep ==
  ASSUME LoadInv, [ManagerNext]_loadVars
  PROVE  LoadInv'
<1>1. CASE UNCHANGED loadVars
  BY <1>1 DEF loadVars, LoadInv, LoadTypeOK, QueuesDiffer, Hands, Starts, Queued
<1> QED
  BY <1>1, PushKeeps, FinishAddKeeps, PopKeeps, WorkKeeps DEF ManagerNext, LoadStep, FailStep

LEMMA LoadInvAlways == ManagerSpec => []LoadInv
BY LoadInvInit, LoadInvStep, PTL DEF ManagerSpec

(***************************************************************************)
(* Theorems about the manager.                                             *)
(***************************************************************************)
LEMMA InvLoadsOnce == LoadInv => LoadedOnce
<1> SUFFICES ASSUME LoadInv PROVE LoadedOnce
  OBVIOUS
<1>1. \A w \in Workers : cur[w] # NoRequest => (wpc[w] = "start") = (started[cur[w]] = 0)
  BY DEF LoadInv, Hands
<1> QED
  BY <1>1 DEF LoadInv, LoadedOnce, QueuesDiffer, Hands, Starts

\* However many callers find m_jobInUse clear, and however many workers run
\* the loading job because of it, no request is loaded twice.
THEOREM EveryRequestOnce == ManagerSpec => []LoadedOnce
BY InvLoadsOnce, LoadInvAlways, PTL

\* The variables of the manager keep their types.
THEOREM LoadTypeCorrect == ManagerSpec => []LoadTypeOK
<1>1. LoadInv => LoadTypeOK
  BY DEF LoadInv
<1> QED
  BY <1>1, LoadInvAlways, PTL

-----------------------------------------------------------------------------
(***************************************************************************)
(* Whose a TextureAsyncLoader is: nobody's before new, then the texture's  *)
(* until it is deleted; and no worker has it once it is loaded.            *)
(***************************************************************************)
Owned ==
  /\ \A r \in Requests : tex[r] = NoTexture =>
       Fresh(r) /\ ~ loaded[r] /\ r \notin deleted
  /\ \A t \in Textures : request[t] # NoRequest =>
       tex[request[t]] = t /\ request[t] \notin deleted
  /\ \A r \in Requests : loaded[r] => r \notin Queued /\ \A w \in Workers : cur[w] # r
  /\ \A r \in deleted : r \in Requests /\ loaded[r]

\* The texture Main is at, which is in the state load() found it in.
Calls ==
  /\ mpc # "idle" => mtex \in Textures
  /\ mpc \in {"adding", "inline"} => state[mtex] = "unloaded"
  /\ mpc = "nested" => state[mtex] = "unloaded" /\ mtex \in hasty
  /\ mpc = "spin" => state[mtex] = "loading"

\* A texture that was not unloaded too early has the only request that is out
\* for it.
Waits ==
  \A t \in Textures \ hasty :
    /\ request[t] # NoRequest <=> state[t] = "loading" \/ (mpc = "adding" /\ mtex = t)
    /\ \A r \in Requests : tex[r] = t /\ ~ loaded[r] => request[t] = r

\* The loading job is at one place: nowhere, submitted or with a worker.  Main
\* submits it only when it is nowhere.
AtWork == {w \in Workers : wpc[w] # "idle"}

OneJob ==
  /\ \/ submitted = 0 /\ AtWork = {}
     \/ jobInUse /\ submitted = 1 /\ AtWork = {}
     \/ jobInUse /\ submitted = 0 /\ \E w \in Workers : AtWork = {w}
  /\ cpc[Main] = "mark" => ~ jobInUse
  /\ cpc[Main] = "submit" => jobInUse /\ submitted = 0 /\ AtWork = {}

TextureInv == LoadInv /\ TypeOK /\ Owned /\ Calls /\ Waits

LEMMA QueuedRequests ==
  ASSUME LoadInv
  PROVE  Queued \subseteq Requests /\ NoRequest \notin Queued /\ Main \in Callers /\ 5 \in Priorities
BY ToSetTyped, LoadAssumption, TextureAssumption
   DEF Queued, LoadInv, LoadTypeOK, LoadAssumption, TextureAssumption

LEMMA TextureInvInit == Init => TextureInv
<1> SUFFICES ASSUME Init PROVE TextureInv
  OBVIOUS
<1>1. LoadInv
  BY LoadInvInit DEF Init
<1>2. TypeOK
  BY <1>1 DEF Init, TypeOK, LoadInv
<1>3. \A r \in Requests : r \notin Queued
  BY ToSetEmpty DEF Init, LoadInit, Queued
<1>4. Owned
  BY <1>3, LoadAssumption DEF Init, LoadInit, Owned, Fresh, LoadAssumption
<1>5. Calls /\ Waits
  BY TextureAssumption DEF Init, LoadInit, Calls, Waits, TextureAssumption
<1> QED
  BY <1>1, <1>2, <1>4, <1>5 DEF TextureInv

(***************************************************************************)
(* The steps of Main that leave the manager alone.                         *)
(***************************************************************************)
LEMMA LoadStays ==
  ASSUME TextureInv, UNCHANGED loadVars
  PROVE  LoadInv' /\ Queued' = Queued /\ \A r : Fresh(r)' <=> Fresh(r)
BY DEF TextureInv, LoadInv, LoadTypeOK, QueuesDiffer, Hands, Starts, Queued, Fresh, loadVars

\* delete m_loadRequest, when it is loaded
LEMMA RequestDone ==
  ASSUME TextureInv, NEW t \in Textures, RequestLoaded(t), OnRequestLoaded(t),
         UNCHANGED <<loadVars, tex, hasty>>, mpc' = "idle", mtex' \in Textures \cup {NoTexture},
         mpc \in {"idle", "nested", "spin"}
  PROVE  TextureInv'
<1>1. /\ request[t] \in Requests /\ loaded[request[t]] /\ request[t] # NoRequest
      /\ tex[request[t]] = t /\ tex[request[t]] # NoTexture
  BY TextureAssumption DEF TextureInv, TypeOK, RequestLoaded, Owned, TextureAssumption
<1>2. /\ deleted' = deleted \cup {request[t]}
      /\ request' = [request EXCEPT ![t] = NoRequest]
      /\ state' = [state EXCEPT ![t] = "loaded"]
      /\ UNCHANGED <<loaded, cur, tex, hasty, cpc>>
  BY DEF OnRequestLoaded, loadVars
<1>3. /\ \A u \in Textures : request'[u] = IF u = t THEN NoRequest ELSE request[u]
      /\ \A u \in Textures : state'[u] = IF u = t THEN "loaded" ELSE state[u]
  BY <1>2 DEF TextureInv, TypeOK
<1>4. LoadInv' /\ Queued' = Queued /\ \A r : Fresh(r)' <=> Fresh(r)
  BY LoadStays
<1>5. TypeOK'
  BY <1>1, <1>2, <1>4 DEF TextureInv, TypeOK, LoadInv
<1>6. \A u \in Textures : u # t => request[u] # request[t]
  BY <1>1 DEF TextureInv, Owned
<1>7. Owned'
  BY <1>1, <1>2, <1>3, <1>4, <1>6 DEF TextureInv, Owned
<1>8. Calls'
  BY DEF Calls
<1>9. Waits'
  <2>1. \A u \in Textures : mpc = "adding" /\ mtex = u <=> mpc' = "adding" /\ mtex' = u
    OBVIOUS
  <2>2. \A r \in Requests : tex[r] = t /\ ~ loaded[r] => t \in hasty
    BY <1>1 DEF TextureInv, Waits
  <2> QED
    BY <1>2, <1>3, <2>1, <2>2 DEF TextureInv, Waits
<1> QED
  BY <1>4, <1>5, <1>7, <1>8, <1>9 DEF TextureInv

LEMMA MainKeeps ==
  ASSUME TextureInv, NEW t \in Textures,
         LoadSync(t) \/ LoadWait(t) \/ Unload(t)
  PROVE  TextureInv'
<1>1. UNCHANGED <<loadVars, request, tex, deleted>> /\ UNCHANGED <<loaded, cur, cpc>> /\ mpc = "idle"
  BY DEF LoadSync, LoadWait, Unload, loadVars
<1>2. LoadInv' /\ Queued' = Queued /\ \A r : Fresh(r)' <=> Fresh(r)
  BY <1>1, LoadStays
<1>3. Owned'
  BY <1>1, <1>2 DEF TextureInv, Owned
<1>4. CASE LoadSync(t) \/ LoadWait(t)
  <2>1. state' = state /\ hasty' = hasty /\ mtex' = t /\ mpc' \in {"inline", "spin"}
        /\ (mpc' = "inline" => state[t] = "unloaded") /\ (mpc' = "spin" => state[t] = "loading")
    BY <1>4 DEF LoadSync, LoadWait
  <2>2. TypeOK' /\ Calls' /\ Waits'
    BY <1>1, <1>2, <2>1 DEF TextureInv, TypeOK, Calls, Waits, LoadInv
  <2> QED
    BY <1>2, <1>3, <2>2 DEF TextureInv
<1>5. CASE Unload(t)
  <2>1. /\ state' = [state EXCEPT ![t] = "unloaded"] /\ UNCHANGED <<mpc, mtex>>
        /\ hasty' = IF state[t] = "loading" THEN hasty \cup {t} ELSE hasty
    BY <1>5 DEF Unload
  <2>2. \A u \in Textures : state'[u] = IF u = t THEN "unloaded" ELSE state[u]
    BY <2>1 DEF TextureInv, TypeOK
  <2>3. TypeOK' /\ Calls'
    BY <1>1, <1>2, <2>1 DEF TextureInv, TypeOK, Calls, LoadInv
  <2>4. Waits'
    BY <1>1, <2>1, <2>2 DEF TextureInv, Waits
  <2> QED
    BY <1>2, <1>3, <2>3, <2>4 DEF TextureInv
<1> QED
  BY <1>4, <1>5

LEMMA ReturnKeeps ==
  ASSUME TextureInv,
         \/ LoadAsyncReturn \/ LoadSyncReturn
         \/ LoadDoneNestedReturn /\ UNCHANGED <<request, deleted>>
  PROVE  TextureInv'
<1>1. /\ UNCHANGED <<loadVars, request, tex, deleted, hasty>> /\ UNCHANGED <<loaded, cur, cpc>>
      /\ mpc \in {"adding", "nested", "inline"} /\ mpc' = "idle" /\ mtex' = NoTexture
      /\ state' = [state EXCEPT ![mtex] = IF mpc = "adding" THEN "loading" ELSE "loaded"]
      /\ mtex \in Textures /\ state[mtex] = "unloaded"
  BY DEF LoadAsyncReturn, LoadSyncReturn, LoadDoneNestedReturn, loadVars, TextureInv, Calls
<1>2. LoadInv' /\ Queued' = Queued /\ \A r : Fresh(r)' <=> Fresh(r)
  BY <1>1, LoadStays
<1>3. Owned' /\ Calls'
  BY <1>1, <1>2 DEF TextureInv, Owned, Calls
<1>4. TypeOK'
  BY <1>1, <1>2 DEF TextureInv, TypeOK, LoadInv
<1>5. \A u \in Textures :
        state'[u] = IF u # mtex THEN state[u] ELSE IF mpc = "adding" THEN "loading" ELSE "loaded"
  BY <1>1 DEF TextureInv, TypeOK
<1>6. mpc = "nested" => mtex \in hasty
  BY DEF TextureInv, Calls
<1>7. Waits'
  BY <1>1, <1>5, <1>6 DEF TextureInv, Waits
<1> QED
  BY <1>2, <1>3, <1>4, <1>7 DEF TextureInv

(***************************************************************************)
(* The steps of the manager.                                               *)
(***************************************************************************)
\* load(true) makes a request, for the first time or inside _onLoaded: then the
\* request that is done goes, and the texture was unloaded too early.
LEMMA AddingKeeps ==
  ASSUME TextureInv, NEW t \in Textures, mpc = "idle", state[t] = "unloaded", Adding(t),
         mtex' = t, UNCHANGED <<state, hasty>>,
         \/ mpc' = "adding" /\ ~ RequestLoaded(t) /\ deleted' = deleted
         \/ mpc' = "nested" /\ RequestLoaded(t) /\ deleted' = deleted \cup {request[t]}
  PROVE  TextureInv'
<1>1. PICK r \in Requests : /\ tex[r] = NoTexture
                            /\ tex' = [tex EXCEPT ![r] = t]
                            /\ request' = [request EXCEPT ![t] = r]
                            /\ PushRequest(Main, r, 5)
  BY DEF Adding
<1>2. UNCHANGED <<loaded, cur, started>>
  BY <1>1 DEF PushRequest
<1>3. Fresh(r) /\ ~ loaded[r] /\ r \notin deleted /\ r # NoRequest
  BY <1>1, LoadAssumption DEF TextureInv, Owned, LoadAssumption
<1>4. LoadInv' /\ Queued' = Queued \cup {r}
  BY <1>1, <1>3, PushKeeps, QueuedRequests DEF TextureInv
<1>5. /\ \A s \in Requests : tex'[s] = IF s = r THEN t ELSE tex[s]
      /\ \A u \in Textures : request'[u] = IF u = t THEN r ELSE request[u]
      /\ \A u \in Textures : request[u] # r /\ request[u] \in Requests \cup {NoRequest}
  <2>1. \A u \in Textures : request[u] \in Requests \cup {NoRequest}
    BY DEF TextureInv, TypeOK
  <2>2. \A u \in Textures : request[u] # r
    BY <1>1, <1>3, TextureAssumption DEF TextureInv, Owned, TextureAssumption
  <2> QED
    BY <1>1, <2>1, <2>2 DEF TextureInv, TypeOK
<1>6. t # NoTexture
  BY TextureAssumption DEF TextureAssumption
<1>7. /\ deleted \subseteq deleted'
      /\ \A s \in deleted' \ deleted : /\ s \in Requests /\ loaded[s] /\ s # r
                                      /\ tex[s] = t /\ \A u \in Textures \ {t} : request[u] # s
  <2>1. CASE deleted' = deleted
    BY <2>1
  <2>2. CASE RequestLoaded(t) /\ deleted' = deleted \cup {request[t]}
    <3>1. request[t] \in Requests /\ loaded[request[t]] /\ tex[request[t]] = t
      BY <1>5, <2>2 DEF RequestLoaded, TextureInv, Owned
    <3>2. \A u \in Textures \ {t} : request[u] # request[t]
      BY <2>2 DEF RequestLoaded, TextureInv, Owned
    <3> QED
      BY <1>3, <2>2, <3>1, <3>2
  <2> QED
    BY <2>1, <2>2
<1>8. mpc' = "nested" => t \in hasty
  BY DEF RequestLoaded, TextureInv, Waits
<1>9. mpc' \in {"adding", "nested"}
  OBVIOUS
<1>10. TypeOK'
  <2>1. LoadTypeOK'
    BY <1>4 DEF LoadInv
  <2>2. tex' \in [Requests -> Textures \cup {NoTexture}]
    BY <1>1 DEF TextureInv, TypeOK
  <2>3. request' \in [Textures -> Requests \cup {NoRequest}]
    BY <1>1 DEF TextureInv, TypeOK
  <2>4. deleted' \subseteq {s \in Requests : tex'[s] # NoTexture}
    BY <1>5, <1>6, <1>7 DEF TextureInv, TypeOK
  <2> QED
    BY <1>9, <2>1, <2>2, <2>3, <2>4 DEF TextureInv, TypeOK
<1>11. Owned'
  <2>1. \A s \in Requests : s # r /\ Fresh(s) => Fresh(s)'
    BY <1>2, <1>4 DEF Fresh
  <2>2. \A w \in Workers : cur[w] # r
    BY <1>3 DEF Fresh
  <2>3. \A s \in Requests : tex'[s] = NoTexture =>
          Fresh(s)' /\ ~ loaded'[s] /\ s \notin deleted'
    BY <1>2, <1>5, <1>6, <1>7, <2>1 DEF TextureInv, Owned
  <2>4. \A u \in Textures : request'[u] # NoRequest =>
          tex'[request'[u]] = u /\ request'[u] \notin deleted'
    BY <1>3, <1>5, <1>7 DEF TextureInv, Owned
  <2>5. \A s \in Requests : loaded'[s] => s \notin Queued' /\ \A w \in Workers : cur'[w] # s
    BY <1>2, <1>3, <1>4, <2>2 DEF TextureInv, Owned
  <2>6. \A s \in deleted' : s \in Requests /\ loaded'[s]
    BY <1>2, <1>7 DEF TextureInv, Owned
  <2> QED
    BY <2>3, <2>4, <2>5, <2>6 DEF Owned
<1>12. Calls'
  BY <1>8, <1>9 DEF Calls
<1>13. Waits'
  <2> SUFFICES ASSUME NEW u \in Textures \ hasty
               PROVE  /\ request'[u] # NoRequest <=> state'[u] = "loading" \/ (mpc' = "adding" /\ mtex' = u)
                      /\ \A s \in Requests : tex'[s] = u /\ ~ loaded'[s] => request'[u] = s
    BY DEF Waits
  <2>1. CASE u = t
    <3>1. mpc' = "adding" /\ request[t] = NoRequest
      BY <1>8, <1>9, <2>1 DEF TextureInv, Waits
    <3>2. \A s \in Requests : tex[s] = t => loaded[s]
      BY <2>1, <3>1, LoadAssumption DEF TextureInv, Waits, LoadAssumption
    <3> QED
      BY <1>2, <1>3, <1>5, <2>1, <3>1, <3>2
  <2>2. CASE u # t
    <3>1. request'[u] = request[u] /\ \A s \in Requests : tex'[s] = u => tex[s] = u
      BY <1>5, <2>2
    <3> QED
      BY <1>2, <2>2, <3>1 DEF TextureInv, Waits
  <2> QED
    BY <2>1, <2>2
<1> QED
  BY <1>4, <1>10, <1>11, <1>12, <1>13 DEF TextureInv

LEMMA AddKeeps ==
  ASSUME TextureInv, AddRequest
  PROVE  TextureInv'
<1>1. FinishAdd(Main) /\ UNCHANGED <<state, request, tex, deleted, mpc, mtex, hasty>>
  BY DEF AddRequest, textureVars
<1>2. LoadInv' /\ UNCHANGED <<queues, wpc, cur, loaded, started>>
  BY <1>1, FinishAddKeeps, QueuedRequests DEF TextureInv
<1>3. TypeOK' /\ Calls' /\ Waits'
  BY <1>1, <1>2 DEF TextureInv, TypeOK, Calls, Waits, LoadInv
<1>4. Owned'
  BY <1>1, <1>2 DEF TextureInv, Owned, Fresh, Queued
<1> QED
  BY <1>2, <1>3, <1>4 DEF TextureInv

LEMMA WorkerKeeps ==
  ASSUME TextureInv, NEW w \in Workers, LoaderStep(w)
  PROVE  TextureInv'
<1>1. LoadStep(w) /\ UNCHANGED <<state, request, tex, deleted, mpc, mtex, hasty>>
  BY DEF LoaderStep, textureVars
<1>2. CASE PopRequest(w)
  <2>1. LoadInv' /\ Queued' \subseteq Queued /\ cur'[w] \in Queued /\ UNCHANGED <<loaded, started>>
        /\ \A v \in Workers \ {w} : cur'[v] = cur[v]
    BY <1>2, PopKeeps DEF TextureInv, PopRequest, LoadInv, LoadTypeOK
  <2>2. TypeOK' /\ Calls' /\ Waits'
    BY <1>1, <2>1 DEF TextureInv, TypeOK, Calls, Waits, LoadInv
  <2>3. Owned'
    BY <1>1, <2>1 DEF TextureInv, Owned, Fresh
  <2> QED
    BY <2>1, <2>2, <2>3 DEF TextureInv
<1>3. CASE ~ PopRequest(w)
  <2>1. /\ \/ TakeJob(w) \/ FindNone(w) \/ StartLoading(w) \/ FinishLoading(w)
           \/ LoadingComplete(w)
        /\ LoadInv' /\ UNCHANGED <<queues, cpc>> /\ Queued' = Queued
    BY <1>1, <1>3, WorkKeeps DEF LoadStep, TextureInv, Queued
  <2>2. TypeOK' /\ Calls'
    BY <1>1, <2>1 DEF TextureInv, TypeOK, Calls, LoadInv
  <2>3. CASE TakeJob(w) \/ FindNone(w) \/ LoadingComplete(w)
    <3>1. UNCHANGED <<cur, loaded, started>>
      BY <2>3 DEF TakeJob, FindNone, LoadingComplete
    <3>2. Owned' /\ Waits'
      BY <1>1, <2>1, <3>1 DEF TextureInv, Owned, Waits, Fresh
    <3> QED
      BY <2>1, <2>2, <3>2 DEF TextureInv
  <2>4. cur[w] # NoRequest => /\ cur[w] \in Requests /\ tex[cur[w]] # NoTexture /\ cur[w] \notin Queued
                              /\ \A v \in Workers : cur[v] = cur[w] => v = w
    BY DEF TextureInv, LoadInv, LoadTypeOK, Hands, Owned, Fresh
  <2>5. CASE StartLoading(w)
    <3>1. /\ UNCHANGED <<cur, loaded>> /\ cur[w] # NoRequest
          /\ \A r \in Requests \ {cur[w]} : started'[r] = started[r]
      BY <2>5 DEF StartLoading, TextureInv, LoadInv, LoadTypeOK, Hands
    <3>2. Owned' /\ Waits'
      BY <1>1, <2>1, <2>4, <3>1 DEF TextureInv, Owned, Waits, Fresh
    <3> QED
      BY <2>1, <2>2, <3>2 DEF TextureInv
  <2>6. CASE FinishLoading(w)
    <3>1. /\ started' = started /\ cur[w] # NoRequest
          /\ \A r \in Requests : loaded'[r] = (r = cur[w] \/ loaded[r])
          /\ \A v \in Workers : cur'[v] = IF v = w THEN NoRequest ELSE cur[v]
      BY <2>6 DEF FinishLoading, TextureInv, LoadInv, LoadTypeOK, Hands
    <3>2. Waits'
      <4>1. \A r \in Requests : ~ loaded'[r] => ~ loaded[r]
        BY <3>1
      <4> QED
        BY <1>1, <4>1 DEF TextureInv, Waits
    <3>3. Owned'
      <4>1. cur[w] \in Requests /\ tex[cur[w]] # NoTexture /\ cur[w] \notin Queued
            /\ \A v \in Workers : cur'[v] # cur[w]
        BY <2>4, <3>1
      <4>2. \A r \in Requests : Fresh(r) => Fresh(r)'
        BY <2>1, <3>1, LoadAssumption DEF Fresh, LoadAssumption
      <4>3. \A r \in Requests : tex[r] = NoTexture => Fresh(r)' /\ ~ loaded'[r] /\ r \notin deleted
        BY <3>1, <4>1, <4>2 DEF TextureInv, Owned
      <4>4. \A r \in Requests : loaded'[r] => r \notin Queued /\ \A v \in Workers : cur'[v] # r
        BY <3>1, <4>1, LoadAssumption DEF TextureInv, Owned, LoadAssumption
      <4>5. \A r \in deleted : r \in Requests /\ loaded'[r]
        BY <3>1 DEF TextureInv, Owned
      <4>6. \A t \in Textures : request[t] # NoRequest =>
              tex[request[t]] = t /\ request[t] \notin deleted
        BY DEF TextureInv, Owned
      <4> QED
        BY <1>1, <2>1, <4>3, <4>4, <4>5, <4>6 DEF Owned
    <3> QED
      BY <2>1, <2>2, <3>2, <3>3 DEF TextureInv
  <2> QED
    BY <2>1, <2>3, <2>5, <2>6
<1> QED
  BY <1>2, <1>3

LEMMA TextureInvStep ==
  ASSUME TextureInv, [Next]_vars
  PROVE  TextureInv'
<1>1. CASE UNCHANGED vars
  <2>1. UNCHANGED loadVars /\ UNCHANGED <<loaded, cur, cpc>>
        /\ UNCHANGED <<state, request, tex, deleted, mpc, mtex, hasty>>
    BY <1>1 DEF vars, textureVars, loadVars
  <2>2. LoadInv' /\ Queued' = Queued /\ \A r : Fresh(r)' <=> Fresh(r)
    BY <2>1, LoadStays
  <2> QED
    BY <2>1, <2>2 DEF TextureInv, TypeOK, Owned, Calls, Waits, LoadInv
<1>2. ASSUME NEW t \in Textures, LoadDone(t)
      PROVE  TextureInv'
  BY <1>2, RequestDone DEF LoadDone, TextureInv, TypeOK
<1>3. CASE LoadWaitReturn
  <2>1. mtex \in Textures
    BY <1>3 DEF LoadWaitReturn, TextureInv, Calls
  <2> QED
    BY <1>3, <2>1, RequestDone DEF LoadWaitReturn
<1>4. ASSUME NEW t \in Textures, LoadAsync(t) \/ LoadDoneNested(t)
      PROVE  TextureInv'
  BY <1>4, AddingKeeps DEF LoadAsync, LoadDoneNested
<1>5. CASE LoadDoneNestedReturn
  <2>1. mtex \in Textures
    BY <1>5 DEF LoadDoneNestedReturn, TextureInv, Calls
  <2>2. CASE UNCHANGED <<request, deleted>>
    BY <1>5, <2>2, ReturnKeeps
  <2>3. CASE RequestLoaded(mtex) /\ OnRequestLoaded(mtex)
    BY <1>5, <2>1, <2>3, RequestDone DEF LoadDoneNestedReturn
  <2> QED
    BY <1>5, <2>2, <2>3 DEF LoadDoneNestedReturn
<1> QED
  BY <1>1, <1>2, <1>3, <1>4, <1>5, MainKeeps, ReturnKeeps, AddKeeps, WorkerKeeps
     DEF Next, MainStep

LEMMA TextureInvAlways == Spec => []TextureInv
BY TextureInvInit, TextureInvStep, PTL DEF Spec

(***************************************************************************)
(* Theorems about the textures.                                            *)
(***************************************************************************)
\* The variables of the textures and of their loaders keep their types.
THEOREM TextureTypeCorrect == Spec => []TypeOK
<1>1. TextureInv => TypeOK
  BY DEF TextureInv
<1> QED
  BY <1>1, TextureInvAlways, PTL

\* A loader that load() has deleted is in no queue, in no worker's hands and
\* in no texture.
THEOREM DeletedIsUnused == Spec => []NoUseAfterDelete
<1>1. ASSUME TextureInv
      PROVE  NoUseAfterDelete
  <2>1. deleted \cap Queued = {} /\ \A w \in Workers : cur[w] \notin deleted
    BY <1>1 DEF TextureInv, Owned
  <2>2. \A t \in Textures : request[t] \notin deleted
    BY <1>1, LoadAssumption DEF TextureInv, Owned, LoadAssumption
  <2> QED
    BY <2>1, <2>2 DEF NoUseAfterDelete
<1> QED
  BY <1>1, TextureInvAlways, PTL

\* The images of a texture that was not unloaded too early are appended by
\* one thread, and by none once it is loaded.
THEOREM ImagesHaveOneLoader == Spec => []ImagesNotShared
<1>1. ASSUME TextureInv, NEW t \in Textures \ hasty
      PROVE  /\ Cardinality(Loaders(t)) <= 1
             /\ state[t] = "loaded" => Loaders(t) = {}
  <2> DEFINE L == {w \in Workers : wpc[w] = "loading" /\ tex[cur[w]] = t}
  <2>1. ASSUME NEW w \in L
        PROVE  cur[w] = request[t] /\ request[t] # NoRequest
    <3>1. cur[w] # NoRequest /\ cur[w] \in Requests /\ ~ loaded[cur[w]]
      BY <1>1 DEF TextureInv, LoadInv, LoadTypeOK, Hands, Owned
    <3> QED
      BY <1>1, <3>1 DEF TextureInv, Waits
  <2>2. L # {} => ~ (mpc = "inline" /\ mtex = t) /\ state[t] # "loaded"
    BY <1>1, <2>1 DEF TextureInv, Waits, Calls
  <2>3. \A v, w \in L : v = w
    BY <1>1, <2>1 DEF TextureInv, LoadInv, Hands
  <2>4. Loaders(t) = L \cup (IF mpc = "inline" /\ mtex = t THEN {Main} ELSE {})
    BY DEF Loaders
  <2>5. mpc = "inline" /\ mtex = t => state[t] = "unloaded"
    BY <1>1 DEF TextureInv, Calls
  <2>6. Loaders(t) = {} \/ \E x : Loaders(t) = {x}
    <3> HIDE DEF L
    <3>1. CASE L = {}
      BY <2>4, <3>1
    <3>2. CASE L # {}
      BY <2>2, <2>3, <2>4, <3>2
    <3> QED
      BY <3>1, <3>2
  <2>7. Cardinality(Loaders(t)) <= 1
    <3>1. CASE Loaders(t) = {}
      BY <3>1, FS_EmptySet
    <3>2. ASSUME NEW x, Loaders(t) = {x}
          PROVE  Cardinality(Loaders(t)) <= 1
      <4>1. Cardinality({x}) = 1
        BY FS_Singleton
      <4> QED
        BY <3>2, <4>1
    <3> QED
      BY <2>6, <3>1, <3>2
  <2> QED
    BY <2>2, <2>4, <2>5, <2>7
<1>2. TextureInv => ImagesNotShared
  BY <1>1 DEF ImagesNotShared
<1> QED
  BY <1>2, TextureInvAlways, PTL

(***************************************************************************)
(* m_jobInUse, with one caller.                                            *)
(***************************************************************************)
LEMMA OneJobStep ==
  ASSUME TypeOK, OneJob, [Next]_vars
  PROVE  OneJob'
<1>1. Callers = {Main} /\ cpc \in [Callers -> {"idle", "test", "mark", "submit"}]
      /\ submitted \in Nat /\ jobInUse \in BOOLEAN
      /\ wpc \in [Workers -> {"idle", "pop", "start", "loading", "failed", "complete"}]
  BY TextureAssumption DEF TypeOK, LoadTypeOK, TextureAssumption
<1>2. CASE UNCHANGED <<submitted, wpc, jobInUse, cpc>>
  BY <1>2 DEF OneJob, AtWork
<1>3. ASSUME NEW t \in Textures, LoadAsync(t) \/ LoadDoneNested(t)
      PROVE  OneJob'
  <2>1. UNCHANGED <<submitted, wpc, jobInUse>> /\ cpc'[Main] = "test"
    BY <1>1, <1>3 DEF LoadAsync, LoadDoneNested, Adding, PushRequest
  <2> QED
    BY <2>1 DEF OneJob, AtWork
<1>4. CASE AddRequest
  <2>1. wpc' = wpc /\ AtWork' = AtWork
    BY <1>4 DEF AddRequest, FinishAdd, TestInUse, MarkInUse, SubmitJob, AtWork
  <2>2. CASE TestInUse(Main)
    <3>1. UNCHANGED <<jobInUse, submitted>> /\ cpc'[Main] # "submit" /\ (cpc'[Main] = "mark" => ~ jobInUse)
      BY <1>1, <2>2 DEF TestInUse
    <3> QED
      BY <2>1, <3>1 DEF OneJob
  <2>3. CASE MarkInUse(Main)
    <3>1. jobInUse' = TRUE /\ submitted' = submitted /\ cpc'[Main] = "submit" /\ cpc[Main] = "mark"
      BY <1>1, <2>3 DEF MarkInUse
    <3> QED
      BY <2>1, <3>1 DEF OneJob
  <2>4. CASE SubmitJob(Main)
    <3>1. jobInUse' = jobInUse /\ submitted' = submitted + 1 /\ cpc'[Main] = "idle" /\ cpc[Main] = "submit"
      BY <1>1, <2>4 DEF SubmitJob
    <3> QED
      BY <2>1, <3>1 DEF OneJob
  <2> QED
    BY <1>4, <2>2, <2>3, <2>4 DEF AddRequest, FinishAdd
<1>5. ASSUME NEW w \in Workers, LoaderStep(w)
      PROVE  OneJob'
  <2>1. cpc' = cpc
    BY <1>5 DEF LoaderStep, LoadStep, TakeJob, PopRequest, FindNone, StartLoading, FinishLoading,
       LoadingComplete
  <2>2. CASE TakeJob(w)
    <3>1. /\ wpc[w] = "idle" /\ wpc' = [wpc EXCEPT ![w] = "pop"] /\ jobInUse' = jobInUse
          /\ submitted > 0 /\ submitted' = submitted - 1
      BY <2>2 DEF TakeJob
    <3>2. AtWork' = AtWork \cup {w}
      BY <1>1, <3>1 DEF AtWork
    <3>3. jobInUse /\ submitted = 1 /\ AtWork = {}
      BY <3>1 DEF OneJob
    <3> QED
      BY <2>1, <3>1, <3>2, <3>3 DEF OneJob
  <2>3. CASE LoadingComplete(w)
    <3>1. /\ wpc[w] = "complete" /\ wpc' = [wpc EXCEPT ![w] = "idle"] /\ jobInUse' = FALSE
          /\ submitted' = submitted
      BY <2>3 DEF LoadingComplete
    <3>2. w \in AtWork /\ AtWork' = AtWork \ {w}
      BY <1>1, <3>1 DEF AtWork
    <3>3. submitted = 0 /\ AtWork = {w}
      BY <3>2 DEF OneJob
    <3> QED
      BY <2>1, <3>1, <3>2, <3>3 DEF OneJob
  <2>4. CASE PopRequest(w) \/ FindNone(w) \/ StartLoading(w) \/ FinishLoading(w)
    <3>1. /\ wpc[w] # "idle" /\ UNCHANGED <<jobInUse, submitted>>
          /\ \E s \in {"start", "complete", "loading", "pop"} : wpc' = [wpc EXCEPT ![w] = s]
      BY <2>4 DEF PopRequest, FindNone, StartLoading, FinishLoading
    <3>2. AtWork' = AtWork
      BY <1>1, <3>1 DEF AtWork
    <3> QED
      BY <2>1, <3>1, <3>2 DEF OneJob
  <2> QED
    BY <1>5, <2>2, <2>3, <2>4 DEF LoaderStep, LoadStep
<1>6. ASSUME NEW t \in Textures, LoadDone(t) \/ LoadSync(t) \/ LoadWait(t) \/ Unload(t)
      PROVE  UNCHANGED <<submitted, wpc, jobInUse, cpc>>
  BY <1>6 DEF LoadDone, LoadSync, LoadWait, Unload, loadVars
<1>7. CASE LoadAsyncReturn \/ LoadDoneNestedReturn \/ LoadSyncReturn \/ LoadWaitReturn
             \/ UNCHANGED vars
  BY <1>2, <1>7 DEF LoadAsyncReturn, LoadDoneNestedReturn, LoadSyncReturn, LoadWaitReturn, vars,
     loadVars
<1> QED
  BY <1>2, <1>3, <1>4, <1>5, <1>6, <1>7 DEF Next, MainStep

\* With one thread that adds requests the loading job is at one place.
THEOREM OneLoadingJob == Spec => []SingleLoader
<1>1. ASSUME Init
      PROVE  OneJob
  BY <1>1, TextureAssumption DEF Init, LoadInit, OneJob, AtWork, TextureAssumption
<1>2. ASSUME TypeOK, OneJob
      PROVE  SingleLoader
  <2>1. SingleLoader <=> submitted + Cardinality(AtWork) <= IF jobInUse THEN 1 ELSE 0
    BY DEF SingleLoader, AtWork
  <2>2. submitted \in Nat /\ jobInUse \in BOOLEAN
    BY <1>2 DEF TypeOK, LoadTypeOK
  <2>3. CASE AtWork = {}
    <3>1. Cardinality(AtWork) = 0
      BY <2>3, FS_EmptySet
    <3> QED
      BY <1>2, <2>1, <2>2, <3>1 DEF OneJob
  <2>4. ASSUME NEW w \in Workers, AtWork = {w}
        PROVE  SingleLoader
    <3>1. Cardinality(AtWork) = 1
      BY <2>4, FS_Singleton
    <3>2. jobInUse /\ submitted = 0
      BY <1>2, <2>4 DEF OneJob
    <3> QED
      BY <2>1, <3>1, <3>2
  <2> QED
    BY <1>2, <2>3, <2>4 DEF OneJob
<1> QED
  BY <1>1, <1>2, OneJobStep, TextureTypeCorrect, PTL DEF Spec
=============================================================================
