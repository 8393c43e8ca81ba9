# Verification of the mrayy engine

This directory holds TLA+ models of the parts of the engine whose logic tests
hardly reach: the condition variable, the job queue and its worker, the barrier,
the frame jobs, the asynchronous load manager, the loading of textures, the use
counters and maps of the image sets, the connections of the network layer, and
path finding. TLC checks them on small instances; TLAPS proves the safety
properties of all of them for every value of the constants. Everything is read
from the code under `src/`; `PROJECT.json` names the lines that each definition
stands for.

Paths below are relative to `src/Engine`; `me` stands for `mrayEngine/src` and
`w32` for `mrayWin32`.

## 1. The system

mrayy is a Windows game engine: rendering, scene graph, GUI, AI, networking,
resources, and a layer of plug-ins and applications. Nearly all of it runs on
the main thread, frame by frame. A handful of classes hand work to other
threads, and nearly every part uses them; the network adds a thread per socket
and a medium that loses messages.

| Component | State | Operations | Interacts with |
|---|---|---|---|
| Condition variable, mutex (`w32/WinCondition.cpp`, `WinMutex.cpp`) | `m_waiters`, semaphore `m_sema`, event `m_waitersDone`, `m_wasBroadcast` | `wait`, `signal`, `broadcast` | everything that blocks |
| Threads (`w32/WinThread.cpp`, `me/IThreadManager.cpp`) | `active`, `m_initSync`, list of threads | `start`, `run`, `terminate`, `shutdown` | meets the creator at a `ThreadBarrier` |
| Job queue (`me/JobQueue.cpp`) | `m_requests`, `m_graveyard`, `m_terminated`; the worker's own list | `AddRequest`, `RemoveRequest`, the thread function, destructor | mutex and condition; calls the job, its listener and its barrier |
| Job pool and frame jobs (`me/JobPool.cpp`, `ThreadJobManager.cpp`, `JobOrderPieceCollection.cpp`) | queues by id; jobs with pieces, `m_currStack`, `m_usedThreadsCount`, `m_isMT` | `AddRequest`/`FindBestQueue`, `RemoveRequest`, `AddPiece`, `Reset`, `BeginProcessing`, `EndProcessing` | used by the render and scene managers each frame |
| Barrier (`me/ThreadBarrier.cpp`) | `m_locks`, `m_maxLocks`, `m_phase` | `Block`, `Signal`, `Release`, `SetTargetCount` | thread start; frame jobs |
| Load manager (`me/AsyncLoadManager.cpp`) | a queue per priority, `m_jobInUse` | `AddRequest`, loading job, `LoadingComplete` | one job in the job pool |
| Textures (`me/IResource.cpp`, `ITexture.cpp`) | `m_loadState`, `m_loadRequest`, images, `m_usedCounter` | `load(async)`, `unload`, `reload`, `useResource`, `unuseResource` | load manager, through the polled `m_loaded` |
| Resource managers (`me/iresourcemanager.cpp`, `ImageSetResourceManager.cpp`, `ImageSet.cpp`) | `m_resourceMap`, `m_resourceHandleMap`, `m_imageSets` (handle by name) | load, get, remove, unload all or the unused | an image set uses a texture |
| Network (`mrayNet/win32socket.cpp`, `me/SendPacketQueue.cpp`) | `m_connectedPeers`, `m_usedID`, `m_requestPeers`; packets to resend | `connectToHost`, `close`, handshake, retries, pings, kicks | UDP; a thread per socket |
| Path finding (`mrayAI/NavAStarSearch.cpp`, `PathFindPlanner.cpp`, `PathFindingManager.cpp`) | open list, costs, parents; `m_isRequesting`, `m_planners`; an order | set up, step and finish a search; request, submit, answer | job pool; the owner gets a message |
| Event-based queue (`me/EventBaseJobQueue.cpp`) | as the job queue, with an event | as the job queue | an alternative that nothing creates |
| Garbage collector (`me/gccollector.cpp`) | reference counts, dead objects | collect | a thread of its own |
| Events, commands, timers, undo (`me/ScheduleManager.cpp`, `ActionsHistory.cpp`, ...) | queues, stacks | sequential calls | main thread |
| Rendering, scene, GUI, input, mathematics, game layer, plug-ins, applications | - | - | users of the above |

What is hard here, and what would make each component correct:

* **Condition variable.** It is built from a counting semaphore and counters
  touched one interlocked operation at a time. A token is not tied to the
  waiter it was released for. Correct means: no waiter sleeps for ever beside
  the condition it waits for.
* **Job queue.** `AddRequest` signals after it released the mutex; the worker
  waits with `if`, not `while`; `LoadRequest` objects are recycled while their
  fields are still being read; the destructor signals once and joins. Correct
  means a first-in first-out service: each accepted order runs once and is
  reported to its own listener and barrier, and the destructor deletes nothing
  that somebody still uses.
* **Barrier.** Phases overlap: a fast thread may be at the next round before a
  slow one has left the last. `m_maxLocks` and the reset in `SetTargetCount`
  are unlocked. Correct means: nobody goes on before everybody has come, and
  everybody leaves.
* **Frame jobs.** The pieces of a job are an unlocked vector; single-threaded
  frames leave arrivals in the barrier; `JobPool::RemoveRequest` asks only the
  first queue. Correct means fork and join: each piece is executed once, and
  the join returns after the last.
* **Load manager.** `m_jobInUse` is tested and set without a lock on one
  thread and cleared on another. Correct means: no request is loaded twice or
  forgotten.
* **Textures.** A request is deleted by the main thread on a polled flag while
  a worker runs it; image data is built on a worker without a lock.
* **Image sets.** One counter decides when a texture is loaded and unloaded,
  and many paths change it: load, unload, reload, a change of texture, removal,
  destruction. Correct means: it equals the number of users on all of them.
* **Connections.** Datagrams are lost, delayed and reordered, and the retries
  of a request create duplicates of what follows it. Both sides keep lists and
  identities that must fit each other without ever being compared. Correct
  means: no list outgrows its limit, nobody shares an identity, every request
  ends, and who is gone is forgotten.
* **Path finding.** The search enters nodes again that it has closed, and its
  open list is sorted by costs that change while a node is in it; `createPath`
  follows parents until it meets the begin, for ever if they form a circle. A
  request moves from the main thread to a worker and back. Correct means: the
  answer is true, the path is one, and somebody gets it.

The complete list, line by line, is under `hazards` in `PROJECT.json`, with the
properties that would catch each going wrong, or the reason that none does.

## 2. The modules

```
WinCondition ---- JobQueue ---------- MCJobQueue          implements JobService
     |                \---- JobQueueProofs ---- DistinctSeqs
     |
     \--- ThreadBarrier ---- BarrierRounds                implements Rendezvous
                  |               \---- BarrierRoundsProofs
                  \--------- FrameJobs --- MCFrameJobs    implements ForkJoin
                                  \---- FrameJobsProofs

AsyncLoadManager ---- TextureLoading ---- LoadingProofs

Connection ---- MCConnection, ConnectionProofs

ImageSets ---- MCImageSets, ImageSetsProofs

NavSearch ---- PathFinding ---- MCPathFinding, PathFindingProofs
```

A line `A ---- B` means that `B` EXTENDS `A`. Beyond these lines, the modules of
proofs about queues and lists (all but `ImageSetsProofs` and
`BarrierRoundsProofs`) use the lemmas of `DistinctSeqs`: what appending, taking
the head, concatenating, filtering out an element and counting do to a list
without repetition, and what a loop along a list keeps.

**WinCondition** models `wait`, `signal` and `broadcast` together with the one
mutex a condition is used with. Each interlocked operation or kernel call is a
step; `cstep[t]` says where thread `t` is inside a call. `wait` increments the
counter and then releases the mutex; the release changes nothing that the
counter's readers see, so the two are one step. The wait of the cancel event is
left out: `WinThread` creates that event and no code sets it. The limit of
`wait(m,ms)` is left out because every caller waits without one. Critical
sections that contain no blocking call are one step in the modules above it,
and need the mutex free.

**JobQueue** models `JobQueue.cpp` in full. `LoadRequest` objects are
identities with fields: `requests`, `batch` (the worker's own `m_requests`) and
`graveyard` hold identities, so recycling and the clearing of fields in
`_addToGraveYard` are visible. A client's `AddRequest` is three steps:
`CreateRequest` (graveyard or `new`, and the assignment of the fields),
`PushRequest` (under the mutex) and `SignalWork` (after it). The worker is
`TestActive`, `FindQueueDone`/`SleepOnQueue`, `TakeAwake`/`TakeWoken`/`ExitWoken`,
and per order `ExecuteJob`, `CallListner`, `SignalBarrier`; then `BuryBatch`.
The owner is `BeginDelete`, `SignalTerminated`, `Terminate`, `DeleteQueue`. The
owner begins only when no client call is in progress, which is how the engine
uses the destructor (`JobPool` deletes its queues when it is itself deleted). The
worker ends its loop as `exited`, at the test of `isActive()`, or as `broken`, by
the break on `IsTerminated()`, which leaves the mutex locked. A
job's result is any Boolean. `ran`, `heard` and `signalled` are histories.
**JobService** is what the queue promises: one first-in first-out queue, from
which an order may be withdrawn, and which may be closed.

**ThreadBarrier** models `ThreadBarrier.cpp`, with its unlocked writes as steps
of their own. **BarrierRounds** lets some of the threads, `parties`, go through
round after round of `Block(n)`, where `n` is their number; a pair of them is
the start handshake of `WinThread`, where `start()` and `run()` both call
`m_initSync.Block(2)`. The rounds themselves (`Proceed`, `rounds`) are a harness
around the barrier and stand for no lines of the code. **Rendezvous** is the promise: nobody is released before
all who are present have arrived, and of a pair, who was released leaves.

**FrameJobs** models `ThreadJobManager`, the job pool's `FindBestQueue`
and `RemoveRequest`, and the jobs' `ExecuteJob`, over the full barrier. The
queues appear as `JobQueue` was shown to behave: a list, from which a worker
takes everything at once. A frame is multi-threaded or single-threaded, and
starts with or without `Reset`, as the scene and the render manager do.
**ForkJoin** is the promise.

**AsyncLoadManager** models `AddRequest` (push; test, set and submit), the
loading job (pop, load, fail) and `LoadingComplete`. **TextureLoading**
composes it with `IResource::load`, `unload` and the completion in `ITexture`.
Textures are not internal and no render targets (those have no image to load),
and are not destroyed while the model runs. `hasty` records the textures that
were unloaded while they were loading. When the finished request of an unloaded
texture is taken, `_onLoaded` fills its surfaces before the texture counts as
loaded; each `getSurface` (`GLTexture.cpp:214`) is a use of it and calls
`load(true)` once more, inside the first, which makes another request
(`LoadDoneNested`).

**ImageSets** models the manager of image sets with both its maps and the map
of names, and the use counters and states of the textures the sets hold. One
thread does everything; the worker that loads an image is the step `Finish`,
because the two modules above look inside it. `UnloadSets` gives up the
textures of several sets at once, as `unloadAll` does. The counter wraps at
`Width`, as the code's `uint` does at 2^32. `Destroy` gives nothing up: when
`~IResource` calls `unload` the object is no `ImageSet` any more, and
`ImageSet::unloadInternal` does not run. `Remove` is a removal by name or handle,
`RemoveHeld` one by pointer, of an image set that may never have been registered,
or is not any more: its name is erased all the same. Three histories keep the
properties exact: `again` (files that were loaded while they are registered, or
another image set of which was removed), `forced` (textures the
application itself unloaded) and `lost` (how many sets were destroyed with a
texture).

**Connection** models the unreliable sockets of one host and its clients, which
share all the code: `Receive` is `parsePacket` with a disjunct per command,
`Retry` and `GiveUp` are `processRequestList`, `ProcessClients` is
`processClients` after an interval, and `Connect` and `Close` are the
application's. A socket has one thread, so a handler is one step, with all that
it sends. The network loses any datagram (`Lose`; also one for which there is
no room among the `InFlight`), delays it, and with `Reorder` lets it be
overtaken. The network itself never duplicates: the code's own retries do that,
in every message of the handshake that follows. A client that opens a socket
again has a new port, and so is another client. A client may come to have the
host in its list several times, up to `ClientPeers`; the history `twice` records
the clients that closed in that state. Time is `silence`, the ping
intervals since a peer was last heard of, and it passes at any rate the network
allows.

**NavSearch** is the A* search, from `SetupForNewSearch` to the result of
`Search`: `Expand` takes the head of the open list and `GiveUp` finds it empty,
`Relax` handles one link of the node, `Back` is an iteration of `createPath`. A
link is a pair of nodes
with one cost, as the meshes build them; cost 0 is a link that the cost
function has closed. The links of a node come in any order. **PathFinding** is
the life of one request on top of it: the first steps on the main thread
(`PreStep`), `GeneratePath` and its own run of `createPath` (`Generate`, with
the variable `again` for where it is),
`AddPathfindRequest`, the order in the job pool (`RunOrder`, `Work`,
`OrderRun`) and `ProcessRequests` (`Update`). Neither `SetupForNewSearch` nor
`cleanUp` touches `m_path`: a search begins with any path of `OldPaths`, which an
earlier search of the planner may have left.

**MC modules** give constants their values and name symmetry sets, nothing else.
**DistinctSeqs** holds lemmas about lists, most of them of distinct objects; the
modules that end in `Proofs` hold the theorems.

Operators whose comment begins with *Variant* are deliberate errors. They occur
in no specification; each shows that the property it is listed with in
`PROJECT.json` (`mutants`) does notice such a bug.

## 3. The runs

| Run | Question | Bounds |
|---|---|---|
| `job_queue` | Are requests never shared, wake-ups never lost, every job reported once with its own result, nobody inside the condition at deletion, and whose is the mutex then? Does the queue implement `JobService`, and does a destructor that finds the worker waiting complete? | 2 clients, 3 requests, 3 calls |
| `barrier_rounds` | Does nobody pass early, although rounds overlap, and is the barrier a `Rendezvous`, which a pair always leaves? | 4 threads, of which 2 to 4 meet; 3 rounds |
| `frame_jobs` | Does the barrier count exactly the jobs that are out, are pieces never changed while they run, is each executed and reported once, and is it all a `ForkJoin`? | 2 queues, 3 jobs, 4 pieces, 3 frames |
| `async_load` | With two callers that race for the flag, is every request loaded once, and does a caller that finds the flag clear drain the queues? | 2 callers, 2 workers, 3 requests, 2 priorities |
| `texture_loading` | Is `loadInternal` of a texture never on two threads, is no request used after it is deleted, is the loading job in the pool once? | 2 textures, 3 requests, 2 workers |
| `texture_wait` | Does `load(false)` always return? *No* | the same |
| `connection` | Do lists keep their limits, are identities not shared, does a failed request stay failed? | 2 clients, 2 places at the host and at each client, 1 retry, 2 datagrams in flight, reordered |
| `connection_live` | Does every request end, and is who closed forgotten? | 1 client with 2 places, in order |
| `connection_kicked` | Does a peer that was dropped learn it? *No* | 1 client with 1 place, reordered |
| `image_sets` | Is the counter the number of users, is a texture loaded exactly while it is counted, does an image set exist while somebody points to it, do names find what is registered, does what is used get loaded if its requests do? | 2 files, names, textures and objects; 1 lost |
| `path_finding` | Does the search end, with the right answer, the shortest path where the heuristic allows it, and is what the owner is given true? | every graph of 4 nodes, 3 costs, heuristics of 0 and 2; 0, 1 or 5 first steps; an old path or none |
| `path_finding_mt` | Is a request that is left to the job pool answered? *No* | 3 nodes, no first steps |

**Why the bounds are enough for what they are for.**

* Two clients of the queue and three calls give a client that adds while the
  worker is anywhere in its loop and another that recycles a request of the same
  batch; the third request object is needed so that one is queued, one is served
  and one is in a client's hand.
* Three rounds of the barrier bring each phase value back, so stale phases would
  show; three parties are the least for which a broadcast has two waiters, and a
  fourth thread lets the number of them vary beside one that is away.
* Four pieces over three jobs give a job two pieces and leave another shape in
  the next frame; the code's four jobs add nothing that three do not have. Three
  frames allow each mode after each other mode.
* Three load requests over two textures allow a texture to be loaded again while
  its first request is still out.
* Two clients of a host with two places, and one retry, are enough for a ghost
  entry (the same client twice) to take the other's place and identity. Two
  datagrams in flight are the least for one to overtake another. A client with
  two places may have the host in its list twice. These bounds bring the client
  there and let it close (`twice` is not always empty) without the host sharing an
  identity after that: for that it takes three places at the host and three
  datagrams in flight.
  `SilenceLimit`, 3 in the code, is 0 or 1: larger values delay the same
  decision; `connection` has 0, where each interval that passes drops every peer,
  and the runs of liveness have 1, where a ping can prevent that.
* Two objects make two users of one texture, or one of each; one lost user
  already separates the counter from the users. `Width` 4 is the least that
  holds the users and the lost one. The proofs cover any `Width` that does.
* Four nodes are the least for a node whose cost falls after it was closed,
  beside a begin and an end; the costs contain 0 (closed), and two that differ,
  so that a detour may be cheaper; heuristics 0 and 2 are admissible, or
  consistent, or neither, depending on the graph. An old path is
  empty or any one link. Five first steps finish every
  search of four nodes on the main thread, one or none leaves it to the worker.

Where the argument from small instances is not convincing by itself, the
theorems below do not depend on it.

**Bounds in the models.** `MaxCalls`, `MaxRounds`, `MaxPieces`, `MaxFrames`,
`InFlight`, `MaxLost` and the number of request and image set objects.
`HostPeers`, `ClientPeers`, `MaxRequest` and `SilenceLimit` are settings of the
code, given small values. When a bound is used up, or simply when no client
wants anything, the system is idle: workers wait for ever, which is legitimate,
so the configurations say `CHECK_DEADLOCK FALSE`. The two runs of path finding
do not: a planner is updated in every frame, once its request has returned, and
a request that stopped before that would show as a deadlock.

**Symmetry.** `connection` identifies states that differ by a permutation of the
clients and checks invariants only; `path_finding` does so with the nodes, and
checks invariants and properties of single steps. Runs with liveness properties
use no symmetry.

**Fairness.** Weak fairness for each thread's next step: the operating system
runs every thread that can run. It is stated per thread, so that two threads
that compete for the mutex are both served only if each stays enabled. Nothing
is assumed of what is up to the application: no client has to call, the owner
need not delete the queue, frames need not begin, nobody has to connect or
close. In `BarrierRounds` threads do come to every round, which is what the
protocol under test is about. In `Connection` the thread of each socket runs,
and of the network only this is assumed: what it neither loses nor holds back
for ever is read. It may lose everything. In `ImageSets` what is held is drawn
in every frame, which binds its texture (`Bind`); that its request is ever loaded
(`Finish`) is not assumed, because the load manager may strand one
(`SyncLoadReturns`): `AnsweredGetsLoaded` speaks of the textures whose requests do
not stay in the queue. In `PathFinding` the request, the worker and the frame update each
go on. `NavSearch` by itself assumes none.

**Scope of a property.** Some properties say of whom they speak, because the
code does not keep them for all: `ImagesNotShared` leaves out the textures in
`hasty`: `unload` leaves `m_loadRequest` in place, a second `load` starts a
second `loadInternal` of the same texture, and two threads append to its
images. `LoadedWhileUsed` leaves out `forced`. `RegisteredIsFound` leaves out
`again`: loading a file that is registered already writes the handle of the
new, unregistered set, which is 0, over the name; and the removal of such a set by
pointer erases the name without looking whose it is
(`me/ImageSetResourceManager.cpp:37`). `HostIdsDiffer` and `ClientIdsDiffer` hold
until a client closes with the host in its list twice. `AnswersHold` admits an old
path only of a search that was exhausted. `DeletedIsQuiet` says who holds the mutex
that is deleted: nobody, or a worker that left by the break. `FoundIsShortest` asks for a
consistent heuristic, and the repository's are not all:
`mrayAI/NavMeshHeuristic.h:36` uses the square of a distance.

### What the code does not do

Three runs end in a counterexample, under the fairness above:

* `SyncLoadReturns`. A request that is queued between the last pop of the
  loading job and `LoadingComplete` is left behind until the next
  `AddRequest`, and `load(false)` polls for it on the only thread that could
  make one. Once someone finds the flag clear, everything left behind is loaded:
  that is `ClearFlagDrains`.
* `KickedLearns`. `processClients` drops a silent peer and sends
  PEER_DISCONNECT with the address of the dropped peer itself
  (`mrayNet/win32socket.cpp:1187`). That peer, should it be alive, looks for its
  own address among its peers, finds nothing, and keeps the host; the host
  answers the pings of strangers, so the client is never in doubt.
* `RequestAnswered`. The loop of `ExecuteJob`
  (`mrayAI/PathFindingManager.cpp:35`) ends when `Process_MT` says anything but
  `ESR_NotFound`. A search that is not complete is abandoned after one step, one
  that has failed is submitted again for ever; and as nothing on that path
  clears `m_isRequesting`, `ProcessRequests` never tells the owner.

Some definitions state what one would expect and belong to no run, because they
do not hold. Each stands in its module with a comment:

* `TerminateReturns` (`JobQueue`). `terminate()` clears `active` and joins. A
  worker that has just tested `active` and found the queue empty goes on to
  `wait`; the destructor's one signal has passed, and the cancel event that the
  time slices of `wait` are for (`w32/WinCondition.cpp:53`) is never set.
  `SleepingWorkerStops` is what holds.
* `BroadcastWakesAll` (`BarrierRounds`). With three parties, a thread that was
  woken may leave, come to the next round and take the token of one that still
  sleeps. The engine's own uses have one waiter (frame jobs) or two parties
  (thread start), and `barrier_rounds` shows that a pair is always woken.
* `DeletedIsFree` (`JobQueue`). A worker that is woken from `wait` after
  `m_terminated` was set breaks out of its loop (`me/JobQueue.cpp:44-45`) with the
  mutex locked, and nothing unlocks it; the destructor joins the worker and
  deletes that mutex (`:91`). Nobody waits for it any more, so nothing hangs.
* `IdsAlwaysDiffer` (`Connection`), that no two peers of a host have the same
  identity. `maxPeers` is whatever the caller of `createSocket` says
  (`mrayNet/win32socket.cpp:249`), and a client with room for two may come to have
  the host in its list twice, one entry for each of two attempts. When it closes it
  says DISCONNECT once for each, and the second message has `removePeer`
  (`mrayNet/win32socket.cpp:672`) free the identity of the entry it has removed
  before, which the host may have given to somebody else in between. It then gives
  it to a third. TLC finds this with two clients of two places, three places at
  the host and three datagrams in flight. `HostIdsDiffer` and `ClientIdsDiffer`
  are what holds, and are proved for any number of places.
* `FailedIsForgotten` (`Connection`). A client that gave up may be a peer of the
  host all the same, and stay one: a request is never withdrawn, and the client
  answers the host's pings.
* `UnusedIsUnloaded` (`ImageSets`). A texture whose image set was destroyed
  while it was loaded keeps its count, and is never unloaded.
* `WayIsFromBegin` (`PathFinding`). When the first steps exhaust the open list
  without a result, `GeneratePath` returns false and leaves `m_path` alone
  (`mrayAI/NavAStarSearch.cpp:182`); `RequestPathToNodePos` does not look at that
  (`mrayAI/PathFindPlanner.cpp:77-78`) and gives the owner the path of the
  planner's previous search, whose begin may be elsewhere.
* `FoundWayArrives` (`PathFinding`). `GeneratePath` comes after `OnSearchDone`
  and gives the owner a path to whatever node the open list is left with, in the
  place of the path to the end.

Observations made while reading, which the models contain but no property is
about, or which are undefined and therefore outside them:

* A PEERINFO_REPLAY that answers two attempts adds the same client twice; later
  packets reach the first entry, and the second disappears by its silence. The
  identity of a peer that is dropped for its silence is never free again. A
  client reserves an identity and then overwrites it with the host's
  (`win32socket.cpp:859`), so the reserved one is never freed, and after
  `maxPeers + 1` connections no peer can be added. The last attempt of a request
  is not waited for. `RequestsEnd` holds through all of this.
* `connectToHost` and `close` change lists the thread of the socket walks
  through, without a lock. A request of a planner made, or `ClearRequests`
  called, while an order of that planner is in the pool lets two threads into
  one search. A link between two nodes at the same place would close a circle of
  parents, since nodes of equal cost are entered again
  (`NavAStarSearch.cpp:122`).
* A reload of a plain resource leaves it loading for ever: `load(true)` changes
  the state and starts nothing.
* `me/ScheduleManager.cpp:71`: the loop over the timers never advances its
  iterator. `me/ActionsHistory.cpp:56`: undo and redo push on the other stack
  without popping their own, so the same action is undone again and again. Both
  show in the first sequential call and need no model.

## 4. The proofs

All theorems are of the specifications that the runs check, for every value of
the constants that satisfies the named assumptions of the modules. Those are:
"no thread", "no request", "none" are not among the things they stand beside;
bounds are natural numbers; worker and owner are different threads; what must be
counted is finite; `Width` has room for all users; a link joins two different
nodes. Each module proves that an invariant holds initially and is preserved by
each action, one step of the proof per action, and derives the theorems from it.

* **JobQueueProofs**: `NoWakeupIsLost`, `RequestsHaveOneOwner`, `TypeCorrect`,
  `DestroyedInPeace`, `JobsAreReported`, `BarriersAreSignalled`, `QueueServes`.
  `NoLostWakeup` is not inductive: a step that reads a counter or a queue says
  nothing about who else may be inside. `Control` adds that only the worker
  waits, only the others signal and nobody broadcasts (`CallersInv`); that the
  counter of waiters is one exactly between the call of `wait` and the end of
  its token; and that the worker calls `wait` with the mutex held and the queue
  still empty (`WaitInv`). With the last, the queue can only grow once the
  counter is one, so the signal that follows the push finds it. `Ownership` adds
  the types of the lists and that whatever is in use was once allocated, so that
  what `new` returns is in nobody's hands; its steps rest on the lemmas of
  **DistinctSeqs**: what appending, taking the head, concatenating and erasing
  do to a list without repetition. The types of the histories need more than
  types: what is served is what `AddRequest` was called with only if no request
  is cleared before it is served (`LiveFields`). `IInv` is all three together.
  `Quiet` says where the owner and the clients are once the destructor has begun,
  and that a worker that left by the break holds the mutex for good.
  `Reports` relates the listener's and the barrier's history to the history of
  runs: between the job and its listener the request still says what it said
  when the job ran (`Remembered`), because nobody else has it. `QueueServes` is
  the refinement of `JobService`, step by step: a push submits, `RemoveRequest`
  cancels, `ExecuteJob` runs the head of what is left of the batch followed by
  the queue, and all other steps, the recycling among them, stutter.
* **BarrierRoundsProofs**: `LocksAreArrivals`, `NobodyLeavesEarly`,
  `BarrierIsRendezvous`, `TypeCorrect`. The invariant `Inv` adds to the counter
  (`LocksCountArrivals`) that all parties have completed the same number of
  rounds (`Together`). That is what makes two overlapping phases harmless: who
  still sees its old phase is exactly who has not completed the round, so the
  last arrival releases all. The refinement is proved step by step for any
  number of threads, without the liveness of `Rendezvous`. `TypeCorrect` needs an
  invariant of its own, since `m_waiters` is decremented without a test: it
  counts the threads that have begun to wait and have not taken themselves off
  (`WaitersCounted`).
* **FrameJobsProofs**: `NoSignalIsLost`, `PiecesAreFree`, `EveryPieceServed`,
  `FramesForkAndJoin`, `FrameTypeCorrect`. `CountMatchesJobs` is not inductive: a
  signal lowers the number of unsignalled jobs by one only if no other worker
  has the same job. `DealtOnce` says so: while the jobs are out, each job that
  has pieces is with one worker, once, and otherwise with none; `CutOnce` says
  that each piece is in one job, once. `MainAt`, `WorkersAt` and `MainWaits` say
  where the main thread and the workers can be inside the barrier, and that only
  the main thread ever waits there. `Progress` tells from the position of each
  worker which pieces have been executed and which listeners told; it gives
  `FrameServed` and the refinement: `BeginProcessing` is the fork, the execution
  of a piece takes it from those to do, and the main thread's step out of the
  barrier is the join, when nothing is left.
* **LoadingProofs**, of the load manager: `EveryRequestOnce`, `LoadTypeCorrect`.
  `LoadInv` says that the queues and the hands of callers and workers never share
  a request and that what is queued has not started. Of the textures:
  `DeletedIsUnused`, `ImagesHaveOneLoader`, `OneLoadingJob`,
  `TextureTypeCorrect`. `TextureInv` adds to `LoadInv` which texture owns which
  request (`Owned`), what the main thread's place in `load` says about it
  (`Calls`) and where finished requests can be (`Waits`). The loading job needs
  an invariant of its own (`OneJob`): it is nowhere, in the pool or in the hands
  of one worker, and `m_jobInUse` tells which, because one thread adds.
* **ImageSetsProofs**: `CounterIsExact`, `LoadedExactlyWhileUsed`,
  `NamesFindRegistered`, `TypeCorrect`. `CountInv` adds that only a loaded image
  set holds a texture, `Handles` that an image set is registered under its own
  handle and name, so that removing one takes no other out of the maps. The step for several sets at once rests on a lemma about
  the cardinality of what is left. `NamesFindRegistered` assumes that files have
  different names (`NamesDiffer`): with two files of one name the later loaded
  takes it from the other.
* **PathFindingProofs**, of a search by itself: `ParentsLeadBack`,
  `NotFoundIsRight`, `PathLeadsToEnd`, `SearchGetsCloser`, `NoShorterPath`,
  `TypeCorrect`. `ParentsAreCheaper` is the heart: the parent of a reached node
  has a lower cost, whatever was entered again. So `createPath` cannot go round in
  a circle, and every step of the search comes closer to an end. `Searched` says
  that the neighbours of closed nodes were reached, which at the end is the answer
  "not found". For `NoShorterPath` the heuristic is consistent and `OrderInv`
  adds that closed nodes have their final cost: the link by which a shorter way
  would leave them leads to a node of the open list that would have come first.
  Of a request: `AnswersAreRight`, `PlannerTypeCorrect`, and the properties of a
  search again, `RequestNotFoundIsRight`, `RequestNoShorterPath`,
  `RequestPathLeadsToEnd`, `RequestGetsCloser`. A step of a request is one of its
  search or leaves the tables of the search alone (`StepOfSearch`), so what the
  search keeps, the request keeps; `GeneratePath` puts another path in the place
  of the search's, but only between the steps of the search. `PlannerInv` adds
  who has the search when (`Control`) and that the path under construction joins
  where its `createPath` has come to with a node, unless no `createPath` has run
  and the path is an old one (`Ways`).
* **ConnectionProofs**: `ConnectionTypeCorrect`, `LateAnswersAreDropped`,
  `HostGivesEachItsOwn`, `ClientsBelieveDifferent`. The handlers are first sorted
  by what they do to lists and identities (`StepIs`): the host adds a client
  (`Serves`), a client adds the host (`Joins`), the host removes a client
  (`Dismisses`), somebody closes, or entries only lose their place (`PlainStep`).
  What the loops over a list of peers leave is shown by induction along the list
  (`GoesOn` and `Iterated` of `DistinctSeqs`, from the least position at which it
  would fail). `Types` adds to the types who says what to whom (`Roles`): only
  the host accepts, so a client has nobody but the host in its list. `Waiting`
  says that who waits for an answer, or was refused, has nobody in its list,
  which is why `Strangers` drops what comes late. `Identities` says for whom an
  identity is reserved: the host serves that client under it, or the client is
  open and has it or will have it; each is reserved for one client at most and
  marked as used (`IdsReserved`). It is given back too early only if a client
  takes its leave twice, which `LeavesOnce` excludes as long as `twice` is empty:
  so the invariant is that `twice` is empty only if `Identities` holds, for any
  `ClientPeers`, and a step never empties `twice` (`TwiceGrows`).

Only model-checked: the liveness properties and everything that uses `ENABLED`
(the fair parts of `ImplementsService`, `ImplementsRendezvous` and
`ImplementsForkJoin`; `SleepingWorkerStops`, `ClearFlagDrains`, `RequestsEnd`,
`GoneAreForgotten`, `AnsweredGetsLoaded`), since the provers have no support for
`ENABLED`. Every invariant and every property of single steps that a passing run
checks is proved.

## 5. The plan

Done, in the order in which it mattered: condition variable; job queue with its
abstract service; barrier with rendezvous; frame jobs with fork and join; load
manager; texture loading; connections; image sets and use counters; path
finding; the proofs listed above.

What is left, in this order:

1. The resend queue of `SendPacketQueue` over the network of `Connection`.
2. The event-based job queue, against the same `JobService`.
3. The garbage collector and the thread manager's `shutdown`, as far as their
   unlocked lists leave anything defined to model.

## 6. What is not modelled

* Of modelled components: the destruction of a texture whose request is out
  (its request would be read after it was freed); failing loads; the accounting
  of memory (`m_usedMemory` is recalculated whenever it is read); the TCP mode,
  bans, broadcasts and server queries of sockets (a stream has no message
  boundaries in this code, and its packets are parsed on two threads); two
  requests of one planner at a time; replacing a queue of the job pool and
  `SetTargetQueue` (the engine adds its two queues at start, and only a test
  chooses one); `ClearWorkers`, which only deletes the queues, one after another,
  from the destructor of the pool; thread priorities, suspension, names and
  thread-local storage, which do not affect the properties.
* Not yet modelled: the components of the plan.
* Data without a protocol: rendering, scene graph, materials, GUI layout, device
  input, mathematics, steering, navigation meshes and codecs are floating point,
  device calls or plain data. Costs and heuristics of a search are whole numbers
  here, so the rounding of floats is not covered.
* Plug-ins wrap third-party libraries; projects, game modifications, tools and
  tests are applications of the engine. By far the largest part of the
  repository is copies of third-party libraries (boost, clapack and others),
  which no model of the engine covers.
