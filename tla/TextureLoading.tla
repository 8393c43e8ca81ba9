--------------------------- MODULE TextureLoading ---------------------------
(***************************************************************************)
(* Textures that load themselves through the AsyncLoadManager:             *)
(* IResource::load and unload (src/Engine/mrayEngine/src/IResource.cpp) as *)
(* ITexture (ITexture.cpp) completes them.  One thread, Main, uses the     *)
(* textures; the workers of the JobPool run loadInternal of a texture for  *)
(* its TextureAsyncLoader and then set m_loaded, which Main polls.         *)
(*                                                                         *)
(* The textures are not internal and not render targets: those have no     *)
(* image to load.                                                          *)
(***************************************************************************)
EXTENDS AsyncLoadManager

CONSTANTS Main,
          Textures,
          NoTexture

ASSUME TextureAssumption ==
  /\ Callers = {Main}
  /\ Priorities = {5}              \* EALP_Medium
  /\ NoTexture \notin Textures

VARIABLES state,    \* m_loadState of each texture
          request,  \* m_loadRequest of each texture
          tex,      \* m_tex of each TextureAsyncLoader; NoTexture before new
          deleted,  \* the TextureAsyncLoaders that were deleted
          mpc,      \* where Main is in load()
          mtex,     \* the texture it loads
          hasty     \* history: the textures that were unloaded in LoadState_Loading

textureVars == <<state, request, tex, deleted, mpc, mtex, hasty>>
vars == <<loadVars, textureVars>>

TypeOK ==
  /\ LoadTypeOK
  /\ state \in [Textures -> {"unloaded", "loading", "loaded"}]
  /\ request \in [Textures -> Requests \cup {NoRequest}]
  /\ tex \in [Requests -> Textures \cup {NoTexture}]
  /\ deleted \subseteq {r \in Requests : tex[r] # NoTexture}
  /\ mpc \in {"idle", "adding", "nested", "inline", "spin"}
  /\ mtex \in Textures \cup {NoTexture}
  /\ hasty \subseteq Textures

Init ==
  /\ LoadInit
  /\ state = [t \in Textures |-> "unloaded"]
  /\ request = [t \in Textures |-> NoRequest]
  /\ tex = [r \in Requests |-> NoTexture]
  /\ deleted = {}
  /\ mpc = "idle" /\ mtex = NoTexture
  /\ hasty = {}

\* m_loadRequest && m_loadRequest->IsLoaded()
RequestLoaded(t) == request[t] # NoRequest /\ loaded[request[t]]

\* delete m_loadRequest; m_loadRequest=0; _onLoaded()
OnRequestLoaded(t) ==
  /\ deleted' = deleted \cup {request[t]}
  /\ request' = [request EXCEPT ![t] = NoRequest]
  /\ state' = [state EXCEPT ![t] = "loaded"]

-----------------------------------------------------------------------------
(* load(async) on a texture that is not loaded.                            *)

\* The TextureAsyncLoader of t that goes to AsyncLoadManager::AddRequest.
Adding(t) ==
  \E r \in Requests :
    /\ tex[r] = NoTexture
    /\ tex' = [tex EXCEPT ![r] = t]
    /\ request' = [request EXCEPT ![t] = r]
    /\ PushRequest(Main, r, 5)

\* The request is done; async or not.
LoadDone(t) ==
  /\ mpc = "idle" /\ state[t] # "loaded"
  /\ RequestLoaded(t)
  /\ OnRequestLoaded(t)
  /\ UNCHANGED <<loadVars, tex, mpc, mtex, hasty>>

\* The request is done, of a texture that was unloaded since and has an image: _onLoaded
\* fills its surfaces before it is LoadState_Loaded, and getSurface, a use of it,
\* calls load(true) inside, which makes a new request.
LoadDoneNested(t) ==
  /\ mpc = "idle" /\ state[t] = "unloaded"
  /\ RequestLoaded(t)
  /\ deleted' = deleted \cup {request[t]}
  /\ Adding(t)
  /\ mpc' = "nested" /\ mtex' = t
  /\ UNCHANGED <<state, hasty>>

\* The outer _onLoaded ends; the load(true) of a further surface may have found the
\* new request done.
LoadDoneNestedReturn ==
  /\ mpc = "nested" /\ cpc[Main] = "idle"
  /\ state' = [state EXCEPT ![mtex] = "loaded"]
  /\ \/ UNCHANGED <<request, deleted>>
     \/ RequestLoaded(mtex) /\ OnRequestLoaded(mtex)
  /\ mpc' = "idle" /\ mtex' = NoTexture
  /\ UNCHANGED <<loadVars, tex, hasty>>

\* load(true) makes a request.
LoadAsync(t) ==
  /\ mpc = "idle" /\ state[t] = "unloaded"
  /\ ~RequestLoaded(t)
  /\ Adding(t)
  /\ mpc' = "adding" /\ mtex' = t
  /\ UNCHANGED <<state, deleted, hasty>>

AddRequest == FinishAdd(Main) /\ UNCHANGED textureVars

LoadAsyncReturn ==
  /\ mpc = "adding" /\ cpc[Main] = "idle"
  /\ state' = [state EXCEPT ![mtex] = "loading"]
  /\ mpc' = "idle" /\ mtex' = NoTexture
  /\ UNCHANGED <<loadVars, request, tex, deleted, hasty>>

\* load(false): Main runs loadInternal itself ...
LoadSync(t) ==
  /\ mpc = "idle" /\ state[t] = "unloaded"
  /\ ~RequestLoaded(t)
  /\ mpc' = "inline" /\ mtex' = t
  /\ UNCHANGED <<loadVars, state, request, tex, deleted, hasty>>

LoadSyncReturn ==
  /\ mpc = "inline"
  /\ state' = [state EXCEPT ![mtex] = "loaded"]
  /\ mpc' = "idle" /\ mtex' = NoTexture
  /\ UNCHANGED <<loadVars, request, tex, deleted, hasty>>

\* ... or, "worst case", polls the request that is in the loading queue.
LoadWait(t) ==
  /\ mpc = "idle" /\ state[t] = "loading"
  /\ request[t] # NoRequest /\ ~RequestLoaded(t)
  /\ mpc' = "spin" /\ mtex' = t
  /\ UNCHANGED <<loadVars, state, request, tex, deleted, hasty>>

LoadWaitReturn ==
  /\ mpc = "spin"
  /\ RequestLoaded(mtex)
  /\ OnRequestLoaded(mtex)
  /\ mpc' = "idle" /\ mtex' = NoTexture
  /\ UNCHANGED <<loadVars, tex, hasty>>

-----------------------------------------------------------------------------
\* unload(), in whatever state; m_loadRequest is left as it is.
Unload(t) ==
  /\ mpc = "idle"
  /\ state' = [state EXCEPT ![t] = "unloaded"]
  /\ hasty' = IF state[t] = "loading" THEN hasty \cup {t} ELSE hasty
  /\ UNCHANGED <<loadVars, request, tex, deleted, mpc, mtex>>

-----------------------------------------------------------------------------
MainStep ==
  AddRequest \/ LoadAsyncReturn \/ LoadDoneNestedReturn \/ LoadSyncReturn \/ LoadWaitReturn

LoaderStep(w) == LoadStep(w) /\ UNCHANGED textureVars

Next ==
  \/ \E t \in Textures :
       \/ LoadDone(t) \/ LoadDoneNested(t)
       \/ LoadAsync(t) \/ LoadSync(t) \/ LoadWait(t) \/ Unload(t)
  \/ MainStep
  \/ \E w \in Workers : LoaderStep(w)

Spec == Init /\ [][Next]_vars

\* Both threads run; which textures Main loads is up to the application.
Fairness == WF_vars(MainStep) /\ \A w \in Workers : WF_vars(LoaderStep(w))

FairSpec == Spec /\ Fairness

-----------------------------------------------------------------------------
(* Properties.                                                             *)

\* No worker uses a TextureAsyncLoader that load() has deleted, and none is
\* deleted twice or left in a queue: m_loaded is the last thing a worker
\* touches, and only a loaded request is deleted.
NoUseAfterDelete ==
  /\ deleted \cap Queued = {}
  /\ \A w \in Workers : cur[w] \notin deleted
  /\ \A t \in Textures : request[t] \notin deleted

\* The threads inside loadInternal of texture t.
Loaders(t) ==
  {w \in Workers : wpc[w] = "loading" /\ tex[cur[w]] = t}
    \cup (IF mpc = "inline" /\ mtex = t THEN {Main} ELSE {})

\* loadInternal appends to m_imageIfo, which _onLoaded and the renderer read,
\* and nothing locks it: it runs on one thread at a time, and on none once the
\* texture is loaded - unless that texture was unloaded while it was loading.
ImagesNotShared ==
  \A t \in Textures \ hasty :
    /\ Cardinality(Loaders(t)) <= 1
    /\ state[t] = "loaded" => Loaders(t) = {}

\* With one thread that adds requests m_jobInUse does its work: the loading
\* job is in the pool at most once, so requests are loaded one after another.
SingleLoader ==
  submitted + Cardinality({w \in Workers : wpc[w] # "idle"})
    <= IF jobInUse THEN 1 ELSE 0

\* IResource.cpp:102, "worst case,we are asked to use it,but it is already in
\* the loading queue": load(false) waits for the worker and then returns.
SyncLoadReturns == (mpc = "spin") ~> (mpc = "idle")

=============================================================================
