------------------------------ MODULE ImageSets ------------------------------
(***************************************************************************)
(* Image sets and the textures they use: ImageSetResourceManager and       *)
(* ImageSet (src/Engine/mrayEngine/src), over the use counter of IResource *)
(* by which a texture is loaded for its first user and unloaded with its   *)
(* last.  One thread does it all; the worker that loads an image is one    *)
(* step here (AsyncLoadManager and TextureLoading look inside it).         *)
(*                                                                         *)
(* A file is named by its resource name, which is also its handle: both    *)
(* maps of a manager change together.  The textures are in their manager   *)
(* all the time.                                                           *)
(***************************************************************************)
EXTENDS Naturals, FiniteSets

CONSTANTS Files,            \* of image sets
          Names,            \* of image sets
          NameOf,           \* the name that is in a file
          Textures,
          Objects,          \* the ImageSets there is memory for
          None,             \* no file, no texture, no object
          Width,            \* m_usedCounter counts modulo this
          MaxLost           \* bound: the ImageSets destroyed while they hold a texture

ASSUME ImageSetsAssumption ==
  /\ NameOf \in [Files -> Names]
  /\ IsFiniteSet(Objects)
  /\ None \notin Files \cup Textures \cup Objects
  /\ MaxLost \in Nat
  /\ Width \in Nat /\ Width > Cardinality(Objects) + MaxLost

VARIABLES state,        \* m_loadState of each ImageSet; "none" when there is no such object
          textureName,  \* its m_textureName
          texture,      \* the texture its TextureUnit holds
          name,         \* its m_name, as in its file
          handle,       \* its m_handle, the file it was registered for; None before
          held,         \* the ImageSets the application has a pointer to
          registered,   \* m_resourceMap and m_resourceHandleMap: the ImageSet of each file
          imageSets,    \* m_imageSets: the handle a name stands for
          texState,     \* m_loadState of each texture
          texRequest,   \* the state of its m_loadRequest
          used,         \* its m_usedCounter
          again,        \* history: the registered files that were loaded once more, or that
                        \* have another ImageSet, not registered, which was removed
          forced,       \* history: the textures the application itself unloaded
          lost          \* history: the ImageSets that were destroyed with each texture

setVars == <<state, textureName, texture, name, handle, held, registered, imageSets>>
texVars == <<texState, texRequest, used>>
history == <<again, forced, lost>>
vars == <<setVars, texVars, history>>

Registered == {registered[f] : f \in Files} \ {None}
Alive == {o \in Objects : state[o] # "none"}
Users(t) == {o \in Objects : texture[o] = t}

\* The types; and an ImageSet exists exactly as long as there is a pointer to it.
TypeOK ==
  /\ state \in [Objects -> {"none", "unloaded", "loading", "loaded"}]
  /\ textureName \in [Objects -> Textures]
  /\ texture \in [Objects -> Textures \cup {None}]
  /\ name \in [Objects -> Names \cup {None}]
  /\ handle \in [Objects -> Files \cup {None}]
  /\ held \cup Registered = Alive
  /\ registered \in [Files -> Objects \cup {None}]
  /\ imageSets \in [Names -> Files \cup {None}]
  /\ texState \in [Textures -> {"unloaded", "loading", "loaded"}]
  /\ texRequest \in [Textures -> {"none", "queued", "done"}]
  /\ used \in [Textures -> 0..(Width - 1)]
  /\ again \subseteq Files
  /\ forced \subseteq Textures
  /\ lost \in [Textures -> 0..MaxLost]

Init ==
  /\ state = [o \in Objects |-> "none"]
  /\ textureName \in [Objects -> Textures]
  /\ texture = [o \in Objects |-> None]
  /\ name = [o \in Objects |-> None]
  /\ handle = [o \in Objects |-> None]
  /\ held = {}
  /\ registered = [f \in Files |-> None]
  /\ imageSets = [n \in Names |-> None]
  /\ texState = [t \in Textures |-> "unloaded"]
  /\ texRequest = [t \in Textures |-> "none"]
  /\ used = [t \in Textures |-> 0]
  /\ again = {} /\ forced = {}
  /\ lost = [t \in Textures |-> 0]

-----------------------------------------------------------------------------
(* The textures.                                                           *)

LoadTextureUnfinished(t) ==                  \* variant: m_loadRequest is not looked at
  IF texState[t] = "unloaded"
  THEN /\ texState' = [texState EXCEPT ![t] = "loading"]
       /\ texRequest' = [texRequest EXCEPT ![t] = "queued"]
  ELSE UNCHANGED <<texState, texRequest>>

\* load(true): finishes a request that is done, or makes a new one.  Finishing asks
\* for the surfaces of a texture that has an image (getSurface), which is a use of it
\* before it is LoadState_Loaded: when it was unloaded since it was requested, that
\* makes one more request.
LoadTexture(t) ==
  CASE texState[t] # "loaded" /\ texRequest[t] = "done" ->
         /\ texState' = [texState EXCEPT ![t] = "loaded"]
         /\ \E next \in {"none", "queued"} :
              /\ next = "queued" => texState[t] = "unloaded"
              /\ texRequest' = [texRequest EXCEPT ![t] = next]
    [] texState[t] = "unloaded" /\ texRequest[t] # "done" ->
         /\ texState' = [texState EXCEPT ![t] = "loading"]
         /\ texRequest' = [texRequest EXCEPT ![t] = "queued"]
    [] OTHER -> UNCHANGED <<texState, texRequest>>

\* variant: a texture that is used already is not counted again
UseTextureOnce(t) ==
  /\ LoadTexture(t)
  /\ used' = [used EXCEPT ![t] = 1]

\* useResource
UseTexture(t) ==
  /\ LoadTexture(t)
  /\ used' = [used EXCEPT ![t] = (@ + 1) % Width]

\* unuseResource as often as t is given up by objects: it unloads when the counter is 1
GivenUp(t, objects) == Cardinality({o \in objects : texture[o] = t})
LastUseEarly(t, objects) == used[t] \in 1..(GivenUp(t, objects) + 1)   \* variant
LastUse(t, objects) == used[t] \in 1..GivenUp(t, objects)
Decremented(counter, n) == (counter + Width - n) % Width
UnuseTextures(objects) ==
  /\ used' = [t \in Textures |-> Decremented(used[t], GivenUp(t, objects))]
  /\ texState' = [t \in Textures |-> IF LastUse(t, objects) THEN "unloaded" ELSE texState[t]]
  /\ UNCHANGED texRequest

\* what is drawn binds its texture: getTextureID, onUse
Bind(t) ==
  /\ \E o \in held \cup Registered : texture[o] = t
  /\ texState[t] # "loaded"
  /\ LoadTexture(t)
  /\ UNCHANGED <<used, setVars, history>>

\* the request of a texture was loaded
Finish(t) ==
  /\ texRequest[t] = "queued"
  /\ texRequest' = [texRequest EXCEPT ![t] = "done"]
  /\ UNCHANGED <<texState, used, setVars, history>>

\* by the application, whoever uses it
UnloadTexture(t) ==
  /\ texState' = [texState EXCEPT ![t] = "unloaded"]
  /\ forced' = forced \cup {t}
  /\ UNCHANGED <<texRequest, used, setVars, again, lost>>

-----------------------------------------------------------------------------
(* The image sets.                                                         *)

\* unload of the ImageSets in objects: each gives up its texture
UnloadSets(objects) ==
  /\ UnuseTextures(objects)
  /\ texture' = [o \in Objects |-> IF o \in objects THEN None ELSE texture[o]]

\* load(false) of o, which is unloaded
LoadNow(o, t) ==
  /\ UseTexture(t)
  /\ texture' = [texture EXCEPT ![o] = t]
  /\ state' = [state EXCEPT ![o] = "loaded"]

\* loadImageSet: a new ImageSet is registered, unless the file has one already,
\* and loaded either way; m_imageSets gets its handle, which is 0 when it is not
\* registered
LoadImageSet(f) ==
  /\ \E o \in Objects, t \in Textures :
       /\ state[o] = "none"
       /\ LoadNow(o, t)
       /\ textureName' = [textureName EXCEPT ![o] = t]
       /\ held' = held \cup {o}
       /\ name' = [name EXCEPT ![o] = NameOf[f]]
       /\ IF registered[f] = None
          THEN /\ registered' = [registered EXCEPT ![f] = o]
               /\ handle' = [handle EXCEPT ![o] = f]
               /\ imageSets' = [imageSets EXCEPT ![NameOf[f]] = f]
               /\ UNCHANGED again
          ELSE /\ imageSets' = [imageSets EXCEPT ![NameOf[f]] = None]
               /\ handle' = [handle EXCEPT ![o] = None]
               /\ again' = again \cup {f}
               /\ UNCHANGED registered
  /\ UNCHANGED <<forced, lost>>

\* getImageSet
Found(n) == IF imageSets[n] = None THEN None ELSE registered[imageSets[n]]
GetImageSet(n) ==
  /\ Found(n) \notin held \cup {None}
  /\ held' = held \cup {Found(n)}
  /\ UNCHANGED <<state, textureName, texture, name, handle, registered, imageSets, texVars, history>>

\* The last pointer to o goes.  ~IResource calls unload when o is no ImageSet any
\* more: ImageSet::unloadInternal, which gives up the texture, does not run.
Destroy(o) ==
  /\ state' = [state EXCEPT ![o] = "none"]
  /\ texture' = [texture EXCEPT ![o] = None]
  /\ name' = [name EXCEPT ![o] = None]
  /\ handle' = [handle EXCEPT ![o] = None]
  /\ IF texture[o] = None THEN UNCHANGED lost
     ELSE /\ lost[texture[o]] < MaxLost
          /\ lost' = [lost EXCEPT ![texture[o]] = @ + 1]

\* variant: the pointer of the maps is not counted
DropCounted(o) ==
  /\ o \in held
  /\ held' = held \ {o}
  /\ Destroy(o)
  /\ UNCHANGED <<textureName, registered, imageSets, texVars, again, forced>>

Drop(o) ==
  /\ o \in held
  /\ held' = held \ {o}
  /\ IF o \in Registered THEN UNCHANGED <<state, texture, name, handle, lost>>
     ELSE Destroy(o)
  /\ UNCHANGED <<textureName, registered, imageSets, texVars, again, forced>>

\* _removeResource: whatever is registered under the handle of o goes
Unregister(o) ==
  LET f == handle[o] IN
  IF f # None /\ registered[f] # None
  THEN /\ registered' = [registered EXCEPT ![f] = None]
       /\ again' = again \ {f}
       /\ IF registered[f] \in held THEN UNCHANGED <<state, texture, name, handle, lost>>
          ELSE Destroy(registered[f])
  ELSE /\ again' = again \cup {g \in Files : NameOf[g] = name[o] /\ registered[g] # None}
       /\ UNCHANGED <<registered, state, texture, name, handle, lost>>

\* variant: the map is cleared
EraseNames(o) == imageSets' = [n \in Names |-> None]
EraseName(o) == imageSets' = [imageSets EXCEPT ![name[o]] = None]

\* IResourceManager::remove, of an ImageSet that may not be registered, or no more
Removed(o) ==
  /\ EraseName(o)
  /\ Unregister(o)
  /\ UNCHANGED <<textureName, held, texVars, forced>>
Remove(f) == registered[f] # None /\ Removed(registered[f])
RemoveHeld(o) == o \in held /\ Removed(o)

\* IResourceManager::unload, and unloadAll
Unloaded(objects) ==
  /\ UnloadSets(objects)
  /\ state' = [o \in Objects |-> IF o \in objects THEN "unloaded" ELSE state[o]]
  /\ UNCHANGED <<textureName, name, handle, held, registered, imageSets, history>>
Unload(o) == o \in held \cup Registered /\ Unloaded({o})
UnloadAll == Registered # {} /\ Unloaded(Registered)
UnloadUnused == Registered \ held # {} /\ Unloaded(Registered \ held)

\* load(false) by its owner; while it is "loading" nothing happens
Load(o) ==
  /\ o \in held /\ state[o] = "unloaded"
  /\ LoadNow(o, textureName[o])
  /\ UNCHANGED <<textureName, name, handle, held, registered, imageSets, history>>

\* reload, or SetTextureName, which reloads too: load(true) of an ImageSet starts
\* nothing that would load it
Reload(o) ==
  /\ o \in held \cup Registered
  /\ IF state[o] = "loaded" THEN UnloadSets({o}) ELSE UNCHANGED <<texture, texVars>>
  /\ state' = [state EXCEPT ![o] = "loading"]
  /\ \E t \in Textures : textureName' = [textureName EXCEPT ![o] = t]
  /\ UNCHANGED <<name, handle, held, registered, imageSets, history>>

-----------------------------------------------------------------------------
Next ==
  \/ \E f \in Files : LoadImageSet(f) \/ Remove(f)
  \/ \E n \in Names : GetImageSet(n)
  \/ \E o \in Objects : Drop(o) \/ RemoveHeld(o) \/ Unload(o) \/ Load(o) \/ Reload(o)
  \/ UnloadAll \/ UnloadUnused
  \/ \E t \in Textures : Bind(t) \/ Finish(t) \/ UnloadTexture(t)

Spec == Init /\ [][Next]_vars

\* A texture in use is drawn every frame.  That what it requested is loaded some time
\* cannot be assumed: AsyncLoadManager may leave a request in its queue for ever.
Fairness == \A t \in Textures : WF_vars(Bind(t))
FairSpec == Spec /\ Fairness

-----------------------------------------------------------------------------
(* Properties.                                                             *)

\* m_usedCounter is the number of image sets that hold the texture, whichever way
\* they were loaded, unloaded, reloaded or removed, and of those that went without
\* giving it up.
CountIsUsers == \A t \in Textures : used[t] = Cardinality(Users(t)) + lost[t]

\* A texture is loaded, or about to be, exactly as long as it is counted: no image
\* set unloads it under another, only the application can.
LoadedWhileUsed == \A t \in Textures \ forced : texState[t] = "unloaded" <=> used[t] = 0

\* getImageSet finds what is registered, under the name of its file, and nothing
\* else, until the file is loaded once more or another ImageSet of that file, which
\* was never registered or is not any more, is removed: either takes the name away.
RegisteredIsFound == \A f \in Files \ again : Found(NameOf[f]) = registered[f]

\* A texture that is held and drawn is loaded in the end, if its requests do not stay
\* in the queue: also one that is used again while a request of an earlier use is
\* under way or done.
AnsweredGetsLoaded ==
  \A t \in Textures :
    []<>(texRequest[t] # "queued") =>
      (Users(t) # {} ~> (texState[t] = "loaded" \/ Users(t) = {}))

\* IResource.h:64, "this number determines number of objects who need this
\* resource,when it reaches 0,it'll call unload": what nobody uses is unloaded.
\* No run has this property, because it does not hold once an image set was
\* destroyed while it was loaded.
UnusedIsUnloaded == \A t \in Textures : Users(t) = {} => texState[t] = "unloaded"
=============================================================================
