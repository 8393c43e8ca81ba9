--------------------------- MODULE ImageSetsProofs ---------------------------
(***************************************************************************)
(* Proofs about ImageSets, for any number of files, names, textures and    *)
(* objects.  The use counter of a texture is the number of image sets that *)
(* hold it and of those that were destroyed while they did; a texture the  *)
(* application does not unload by itself is loaded exactly while it is     *)
(* counted.  What makes the count inductive is that only a loaded ImageSet *)
(* holds a texture, so that loading one overwrites no pointer.             *)
(***************************************************************************)
EXTENDS ImageSets, FiniteSetTheorems, TLAPS

-----------------------------------------------------------------------------
(* Arithmetic of the counter, and the sets that are counted.               *)

LEMMA ModSmall ==
  ASSUME NEW W \in Nat, NEW x \in Nat, x < W
  PROVE  x % W = x /\ (x + W) % W = x
BY SMT

LEMMA ModRange ==
  ASSUME NEW W \in Nat, W > 0, NEW x \in Nat
  PROVE  x % W \in 0..(W - 1)
BY SMT

LEMMA SubsetsCounted ==
  ASSUME NEW S \in SUBSET Objects
  PROVE  IsFiniteSet(S) /\ Cardinality(S) \in Nat /\ Cardinality(S) < Width
<1>1. IsFiniteSet(Objects)
  BY ImageSetsAssumption
<1>2. IsFiniteSet(S) /\ Cardinality(S) <= Cardinality(Objects)
  BY <1>1, FS_Subset
<1>3. Cardinality(S) \in Nat /\ Cardinality(Objects) \in Nat
  BY <1>1, <1>2, FS_CardinalityType
<1> QED
  BY <1>2, <1>3, ImageSetsAssumption

LEMMA WidthPositive == Width \in Nat /\ Width > 0
BY SubsetsCounted, ImageSetsAssumption

LEMMA UsesCounted ==
  ASSUME NEW S \in SUBSET Objects, NEW n \in 0..MaxLost
  PROVE  Cardinality(S) + n \in Nat /\ Cardinality(S) + n < Width
<1>1. IsFiniteSet(Objects)
  BY ImageSetsAssumption
<1>2. IsFiniteSet(S) /\ Cardinality(S) <= Cardinality(Objects)
  BY <1>1, FS_Subset
<1>3. Cardinality(S) \in Nat /\ Cardinality(Objects) \in Nat
  BY <1>1, <1>2, FS_CardinalityType
<1> QED
  BY <1>2, <1>3, ImageSetsAssumption

-----------------------------------------------------------------------------
(* Types.                                                                  *)

\* What is registered has the handle it is registered under, and with it the name
\* of that file: nothing is registered for two files.
Handles ==
  /\ \A f \in Files : registered[f] # None => handle[registered[f]] = f
  /\ \A o \in Objects : handle[o] # None => name[o] = NameOf[handle[o]]

LEMMA TypesInit == Init => TypeOK /\ Handles
<1> SUFFICES ASSUME Init
             PROVE  TypeOK /\ Handles
  OBVIOUS
<1>1. Registered = {} /\ Alive = {} /\ held = {}
  BY DEF Init, Registered, Alive
<1>2. TypeOK
  BY <1>1, ImageSetsAssumption, WidthPositive DEF Init, TypeOK
<1> QED
  BY <1>2 DEF Init, Handles

LEMMA LoadTextureTypes ==
  ASSUME TypeOK, NEW t \in Textures, LoadTexture(t)
  PROVE  /\ texState' \in [Textures -> {"unloaded", "loading", "loaded"}]
         /\ texRequest' \in [Textures -> {"none", "queued", "done"}]
BY DEF TypeOK, LoadTexture

LEMMA UseTextureTypes ==
  ASSUME TypeOK, NEW t \in Textures, UseTexture(t)
  PROVE  /\ texState' \in [Textures -> {"unloaded", "loading", "loaded"}]
         /\ texRequest' \in [Textures -> {"none", "queued", "done"}]
         /\ used' \in [Textures -> 0..(Width - 1)]
<1>1. used[t] + 1 \in Nat
  BY ImageSetsAssumption DEF TypeOK
<1>2. (used[t] + 1) % Width \in 0..(Width - 1)
  BY <1>1, ModRange, WidthPositive
<1>3. used' \in [Textures -> 0..(Width - 1)]
  BY <1>2 DEF UseTexture, TypeOK
<1> QED
  BY <1>3, LoadTextureTypes DEF UseTexture

\* A set of objects gives up no more uses of a texture than there are objects.
LEMMA GivenUpCounted ==
  ASSUME NEW t \in Textures, NEW objects \in SUBSET Objects
  PROVE  GivenUp(t, objects) \in Nat /\ GivenUp(t, objects) < Width
<1>1. {o \in objects : texture[o] = t} \in SUBSET Objects
  OBVIOUS
<1> QED
  BY <1>1, SubsetsCounted DEF GivenUp

LEMMA UnuseTexturesTypes ==
  ASSUME TypeOK, NEW objects \in SUBSET Objects, UnuseTextures(objects)
  PROVE  /\ texState' \in [Textures -> {"unloaded", "loading", "loaded"}]
         /\ texRequest' \in [Textures -> {"none", "queued", "done"}]
         /\ used' \in [Textures -> 0..(Width - 1)]
<1>1. ASSUME NEW t \in Textures
      PROVE  Decremented(used[t], GivenUp(t, objects)) \in 0..(Width - 1)
  <2>1. used[t] + Width - GivenUp(t, objects) \in Nat /\ Width \in Nat /\ Width > 0
    BY GivenUpCounted, WidthPositive DEF TypeOK
  <2> QED
    BY <2>1, ModRange DEF Decremented
<1> QED
  BY <1>1 DEF UnuseTextures, TypeOK

LEMMA UnloadSetsTypes ==
  ASSUME TypeOK, NEW objects \in SUBSET Objects, UnloadSets(objects)
  PROVE  /\ texState' \in [Textures -> {"unloaded", "loading", "loaded"}]
         /\ texRequest' \in [Textures -> {"none", "queued", "done"}]
         /\ used' \in [Textures -> 0..(Width - 1)]
         /\ texture' \in [Objects -> Textures \cup {None}]
BY UnuseTexturesTypes DEF UnloadSets, TypeOK

LEMMA RegisteredObjects == ASSUME TypeOK PROVE Registered \in SUBSET Objects
BY DEF TypeOK, Registered

\* Whatever happens to ImageSets that exist, as long as they do.
LEMMA SameAlive ==
  ASSUME TypeOK, UNCHANGED <<held, registered>>,
         \A o \in Objects : (state'[o] = "none") = (state[o] = "none")
  PROVE  held' \cup Registered' = Alive'
BY DEF TypeOK, Registered, Alive

LEMMA UnloadedTypes ==
  ASSUME TypeOK, NEW objects \in SUBSET Alive, Unloaded(objects)
  PROVE  TypeOK'
<1>1. objects \in SUBSET Objects /\ \A o \in objects : state[o] # "none"
  BY DEF Alive
<1>2. held' \cup Registered' = Alive'
  BY <1>1, SameAlive DEF Unloaded
<1> QED
  BY <1>1, <1>2, UnloadSetsTypes DEF Unloaded, history, TypeOK

LEMMA DestroyTypes ==
  ASSUME TypeOK, NEW o \in Objects, Destroy(o)
  PROVE  /\ state' \in [Objects -> {"none", "unloaded", "loading", "loaded"}]
         /\ texture' \in [Objects -> Textures \cup {None}]
         /\ name' \in [Objects -> Names \cup {None}]
         /\ handle' \in [Objects -> Files \cup {None}]
         /\ lost' \in [Textures -> 0..MaxLost]
         /\ Alive' = Alive \ {o}
<1>1. lost' \in [Textures -> 0..MaxLost]
  <2>1. CASE texture[o] = None
    BY <2>1 DEF Destroy, TypeOK
  <2>2. CASE texture[o] # None
    <3>1. texture[o] \in Textures /\ lost[texture[o]] + 1 \in 0..MaxLost
      BY <2>2, ImageSetsAssumption DEF Destroy, TypeOK
    <3> QED
      BY <2>2, <3>1 DEF Destroy, TypeOK
  <2> QED
    BY <2>1, <2>2
<1>2. Alive' = Alive \ {o}
  BY DEF Destroy, Alive, TypeOK
<1> QED
  BY <1>1, <1>2 DEF Destroy, TypeOK

\* An ImageSet that nothing points to goes.
LEMMA DestroyKeeps ==
  ASSUME TypeOK, Handles, NEW o \in Objects, Destroy(o),
         \A f \in Files : registered'[f] # None => registered'[f] = registered[f] /\ registered[f] # o
  PROVE  Handles'
<1>1. /\ name' = [name EXCEPT ![o] = None]
      /\ handle' = [handle EXCEPT ![o] = None]
  BY DEF Destroy
<1>2. \A p \in Objects \ {o} : name'[p] = name[p] /\ handle'[p] = handle[p]
  BY <1>1 DEF TypeOK
<1>3. handle'[o] = None
  BY <1>1 DEF TypeOK
<1>4. \A f \in Files : registered[f] \in Objects \cup {None}
  BY DEF TypeOK
<1> QED
  BY <1>2, <1>3, <1>4 DEF Handles

LEMMA RemovedTypes ==
  ASSUME TypeOK, Handles, NEW o \in Objects, Removed(o)
  PROVE  TypeOK' /\ Handles'
<1> USE ImageSetsAssumption
<1>1. /\ UNCHANGED <<textureName, held, texVars, forced>>
      /\ imageSets' = [imageSets EXCEPT ![name[o]] = None]
  BY DEF Removed, EraseName
<1>2. imageSets' \in [Names -> Files \cup {None}]
  BY <1>1 DEF TypeOK
<1>3. PICK f : f = handle[o]
  OBVIOUS
<1>4. CASE f # None /\ registered[f] # None
  <2>1. f \in Files
    BY <1>3, <1>4 DEF TypeOK
  <2>2. PICK p : p = registered[f]
    OBVIOUS
  <2>3. p \in Objects /\ p \in Registered
    BY <1>4, <2>1, <2>2 DEF TypeOK, Registered
  <2>4. /\ registered' = [registered EXCEPT ![f] = None]
        /\ again' = again \ {f}
        /\ IF p \in held THEN UNCHANGED <<state, texture, name, handle, lost>> ELSE Destroy(p)
    BY <1>3, <1>4, <2>2 DEF Removed, Unregister
  <2>5. \A g \in Files : registered'[g] # None => registered'[g] = registered[g] /\ registered[g] # p
    BY <2>1, <2>2, <2>3, <2>4 DEF Handles, TypeOK
  <2>6. Registered' = Registered \ {p}
    <3>1. registered' \in [Files -> Objects \cup {None}] /\ registered \in [Files -> Objects \cup {None}]
      BY <2>4 DEF TypeOK
    <3>2. \A g \in Files \ {f} : registered'[g] = registered[g]
      BY <2>4 DEF TypeOK
    <3>3. registered'[f] = None
      BY <2>1, <2>4 DEF TypeOK
    <3>4. Registered' \subseteq Registered \ {p}
      BY <2>5 DEF Registered
    <3>5. Registered \ {p} \subseteq Registered'
      BY <2>2, <3>2 DEF Registered
    <3> QED
      BY <3>4, <3>5
  <2>7. registered' \in [Files -> Objects \cup {None}] /\ again' \subseteq Files
    BY <2>4 DEF TypeOK
  <2>8. CASE p \in held
    <3>1. UNCHANGED <<state, texture, name, handle, lost>>
      BY <2>4, <2>8
    <3>2. held' \cup Registered' = Alive'
      BY <1>1, <2>6, <2>8, <3>1 DEF TypeOK, Alive
    <3>3. TypeOK'
      BY <1>1, <1>2, <2>7, <3>1, <3>2 DEF TypeOK, texVars
    <3> QED
      BY <2>5, <3>1, <3>3 DEF Handles
  <2>9. CASE p \notin held
    <3>1. Destroy(p)
      BY <2>4, <2>9
    <3>2. held' \cup Registered' = Alive'
      BY <1>1, <2>3, <2>6, <2>9, <3>1, DestroyTypes DEF TypeOK
    <3>3. TypeOK'
      BY <1>1, <1>2, <2>3, <2>7, <3>1, <3>2, DestroyTypes DEF TypeOK, texVars
    <3> QED
      BY <2>3, <2>5, <3>1, <3>3, DestroyKeeps
  <2> QED
    BY <2>8, <2>9
<1>5. CASE ~(f # None /\ registered[f] # None)
  <2>1. /\ again' \subseteq Files
        /\ UNCHANGED <<registered, state, texture, name, handle, lost>>
    BY <1>3, <1>5 DEF Removed, Unregister, TypeOK
  <2>2. held' \cup Registered' = Alive'
    BY <1>1, <2>1 DEF TypeOK, Registered, Alive
  <2> QED
    BY <1>1, <1>2, <2>1, <2>2 DEF TypeOK, Handles, texVars
<1> QED
  BY <1>4, <1>5

LEMMA TypesStep == TypeOK /\ Handles /\ [Next]_vars => TypeOK' /\ Handles'
<1> SUFFICES ASSUME TypeOK, Handles, [Next]_vars
             PROVE  TypeOK' /\ Handles'
  OBVIOUS
<1> USE ImageSetsAssumption
<1>0. /\ Registered \in SUBSET Alive /\ held \in SUBSET Alive /\ Alive \in SUBSET Objects
      /\ \A o \in Alive : o \in Objects /\ state[o] # "none"
  BY RegisteredObjects DEF TypeOK, Alive
<1>1. ASSUME NEW f \in Files, LoadImageSet(f)
      PROVE  TypeOK' /\ Handles'
  <2> PICK o \in Objects, t \in Textures :
        /\ state[o] = "none"
        /\ LoadNow(o, t)
        /\ textureName' = [textureName EXCEPT ![o] = t]
        /\ held' = held \cup {o}
        /\ name' = [name EXCEPT ![o] = NameOf[f]]
        /\ IF registered[f] = None
           THEN /\ registered' = [registered EXCEPT ![f] = o]
                /\ handle' = [handle EXCEPT ![o] = f]
                /\ imageSets' = [imageSets EXCEPT ![NameOf[f]] = f]
                /\ UNCHANGED again
           ELSE /\ imageSets' = [imageSets EXCEPT ![NameOf[f]] = None]
                /\ handle' = [handle EXCEPT ![o] = None]
                /\ again' = again \cup {f}
                /\ UNCHANGED registered
    BY <1>1 DEF LoadImageSet
  <2>1. UNCHANGED <<forced, lost>>
    BY <1>1 DEF LoadImageSet
  <2>2. /\ state' = [state EXCEPT ![o] = "loaded"]
        /\ texture' = [texture EXCEPT ![o] = t]
    BY DEF LoadNow
  <2>3. Alive' = Alive \cup {o}
    BY <2>2 DEF Alive, TypeOK
  <2>4. registered' \in [Files -> Objects \cup {None}]
    BY DEF TypeOK
  <2>5. held' \cup Registered' = Alive'
    <3>1. Registered' \subseteq Registered \cup {o}
      BY DEF Registered, TypeOK
    <3>2. Registered \subseteq Registered'
      <4>1. \A g \in Files : registered[g] # None => registered'[g] = registered[g]
        BY DEF TypeOK
      <4> QED
        BY <4>1 DEF Registered
    <3> QED
      BY <2>3, <3>1, <3>2 DEF TypeOK
  <2>6. TypeOK'
    BY <2>1, <2>2, <2>4, <2>5, UseTextureTypes DEF LoadNow, TypeOK
  <2>7. \A g \in Files : registered[g] # o
    <3>1. o \notin Registered
      BY <1>0 
    <3> QED
      BY <3>1 DEF Registered
  <2>8. Handles'
    BY <2>7 DEF Handles, TypeOK
  <2> QED
    BY <2>6, <2>8
<1>2. ASSUME NEW f \in Files, Remove(f)
      PROVE  TypeOK' /\ Handles'
  <2>1. registered[f] \in Objects
    BY <1>2 DEF Remove, TypeOK
  <2> QED
    BY <1>2, <2>1, RemovedTypes DEF Remove
<1>3. ASSUME NEW n \in Names, GetImageSet(n)
      PROVE  TypeOK' /\ Handles'
  <2>1. Found(n) \in Registered
    BY <1>3 DEF GetImageSet, Found, Registered, TypeOK
  <2>2. /\ held' = held \cup {Found(n)}
        /\ UNCHANGED <<state, textureName, texture, name, handle, registered, imageSets,
                       texVars, history>>
    BY <1>3 DEF GetImageSet
  <2>3. held' \cup Registered' = Alive'
    BY <2>1, <2>2 DEF TypeOK, Registered, Alive
  <2>4. TypeOK'
    BY <2>2, <2>3 DEF texVars, history, TypeOK
  <2> QED
    BY <2>2, <2>4 DEF Handles
<1>4. ASSUME NEW o \in Objects, Drop(o)
      PROVE  TypeOK' /\ Handles'
  <2>1. /\ o \in held /\ held' = held \ {o}
        /\ UNCHANGED <<textureName, registered, imageSets, texVars, again, forced>>
    BY <1>4 DEF Drop
  <2>2. Registered' = Registered
    BY <2>1 DEF Registered
  <2>3. CASE o \in Registered
    <3>1. UNCHANGED <<state, texture, name, handle, lost>>
      BY <1>4, <2>3 DEF Drop
    <3>2. held' \cup Registered' = Alive'
      BY <2>1, <2>2, <2>3, <3>1 DEF TypeOK, Alive
    <3>3. TypeOK'
      BY <2>1, <3>1, <3>2 DEF texVars, TypeOK
    <3> QED
      BY <2>1, <3>1, <3>3 DEF Handles
  <2>4. CASE o \notin Registered
    <3>1. Destroy(o)
      BY <1>4, <2>4 DEF Drop
    <3>2. held' \cup Registered' = Alive'
      BY <2>1, <2>2, <2>4, <3>1, DestroyTypes DEF TypeOK
    <3>3. TypeOK'
      BY <2>1, <3>1, <3>2, DestroyTypes DEF texVars, TypeOK
    <3>4. \A f \in Files : registered'[f] # None => registered'[f] = registered[f] /\ registered[f] # o
      BY <2>1, <2>4 DEF Registered
    <3> QED
      BY <3>1, <3>3, <3>4, DestroyKeeps
  <2> QED
    BY <2>3, <2>4
<1>5. ASSUME NEW o \in Objects, RemoveHeld(o)
      PROVE  TypeOK' /\ Handles'
  BY <1>5, RemovedTypes DEF RemoveHeld
<1>6. ASSUME NEW objects \in SUBSET Alive, Unloaded(objects)
      PROVE  TypeOK' /\ Handles'
  BY <1>6, UnloadedTypes DEF Unloaded, Handles
<1>7. ASSUME NEW o \in Objects, Load(o)
      PROVE  TypeOK' /\ Handles'
  <2>1. textureName[o] \in Textures
    BY DEF TypeOK
  <2>2. /\ state[o] = "unloaded" /\ state' = [state EXCEPT ![o] = "loaded"]
        /\ texture' = [texture EXCEPT ![o] = textureName[o]]
        /\ UNCHANGED <<textureName, name, handle, held, registered, imageSets, history>>
    BY <1>7 DEF Load, LoadNow
  <2>3. held' \cup Registered' = Alive'
    BY <2>2, SameAlive DEF TypeOK
  <2>4. TypeOK'
    BY <1>7, <2>1, <2>2, <2>3, UseTextureTypes DEF Load, LoadNow, history, TypeOK
  <2> QED
    BY <2>2, <2>4 DEF Handles
<1>8. ASSUME NEW o \in Objects, Reload(o)
      PROVE  TypeOK' /\ Handles'
  <2>1. o \in Alive /\ state[o] # "none"
    BY <1>0, <1>8 DEF Reload
  <2>2. /\ state' = [state EXCEPT ![o] = "loading"]
        /\ UNCHANGED <<name, handle, held, registered, imageSets, history>>
    BY <1>8 DEF Reload
  <2>3. held' \cup Registered' = Alive'
    BY <2>1, <2>2, SameAlive DEF TypeOK
  <2>4. TypeOK'
    <3>1. CASE state[o] = "loaded"
      BY <1>8, <2>3, <3>1, UnloadSetsTypes DEF Reload, history, TypeOK
    <3>2. CASE state[o] # "loaded"
      BY <1>8, <2>3, <3>2 DEF Reload, texVars, history, TypeOK
    <3> QED
      BY <3>1, <3>2
  <2> QED
    BY <2>2, <2>4 DEF Handles
<1>9. ASSUME UNCHANGED <<setVars, history>>,
             /\ texState' \in [Textures -> {"unloaded", "loading", "loaded"}]
             /\ texRequest' \in [Textures -> {"none", "queued", "done"}]
             /\ used' \in [Textures -> 0..(Width - 1)]
      PROVE  TypeOK' /\ Handles'
  <2>1. held' \cup Registered' = Alive'
    BY <1>9, SameAlive DEF setVars
  <2>2. TypeOK'
    BY <1>9, <2>1 DEF setVars, history, TypeOK
  <2> QED
    BY <1>9, <2>2 DEF setVars, Handles
<1>10. ASSUME NEW t \in Textures, Bind(t)
       PROVE  TypeOK' /\ Handles'
  BY <1>9, <1>10, LoadTextureTypes DEF Bind, TypeOK
<1>11. ASSUME NEW t \in Textures, Finish(t)
       PROVE  TypeOK' /\ Handles'
  BY <1>9, <1>11 DEF Finish, TypeOK
<1>12. ASSUME NEW t \in Textures, UnloadTexture(t)
       PROVE  TypeOK' /\ Handles'
  <2>1. held' \cup Registered' = Alive'
    BY <1>12, SameAlive DEF UnloadTexture, setVars
  <2>2. TypeOK'
    BY <1>12, <2>1 DEF UnloadTexture, setVars, TypeOK
  <2> QED
    BY <1>12, <2>2 DEF UnloadTexture, setVars, Handles
<1>13. ASSUME UNCHANGED vars
       PROVE  TypeOK' /\ Handles'
  BY <1>9, <1>13 DEF vars, texVars, TypeOK
<1>14. ASSUME NEW o \in Objects, Unload(o)
       PROVE  TypeOK' /\ Handles'
  <2>1. {o} \in SUBSET Alive /\ Unloaded({o})
    BY <1>0, <1>14 DEF Unload
  <2> QED
    BY <1>6, <2>1
<1>15. ASSUME UnloadAll \/ UnloadUnused
       PROVE  TypeOK' /\ Handles'
  <2>1. Registered \in SUBSET Alive /\ Registered \ held \in SUBSET Alive
    BY <1>0
  <2> QED
    BY <1>6, <1>15, <2>1 DEF UnloadAll, UnloadUnused
<1> QED
  BY <1>1, <1>2, <1>3, <1>4, <1>5, <1>7, <1>8, <1>10, <1>11, <1>12, <1>13, <1>14, <1>15
     DEF Next

\* The variables keep their types, and an ImageSet exists exactly as long as the
\* application or the maps of the manager point to it, whatever was registered,
\* loaded once more, removed or dropped.
THEOREM TypeCorrect == Spec => []TypeOK
BY TypesInit, TypesStep, PTL DEF Spec

-----------------------------------------------------------------------------
(* The count.                                                              *)

\* Only a loaded ImageSet holds a texture.
HoldersLoaded == \A o \in Objects : texture[o] # None => state[o] = "loaded"

CountInv == TypeOK /\ Handles /\ HoldersLoaded /\ CountIsUsers

LEMMA CountInit == Init => CountInv
<1> SUFFICES ASSUME Init
             PROVE  CountInv
  OBVIOUS
<1>1. ASSUME NEW t \in Textures
      PROVE  Users(t) = {}
  BY <1>1, ImageSetsAssumption DEF Init, Users
<1>2. ASSUME NEW t \in Textures
      PROVE  used[t] = Cardinality(Users(t)) + lost[t]
  <2>1. Cardinality(Users(t)) = 0
    BY <1>1, FS_EmptySet
  <2>2. used[t] = 0 /\ lost[t] = 0
    BY DEF Init
  <2> QED
    BY <2>1, <2>2
<1> QED
  BY <1>2, TypesInit DEF Init, CountInv, CountIsUsers, HoldersLoaded

\* An object that held nothing becomes one more user of t.
LEMMA LoadNowCounts ==
  ASSUME CountInv, NEW o \in Objects, NEW t \in Textures, texture[o] = None, LoadNow(o, t),
         UNCHANGED lost
  PROVE  HoldersLoaded' /\ CountIsUsers'
<1> USE DEF CountInv
<1>1. texture' = [texture EXCEPT ![o] = t] /\ state' = [state EXCEPT ![o] = "loaded"]
  BY DEF LoadNow
<1>2. HoldersLoaded'
  BY <1>1 DEF HoldersLoaded, TypeOK
<1>3. ASSUME NEW u \in Textures
      PROVE  used'[u] = Cardinality(Users(u)') + lost[u]
  <2>1. Users(u) \in SUBSET Objects /\ o \notin Users(u)
    BY ImageSetsAssumption DEF Users
  <2>2. IsFiniteSet(Users(u)) /\ Cardinality(Users(u)) \in Nat
    BY <2>1, SubsetsCounted
  <2>3. used[u] = Cardinality(Users(u)) + lost[u] /\ lost[u] \in 0..MaxLost
    BY DEF CountIsUsers, TypeOK
  <2>4. CASE u = t
    <3>1. Users(u)' = Users(u) \cup {o}
      BY <1>1, <2>4 DEF Users, TypeOK
    <3>2. Cardinality(Users(u)') + lost[u] = used[u] + 1
      <4>1. Cardinality(Users(u) \cup {o}) = Cardinality(Users(u)) + 1
        BY <2>1, <2>2, FS_AddElement
      <4> QED
        BY <4>1, <3>1, <2>2, <2>3, ImageSetsAssumption
    <3>3. Users(u)' \in SUBSET Objects
      BY <3>1, <2>1
    <3>4. used[u] + 1 < Width
      BY <2>3, <3>2, <3>3, UsesCounted
    <3>5. used'[u] = (used[u] + 1) % Width
      BY <2>4 DEF LoadNow, UseTexture, TypeOK
    <3>6. (used[u] + 1) % Width = used[u] + 1
      <4>1. used[u] + 1 \in Nat
        BY <2>2, <2>3, ImageSetsAssumption
      <4> HIDE DEF CountInv
      <4> QED
        BY <4>1, <3>4, ModSmall, WidthPositive
    <3> QED
      BY <3>2, <3>5, <3>6
  <2>5. CASE u # t
    <3>1. Users(u)' = Users(u)
      BY <1>1, <2>5, ImageSetsAssumption DEF Users, TypeOK
    <3>2. used'[u] = used[u]
      BY <2>5 DEF LoadNow, UseTexture, TypeOK
    <3> QED
      BY <3>1, <3>2, <2>3
  <2> QED
    BY <2>4, <2>5
<1> QED
  BY <1>2, <1>3 DEF CountIsUsers

\* What a set of objects gives up is taken from the count, which is not less.
LEMMA UnloadSetsCounts ==
  ASSUME CountInv, NEW objects \in SUBSET Objects, UnloadSets(objects), UNCHANGED lost,
         NEW t \in Textures
  PROVE  /\ GivenUp(t, objects) \in Nat /\ GivenUp(t, objects) <= used[t]
         /\ used'[t] = used[t] - GivenUp(t, objects)
         /\ used'[t] = Cardinality(Users(t)') + lost'[t]
<1> DEFINE G == {o \in objects : texture[o] = t}
<1> USE DEF CountInv
<1>1. used[t] = Cardinality(Users(t)) + lost[t] /\ lost[t] \in 0..MaxLost
  BY DEF CountIsUsers, TypeOK
<1>2. Users(t) \in SUBSET Objects /\ G \in SUBSET Users(t)
  BY DEF Users
<1>3. /\ IsFiniteSet(Users(t)) /\ Cardinality(Users(t)) \in Nat
      /\ Cardinality(Users(t)) < Width
  BY <1>2, SubsetsCounted
<1>3a. used[t] \in Nat /\ used[t] < Width
  BY <1>1, <1>2, UsesCounted
<1>4. Cardinality(G) \in Nat /\ Cardinality(G) <= Cardinality(Users(t))
  BY <1>2, <1>3, FS_Subset, FS_CardinalityType
<1>5. GivenUp(t, objects) = Cardinality(G)
  BY DEF GivenUp
<1>6. used'[t] = (used[t] + Width - GivenUp(t, objects)) % Width
  BY DEF UnloadSets, UnuseTextures, Decremented
<1>7. used[t] - GivenUp(t, objects) \in Nat /\ used[t] - GivenUp(t, objects) < Width
  BY <1>1, <1>3, <1>3a, <1>4, <1>5, WidthPositive, ImageSetsAssumption
<1>8. used[t] + Width - GivenUp(t, objects) = (used[t] - GivenUp(t, objects)) + Width
  BY <1>1, <1>3, <1>3a, <1>4, <1>5, WidthPositive, ImageSetsAssumption
<1>9. used'[t] = used[t] - GivenUp(t, objects)
  BY <1>6, <1>7, <1>8, ModSmall, WidthPositive
<1>10. Users(t)' = Users(t) \ G
  <2>1. None # t
    BY ImageSetsAssumption
  <2> QED
    BY <2>1 DEF UnloadSets, Users
<1>11. Users(t) \cap G = G
  BY <1>2
<1>12. Cardinality(Users(t)') = Cardinality(Users(t)) - Cardinality(G)
  BY <1>3, <1>10, <1>11, FS_Difference
<1> QED
  BY <1>1, <1>3, <1>4, <1>5, <1>9, <1>12, ImageSetsAssumption

LEMMA UnloadSetsCountInv ==
  ASSUME CountInv, NEW objects \in SUBSET Objects, UnloadSets(objects), UNCHANGED lost,
         \A o \in Objects \ objects : state'[o] = state[o]
  PROVE  HoldersLoaded' /\ CountIsUsers'
<1>1. HoldersLoaded'
  BY DEF UnloadSets, CountInv, HoldersLoaded
<1>2. CountIsUsers'
  BY UnloadSetsCounts DEF CountIsUsers
<1> QED
  BY <1>1, <1>2

LEMMA UnloadedCountInv ==
  ASSUME CountInv, NEW objects \in SUBSET Objects, Unloaded(objects)
  PROVE  HoldersLoaded' /\ CountIsUsers'
BY UnloadSetsCountInv DEF Unloaded, history

LEMMA SameHoldersCountInv ==
  ASSUME CountInv, UNCHANGED <<state, texture, used, lost>>
  PROVE  HoldersLoaded' /\ CountIsUsers'
BY DEF CountInv, HoldersLoaded, CountIsUsers, Users

\* An ImageSet that is destroyed while it holds a texture is one user less, and one
\* more that is lost.
LEMMA DestroyCountInv ==
  ASSUME CountInv, NEW o \in Objects, Destroy(o), UNCHANGED used
  PROVE  HoldersLoaded' /\ CountIsUsers'
<1> USE DEF CountInv
<1>1. /\ texture' = [texture EXCEPT ![o] = None]
      /\ state' = [state EXCEPT ![o] = "none"]
  BY DEF Destroy
<1>2. HoldersLoaded'
  BY <1>1 DEF HoldersLoaded, TypeOK
<1>3. ASSUME NEW t \in Textures
      PROVE  used[t] = Cardinality(Users(t)') + lost'[t]
  <2>1. Users(t) \in SUBSET Objects
    BY DEF Users
  <2>2. IsFiniteSet(Users(t)) /\ Cardinality(Users(t)) \in Nat
    BY <2>1, SubsetsCounted
  <2>3. used[t] = Cardinality(Users(t)) + lost[t] /\ lost[t] \in 0..MaxLost
    BY DEF CountIsUsers, TypeOK
  <2>4. CASE texture[o] = t
    <3>1. o \in Users(t) /\ Users(t)' = Users(t) \ {o}
      BY <1>1, <2>4, ImageSetsAssumption DEF Users, TypeOK
    <3>2. Cardinality(Users(t)') = Cardinality(Users(t)) - 1
      BY <2>2, <3>1, FS_RemoveElement
    <3>3. lost'[t] = lost[t] + 1
      BY <2>4, ImageSetsAssumption DEF Destroy, TypeOK
    <3> QED
      BY <2>2, <2>3, <3>2, <3>3, ImageSetsAssumption
  <2>5. CASE texture[o] # t
    <3>1. Users(t)' = Users(t)
      BY <1>1, <2>5, ImageSetsAssumption DEF Users, TypeOK
    <3>2. lost'[t] = lost[t]
      BY <2>5 DEF Destroy, TypeOK
    <3> QED
      BY <2>3, <3>1, <3>2
  <2> QED
    BY <2>4, <2>5
<1> QED
  BY <1>2, <1>3 DEF CountIsUsers

LEMMA CountStep == CountInv /\ [Next]_vars => CountInv'
<1> SUFFICES ASSUME CountInv, [Next]_vars
             PROVE  HoldersLoaded' /\ CountIsUsers'
  BY TypesStep DEF CountInv
<1>0. TypeOK /\ HoldersLoaded /\ Registered \in SUBSET Objects
  BY RegisteredObjects DEF CountInv
<1>1. ASSUME NEW f \in Files, LoadImageSet(f)
      PROVE  HoldersLoaded' /\ CountIsUsers'
  <2> PICK o \in Objects, t \in Textures : state[o] = "none" /\ LoadNow(o, t)
    BY <1>1 DEF LoadImageSet
  <2>1. texture[o] = None /\ UNCHANGED lost
    BY <1>0, <1>1 DEF HoldersLoaded, LoadImageSet
  <2> QED
    BY <2>1, LoadNowCounts
<1>2. ASSUME NEW o \in Objects, Removed(o)
      PROVE  HoldersLoaded' /\ CountIsUsers'
  <2> PICK f : f = handle[o]
    OBVIOUS
  <2>1. UNCHANGED used
    BY <1>2 DEF Removed, texVars
  <2>2. CASE f # None /\ registered[f] # None
    <3>1. registered[f] \in Objects
      BY <1>0, <2>2 DEF TypeOK
    <3>2. \/ UNCHANGED <<state, texture, lost>>
          \/ Destroy(registered[f])
      BY <1>2, <2>2 DEF Removed, Unregister
    <3> QED
      BY <2>1, <3>1, <3>2, DestroyCountInv, SameHoldersCountInv
  <2>3. CASE ~(f # None /\ registered[f] # None)
    BY <1>2, <2>1, <2>3, SameHoldersCountInv DEF Removed, Unregister
  <2> QED
    BY <2>2, <2>3
<1>11. ASSUME (\E f \in Files : Remove(f)) \/ (\E o \in Objects : RemoveHeld(o))
       PROVE  HoldersLoaded' /\ CountIsUsers'
  BY <1>0, <1>2, <1>11 DEF Remove, RemoveHeld, TypeOK
<1>3. ASSUME NEW n \in Names, GetImageSet(n)
      PROVE  HoldersLoaded' /\ CountIsUsers'
  BY <1>3, SameHoldersCountInv DEF GetImageSet, texVars, history
<1>4. ASSUME NEW o \in Objects, Drop(o)
      PROVE  HoldersLoaded' /\ CountIsUsers'
  BY <1>4, DestroyCountInv, SameHoldersCountInv DEF Drop, texVars
<1>5. ASSUME NEW o \in Objects, Unload(o)
      PROVE  HoldersLoaded' /\ CountIsUsers'
  BY <1>5, UnloadedCountInv DEF Unload
<1>6. ASSUME NEW o \in Objects, Load(o)
      PROVE  HoldersLoaded' /\ CountIsUsers'
  BY <1>0, <1>6, LoadNowCounts DEF Load, HoldersLoaded, history, TypeOK
<1>7. ASSUME NEW o \in Objects, Reload(o)
      PROVE  HoldersLoaded' /\ CountIsUsers'
  <2>1. \A p \in Objects \ {o} : state'[p] = state[p]
    BY <1>0, <1>7 DEF Reload, TypeOK
  <2>2. CASE state[o] = "loaded"
    BY <1>7, <2>1, <2>2, UnloadSetsCountInv DEF Reload, history
  <2>3. CASE state[o] # "loaded"
    <3>1. UNCHANGED <<texture, used, lost>> /\ texture[o] = None
      BY <1>0, <1>7, <2>3 DEF Reload, texVars, history, HoldersLoaded
    <3>2. HoldersLoaded'
      BY <1>0, <2>1, <3>1 DEF HoldersLoaded
    <3>3. CountIsUsers'
      BY <3>1 DEF CountInv, CountIsUsers, Users
    <3> QED
      BY <3>2, <3>3
  <2> QED
    BY <2>2, <2>3
<1>8. ASSUME UnloadAll \/ UnloadUnused
      PROVE  HoldersLoaded' /\ CountIsUsers'
  BY <1>0, <1>8, UnloadedCountInv DEF UnloadAll, UnloadUnused
<1>9. ASSUME NEW t \in Textures, Bind(t) \/ Finish(t) \/ UnloadTexture(t)
      PROVE  HoldersLoaded' /\ CountIsUsers'
  BY <1>9, SameHoldersCountInv DEF Bind, Finish, UnloadTexture, setVars, history
<1>10. ASSUME UNCHANGED vars
       PROVE  HoldersLoaded' /\ CountIsUsers'
  BY <1>10, SameHoldersCountInv DEF vars, setVars, texVars, history
<1> QED
  BY <1>1, <1>3, <1>4, <1>5, <1>6, <1>7, <1>8, <1>9, <1>10, <1>11 DEF Next

\* The counter of a texture is the number of image sets that hold it and of those
\* that were destroyed while they did.
THEOREM CounterIsExact == Spec => []CountIsUsers
<1>1. CountInv /\ [Next]_vars => CountInv'
  BY CountStep
<1>2. CountInv => CountIsUsers
  BY DEF CountInv
<1> QED
  BY CountInit, <1>1, <1>2, PTL DEF Spec

-----------------------------------------------------------------------------
(* The textures follow the count.                                          *)

LoadedInv == CountInv /\ LoadedWhileUsed

LEMMA LoadTextureLoads ==
  ASSUME TypeOK, NEW t \in Textures, LoadTexture(t)
  PROVE  texState'[t] # "unloaded" /\ \A u \in Textures \ {t} : texState'[u] = texState[u]
BY DEF LoadTexture, TypeOK

LEMMA UseTextureLoads ==
  ASSUME LoadedInv, NEW o \in Objects, NEW t \in Textures, texture[o] = None, LoadNow(o, t),
         UNCHANGED <<forced, lost>>
  PROVE  LoadedWhileUsed'
<1>1. used'[t] # 0
  <2>1. Users(t)' \in SUBSET Objects /\ o \in Users(t)'
    BY DEF LoadNow, Users, LoadedInv, CountInv, TypeOK
  <2>2. Cardinality(Users(t)') # 0
    BY <2>1, SubsetsCounted, FS_EmptySet
  <2>3. used'[t] = Cardinality(Users(t)') + lost[t] /\ lost[t] \in 0..MaxLost
    BY LoadNowCounts DEF LoadedInv, CountInv, CountIsUsers, TypeOK
  <2>4. Cardinality(Users(t)') \in Nat
    BY <2>1, SubsetsCounted
  <2> QED
    BY <2>2, <2>3, <2>4, ImageSetsAssumption
<1>2. \A u \in Textures \ {t} : used'[u] = used[u]
  BY DEF LoadNow, UseTexture, LoadedInv, CountInv, TypeOK
<1>3. texState'[t] # "unloaded" /\ \A u \in Textures \ {t} : texState'[u] = texState[u]
  BY LoadTextureLoads DEF LoadNow, UseTexture, LoadedInv, CountInv
<1> QED
  BY <1>1, <1>2, <1>3 DEF LoadedInv, LoadedWhileUsed

LEMMA UnloadSetsLoads ==
  ASSUME LoadedInv, NEW objects \in SUBSET Objects, UnloadSets(objects),
         UNCHANGED <<forced, lost>>
  PROVE  LoadedWhileUsed'
<1>1. ASSUME NEW t \in Textures \ forced
      PROVE  texState'[t] = "unloaded" <=> used'[t] = 0
  <2>1. /\ used[t] \in Nat /\ GivenUp(t, objects) \in Nat
        /\ GivenUp(t, objects) <= used[t]
        /\ used'[t] = used[t] - GivenUp(t, objects)
    BY UnloadSetsCounts DEF LoadedInv, CountInv, TypeOK
  <2>2. texState'[t] = IF LastUse(t, objects) THEN "unloaded" ELSE texState[t]
    BY DEF UnloadSets, UnuseTextures
  <2>3. texState[t] = "unloaded" <=> used[t] = 0
    BY DEF LoadedInv, LoadedWhileUsed
  <2>4. LastUse(t, objects) <=> used[t] = GivenUp(t, objects) /\ used[t] # 0
    BY <2>1 DEF LastUse
  <2> QED
    BY <2>1, <2>2, <2>3, <2>4
<1> QED
  BY <1>1 DEF LoadedWhileUsed

\* What is bound has a user, so that loading it is right.
LEMMA BindLoads ==
  ASSUME LoadedInv, NEW t \in Textures, Bind(t)
  PROVE  LoadedWhileUsed'
<1>1. PICK o \in held \cup Registered : texture[o] = t
  BY DEF Bind
<1>2. o \in Objects
  BY DEF LoadedInv, CountInv, TypeOK, Alive
<1>3. Users(t) \in SUBSET Objects /\ o \in Users(t)
  BY <1>1, <1>2 DEF Users
<1>4. used[t] # 0
  <2>1. Cardinality(Users(t)) \in Nat /\ Cardinality(Users(t)) # 0
    BY <1>3, SubsetsCounted, FS_EmptySet
  <2>2. used[t] = Cardinality(Users(t)) + lost[t] /\ lost[t] \in 0..MaxLost
    BY DEF LoadedInv, CountInv, CountIsUsers, TypeOK
  <2> QED
    BY <2>1, <2>2, ImageSetsAssumption
<1>5. texState'[t] # "unloaded" /\ \A u \in Textures \ {t} : texState'[u] = texState[u]
  BY LoadTextureLoads DEF Bind, LoadedInv, CountInv
<1> QED
  BY <1>4, <1>5 DEF Bind, history, LoadedInv, LoadedWhileUsed

LEMMA LoadedStep == LoadedInv /\ [Next]_vars => LoadedWhileUsed'
<1> SUFFICES ASSUME LoadedInv, [Next]_vars
             PROVE  LoadedWhileUsed'
  OBVIOUS
<1>0. TypeOK /\ HoldersLoaded /\ Registered \in SUBSET Objects
  BY RegisteredObjects DEF LoadedInv, CountInv
<1>1. ASSUME NEW f \in Files, LoadImageSet(f)
      PROVE  LoadedWhileUsed'
  <2> PICK o \in Objects, t \in Textures : state[o] = "none" /\ LoadNow(o, t)
    BY <1>1 DEF LoadImageSet
  <2>1. texture[o] = None /\ UNCHANGED <<forced, lost>>
    BY <1>0, <1>1 DEF HoldersLoaded, LoadImageSet
  <2> QED
    BY <2>1, UseTextureLoads
<1>2. ASSUME NEW o \in Objects, Load(o)
      PROVE  LoadedWhileUsed'
  BY <1>0, <1>2, UseTextureLoads DEF Load, HoldersLoaded, history, TypeOK
<1>3. ASSUME NEW o \in Objects, Unload(o) \/ Reload(o)
      PROVE  LoadedWhileUsed'
  BY <1>3, UnloadSetsLoads
     DEF Unload, Unloaded, Reload, texVars, history, LoadedInv, LoadedWhileUsed
<1>4. ASSUME UnloadAll \/ UnloadUnused
      PROVE  LoadedWhileUsed'
  BY <1>0, <1>4, UnloadSetsLoads DEF UnloadAll, UnloadUnused, Unloaded, history
<1>5. ASSUME NEW t \in Textures, Bind(t)
      PROVE  LoadedWhileUsed'
  BY <1>5, BindLoads
<1>6. CASE UNCHANGED <<texState, used, forced>>
  BY <1>6 DEF LoadedInv, LoadedWhileUsed
<1>8. ASSUME NEW t \in Textures, UnloadTexture(t)
      PROVE  LoadedWhileUsed'
  BY <1>0, <1>8 DEF UnloadTexture, LoadedInv, LoadedWhileUsed, TypeOK
<1>7. \/ UNCHANGED <<texState, used, forced>>
      \/ \E f \in Files : LoadImageSet(f)
      \/ \E o \in Objects : Load(o) \/ Unload(o) \/ Reload(o)
      \/ UnloadAll \/ UnloadUnused
      \/ \E t \in Textures : Bind(t) \/ UnloadTexture(t)
  BY DEF Next, vars, texVars, setVars, history, Remove, RemoveHeld, Removed, GetImageSet, Drop, Finish
<1> QED
  BY <1>1, <1>2, <1>3, <1>4, <1>5, <1>6, <1>7, <1>8

\* A texture that the application does not unload by itself is loaded, or about to
\* be, exactly while it is counted.
THEOREM LoadedExactlyWhileUsed == Spec => []LoadedWhileUsed
<1>1. Init => LoadedInv
  BY CountInit DEF Init, LoadedInv, LoadedWhileUsed
<1>2. LoadedInv /\ [Next]_vars => LoadedInv'
  BY CountStep, LoadedStep DEF LoadedInv
<1>3. LoadedInv => LoadedWhileUsed
  BY DEF LoadedInv
<1> QED
  BY <1>1, <1>2, <1>3, PTL DEF Spec

-----------------------------------------------------------------------------
(* The names.                                                              *)

NamesDiffer == \A f, g \in Files : NameOf[f] = NameOf[g] => f = g

\* m_imageSets has nothing but the handle of a registered file under its name, and
\* has it while the file is registered, was not loaded once more, and no other
\* ImageSet of it was removed.
NamesInv ==
  /\ \A n \in Names : imageSets[n] # None => NameOf[imageSets[n]] = n
  /\ \A f \in Files : imageSets[NameOf[f]] = f => registered[f] # None
  /\ \A f \in Files \ again : registered[f] # None => imageSets[NameOf[f]] = f

\* What is removed takes its name away, and no other: the name of a file that stays
\* registered goes only with an ImageSet that was not the registered one.
LEMMA RemovedNames ==
  ASSUME NamesDiffer, TypeOK, Handles, NamesInv, NEW o \in Objects, Removed(o)
  PROVE  NamesInv'
<1> USE ImageSetsAssumption
<1>1. imageSets' = [imageSets EXCEPT ![name[o]] = None]
  BY DEF Removed, EraseName
<1>2. \A n \in Names : imageSets'[n] = IF n = name[o] THEN None ELSE imageSets[n]
  BY <1>1 DEF TypeOK
<1>3. PICK f : f = handle[o]
  OBVIOUS
<1>4. CASE f # None /\ registered[f] # None
  <2>1. f \in Files /\ name[o] = NameOf[f]
    BY <1>3, <1>4 DEF TypeOK, Handles
  <2>2. registered' = [registered EXCEPT ![f] = None] /\ again' = again \ {f}
    BY <1>3, <1>4 DEF Removed, Unregister
  <2>3. \A g \in Files : registered'[g] = IF g = f THEN None ELSE registered[g]
    BY <2>2 DEF TypeOK
  <2>4. \A g \in Files \ {f} : NameOf[g] # name[o] /\ NameOf[g] \in Names
    BY <2>1 DEF NamesDiffer
  <2> QED
    BY <1>2, <2>1, <2>2, <2>3, <2>4 DEF NamesInv
<1>5. CASE ~(f # None /\ registered[f] # None)
  <2>1. /\ again' = again \cup {g \in Files : NameOf[g] = name[o] /\ registered[g] # None}
        /\ UNCHANGED registered
    BY <1>3, <1>5 DEF Removed, Unregister
  <2>2. \A g \in Files : NameOf[g] \in Names
    OBVIOUS
  <2> QED
    BY <1>2, <2>1, <2>2 DEF NamesInv
<1> QED
  BY <1>4, <1>5

LEMMA NamesStep ==
  ASSUME NamesDiffer, TypeOK, Handles, NamesInv, [Next]_vars
  PROVE  NamesInv'
<1> USE ImageSetsAssumption
<1>1. ASSUME NEW f \in Files, LoadImageSet(f)
      PROVE  NamesInv'
  <2>1. CASE registered[f] = None
    <3> PICK o \in Objects : /\ registered' = [registered EXCEPT ![f] = o]
                             /\ imageSets' = [imageSets EXCEPT ![NameOf[f]] = f]
                             /\ UNCHANGED again
      BY <1>1, <2>1 DEF LoadImageSet
    <3> QED
      BY DEF NamesDiffer, NamesInv, TypeOK
  <2>2. CASE registered[f] # None
    <3>1. /\ imageSets' = [imageSets EXCEPT ![NameOf[f]] = None]
          /\ again' = again \cup {f}
          /\ UNCHANGED registered
      BY <1>1, <2>2 DEF LoadImageSet
    <3> QED
      BY <3>1 DEF NamesDiffer, NamesInv, TypeOK
  <2> QED
    BY <2>1, <2>2
<1>2. ASSUME NEW f \in Files, Remove(f)
      PROVE  NamesInv'
  <2>1. registered[f] \in Objects
    BY <1>2 DEF Remove, TypeOK
  <2> QED
    BY <1>2, <2>1, RemovedNames DEF Remove
<1>3. ASSUME NEW o \in Objects, RemoveHeld(o)
      PROVE  NamesInv'
  BY <1>3, RemovedNames DEF RemoveHeld
<1>4. CASE UNCHANGED <<registered, imageSets, again>>
  BY <1>4 DEF NamesInv
<1>5. \/ UNCHANGED <<registered, imageSets, again>>
      \/ \E f \in Files : LoadImageSet(f) \/ Remove(f)
      \/ \E o \in Objects : RemoveHeld(o)
  BY DEF Next, vars, setVars, history, GetImageSet, Drop, Unload, Load, Reload, UnloadAll,
         UnloadUnused, Unloaded, Bind, Finish, UnloadTexture
<1> QED
  BY <1>1, <1>2, <1>3, <1>4, <1>5

\* When no two files have the same name, getImageSet finds what is registered, until
\* its file is loaded once more or another ImageSet of that file is removed.
THEOREM NamesFindRegistered ==
  ASSUME NamesDiffer PROVE Spec => []RegisteredIsFound
<1>1. Init => NamesInv
  BY ImageSetsAssumption DEF Init, NamesInv
<1>2. TypeOK /\ Handles /\ NamesInv /\ [Next]_vars => NamesInv'
  BY NamesStep
<1>3. TypeOK /\ NamesInv => RegisteredIsFound
  BY ImageSetsAssumption DEF TypeOK, NamesInv, NamesDiffer, RegisteredIsFound, Found
<1> QED
  BY TypesInit, TypesStep, <1>1, <1>2, <1>3, PTL DEF Spec
=============================================================================
