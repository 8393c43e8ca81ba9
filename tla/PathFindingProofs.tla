-------------------------- MODULE PathFindingProofs --------------------------
(***************************************************************************)
(* Proofs about NavSearch, for every graph, cost function and request, and *)
(* about PathFinding, for any number of first steps too.  A request does   *)
(* nothing to its search that the search would not do by itself, but for   *)
(* GeneratePath, which puts another path in the place of the search's, so  *)
(* the invariant of the search is kept by a request.                       *)
(***************************************************************************)
EXTENDS PathFinding, DistinctSeqs, FiniteSetTheorems

(***************************************************************************)
(* Links have two ends.                                                    *)
(***************************************************************************)
LEMMA OtherEnd ==
  ASSUME NavSearchAssumption, NEW l \in Links, NEW n \in l
  PROVE  /\ n \in Nodes
         /\ OtherNode(l, n) \in l /\ OtherNode(l, n) \in Nodes /\ OtherNode(l, n) # n
         /\ l = {n, OtherNode(l, n)}
<1>1. PICK a \in Nodes, b \in Nodes : a # b /\ l = {a, b}
  BY DEF NavSearchAssumption
<1>2. \E m \in l : m # n
  BY <1>1
<1>3. OtherNode(l, n) \in l /\ OtherNode(l, n) # n
  BY <1>2 DEF OtherNode
<1> QED
  BY <1>1, <1>3

(***************************************************************************)
(* The open list.                                                          *)
(***************************************************************************)
Sorted(l, f) == \A i, j \in 1..Len(l) : i < j => f[l[i]] <= f[l[j]]

LEMMA PlaceInOrder ==
  ASSUME NEW l \in Seq(Nodes), NEW f \in [Nodes -> Int], NEW n \in Nodes
  PROVE  /\ Place(l, f, n) \in 1..(Len(l) + 1)
         /\ \A i \in 1..Len(l) : i < Place(l, f, n) => f[l[i]] <= f[n]
         /\ Place(l, f, n) <= Len(l) => f[l[Place(l, f, n)]] > f[n]
<1> DEFINE more == {i \in 1..Len(l) : f[l[i]] > f[n]}
<1>1. Len(l) \in Nat /\ \A i \in 1..Len(l) : l[i] \in Nodes /\ f[l[i]] \in Int
  OBVIOUS
<1>2. CASE more = {}
  BY <1>1, <1>2 DEF Place
<1>3. CASE more # {}
  <2>1. Min(more) \in more /\ \A i \in more : Min(more) <= i
    BY <1>1, <1>3, LeastIndex
  <2>2. Place(l, f, n) = Min(more)
    BY <1>3 DEF Place
  <2> DEFINE p == Place(l, f, n)
  <2>3. p \in 1..Len(l) /\ f[l[p]] > f[n]
    BY <2>1, <2>2
  <2>4. ASSUME NEW i \in 1..Len(l), i < p
        PROVE  f[l[i]] <= f[n]
    <3>1. i \notin more
      BY <1>1, <2>1, <2>2, <2>3, <2>4
    <3> QED
      BY <1>1, <3>1
  <2> HIDE DEF p
  <2>5. p \in 1..(Len(l) + 1) /\ p <= Len(l)
    BY <1>1, <2>3
  <2> QED
    BY <2>3, <2>4, <2>5 DEF p
<1> QED
  BY <1>2, <1>3

\* insertToList keeps the order of the list
LEMMA InsertedInOrder ==
  ASSUME NEW l \in Seq(Nodes), NEW f \in [Nodes -> Int], NEW n \in Nodes,
         IsInjective(l), n \notin ToSet(l)
  PROVE  /\ Inserted(l, f, n) \in Seq(Nodes)
         /\ ToSet(Inserted(l, f, n)) = ToSet(l) \cup {n}
         /\ IsInjective(Inserted(l, f, n))
         /\ Sorted(l, f) => Sorted(Inserted(l, f, n), f)
<1> DEFINE p == Place(l, f, n)
           r == Inserted(l, f, n)
<1>1. /\ p \in 1..(Len(l) + 1)
      /\ \A i \in 1..Len(l) : i < p => f[l[i]] <= f[n]
      /\ p <= Len(l) => f[l[p]] > f[n]
  BY PlaceInOrder
<1>2. /\ r \in Seq(Nodes) /\ Len(r) = Len(l) + 1
      /\ \A j \in 1..(Len(l) + 1) : r[j] = IF j < p THEN l[j] ELSE IF j = p THEN n ELSE l[j - 1]
      /\ ToSet(r) = ToSet(l) \cup {n} /\ IsInjective(r)
  <2>1. r = InsertAt(l, p, n)
    BY DEF Inserted
  <2> HIDE DEF p, r
  <2>2. p \in 1..(Len(l) + 1)
    BY <1>1
  <2>3. r \in Seq(Nodes) /\ Len(r) = Len(l) + 1
    BY <2>1, <2>2, ToSetInsertAt
  <2>4. \A j \in 1..(Len(l) + 1) :
          InsertAt(l, p, n)[j] = IF j < p THEN l[j] ELSE IF j = p THEN n ELSE l[j - 1]
    BY <2>2, ToSetInsertAt
  <2>5. ToSet(r) = ToSet(l) \cup {n} /\ (IsInjective(l) /\ n \notin ToSet(l) => IsInjective(r))
    BY <2>1, <2>2, ToSetInsertAt
  <2> QED
    BY <2>1, <2>3, <2>4, <2>5
<1>3. Len(l) \in Nat /\ \A i \in 1..Len(l) : l[i] \in Nodes /\ f[l[i]] \in Int
  OBVIOUS
<1> HIDE DEF p, r
<1>4. ASSUME Sorted(l, f), NEW i \in 1..Len(r), NEW j \in 1..Len(r), i < j
      PROVE  f[r[i]] <= f[r[j]]
  <2>1. \A k \in 1..Len(l) : k >= p => f[l[k]] > f[n]
    BY <1>1, <1>3, <1>4 DEF Sorted
  <2>2. CASE j < p
    <3>1. r[i] = l[i] /\ r[j] = l[j] /\ i \in 1..Len(l) /\ j \in 1..Len(l)
      BY <1>1, <1>2, <1>3, <1>4, <2>2
    <3> QED
      BY <1>4, <3>1 DEF Sorted
  <2>3. CASE j = p
    BY <1>1, <1>2, <1>3, <1>4, <2>3
  <2>4. CASE j > p /\ i = p
    <3>1. r[i] = n /\ r[j] = l[j - 1] /\ j - 1 \in 1..Len(l) /\ j - 1 >= p
      BY <1>1, <1>2, <1>3, <1>4, <2>4
    <3>2. f[l[j - 1]] > f[n]
      BY <2>1, <3>1
    <3> QED
      BY <1>3, <3>1, <3>2
  <2>5. CASE j > p /\ i < p
    <3>1. r[i] = l[i] /\ r[j] = l[j - 1] /\ i \in 1..Len(l) /\ j - 1 \in 1..Len(l)
      BY <1>1, <1>2, <1>3, <1>4, <2>5
    <3>2. f[l[i]] <= f[n] /\ f[l[j - 1]] > f[n]
      BY <1>1, <2>1, <2>5, <3>1
    <3> QED
      BY <1>3, <3>1, <3>2
  <2>6. CASE j > p /\ i > p
    <3>2. i \in 1..(Len(l) + 1) /\ j \in 1..(Len(l) + 1) /\ i > p /\ j > p /\ p \in Int
      BY <1>1, <1>2, <1>4, <2>6
    <3>3. r[i] = l[i - 1] /\ r[j] = l[j - 1]
      BY <1>2, <3>2
    <3>1. i - 1 \in 1..Len(l) /\ j - 1 \in 1..Len(l) /\ i - 1 < j - 1
      BY <1>1, <1>3, <1>4, <3>2
    <3> QED
      BY <1>4, <3>1, <3>3 DEF Sorted
  <2> QED
    BY <1>1, <1>2, <1>3, <1>4, <2>2, <2>3, <2>4, <2>5, <2>6
<1> QED
  BY <1>2, <1>4 DEF Sorted, r

\* so does removeFromList
LEMMA RemovedInOrder ==
  ASSUME NEW l \in Seq(Nodes), IsInjective(l), NEW n \in ToSet(l)
  PROVE  /\ Removed(l, n) \in Seq(Nodes)
         /\ ToSet(Removed(l, n)) = ToSet(l) \ {n}
         /\ IsInjective(Removed(l, n))
         /\ \A f : Sorted(l, f) => Sorted(Removed(l, n), f)
<1>1. PICK k \in DOMAIN l : l[k] = n
  BY DEF ToSet
<1> DEFINE r == RemoveAt(l, k)
<1>2. /\ r \in Seq(Nodes) /\ Len(r) = Len(l) - 1 /\ IsInjective(r)
      /\ \A j \in 1..(Len(l) - 1) : r[j] = IF j < k THEN l[j] ELSE l[j + 1]
  BY ToSetRemoveAt
<1>3. Removed(l, n) = r /\ ToSet(r) = ToSet(l) \ {n}
  BY <1>1, ToSetRemoveFirst DEF Removed
<1> HIDE DEF r
<1>4. Len(l) \in Nat /\ k \in 1..Len(l)
  OBVIOUS
<1>5. ASSUME NEW f, Sorted(l, f), NEW i \in 1..Len(r), NEW j \in 1..Len(r), i < j
      PROVE  f[r[i]] <= f[r[j]]
  <2>1. \E a, b \in 1..Len(l) : a < b /\ r[i] = l[a] /\ r[j] = l[b]
    <3>1. i \in 1..(Len(l) - 1) /\ j \in 1..(Len(l) - 1)
      BY <1>2, <1>5
    <3>2. /\ r[i] = IF i < k THEN l[i] ELSE l[i + 1]
          /\ r[j] = IF j < k THEN l[j] ELSE l[j + 1]
      BY <1>2, <3>1
    <3> DEFINE a == IF i < k THEN i ELSE i + 1
               b == IF j < k THEN j ELSE j + 1
    <3>3. a \in 1..Len(l) /\ b \in 1..Len(l) /\ a < b /\ r[i] = l[a] /\ r[j] = l[b]
      BY <1>4, <1>5, <3>1, <3>2
    <3> QED
      BY <3>3
  <2> QED
    BY <1>5, <2>1 DEF Sorted
<1> QED
  BY <1>2, <1>3, <1>5 DEF Sorted

(***************************************************************************)
(* The inductive invariant.  Shape ties the variables of a call together.  *)
(* Searched says that no node is lost: what was reached is in one of the   *)
(* lists, and the links of a closed node that the loop has come to lead to *)
(* nodes that were reached.                                                *)
(***************************************************************************)
Shape ==
  /\ TypeOK
  /\ costs[begin] = 0
  /\ ToSet(open) \cup closed \cup {node} \subseteq Reached
  /\ \A l \in todo : l \in Usable /\ node \in l
  /\ todo # {} => at = None /\ lastRes = "NotComplete"
  /\ at # None => at \in Reached /\ lastRes = "NotComplete"
  /\ lastRes = "NotFound" => open = <<>> /\ todo = {}

Searched ==
  /\ end \notin closed
  /\ at = None /\ lastRes # "FullFound" => Reached \subseteq ToSet(open) \cup closed
  /\ \A l \in Usable \ todo : l \cap closed # {} => l \subseteq Reached

Inv == Shape /\ ParentsAreCheaper /\ Searched

LEMMA InvInit == Init => Inv
<1> SUFFICES ASSUME Init PROVE Inv
  OBVIOUS
<1> USE DEF Init, Setup, NoCosts
<1>1. begin \in Nodes /\ end \in Nodes /\ node = begin /\ open = <<begin>>
  OBVIOUS
<1>2. ToSet(open) = {begin} /\ open \in Seq(Nodes) /\ IsInjective(open)
  BY <1>1 DEF ToSet, IsInjective
<1>3. /\ costs \in [Nodes -> Nat \cup {-1}]
      /\ \A n \in Nodes : costs[n] = IF n = begin THEN 0 ELSE -1
  BY <1>1
<1>4. Reached = {begin}
  BY <1>1, <1>3 DEF Reached
<1>5. actualCosts \in [Nodes -> Nat \cup {-1}]
  BY NavSearchAssumption DEF NavSearchAssumption
<1>6. TypeOK
  BY <1>1, <1>2, <1>3, <1>5, NavSearchAssumption DEF TypeOK, NavSearchAssumption
<1>7. Shape
  BY <1>1, <1>2, <1>3, <1>4, <1>6 DEF Shape
<1>8. ParentsAreCheaper /\ Searched
  BY <1>2, <1>4 DEF ParentsAreCheaper, Searched
<1> QED
  BY <1>7, <1>8 DEF Inv

LEMMA InvExpand ==
  ASSUME Inv, Expand, lastRes = "NotComplete"
  PROVE  Inv'
<1> USE DEF Inv, Shape
<1>1. /\ open \in Seq(Nodes) /\ open # <<>> /\ IsInjective(open)
      /\ open' = Tail(open) /\ node' = Head(open)
      /\ todo = {} /\ at = None /\ lastRes' = "NotComplete"
      /\ UNCHANGED <<request, costs, actualCosts, parents>>
  BY DEF Expand, Rest, Idle, TypeOK
<1>2. /\ open' \in Seq(Nodes) /\ IsInjective(open') /\ node' \in ToSet(open)
      /\ ToSet(open') \subseteq ToSet(open) /\ node' \notin ToSet(open')
  BY <1>1, ToSetTail
<1>3. ToSet(open) = ToSet(open') \cup {node'}
  <2>1. ASSUME NEW n \in ToSet(open), n # node'
        PROVE  n \in ToSet(open')
    <3>1. PICK i \in 1..Len(open) : n = open[i]
      BY <1>1, <2>1 DEF ToSet
    <3>2. i > 1 /\ i - 1 \in 1..Len(Tail(open)) /\ Tail(open)[i - 1] = n
      BY <1>1, <2>1, <3>1
    <3>3. DOMAIN Tail(open) = 1..Len(Tail(open))
      BY <1>1
    <3> QED
      BY <1>1, <3>2, <3>3 DEF ToSet
  <2> QED
    BY <1>2, <2>1
<1>4. node' \in Nodes /\ node' \in Reached /\ Reached' = Reached /\ Usable' = Usable
  BY <1>1, <1>2 DEF Reached, Usable, request
<1>5. ParentsAreCheaper'
  BY <1>1, <1>4 DEF ParentsAreCheaper, OtherNode, request
<1>6. CASE node' = end
  <2>1. at' = end /\ path' = <<>> /\ closed' = closed /\ todo' = todo
    BY <1>1, <1>6 DEF Expand
  <2>2. TypeOK'
    BY <1>1, <1>2, <1>4, <1>6, <2>1 DEF TypeOK, request
  <2>3. Shape'
    BY <1>1, <1>2, <1>4, <1>6, <2>1, <2>2 DEF request
  <2>4. Searched'
    BY <1>1, <1>4, <1>6, <2>1, NavSearchAssumption DEF Searched, request, NavSearchAssumption, TypeOK
  <2> QED
    BY <1>5, <2>3, <2>4
<1>7. CASE node' # end
  <2>1. /\ closed' = closed \cup {node'} /\ at' = at /\ path' = path
        /\ todo' = {l \in Usable : node' \in l}
    BY <1>1, <1>7 DEF Expand
  <2>2. TypeOK'
    BY <1>1, <1>2, <1>4, <2>1 DEF TypeOK, request, Usable
  <2>3. Shape'
    BY <1>1, <1>2, <1>4, <2>1, <2>2 DEF request
  <2>4. Searched'
    BY <1>1, <1>3, <1>4, <1>7, <2>1 DEF Searched, request
  <2> QED
    BY <1>5, <2>3, <2>4
<1> QED
  BY <1>6, <1>7

LEMMA InvGiveUp ==
  ASSUME Inv, GiveUp, lastRes = "NotComplete"
  PROVE  Inv'
<1>1. /\ UNCHANGED <<request, tables, node, todo, at, path>> /\ lastRes' = "NotFound"
      /\ todo = {} /\ at = None /\ open = <<>>
  BY DEF GiveUp, Idle
<1>2. Reached' = Reached /\ Usable' = Usable
  BY <1>1 DEF Reached, Usable, request, tables
<1>3. Shape'
  BY <1>1, <1>2 DEF Inv, Shape, TypeOK, request, tables
<1>4. ParentsAreCheaper'
  <2>1. cost' = cost /\ begin' = begin /\ costs' = costs /\ parents' = parents
    BY <1>1 DEF request, tables
  <2> QED
    BY <1>2, <2>1 DEF Inv, ParentsAreCheaper, OtherNode
<1>6. Searched'
  BY <1>1, <1>2 DEF Inv, Searched, request, tables
<1> QED
  BY <1>3, <1>4, <1>6 DEF Inv

\* what Enter does to the open list, and that its order survives
LEMMA EnterList ==
  ASSUME NEW n \in Nodes, NEW f \in [Nodes -> Int], open \in Seq(Nodes), IsInjective(open),
         Enter(n, f)
  PROVE  /\ open' \in Seq(Nodes) /\ IsInjective(open')
         /\ ToSet(open') = IF n \in closed THEN ToSet(open) ELSE ToSet(open) \cup {n}
         /\ \A g : /\ Sorted(open, g)
                   /\ \A m \in Nodes \ {n} : f[m] = g[m]
                   => Sorted(open', f)
<1>1. ASSUME NEW l \in Seq(Nodes), n \notin ToSet(l), NEW g, Sorted(l, g),
             \A m \in Nodes \ {n} : f[m] = g[m]
      PROVE  Sorted(l, f)
  <2>1. \A i \in 1..Len(l) : l[i] \in Nodes \ {n}
    BY <1>1 DEF ToSet
  <2> QED
    BY <1>1, <2>1 DEF Sorted
<1>2. CASE n \in ToSet(open)
  <2> DEFINE l == Removed(open, n)
  <2>1. /\ l \in Seq(Nodes) /\ IsInjective(l) /\ ToSet(l) = ToSet(open) \ {n}
        /\ \A g : Sorted(open, g) => Sorted(l, g)
    BY <1>2, RemovedInOrder
  <2>2. open' = Inserted(l, f, n)
    BY <1>2 DEF Enter
  <2> HIDE DEF l
  <2>3. n \notin ToSet(l) /\ ToSet(l) \cup {n} = ToSet(open)
    BY <1>2, <2>1
  <2>4. /\ open' \in Seq(Nodes) /\ IsInjective(open') /\ ToSet(open') = ToSet(l) \cup {n}
        /\ Sorted(l, f) => Sorted(open', f)
    BY <2>1, <2>2, <2>3, InsertedInOrder
  <2> QED
    BY <1>1, <1>2, <2>1, <2>3, <2>4
<1>3. CASE n \notin ToSet(open) /\ n \notin closed
  <2>1. open' = Inserted(open, f, n)
    BY <1>3 DEF Enter
  <2>2. /\ open' \in Seq(Nodes) /\ IsInjective(open') /\ ToSet(open') = ToSet(open) \cup {n}
        /\ Sorted(open, f) => Sorted(open', f)
    BY <1>3, <2>1, InsertedInOrder
  <2> QED
    BY <1>1, <1>3, <2>2
<1>4. CASE n \notin ToSet(open) /\ n \in closed
  <2>1. open' = open
    BY <1>4 DEF Enter
  <2> QED
    BY <1>1, <1>4, <2>1
<1> QED
  BY <1>2, <1>3, <1>4

LEMMA EnterSorted ==
  ASSUME NEW n \in Nodes, NEW f \in [Nodes -> Int], NEW g,
         open \in Seq(Nodes), IsInjective(open), Sorted(open, g),
         \A m \in Nodes \ {n} : f[m] = g[m],
         Enter(n, f)
  PROVE  Sorted(open', f)
BY EnterList

LEMMA InvRelax ==
  ASSUME NavSearchAssumption, Inv, NEW l \in Links, Relax(l)
  PROVE  Inv'
<1> DEFINE adj == OtherNode(l, node)
           c == costs[node] + cost[l]
<1>1. /\ l \in todo /\ l \in Usable /\ node \in l /\ l = {node, adj}
      /\ adj \in Nodes /\ adj # node /\ adj \in l /\ node \in Reached
      /\ at = None /\ lastRes = "NotComplete"
  BY OtherEnd DEF Relax, Inv, Shape
<1>2. /\ todo' = todo \ {l}
      /\ UNCHANGED <<request, closed, node, at, path, lastRes>>
  BY DEF Relax, tables
<1>3. /\ cost \in [Links -> Nat] /\ cost[l] > 0 /\ costs[node] \in Nat
      /\ costs \in [Nodes -> Nat \cup {-1}] /\ heuristic \in [Nodes -> Nat]
      /\ c \in Nat /\ c > costs[node]
  BY <1>1 DEF Inv, Shape, TypeOK, Usable, Reached, NavSearchAssumption
<1>4. Usable' = Usable
  BY <1>2 DEF Usable, request
<1>5. CASE Cheaper(adj, c)
  <2>1. UNCHANGED tables
    BY <1>5 DEF Relax
  <2>2. Reached' = Reached /\ adj \in Reached
    BY <1>1, <1>5, <2>1 DEF Reached, tables, Cheaper
  <2>3. Shape'
    BY <1>1, <1>2, <1>4, <2>1, <2>2 DEF Inv, Shape, TypeOK, tables, request
  <2>4. ParentsAreCheaper'
    <3>1. cost' = cost /\ begin' = begin /\ costs' = costs /\ parents' = parents
      BY <1>2, <2>1 DEF request, tables
    <3> QED
      BY <1>4, <2>2, <3>1 DEF Inv, ParentsAreCheaper, OtherNode
  <2>5. Searched'
    BY <1>1, <1>2, <1>4, <2>1, <2>2 DEF Inv, Searched, tables, request
  <2> QED
    BY <2>3, <2>4, <2>5 DEF Inv
<1>6. CASE ~ Cheaper(adj, c)
  <2>1. /\ costs' = [costs EXCEPT ![adj] = c]
        /\ actualCosts' = [actualCosts EXCEPT ![adj] = c + heuristic[adj]]
        /\ parents' = [parents EXCEPT ![adj] = l]
        /\ Enter(adj, actualCosts')
    BY <1>6 DEF Relax
  <2>2. adj # begin /\ (adj \in Reached => c <= costs[adj])
    BY <1>3, <1>6 DEF Cheaper, Inv, Shape, Reached
  <2>3. /\ \A n \in Nodes : costs'[n] = IF n = adj THEN c ELSE costs[n]
        /\ costs' \in [Nodes -> Nat \cup {-1}]
        /\ actualCosts' \in [Nodes -> Nat \cup {-1}]
        /\ parents' \in [Nodes -> Links \cup {None}]
    BY <1>1, <1>3, <2>1 DEF Inv, Shape, TypeOK
  <2>4. Reached' = Reached \cup {adj}
    BY <1>1, <1>3, <2>3 DEF Reached
  <2>5. /\ open' \in Seq(Nodes) /\ IsInjective(open')
        /\ ToSet(open') = IF adj \in closed THEN ToSet(open) ELSE ToSet(open) \cup {adj}
    <3>1. actualCosts' \in [Nodes -> Int] /\ open \in Seq(Nodes) /\ IsInjective(open)
      BY <2>3 DEF Inv, Shape, TypeOK
    <3> QED
      BY <1>1, <2>1, <3>1, EnterList
  <2>6. TypeOK'
    BY <1>2, <2>3, <2>5 DEF Inv, Shape, TypeOK, request
  <2>7. Shape'
    BY <1>1, <1>2, <1>4, <2>2, <2>3, <2>4, <2>5, <2>6 DEF Inv, Shape, TypeOK, request
  <2>8. ParentsAreCheaper'
    <3>0. begin' = begin /\ cost' = cost
      BY <1>2 DEF request
    <3> SUFFICES ASSUME NEW n \in Reached' \ {begin}
                 PROVE  /\ parents'[n] \in Usable /\ n \in parents'[n]
                        /\ OtherNode(parents'[n], n) \in Reached'
                        /\ costs'[OtherNode(parents'[n], n)] + cost[parents'[n]] <= costs'[n]
      BY <1>4, <3>0 DEF ParentsAreCheaper, OtherNode
    <3>1. CASE n = adj
      <4>1. parents'[n] = l
        BY <1>1, <2>1, <3>1 DEF Inv, Shape, TypeOK
      <4>2. OtherNode(l, adj) = node
        BY <1>1, OtherEnd
      <4> QED
        BY <1>1, <1>3, <2>3, <2>4, <3>1, <4>1, <4>2
    <3>2. CASE n # adj
      <4> DEFINE p == parents[n]
                 m == OtherNode(p, n)
      <4>1. n \in Reached \ {begin} /\ n \in Nodes /\ parents'[n] = p
        BY <2>1, <2>4, <3>2 DEF Inv, Shape, TypeOK, Reached
      <4>2. p \in Usable /\ n \in p /\ m \in Reached /\ costs[m] + cost[p] <= costs[n]
        BY <4>1 DEF Inv, ParentsAreCheaper
      <4>3. m \in Nodes /\ costs[m] \in Nat /\ costs[n] \in Nat /\ cost[p] \in Nat
        BY <1>3, <4>1, <4>2 DEF Reached, Usable
      <4>6. costs'[n] = costs[n] /\ costs'[m] = IF m = adj THEN c ELSE costs[m]
        BY <2>3, <3>2, <4>1, <4>3
      <4> HIDE DEF p, m
      <4>4. costs'[m] <= costs[m] /\ costs'[n] = costs[n] /\ costs'[m] \in Nat
        BY <1>3, <2>2, <4>2, <4>3, <4>6
      <4>5. costs'[m] + cost[p] <= costs'[n]
        BY <4>2, <4>3, <4>4
      <4> QED
        BY <2>4, <4>1, <4>2, <4>5 DEF p, m
    <3> QED
      BY <3>1, <3>2
  <2>9. Searched'
    BY <1>1, <1>2, <1>4, <2>4, <2>5 DEF Inv, Shape, Searched, request
  <2> QED
    BY <2>7, <2>8, <2>9 DEF Inv
<1> QED
  BY <1>5, <1>6

LEMMA InvBack ==
  ASSUME NavSearchAssumption, Inv, Back
  PROVE  Inv'
<1>1. /\ UNCHANGED <<request, tables, node, todo>>
      /\ at # None /\ at \in Reached /\ at \in Nodes /\ todo = {} /\ lastRes = "NotComplete"
  BY DEF Back, Inv, Shape, TypeOK
<1>2. Reached' = Reached /\ Usable' = Usable
  BY <1>1 DEF Reached, Usable, request, tables
<1>3. /\ at' \in Reached \cup {None} /\ path' \in Seq(Links)
      /\ lastRes' \in {"NotComplete", "FullFound"}
      /\ at' # None => lastRes' = "NotComplete"
      /\ at' = None => lastRes' = "FullFound"
  <2>1. CASE at = begin
    BY <1>1, <2>1 DEF Back, Inv, Shape, TypeOK
  <2>2. CASE at # begin
    <3>1. /\ parents[at] \in Usable /\ OtherNode(parents[at], at) \in Reached
          /\ path' = Cons(parents[at], path)
          /\ at' = OtherNode(parents[at], at) /\ lastRes' = lastRes
      BY <1>1, <2>2 DEF Inv, ParentsAreCheaper, Back, Pushed
    <3>2. path' \in Seq(Links)
      BY <3>1 DEF Cons, Usable, Inv, Shape, TypeOK
    <3>3. OtherNode(parents[at], at) # None
      BY <3>1 DEF Reached, NavSearchAssumption
    <3> QED
      BY <1>1, <3>1, <3>2, <3>3
  <2> QED
    BY <2>1, <2>2
<1>4. Shape'
  <2>1. TypeOK'
    BY <1>1, <1>3 DEF Inv, Shape, TypeOK, request, tables, Reached
  <2> QED
    BY <1>1, <1>2, <1>3, <2>1 DEF Inv, Shape, request, tables
<1>5. ParentsAreCheaper'
  <2>1. cost' = cost /\ begin' = begin /\ costs' = costs /\ parents' = parents
    BY <1>1 DEF request, tables
  <2> QED
    BY <1>2, <2>1 DEF Inv, ParentsAreCheaper, OtherNode
<1>6. Searched'
  BY <1>1, <1>2, <1>3 DEF Inv, Searched, request, tables
<1> QED
  BY <1>4, <1>5, <1>6 DEF Inv

LEMMA InvStutter ==
  ASSUME Inv, UNCHANGED vars
  PROVE  Inv'
<1>1. /\ UNCHANGED <<request, tables, node, todo, at, path, lastRes>>
  BY DEF vars
<1>2. Reached' = Reached /\ Usable' = Usable
  BY <1>1 DEF Reached, Usable, request, tables
<1>3. Shape'
  BY <1>1, <1>2 DEF Inv, Shape, TypeOK, request, tables
<1>4. ParentsAreCheaper'
  <2>1. cost' = cost /\ begin' = begin /\ costs' = costs /\ parents' = parents
    BY <1>1 DEF request, tables
  <2> QED
    BY <1>2, <2>1 DEF Inv, ParentsAreCheaper, OtherNode
<1>5. Searched'
  BY <1>1, <1>2 DEF Inv, Searched, request, tables
<1> QED
  BY <1>3, <1>4, <1>5 DEF Inv

\* Nothing else depends on what is in m_path.
LEMMA InvOtherPath ==
  ASSUME Inv, UNCHANGED <<request, tables, node, todo, at, lastRes>>, path' \in Seq(Links)
  PROVE  Inv'
<1>1. Reached' = Reached /\ Usable' = Usable
  BY DEF Reached, Usable, request, tables
<1>2. Shape'
  BY <1>1 DEF Inv, Shape, TypeOK, request, tables
<1>3. ParentsAreCheaper'
  <2>1. cost' = cost /\ begin' = begin /\ costs' = costs /\ parents' = parents
    BY DEF request, tables
  <2> QED
    BY <1>1, <2>1 DEF Inv, ParentsAreCheaper, OtherNode
<1>4. Searched'
  BY <1>1 DEF Inv, Searched, request, tables
<1> QED
  BY <1>2, <1>3, <1>4 DEF Inv

LEMMA InvStep ==
  ASSUME NavSearchAssumption, Inv, [Next]_vars
  PROVE  Inv'
BY InvExpand, InvGiveUp, InvRelax, InvBack, InvStutter DEF Next, Step, InStep

LEMMA InvAlways == Spec => []Inv
BY InvInit, InvStep, NavSearchAssumption, PTL DEF Spec

\* The variables keep their types; in particular no node comes to be twice in
\* the open list, or to be in it after it was closed.
THEOREM TypeCorrect == Spec => []TypeOK
<1>1. Inv => TypeOK
  BY DEF Inv, Shape
<1> QED
  BY <1>1, InvAlways, PTL

\* m_parents leads back to the begin, whatever the heuristic.
THEOREM ParentsLeadBack == Spec => []ParentsAreCheaper
<1>1. Inv => ParentsAreCheaper
  BY DEF Inv
<1> QED
  BY <1>1, InvAlways, PTL

LEMMA NothingFound ==
  ASSUME Inv, lastRes = "NotFound"
  PROVE  Unreachable(end)
<1>1. open = <<>> /\ todo = {} /\ at = None /\ closed \subseteq Nodes /\ end \notin closed
  BY DEF Inv, Shape, TypeOK, Searched
<1>2. Reached = closed
  BY <1>1, ToSetEmpty DEF Inv, Shape, Searched
<1>3. begin \in closed
  BY <1>2 DEF Inv, Shape, TypeOK, Reached
<1>4. \A l \in Usable : l \cap closed # {} => l \subseteq closed
  BY <1>1, <1>2 DEF Inv, Searched
<1> QED
  BY <1>1, <1>3, <1>4 DEF Unreachable

\* A search that says ESR_NotFound has closed every node there is a way to,
\* and the end is not one of them.
THEOREM NotFoundIsRight == Spec => []NotFoundIsUnreachable
<1>1. Inv => NotFoundIsUnreachable
  BY NothingFound DEF NotFoundIsUnreachable
<1> QED
  BY <1>1, InvAlways, PTL

(***************************************************************************)
(* createPath: what it has put together leads from where it is to the end. *)
(***************************************************************************)
PathInv == at # None => Walks(path, at, end)

\* a step that has found a path leaves one to the end
FindsEnd == lastRes # "FullFound" /\ lastRes' = "FullFound" => Walks(path, begin, end)'

LEMMA EmptyWalk == ASSUME NEW n \in Nodes PROVE Walks(<<>>, n, n)
<1> DEFINE t == [i \in 0..0 |-> n]
<1>1. t \in [0..Len(<<>>) -> Nodes] /\ t[0] = n /\ t[Len(<<>>)] = n
  OBVIOUS
<1>2. 1..Len(<<>>) = {}
  OBVIOUS
<1> HIDE DEF t
<1> QED
  BY <1>1, <1>2 DEF Walks, Leads

LEMMA LongerWalk ==
  ASSUME NavSearchAssumption, NEW p \in Seq(Links), NEW m \in Nodes, NEW n \in Nodes,
         NEW l \in Usable, NEW k \in Nodes, l = {k, m}, costs[k] + cost[l] <= costs[m],
         Walks(p, m, n)
  PROVE  Walks(Cons(l, p), k, n)
<1>1. PICK t \in [0..Len(p) -> Nodes] :
         /\ t[0] = m /\ t[Len(p)] = n
         /\ Leads(p, t)
         /\ \A i \in 1..Len(p) : costs[t[i - 1]] + cost[p[i]] <= costs[t[i]]
  BY DEF Walks
<1>2. Len(p) \in Nat /\ l \in Links
  BY DEF Usable
<1> DEFINE q == Cons(l, p)
           u == [i \in 0..(Len(p) + 1) |-> IF i = 0 THEN k ELSE t[i - 1]]
<1>3. /\ Len(q) = Len(p) + 1 /\ q[1] = l
      /\ \A i \in 2..(Len(p) + 1) : q[i] = p[i - 1]
  BY <1>2 DEF Cons
<1>4. \A i \in 1..(Len(p) + 1) : i - 1 \in 0..Len(p)
  BY <1>2
<1>5. u \in [0..(Len(p) + 1) -> Nodes] /\ u[0] = k /\ u[1] = m
  BY <1>1, <1>2, <1>4
<1>6. \A i \in 1..(Len(p) + 1) : u[i] = t[i - 1]
  BY <1>2, <1>4
<1> HIDE DEF q, u
<1>7. u[Len(p) + 1] = n
  BY <1>1, <1>2, <1>6
<1>8. ASSUME NEW i \in 1..(Len(p) + 1)
      PROVE  /\ q[i] \in Usable /\ q[i] = {u[i - 1], u[i]}
             /\ costs[u[i - 1]] + cost[q[i]] <= costs[u[i]]
  <2>1. CASE i = 1
    <3>1. q[i] = l /\ u[i - 1] = k /\ u[i] = m
      BY <1>3, <1>5, <2>1
    <3> QED
      BY <3>1
  <2>2. CASE i # 1
    <3>1. i - 1 \in 1..Len(p) /\ i \in 2..(Len(p) + 1) /\ i - 1 \in 1..(Len(p) + 1)
      BY <1>2, <2>2
    <3>2. q[i] = p[i - 1] /\ u[i] = t[i - 1] /\ u[i - 1] = t[(i - 1) - 1]
      BY <1>3, <1>6, <3>1
    <3> QED
      BY <1>1, <3>1, <3>2 DEF Leads
  <2> QED
    BY <2>1, <2>2
<1>9. /\ u \in [0..Len(q) -> Nodes] /\ u[0] = k /\ u[Len(q)] = n
      /\ Leads(q, u)
      /\ \A i \in 1..Len(q) : costs[u[i - 1]] + cost[q[i]] <= costs[u[i]]
  BY <1>3, <1>5, <1>7, <1>8 DEF Leads
<1>10. Walks(q, k, n)
  BY <1>9 DEF Walks
<1> QED
  BY <1>10 DEF q

LEMMA PathStep ==
  ASSUME NavSearchAssumption, Inv, PathInv, [Next]_vars
  PROVE  PathInv' /\ FindsEnd
<1>1. ASSUME UNCHANGED <<request, tables, path>>
      PROVE  \A m, n : Walks(path, m, n)' <=> Walks(path, m, n)
  BY <1>1 DEF request, tables, Walks, Leads, Usable
<1>2. CASE Step /\ Expand
  <2>1. lastRes' = "NotComplete" /\ (at' # None => at' = end' /\ path' = <<>>)
    BY <1>2 DEF Step, Expand, Idle, request
  <2>2. end' \in Nodes
    BY <1>2 DEF Inv, Shape, TypeOK, Expand, request
  <2>3. cost' = cost /\ costs' = costs
    BY <1>2 DEF Expand, request
  <2>4. ASSUME at' # None
        PROVE  Walks(path, at, end)'
    <3>1. Walks(path', at', end')
      BY <2>1, <2>2, <2>4, EmptyWalk
    <3> QED
      BY <2>3, <3>1 DEF Walks, Leads, Usable
  <2> QED
    BY <2>1, <2>4 DEF PathInv, FindsEnd
<1>3. CASE Step /\ GiveUp
  BY <1>3 DEF Step, GiveUp, Idle, PathInv, FindsEnd
<1>4. ASSUME NEW l \in Links, Relax(l)
      PROVE  PathInv' /\ FindsEnd
  <2>1. at = None /\ lastRes = "NotComplete"
    BY <1>4 DEF Relax, Inv, Shape
  <2>2. at' = at /\ lastRes' = lastRes
    BY <1>4 DEF Relax
  <2> QED
    BY <2>1, <2>2 DEF PathInv, FindsEnd
<1>5. CASE Back
  <2>1. /\ UNCHANGED <<request, tables, todo>> /\ todo = {} /\ at # None
        /\ at \in Reached /\ at \in Nodes /\ path \in Seq(Links) /\ end \in Nodes
        /\ lastRes = "NotComplete" /\ Walks(path, at, end)
    BY <1>5 DEF Back, Inv, Shape, TypeOK, PathInv
  <2>2. CASE at = begin
    <3>1. at' = None /\ lastRes' = "FullFound" /\ path' = path
      BY <1>5, <2>2 DEF Back
    <3>2. begin' = begin /\ end' = end
      BY <2>1 DEF request
    <3>3. Walks(path, begin, end)'
      BY <1>1, <2>1, <2>2, <3>1, <3>2
    <3> QED
      BY <2>1, <3>1, <3>3 DEF PathInv, FindsEnd
  <2>3. CASE at # begin
    <3> DEFINE l == parents[at]
               k == OtherNode(l, at)
    <3>1. /\ l \in Usable /\ at \in l /\ k \in Reached /\ costs[k] + cost[l] <= costs[at]
          /\ path' = Cons(l, path) /\ at' = k /\ lastRes' = lastRes
      BY <1>5, <2>1, <2>3 DEF Inv, ParentsAreCheaper, Back, Pushed
    <3>2. l \in Links /\ k \in Nodes /\ l = {k, at}
      BY <3>1, OtherEnd DEF Usable
    <3> HIDE DEF l, k
    <3>3. Walks(Cons(l, path), k, end)
      BY <2>1, <3>1, <3>2, LongerWalk
    <3>4. Walks(path', at', end)
      BY <3>1, <3>3
    <3>5. Walks(path, at, end)'
      BY <2>1, <3>4 DEF Walks, Leads, Usable, request, tables
    <3> QED
      BY <2>1, <3>1, <3>5 DEF PathInv, FindsEnd
  <2> QED
    BY <2>2, <2>3
<1>6. CASE UNCHANGED vars
  <2>1. UNCHANGED <<request, tables, path>> /\ UNCHANGED <<at, lastRes, todo, begin, end>>
    BY <1>6 DEF vars, request
  <2> QED
    BY <1>1, <2>1 DEF PathInv, FindsEnd
<1> QED
  BY <1>2, <1>3, <1>4, <1>5, <1>6 DEF Next, Step, InStep

\* The path of a search that says ESR_FullFound leads from the begin to the
\* end.
THEOREM PathLeadsToEnd == Spec => PathArrives
<1>1. Init => PathInv
  BY DEF Init, Setup, PathInv
<1>2. ASSUME Inv, PathInv, [Next]_vars
      PROVE  PathInv' /\ [lastRes # "FullFound" /\ lastRes' = "FullFound"
                            => Walks(path, begin, end)']_vars
  BY <1>2, PathStep, NavSearchAssumption DEF FindsEnd
<1> QED
  BY <1>1, <1>2, InvAlways, PTL DEF Spec, PathArrives

(***************************************************************************)
(* The search ends: for a finite graph no sequence of steps that are each  *)
(* closer is infinite.                                                     *)
(***************************************************************************)
LEMMA BackIsCloser ==
  ASSUME NavSearchAssumption, Inv, Back
  PROVE  Closer
<1>1. UNCHANGED <<closed, todo, costs>> /\ at # None /\ at \in Reached
  BY DEF Back, tables, Inv, Shape
<1>2. CASE at = begin
  BY <1>2 DEF Back, Closer
<1>3. CASE at # begin
  <2> DEFINE l == parents[at]
             k == OtherNode(l, at)
  <2>1. l \in Usable /\ k \in Reached /\ costs[k] + cost[l] <= costs[at] /\ at' = k
    BY <1>1, <1>3 DEF Inv, ParentsAreCheaper, Back
  <2> HIDE DEF l, k
  <2>2. costs[k] \in Int /\ costs[at] \in Int /\ cost[l] \in Nat /\ cost[l] > 0 /\ k # None
    <3>1. k \in Nodes /\ at \in Nodes /\ l \in Links /\ cost[l] > 0
      BY <1>1, <2>1 DEF Reached, Usable
    <3>2. cost[l] \in Nat
      BY <3>1, NavSearchAssumption DEF Inv, Shape, TypeOK
    <3>3. costs[k] \in Int /\ costs[at] \in Int
      BY <3>1 DEF Inv, Shape, TypeOK
    <3> QED
      BY <3>1, <3>2, <3>3, NavSearchAssumption
  <2>3. costs'[at'] < costs[at] /\ at' # None
    BY <1>1, <2>1, <2>2
  <2> QED
    BY <1>1, <2>3 DEF Closer
<1> QED
  BY <1>2, <1>3

LEMMA ExpandIsCloser ==
  ASSUME Inv, Expand
  PROVE  Closer
<1>1. open \in Seq(Nodes) /\ open # <<>> /\ todo = {} /\ at = None
  BY DEF Expand, Idle, Inv, Shape, TypeOK
<1>2. Head(open) \in ToSet(open) /\ Head(open) \notin closed /\ Head(open) # None
  <2>1. Head(open) \in ToSet(open) /\ Head(open) \in Nodes
    BY <1>1 DEF ToSet
  <2> QED
    BY <2>1, NavSearchAssumption DEF Inv, Shape, TypeOK
<1>3. CASE Head(open) = end
  BY <1>1, <1>2, <1>3 DEF Expand, Closer
<1>4. CASE Head(open) # end
  BY <1>2, <1>4 DEF Expand, Closer
<1> QED
  BY <1>3, <1>4

LEMMA StepIsCloser ==
  ASSUME Inv, Next
  PROVE  Closer
<1>1. CASE Step /\ Expand
  BY <1>1, ExpandIsCloser
<1>2. CASE Step /\ GiveUp
  BY <1>2 DEF GiveUp, Closer
<1>3. ASSUME NEW l \in Links, Relax(l)
      PROVE  Closer
  <2>1. closed' = closed /\ l \in todo /\ todo' = todo \ {l}
    BY <1>3 DEF Relax, tables
  <2> QED
    BY <2>1 DEF Closer
<1>4. CASE Back
  BY <1>4, BackIsCloser, NavSearchAssumption
<1> QED
  BY <1>1, <1>2, <1>3, <1>4 DEF Next, Step, InStep

\* Every step of a search brings it closer to its end.
THEOREM SearchGetsCloser == Spec => EveryStepIsCloser
<1>1. Inv => [Next => Closer]_vars
  BY StepIsCloser
<1> QED
  BY <1>1, InvAlways, PTL DEF EveryStepIsCloser

(***************************************************************************)
(* With a consistent heuristic nodes are closed in the order of what they  *)
(* cost, so none has to be opened again.                                   *)
(***************************************************************************)
Order ==
  /\ Sorted(open, actualCosts)
  /\ \A n \in Reached : actualCosts[n] = costs[n] + heuristic[n]
  /\ \A n \in closed : actualCosts[n] <= actualCosts[node]
  /\ \A n \in ToSet(open) : actualCosts[node] <= actualCosts[n]
  /\ Reached \subseteq ToSet(open) \cup closed \cup {node}
  /\ begin \in closed \cup {node}
  /\ at = None /\ lastRes # "FullFound" => node \in closed \/ open = <<begin>>
  /\ at # None \/ lastRes = "FullFound" => node = end /\ todo = {}
  /\ todo # {} => node \in closed
  /\ \A l \in Usable : \A a \in l \cap closed : \A b \in l \ {a} :
       (a = node /\ l \in todo) \/ (b \in Reached /\ costs[b] <= costs[a] + cost[l])

OrderInv == Consistent => Order

LEMMA NumbersTyped ==
  ASSUME NavSearchAssumption, Inv
  PROVE  /\ \A n \in Reached : n \in Nodes /\ costs[n] \in Nat
         /\ \A n \in Nodes : costs[n] \in Int /\ actualCosts[n] \in Int /\ heuristic[n] \in Nat
         /\ \A l \in Usable : cost[l] \in Nat /\ cost[l] > 0 /\ l \in Links /\ l \subseteq Nodes
         /\ ToSet(open) \subseteq Nodes /\ closed \subseteq Nodes /\ node \in Nodes
         /\ node \in Reached /\ closed \subseteq Reached /\ ToSet(open) \subseteq Reached
<1>1. ToSet(open) \subseteq Nodes
  BY ToSetTyped DEF Inv, Shape, TypeOK
<1>2. /\ costs \in [Nodes -> Nat \cup {-1}] /\ actualCosts \in [Nodes -> Nat \cup {-1}]
      /\ heuristic \in [Nodes -> Nat] /\ cost \in [Links -> Nat]
      /\ closed \subseteq Nodes /\ node \in Nodes
      /\ ToSet(open) \cup closed \cup {node} \subseteq Reached
  BY DEF Inv, Shape, TypeOK, NavSearchAssumption
<1>3. \A n \in Nodes : costs[n] \in Int /\ actualCosts[n] \in Int /\ heuristic[n] \in Nat
  BY <1>2
<1>4. \A n \in Reached : n \in Nodes /\ costs[n] \in Nat
  BY <1>2 DEF Reached
<1>5. \A l \in Usable : cost[l] \in Nat /\ cost[l] > 0 /\ l \in Links
  BY <1>2 DEF Usable
<1>6. \A l \in Links : l \subseteq Nodes
  BY DEF NavSearchAssumption
<1> QED
  BY <1>1, <1>2, <1>3, <1>4, <1>5, <1>6

LEMMA OrderInit == Init => Order
<1> SUFFICES ASSUME Init PROVE Order
  OBVIOUS
<1> USE DEF Init, Setup
<1>1. ToSet(open) = {begin} /\ closed = {} /\ node = begin /\ begin \in Nodes /\ Len(open) = 1
  BY DEF ToSet
<1>2. Sorted(open, actualCosts)
  BY <1>1 DEF Sorted
<1>3. Reached = {begin}
  BY DEF Reached, NoCosts
<1>4. heuristic[begin] \in Nat /\ costs[begin] = 0 /\ actualCosts[begin] = heuristic[begin]
  BY <1>1, NavSearchAssumption DEF NavSearchAssumption, NoCosts
<1> QED
  BY <1>1, <1>2, <1>3, <1>4 DEF Order

LEMMA OrderExpand ==
  ASSUME NavSearchAssumption, Inv, Order, Expand, lastRes = "NotComplete"
  PROVE  Order'
<1>1. /\ open \in Seq(Nodes) /\ open # <<>> /\ IsInjective(open)
      /\ open' = Tail(open) /\ node' = Head(open) /\ node' \in ToSet(open)
      /\ todo = {} /\ at = None /\ lastRes' = "NotComplete"
      /\ UNCHANGED <<request, costs, actualCosts, parents>>
      /\ ToSet(open) \cap closed = {}
  <2>1. open \in Seq(Nodes) /\ open # <<>> /\ IsInjective(open) /\ ToSet(open) \cap closed = {}
    BY DEF Expand, Inv, Shape, TypeOK
  <2> QED
    BY <2>1, ToSetTail DEF Expand, Rest, Idle
<1>2. /\ begin' = begin /\ end' = end /\ cost' = cost /\ heuristic' = heuristic
      /\ Reached' = Reached /\ Usable' = Usable
  BY <1>1 DEF request, Reached, Usable
<1>3. Len(open) \in Nat \ {0} /\ Len(open') = Len(open) - 1 /\ node' = open[1]
      /\ \A i \in 1..(Len(open) - 1) : open'[i] = open[i + 1]
  BY <1>1
<1>4. Sorted(open', actualCosts) /\ \A i \in 1..Len(open) : actualCosts[node'] <= actualCosts[open[i]]
  <2>1. \A i \in 1..Len(open) : open[i] \in Nodes /\ actualCosts[open[i]] \in Int
    BY <1>1, NumbersTyped
  <2>2. \A i \in 1..Len(open) : i > 1 => actualCosts[open[1]] <= actualCosts[open[i]]
    BY <1>3 DEF Order, Sorted
  <2>3. \A i \in 1..Len(open) : actualCosts[node'] <= actualCosts[open[i]]
    BY <1>3, <2>1, <2>2
  <2>4. ASSUME NEW i \in 1..Len(open'), NEW j \in 1..Len(open'), i < j
        PROVE  actualCosts[open'[i]] <= actualCosts[open'[j]]
    <3>1. open'[i] = open[i + 1] /\ open'[j] = open[j + 1]
          /\ i + 1 \in 1..Len(open) /\ j + 1 \in 1..Len(open) /\ i + 1 < j + 1
      BY <1>3, <2>4
    <3> QED
      BY <3>1 DEF Order, Sorted
  <2> QED
    BY <2>3, <2>4 DEF Sorted
<1>5. ToSet(open') \subseteq ToSet(open) /\ ToSet(open) \subseteq ToSet(open') \cup {node'}
  <2>1. ToSet(open') \subseteq ToSet(open)
    BY <1>1, ToSetTail
  <2>2. ASSUME NEW n \in ToSet(open), n # node'
        PROVE  n \in ToSet(open')
    <3>1. PICK i \in 1..Len(open) : n = open[i]
      BY <1>1, <2>2 DEF ToSet
    <3>2. i - 1 \in 1..Len(open') /\ open'[i - 1] = n
      BY <1>3, <2>2, <3>1
    <3>3. DOMAIN open' = 1..Len(open')
      BY <1>1
    <3> QED
      BY <3>2, <3>3 DEF ToSet
  <2> QED
    BY <2>1, <2>2
<1>6. \A n \in ToSet(open) : actualCosts[node'] <= actualCosts[n]
  BY <1>1, <1>4 DEF ToSet
<1>7. \A n \in closed : actualCosts[n] <= actualCosts[node']
  <2> SUFFICES ASSUME NEW n \in closed PROVE actualCosts[n] <= actualCosts[node']
    OBVIOUS
  <2>1. /\ actualCosts[n] \in Int /\ actualCosts[node] \in Int /\ actualCosts[node'] \in Int
    BY <1>1, NumbersTyped
  <2>2. actualCosts[n] <= actualCosts[node] /\ actualCosts[node] <= actualCosts[node']
    BY <1>1 DEF Order
  <2> QED
    BY <2>1, <2>2
<1>8. begin \in closed \cup {node'}
  <2>1. CASE open = <<begin>>
    BY <1>1, <2>1
  <2>2. CASE open # <<begin>>
    BY <1>1, <2>2 DEF Order
  <2> QED
    BY <2>1, <2>2
<1>9. actualCosts[node'] <= actualCosts[node']
  BY <1>1, NumbersTyped
<1>10. \A l \in Usable : \A a \in l \cap closed : \A b \in l \ {a} :
         b \in Reached /\ costs[b] <= costs[a] + cost[l]
  BY <1>1 DEF Order
<1>11. CASE node' = end
  <2>1. at' = end /\ closed' = closed /\ todo' = {} /\ at' # None
    BY <1>1, <1>11, NavSearchAssumption DEF Expand, NavSearchAssumption, Inv, Shape, TypeOK
  <2> QED
    BY <1>1, <1>2, <1>4, <1>5, <1>6, <1>7, <1>8, <1>10, <1>11, <2>1 DEF Order, Sorted
<1>12. CASE node' # end
  <2>1. closed' = closed \cup {node'} /\ at' = at /\ todo' = {l \in Usable : node' \in l}
    BY <1>1, <1>12 DEF Expand
  <2>2. \A n \in closed' : actualCosts[n] <= actualCosts[node']
    BY <1>7, <1>9, <2>1
  <2>3. \A l \in Usable : \A a \in l \cap closed' : \A b \in l \ {a} :
          (a = node' /\ l \in todo') \/ (b \in Reached /\ costs[b] <= costs[a] + cost[l])
    BY <1>10, <2>1
  <2>4. Reached \subseteq ToSet(open') \cup closed' \cup {node'} /\ begin \in closed' \cup {node'}
    BY <1>1, <1>5, <1>8, <2>1 DEF Inv, Searched
  <2> QED
    BY <1>1, <1>2, <1>4, <1>5, <1>6, <2>1, <2>2, <2>3, <2>4 DEF Order
<1> QED
  BY <1>11, <1>12

LEMMA OrderRelax ==
  ASSUME NavSearchAssumption, Inv, Consistent, Order, NEW l \in Links, Relax(l)
  PROVE  Order'
<1> DEFINE adj == OtherNode(l, node)
           c == costs[node] + cost[l]
<1>1. /\ l \in todo /\ l \in Usable /\ node \in l /\ l = {node, adj}
      /\ adj \in Nodes /\ adj # node /\ adj \in l /\ node \in Reached
      /\ at = None /\ lastRes = "NotComplete"
  BY OtherEnd DEF Relax, Inv, Shape
<1>2. /\ todo' = todo \ {l}
      /\ UNCHANGED <<request, closed, node, at, path, lastRes>>
      /\ begin' = begin /\ end' = end /\ cost' = cost /\ heuristic' = heuristic
      /\ Usable' = Usable
  BY DEF Relax, tables, request, Usable
<1>3. /\ \A n \in Reached : n \in Nodes /\ costs[n] \in Nat
      /\ \A n \in Nodes : costs[n] \in Int /\ actualCosts[n] \in Int /\ heuristic[n] \in Nat
      /\ \A k \in Usable : cost[k] \in Nat /\ cost[k] > 0 /\ k \in Links /\ k \subseteq Nodes
      /\ ToSet(open) \subseteq Nodes /\ closed \subseteq Nodes /\ node \in Nodes
      /\ closed \subseteq Reached /\ ToSet(open) \subseteq Reached
  BY NumbersTyped
<1>4. c \in Nat /\ c > costs[node]
  BY <1>1, <1>3
<1>5. CASE Cheaper(adj, c)
  <2>1. UNCHANGED tables
    BY <1>5 DEF Relax
  <2>2. Reached' = Reached /\ adj \in Reached /\ costs[adj] <= c
    BY <1>1, <1>3, <1>4, <1>5, <2>1 DEF Reached, tables, Cheaper
  <2>3. ASSUME NEW k \in Usable, NEW a \in k \cap closed, NEW b \in k \ {a}
        PROVE  (a = node /\ k \in todo') \/ (b \in Reached /\ costs[b] <= costs[a] + cost[k])
    <3>1. CASE a = node /\ k = l
      BY <1>1, <2>2, <3>1
    <3>2. CASE ~ (a = node /\ k = l)
      BY <1>2, <3>2 DEF Order
    <3> QED
      BY <3>1, <3>2
  <2>4. node \in closed
    BY <1>1 DEF Order
  <2> QED
    BY <1>1, <1>2, <2>1, <2>2, <2>3, <2>4 DEF Order, tables, Sorted
<1>6. CASE ~ Cheaper(adj, c)
  <2>1. /\ costs' = [costs EXCEPT ![adj] = c]
        /\ actualCosts' = [actualCosts EXCEPT ![adj] = c + heuristic[adj]]
        /\ Enter(adj, actualCosts')
    BY <1>6 DEF Relax
  <2>2. /\ \A n \in Nodes : costs'[n] = IF n = adj THEN c ELSE costs[n]
        /\ \A n \in Nodes : actualCosts'[n] = IF n = adj THEN c + heuristic[adj] ELSE actualCosts[n]
        /\ actualCosts' \in [Nodes -> Int]
    <3>1. /\ costs \in [Nodes -> Nat \cup {-1}] /\ actualCosts \in [Nodes -> Nat \cup {-1}]
          /\ heuristic[adj] \in Nat
      BY <1>1, <1>3 DEF Inv, Shape, TypeOK
    <3> HIDE DEF adj, c
    <3>2. c + heuristic[adj] \in Int
      BY <1>4, <3>1
    <3> QED
      BY <1>1, <2>1, <3>1, <3>2
  <2>3. Reached' = Reached \cup {adj} /\ (adj \in Reached => c <= costs[adj])
    BY <1>1, <1>3, <1>4, <1>6, <2>2 DEF Reached, Cheaper
  <2>4. /\ ToSet(open') = IF adj \in closed THEN ToSet(open) ELSE ToSet(open) \cup {adj}
        /\ Sorted(open', actualCosts')
    <3>1. open \in Seq(Nodes) /\ IsInjective(open) /\ Sorted(open, actualCosts)
      BY DEF Inv, Shape, TypeOK, Order
    <3>2. \A m \in Nodes \ {adj} : actualCosts'[m] = actualCosts[m]
      BY <2>2
    <3>3. ToSet(open') = IF adj \in closed THEN ToSet(open) ELSE ToSet(open) \cup {adj}
      BY <1>1, <2>1, <2>2, <3>1, EnterList
    <3> HIDE DEF adj
    <3>4. Sorted(open', actualCosts')
      BY <1>1, <2>1, <2>2, <3>1, <3>2, EnterSorted
    <3> QED
      BY <3>3, <3>4
  <2>5. actualCosts[node] <= c + heuristic[adj] /\ actualCosts[node] = costs[node] + heuristic[node]
    <3>1. heuristic[node] <= heuristic[adj] + cost[l]
      BY <1>1 DEF Consistent
    <3>2. actualCosts[node] = costs[node] + heuristic[node]
      BY <1>1 DEF Order
    <3> QED
      BY <1>1, <1>3, <3>1, <3>2
  <2>6. adj \in closed => costs[adj] = c /\ actualCosts[adj] = c + heuristic[adj]
    <3>1. SUFFICES ASSUME adj \in closed PROVE costs[adj] = c /\ actualCosts[adj] = c + heuristic[adj]
      OBVIOUS
    <3>2. actualCosts[adj] = costs[adj] + heuristic[adj] /\ actualCosts[adj] <= actualCosts[node]
          /\ c <= costs[adj]
      BY <1>3, <2>3, <3>1 DEF Order
    <3> QED
      BY <1>1, <1>3, <1>4, <2>5, <3>2
  <2>7. \A n \in closed : costs'[n] = costs[n] /\ actualCosts'[n] = actualCosts[n]
    BY <1>3, <2>2, <2>6
  <2>8. actualCosts'[node] = actualCosts[node] /\ costs'[node] = costs[node]
    BY <1>1, <1>3, <2>2
  <2>9. \A n \in Reached' : actualCosts'[n] = costs'[n] + heuristic[n]
    BY <1>1, <1>3, <2>2, <2>3 DEF Order
  <2>10. \A n \in closed : actualCosts'[n] <= actualCosts'[node]
    BY <2>7, <2>8 DEF Order
  <2>11. \A n \in ToSet(open') : actualCosts'[node] <= actualCosts'[n]
    BY <1>1, <1>3, <2>2, <2>4, <2>5, <2>8 DEF Order
  <2>12. Reached' \subseteq ToSet(open') \cup closed \cup {node}
    BY <2>3, <2>4 DEF Order
  <2>13. ASSUME NEW k \in Usable, NEW a \in k \cap closed, NEW b \in k \ {a}
         PROVE  (a = node /\ k \in todo') \/ (b \in Reached' /\ costs'[b] <= costs'[a] + cost[k])
    <3>1. CASE a = node /\ k = l
      <4>1. b = adj /\ costs'[b] = c /\ costs'[a] = costs[node]
        BY <1>1, <2>2, <2>8, <3>1
      <4> QED
        BY <1>4, <2>3, <3>1, <4>1
    <3>2. CASE ~ (a = node /\ k = l)
      <4>1. (a = node /\ k \in todo') \/ (b \in Reached /\ costs[b] <= costs[a] + cost[k])
        BY <1>2, <3>2 DEF Order
      <4>2. ASSUME b \in Reached, costs[b] <= costs[a] + cost[k]
            PROVE  costs'[b] <= costs'[a] + cost[k]
        <5>1. costs'[b] <= costs[b] /\ costs'[a] = costs[a]
          BY <1>3, <1>4, <2>2, <2>3, <2>7, <4>2
        <5>2. costs'[b] \in Int /\ costs[b] \in Int /\ costs[a] \in Int /\ cost[k] \in Int
          BY <1>3, <1>4, <2>2, <4>2
        <5> QED
          BY <4>2, <5>1, <5>2
      <4> QED
        BY <2>3, <4>1, <4>2
    <3> QED
      BY <3>1, <3>2
  <2>14. node \in closed
    BY <1>1 DEF Order
  <2> QED
    BY <1>1, <1>2, <2>4, <2>9, <2>10, <2>11, <2>12, <2>13, <2>14 DEF Order
<1> QED
  BY <1>5, <1>6

LEMMA OrderKept ==
  ASSUME Order, UNCHANGED <<request, tables, node, todo>>,
         at' # None \/ lastRes' = "FullFound" => node = end /\ todo = {},
         at' = None /\ lastRes' # "FullFound" => at = None /\ lastRes # "FullFound"
  PROVE  Order'
<1>1. Reached' = Reached /\ Usable' = Usable
  BY DEF Reached, Usable, request, tables
<1> QED
  BY <1>1 DEF Order, Sorted, request, tables

LEMMA OrderStep ==
  ASSUME NavSearchAssumption, Inv, OrderInv, [Next]_vars
  PROVE  OrderInv'
<1>1. Consistent' => Consistent
  <2>1. UNCHANGED request
    BY DEF Next, Step, InStep, Expand, GiveUp, Relax, Back, vars
  <2> QED
    BY <2>1 DEF Consistent, Usable, request
<1> SUFFICES ASSUME Consistent
             PROVE  Order'
  BY <1>1 DEF OrderInv
<1>2. Order
  BY DEF OrderInv
<1>3. CASE Step /\ Expand
  BY <1>2, <1>3, OrderExpand DEF Step
<1>4. CASE Step /\ GiveUp
  <2>1. /\ UNCHANGED <<request, tables, node, todo, at>>
        /\ lastRes' = "NotFound" /\ at = None /\ lastRes = "NotComplete"
    BY <1>4 DEF GiveUp, Step, Idle
  <2> QED
    BY <1>2, <2>1, OrderKept
<1>5. ASSUME NEW l \in Links, Relax(l)
      PROVE  Order'
  BY <1>2, <1>5, OrderRelax
<1>6. CASE Back
  <2>1. /\ UNCHANGED <<request, tables, node, todo>> /\ at # None
        /\ at' = None => lastRes' = "FullFound"
    <3>1. at # begin => at' # None
      <4>1. CASE at # begin
        <5>1. at \in Reached /\ at' = OtherNode(parents[at], at)
          BY <1>6, <4>1 DEF Back, Inv, Shape
        <5>2. OtherNode(parents[at], at) \in Reached
          BY <4>1, <5>1 DEF Inv, ParentsAreCheaper
        <5> QED
          BY <5>1, <5>2 DEF Reached, NavSearchAssumption
      <4> QED
        BY <4>1
    <3> QED
      BY <1>6, <3>1 DEF Back
  <2>2. node = end /\ todo = {}
    BY <1>2, <2>1 DEF Order
  <2> QED
    BY <1>2, <2>1, <2>2, OrderKept
<1>7. CASE UNCHANGED vars
  <2>1. UNCHANGED <<request, tables, node, todo, at, lastRes>>
    BY <1>7 DEF vars
  <2>2. at # None \/ lastRes = "FullFound" => node = end /\ todo = {}
    BY <1>2 DEF Order
  <2> QED
    BY <1>2, <2>1, <2>2, OrderKept
<1> QED
  BY <1>3, <1>4, <1>5, <1>6, <1>7 DEF Next, Step, InStep

LEMMA PriceHolds ==
  ASSUME NavSearchAssumption, Inv, Consistent, Order, lastRes = "FullFound"
  PROVE  NoneCheaper(Price, end, costs[end])
<1> DEFINE f(n) == actualCosts[n]
           near(n) == n \in Reached /\ f(n) <= f(end)
<1>1. node = end /\ todo = {}
  BY DEF Order
<1>2. /\ \A n \in Reached : n \in Nodes /\ costs[n] \in Nat /\ f(n) = costs[n] + heuristic[n]
      /\ \A n \in Nodes : costs[n] \in Int /\ f(n) \in Int /\ heuristic[n] \in Nat
      /\ \A l \in Usable : cost[l] \in Nat /\ l \in Links /\ l \subseteq Nodes
      /\ end \in Reached /\ end \in Nodes /\ closed \subseteq Reached
  BY <1>1, NumbersTyped DEF Order
<1>3. \A n \in Nodes : Price[n] = IF near(n) THEN costs[n] ELSE f(end) - heuristic[n]
  BY DEF Price
\* a price is never above the cost of its node, nor above what the end leaves
<1>4. \A n \in Reached : Price[n] <= costs[n] /\ Price[n] \in Int
  BY <1>2, <1>3
<1>5. \A n \in Nodes : Price[n] <= f(end) - heuristic[n] /\ Price[n] \in Int
  BY <1>2, <1>3
<1>6. Price[end] = costs[end]
  BY <1>2, <1>3
<1>7. Price[begin] = 0
  <2>1. begin \in Nodes /\ costs[begin] = 0
    BY DEF Inv, Shape, TypeOK
  <2>2. near(begin)
    BY <1>1, <1>2, <2>1 DEF Order, Reached
  <2> QED
    BY <1>3, <2>1, <2>2
<1>8. ASSUME NEW l \in Usable, NEW a \in l, NEW b \in l, a # b
      PROVE  Price[b] <= Price[a] + cost[l]
  <2>1. a \in Nodes /\ b \in Nodes /\ cost[l] \in Nat
    BY <1>2, <1>8
  <2>2. heuristic[a] <= heuristic[b] + cost[l]
    BY <1>8 DEF Consistent
  <2>3. CASE near(a) /\ a \in closed
    <3>1. b \in Reached /\ costs[b] <= costs[a] + cost[l]
      BY <1>1, <1>8, <2>3 DEF Order
    <3>2. Price[b] <= costs[b] /\ Price[b] \in Int /\ costs[b] \in Int
      BY <1>4, <1>2, <3>1
    <3>3. Price[a] = costs[a] /\ costs[a] \in Int
      BY <1>2, <1>3, <2>1, <2>3
    <3> HIDE DEF near
    <3> QED
      BY <2>1, <3>1, <3>2, <3>3
  <2>4. CASE ~ (near(a) /\ a \in closed)
    <3>1. Price[a] = f(end) - heuristic[a]
      <4>1. CASE near(a)
        <5>1. a \in ToSet(open) \/ a = end
          BY <1>1, <2>4, <4>1 DEF Order
        <5>2. f(a) = f(end)
          BY <1>1, <1>2, <4>1, <5>1 DEF Order
        <5>3. costs[a] = f(end) - heuristic[a]
          BY <1>2, <2>1, <4>1, <5>2
        <5> QED
          BY <1>3, <2>1, <4>1, <5>3
      <4>2. CASE ~ near(a)
        BY <1>3, <2>1, <4>2
      <4> QED
        BY <4>1, <4>2
    <3>2. Price[b] <= f(end) - heuristic[b]
      BY <1>5, <2>1
    <3>3. f(end) \in Int /\ heuristic[a] \in Int /\ heuristic[b] \in Int /\ Price[b] \in Int
      BY <1>2, <1>5, <2>1
    <3> HIDE DEF f
    <3> QED
      BY <2>1, <2>2, <3>1, <3>2, <3>3
  <2> QED
    BY <2>3, <2>4
<1> HIDE DEF f, near
<1> QED
  BY <1>6, <1>7, <1>8 DEF NoneCheaper

\* With a heuristic that no link undercuts, as without one, no way to the end
\* costs less than the one that was found.
THEOREM NoShorterPath == Spec => []FoundIsShortest
<1>1. Init => OrderInv
  BY OrderInit DEF OrderInv
<1>2. Inv /\ OrderInv => FoundIsShortest
  BY PriceHolds, NavSearchAssumption DEF OrderInv, FoundIsShortest
<1> QED
  BY <1>1, <1>2, InvAlways, OrderStep, NavSearchAssumption, PTL DEF Spec

(***************************************************************************)
(* The requests.                                                           *)
(***************************************************************************)
\* Who has the search: the request until it returns, then at most the order;
\* and once the owner was told, nobody.
Control ==
  /\ phase \in {"presteps", "generate", "add", "returned"}
  /\ order \in {"none", "queued", "running", "done"}
  /\ requesting \in BOOLEAN /\ listed \in BOOLEAN /\ left \in Nat
  /\ order # "none" => phase = "returned"
  /\ listed => phase = "returned" /\ requesting
  /\ phase # "presteps" /\ order = "none" => at = None
  /\ phase = "generate" <=> again # None
  /\ told \in {"nothing", "PathFound", "PathNotFound"}
  /\ requesting <=> told = "nothing"
  /\ told # "nothing" => order = "none" /\ lastRes # "NotComplete" /\ todo = {}
  /\ phase # "returned" /\ told = "nothing" => lastRes = "NotComplete"
  /\ order = "queued" => lastRes # "FullFound"
  /\ told = "PathNotFound" => lastRes = "NotFound"

-----------------------------------------------------------------------------
(* The steps of the search.                                                *)

LEMMA SearchStep ==
  ASSUME Inv, (DoSearchStep /\ lastRes = "NotComplete") \/ InStep
  PROVE  Inv'
BY InvStep, NavSearchAssumption DEF DoSearchStep, Next, Step

\* A createPath has begun at a node that was reached, and what it has put
\* together goes on from where it is.
Under(i) == i # None => i \in Reached /\ \E n \in Nodes : Walks(path, i, n)

\* GeneratePath has found nothing to make a path to, and m_path is an old one.
Stale == again = begin /\ Exhausted /\ path \in OldPaths

Ways ==
  /\ Under(at)
  /\ Under(again) \/ Stale
  /\ phase = "presteps" /\ at = None /\ lastRes = "NotComplete" => path \in OldPaths
  /\ phase = "presteps" /\ lastRes = "FullFound" => \E n \in Nodes : Walks(path, begin, n)

\* An iteration of createPath, in the search or after it.
LEMMA OneLinkMore ==
  ASSUME ParentsAreCheaper, UNCHANGED <<request, tables>>, path \in Seq(Links),
         NEW i \in Reached, i # begin, Under(i), path' = Pushed(parents[i], path),
         NEW k, k = OtherNode(parents[i], i)
  PROVE  /\ k \in Reached' /\ k # None /\ \E n \in Nodes : Walks(path', k, n)
         /\ path' \in Seq(Links)
<1> DEFINE l == parents[i]
<1>1. /\ l \in Usable /\ i \in l /\ k \in Reached /\ costs[k] + cost[l] <= costs[i]
      /\ path' = Cons(l, path) /\ i \in Nodes
  BY DEF ParentsAreCheaper, Pushed, Reached
<1>2. l \in Links /\ k \in Nodes /\ l = {k, i}
  BY <1>1, OtherEnd, NavSearchAssumption DEF Usable
<1> HIDE DEF l
<1>3. PICK n \in Nodes : Walks(path, i, n)
  BY <1>1, NavSearchAssumption DEF Under, NavSearchAssumption
<1>4. Walks(Cons(l, path), k, n)
  BY <1>1, <1>2, <1>3, LongerWalk, NavSearchAssumption
<1>5. Walks(path', k, n)
  BY <1>1, <1>4
<1>6. Reached' = Reached /\ k # None
  BY <1>2, NavSearchAssumption DEF Reached, tables, NavSearchAssumption
<1>7. path' \in Seq(Links)
  BY <1>1, <1>2 DEF Cons
<1> QED
  BY <1>1, <1>5, <1>6, <1>7

LEMMA WaysSearchStep ==
  ASSUME Inv, Ways, again = None, again' = None, phase' = phase,
         (DoSearchStep /\ lastRes = "NotComplete") \/ InStep
  PROVE  Ways'
<1>1. /\ open \in Seq(Nodes) /\ path \in Seq(Links) /\ end \in Nodes
      /\ ToSet(open) \subseteq Reached /\ Reached \subseteq Nodes
      /\ todo # {} => at = None /\ lastRes = "NotComplete"
      /\ at # None => lastRes = "NotComplete"
      /\ ParentsAreCheaper
  BY DEF Inv, Shape, TypeOK, Reached
<1>2. Under(again)'
  BY DEF Under
<1>3. ASSUME Expand, lastRes = "NotComplete"
      PROVE  Ways'
  <2>1. /\ UNCHANGED <<request, costs>> /\ lastRes' = "NotComplete" /\ at = None
        /\ end' = end /\ Reached' = Reached
    BY <1>3 DEF Expand, Idle, request, Reached
  <2>2. CASE Head(open) = end
    <3>1. at' = end /\ path' = <<>> /\ at' # None
      BY <1>1, <1>3, <2>2, NavSearchAssumption DEF Expand, NavSearchAssumption
    <3>2. end \in Reached
      BY <1>1, <1>3, <2>2, ToSetTail DEF Expand
    <3>3. Walks(path, at, at)'
      BY <1>1, <2>1, <3>1, EmptyWalk DEF Walks, Leads, Usable, request
    <3>4. Under(at)'
      BY <1>1, <2>1, <3>1, <3>2, <3>3 DEF Under
    <3> QED
      BY <1>2, <2>1, <3>1, <3>4 DEF Ways
  <2>3. CASE Head(open) # end
    <3>1. at' = None /\ path' = path
      BY <1>3, <2>1, <2>3 DEF Expand
    <3> QED
      BY <1>2, <1>3, <2>1, <3>1 DEF Ways, Under
  <2> QED
    BY <2>2, <2>3
<1>4. ASSUME GiveUp, lastRes = "NotComplete"
      PROVE  Ways'
  <2>1. at' = None /\ path' = path /\ lastRes' = "NotFound"
    BY <1>4 DEF GiveUp, Idle
  <2> QED
    BY <1>2, <2>1 DEF Ways, Under
<1>5. ASSUME NEW l \in Links, Relax(l)
      PROVE  Ways'
  <2>1. at = None /\ at' = at /\ lastRes = "NotComplete" /\ lastRes' = lastRes /\ path' = path
    BY <1>1, <1>5 DEF Relax
  <2> QED
    BY <1>2, <2>1 DEF Ways, Under
<1>6. ASSUME Back
      PROVE  Ways'
  <2>1. /\ UNCHANGED <<request, tables>> /\ at # None /\ at \in Reached /\ Under(at)
        /\ lastRes = "NotComplete"
    BY <1>1, <1>6 DEF Back, Ways, Under
  <2>2. CASE at = begin
    <3>1. at' = None /\ lastRes' = "FullFound" /\ path' = path
      BY <1>6, <2>2 DEF Back
    <3>2. \E n \in Nodes : Walks(path', begin, n)
      BY <2>1, <2>2, <3>1 DEF Under
    <3>3. \E n \in Nodes : Walks(path, begin, n)'
      BY <2>1, <3>2 DEF Walks, Leads, Usable, request, tables
    <3> QED
      BY <1>2, <3>1, <3>3 DEF Ways, Under
  <2>3. CASE at # begin
    <3>1. path' = Pushed(parents[at], path) /\ at' = OtherNode(parents[at], at)
          /\ lastRes' = lastRes
      BY <1>6, <2>3 DEF Back
    <3>2. PICK k : k = OtherNode(parents[at], at)
      OBVIOUS
    <3>3. k \in Reached' /\ k # None /\ \E n \in Nodes : Walks(path', k, n)
      BY <1>1, <2>1, <2>3, <3>1, <3>2, OneLinkMore
    <3>4. \E n \in Nodes : Walks(path, at, n)'
      BY <2>1, <3>1, <3>2, <3>3 DEF Walks, Leads, Usable, request, tables
    <3>5. at' \in Reached' /\ at' # None
      BY <3>1, <3>2, <3>3
    <3> QED
      BY <1>2, <2>1, <3>1, <3>4, <3>5 DEF Ways, Under
  <2> QED
    BY <2>2, <2>3
<1> QED
  BY <1>3, <1>4, <1>5, <1>6 DEF DoSearchStep, InStep

-----------------------------------------------------------------------------
(* The invariant of the request.                                           *)

WayHolds ==
  /\ way \in Seq(Links)
  /\ (\E n \in Nodes : Arrives(way, n)) \/ (Exhausted /\ way \in OldPaths)

PlannerInv == Inv /\ Control /\ Ways /\ WayHolds

LEMMA SearchFacts ==
  ASSUME Inv
  PROVE  /\ lastRes \in {"NotComplete", "FullFound", "NotFound"}
         /\ todo # {} => at = None /\ lastRes = "NotComplete"
         /\ at # None => lastRes = "NotComplete"
         /\ lastRes = "NotFound" => open = <<>>
         /\ path \in Seq(Links) /\ begin \in Nodes /\ begin \in Reached
         /\ open \in Seq(Nodes) /\ ToSet(open) \subseteq Reached
         /\ ParentsAreCheaper
BY DEF Inv, Shape, TypeOK, Reached

\* A search that is exhausted stays so: all it can still do is to say so.
LEMMA ExhaustedStays ==
  ASSUME Exhausted
  PROVE  /\ DoSearchStep \/ InStep => Exhausted'
         /\ UNCHANGED <<open, todo, at, lastRes>> => Exhausted'
<1>1. ASSUME DoSearchStep \/ InStep
      PROVE  Exhausted'
  <2>1. GiveUp
    BY <1>1 DEF Exhausted, Idle, DoSearchStep, Expand, InStep, Relax, Back
  <2>2. open' = open /\ todo' = todo /\ at' = at /\ lastRes' = "NotFound"
    BY <2>1 DEF GiveUp, tables
  <2> QED
    BY <2>2 DEF Exhausted, Idle
<1>2. ASSUME UNCHANGED <<open, todo, at, lastRes>>
      PROVE  Exhausted'
  BY <1>2 DEF Exhausted, Idle
<1> QED
  BY <1>1, <1>2

LEMMA WayKept ==
  ASSUME WayHolds, UNCHANGED request, Exhausted => Exhausted',
         \/ way' = way
         \/ way' = path' /\ path' \in Seq(Links) /\ \E n \in Nodes : Walks(path, begin, n)'
         \/ way' \in OldPaths /\ way' \in Seq(Links) /\ Exhausted'
  PROVE  WayHolds'
<1>1. cost' = cost /\ begin' = begin
  BY DEF request
<1>2. CASE way' = way
  BY <1>1, <1>2 DEF WayHolds, Arrives, Leads, Usable
<1>4. CASE way' \in OldPaths /\ way' \in Seq(Links) /\ Exhausted'
  BY <1>4 DEF WayHolds
<1>3. CASE way' = path' /\ path' \in Seq(Links) /\ \E n \in Nodes : Walks(path, begin, n)'
  <2>1. PICK n \in Nodes : Walks(path, begin, n)'
    BY <1>3
  <2>2. Arrives(path, n)'
    BY <2>1 DEF Walks, Arrives
  <2>3. Arrives(way, n)'
    BY <1>3, <2>2 DEF Arrives
  <2> QED
    BY <1>3, <2>3 DEF WayHolds
<1> QED
  BY <1>2, <1>3, <1>4

LEMMA PlannerInvInit == PlannerInit => PlannerInv
<1> SUFFICES ASSUME PlannerInit PROVE PlannerInv
  OBVIOUS
<1>1. Init /\ at = None /\ path \in OldPaths /\ lastRes = "NotComplete" /\ todo = {} /\ begin \in Nodes
  BY DEF PlannerInit, Init, Setup
<1>3. Inv
  BY <1>1, InvInit
<1>4. Control
  BY <1>1, PathFindingAssumption DEF PlannerInit, Control, PathFindingAssumption
<1>5. Ways
  BY <1>1 DEF Ways, Under, PlannerInit
<1>6. WayHolds
  <2>1. Walks(<<>>, begin, begin)
    BY <1>1, EmptyWalk
  <2> QED
    BY <1>1, <2>1 DEF WayHolds, Arrives, Walks, PlannerInit
<1> QED
  BY <1>3, <1>4, <1>5, <1>6 DEF PlannerInv

LEMMA StepOfPre ==
  ASSUME PlannerInv, PreStep
  PROVE  PlannerInv'
<1>1. /\ phase = "presteps" /\ phase' = "presteps" /\ again = None /\ again' = None
      /\ order' = order /\ listed' = listed
      /\ left \in Nat /\ left' \in Nat /\ order = "none" /\ listed = FALSE
      /\ \/ DoSearchStep /\ lastRes = "NotComplete"
         \/ InStep
  BY DEF PreStep, PlannerInv, Control
<1>2. UNCHANGED request
  BY <1>1 DEF DoSearchStep, Expand, GiveUp, InStep, Relax, Back
<1>3. lastRes = "NotComplete" /\ told = "nothing" /\ requesting = TRUE
  <2>1. InStep => todo # {} \/ at # None
    BY DEF InStep, Relax, Back
  <2>2. lastRes = "NotComplete"
    BY <1>1, <2>1, SearchFacts DEF PlannerInv
  <2> QED
    BY <2>2 DEF PlannerInv, Control
<1>4. Inv' /\ Ways'
  BY <1>1, SearchStep, WaysSearchStep DEF PlannerInv
<1>5. /\ lastRes' \in {"NotComplete", "FullFound", "NotFound"} /\ path' \in Seq(Links)
      /\ todo' # {} => lastRes' = "NotComplete"
  BY <1>4 DEF Inv, Shape, TypeOK
<1>6. Answer(lastRes', path')
  BY DEF PreStep
<1>7. Control'
  <2>1. /\ requesting' = (lastRes' = "NotComplete")
        /\ lastRes' = "NotComplete" => told' = "nothing"
        /\ lastRes' = "FullFound" => told' = "PathFound"
        /\ lastRes' = "NotFound" => told' = "PathNotFound"
    BY <1>3, <1>6 DEF Answer
  <2>2. told' \in {"nothing", "PathFound", "PathNotFound"} /\ (told' = "nothing" <=> lastRes' = "NotComplete")
        /\ requesting' \in BOOLEAN /\ (told' = "PathNotFound" => lastRes' = "NotFound")
    BY <1>5, <2>1
  <2>3. requesting' <=> told' = "nothing"
    BY <2>1, <2>2
  <2>4. listed' \in BOOLEAN /\ ~ listed' /\ phase' = "presteps" /\ order' = "none" /\ left' \in Nat
        /\ again' = None
    BY <1>1
  <2>5. told' # "nothing" => lastRes' # "NotComplete" /\ todo' = {}
    BY <1>5, <2>2
  <2> HIDE DEF Answer
  <2> QED
    BY <2>2, <2>3, <2>4, <2>5, Zenon DEF Control
<1>8. WayHolds'
  <2>1. Exhausted => Exhausted'
    BY <1>1, ExhaustedStays
  <2> QED
    BY <1>1, <1>2, <1>4, <1>5, <1>6, <2>1, WayKept DEF PlannerInv, Answer, Ways
<1> QED
  BY <1>4, <1>7, <1>8 DEF PlannerInv

LEMMA StepOfGeneratePath ==
  ASSUME PlannerInv, GeneratePath
  PROVE  PlannerInv'
<1>1. /\ phase = "presteps" /\ again = None /\ at = None
      /\ UNCHANGED <<request, tables, node, todo, at, lastRes,
                     left, requesting, listed, order, told, way>>
  BY DEF GeneratePath, Idle, PlannerInv, Control
<1>5. Exhausted => Exhausted'
  BY <1>1, ExhaustedStays DEF tables
<1>2. begin \in Reached /\ path \in Seq(Links) /\ Target \in Reached /\ Target \in Nodes
  BY SearchFacts, ToSetTail DEF PlannerInv, Target, Reached
<1>3. CASE lastRes = "NotFound"
  <2>1. phase' = "add" /\ again' = None /\ path' = path
    BY <1>1, <1>3 DEF GeneratePath
  <2>2. Inv'
    BY <1>1, <1>2, <2>1, InvOtherPath DEF PlannerInv
  <2>3. Control'
    BY <1>1, <2>1 DEF PlannerInv, Control
  <2>4. Ways'
    BY <1>1, <2>1 DEF Ways, Under
  <2>5. WayHolds'
    BY <1>1, <1>5, WayKept DEF PlannerInv
  <2> QED
    BY <2>2, <2>3, <2>4, <2>5 DEF PlannerInv
<1>4. CASE lastRes # "NotFound"
  <2>1. phase' = "generate" /\ again' = Target /\ path' = IF open = <<>> THEN path ELSE <<>>
    BY <1>4 DEF GeneratePath
  <2>2. path' \in Seq(Links)
    <3>1. <<>> \in Seq(Links)
      OBVIOUS
    <3> QED
      BY <1>2, <2>1, <3>1
  <2>3. Inv'
    BY <1>1, <2>2, InvOtherPath DEF PlannerInv
  <2>4. Target # None
    BY <1>2, NavSearchAssumption DEF NavSearchAssumption
  <2>5. Control'
    BY <1>1, <2>1, <2>4 DEF PlannerInv, Control
  <2>6. \/ \E n \in Nodes : Walks(path', Target, n)
        \/ Target = begin /\ Exhausted /\ path' \in OldPaths
    <3>1. lastRes = "NotComplete" => path \in OldPaths
      BY <1>1 DEF PlannerInv, Ways
    <3>2. lastRes = "FullFound" => \E n \in Nodes : Walks(path, begin, n)
      BY <1>1 DEF PlannerInv, Ways
    <3>3. CASE open # <<>>
      BY <1>2, <2>1, <3>3, EmptyWalk
    <3>4. CASE open = <<>>
      <4>1. path' = path /\ Target = begin
        BY <2>1, <3>4 DEF Target
      <4>2. lastRes # "FullFound" => Exhausted
        BY <3>4 DEF GeneratePath, Exhausted
      <4> QED
        BY <1>4, <3>1, <3>2, <4>1, <4>2, SearchFacts DEF PlannerInv
    <3> QED
      BY <3>3, <3>4
  <2>7. Ways'
    <3>1. Reached' = Reached
      BY <1>1 DEF Reached, tables
    <3>2. CASE \E n \in Nodes : Walks(path', Target, n)
      <4>1. \E n \in Nodes : Walks(path, again, n)'
        BY <1>1, <2>1, <3>2 DEF Walks, Leads, Usable, request, tables
      <4> QED
        BY <1>1, <1>2, <2>1, <3>1, <4>1 DEF Ways, Under
    <3>3. CASE Target = begin /\ Exhausted /\ path' \in OldPaths
      <4>1. Stale'
        BY <1>1, <1>5, <2>1, <3>3 DEF Stale, request
      <4> QED
        BY <1>1, <2>1, <4>1 DEF Ways, Under
    <3> QED
      BY <2>6, <3>2, <3>3
  <2>8. WayHolds'
    BY <1>1, <1>5, WayKept DEF PlannerInv
  <2> QED
    BY <2>3, <2>5, <2>7, <2>8 DEF PlannerInv
<1> QED
  BY <1>3, <1>4

LEMMA StepOfGenerate ==
  ASSUME PlannerInv, Generate
  PROVE  PlannerInv'
<1>1. /\ phase = "generate" /\ again # None /\ at = None
      /\ UNCHANGED <<request, tables, node, todo, at, lastRes,
                     left, requesting, listed, order, told>>
      /\ order = "none"
  BY DEF Generate, PlannerInv, Control
<1>2. /\ path \in Seq(Links) /\ ParentsAreCheaper
      /\ (Under(again) /\ again \in Reached) \/ Stale
  BY <1>1, SearchFacts DEF PlannerInv, Ways, Under
<1>5. Exhausted => Exhausted'
  BY <1>1, ExhaustedStays DEF tables
<1>3. CASE again = begin
  <2>1. again' = None /\ phase' = "add" /\ way' = path /\ path' = path
    BY <1>3 DEF Generate
  <2>2. Inv'
    BY <1>1, <1>2, <2>1, InvOtherPath DEF PlannerInv
  <2>3. Control'
    BY <1>1, <2>1 DEF PlannerInv, Control
  <2>4. Ways'
    BY <1>1, <2>1 DEF Ways, Under
  <2>5. ASSUME \E n \in Nodes : Walks(path, begin, n)
        PROVE  WayHolds'
    <3>1. PICK n \in Nodes : Walks(path, begin, n)
      BY <2>5
    <3>2. Walks(path, begin, n)'
      BY <1>1, <2>1, <3>1 DEF Walks, Leads, Usable, request, tables
    <3> QED
      BY <1>1, <1>2, <1>5, <2>1, <3>2, WayKept DEF PlannerInv
  <2>6. ASSUME Stale
        PROVE  WayHolds'
    <3>1. way' \in OldPaths /\ way' \in Seq(Links) /\ Exhausted'
      BY <1>2, <1>5, <2>1, <2>6 DEF Stale
    <3> QED
      BY <1>1, <1>5, <3>1, WayKept DEF PlannerInv
  <2>8. Stale \/ \E n \in Nodes : Walks(path, begin, n)
    BY <1>1, <1>2, <1>3 DEF Under
  <2>7. WayHolds'
    BY <2>5, <2>6, <2>8
  <2> QED
    BY <2>2, <2>3, <2>4, <2>7 DEF PlannerInv
<1>4. CASE again # begin
  <2>1. /\ path' = Pushed(parents[again], path) /\ again' = OtherNode(parents[again], again)
        /\ phase' = "generate" /\ way' = way
    BY <1>1, <1>4 DEF Generate
  <2>2. PICK k : k = OtherNode(parents[again], again)
    OBVIOUS
  <2>9. Under(again) /\ again \in Reached
    BY <1>2, <1>4 DEF Stale
  <2>3. /\ k \in Reached' /\ k # None /\ \E n \in Nodes : Walks(path', k, n)
        /\ path' \in Seq(Links)
    BY <1>1, <1>2, <1>4, <2>1, <2>2, <2>9, OneLinkMore
  <2>4. Inv'
    BY <1>1, <2>3, InvOtherPath DEF PlannerInv
  <2>5. Control'
    BY <1>1, <2>1, <2>2, <2>3 DEF PlannerInv, Control
  <2>6. \E n \in Nodes : Walks(path, again, n)'
    BY <1>1, <2>1, <2>2, <2>3 DEF Walks, Leads, Usable, request, tables
  <2>7. Ways'
    BY <1>1, <2>1, <2>2, <2>3, <2>6 DEF Ways, Under
  <2>8. WayHolds'
    BY <1>1, <1>5, <2>1, WayKept DEF PlannerInv
  <2> QED
    BY <2>4, <2>5, <2>7, <2>8 DEF PlannerInv
<1> QED
  BY <1>3, <1>4

\* A step that leaves the search alone.
LEMMA SearchStutters ==
  ASSUME Inv, Ways, WayHolds, UNCHANGED <<vars, again, way>>, phase' = phase \/ phase' = "returned"
  PROVE  Inv' /\ Ways' /\ WayHolds'
<1>1. Inv'
  BY InvStutter
<1>4. Exhausted => Exhausted'
  BY ExhaustedStays DEF vars, tables
<1>2. WayHolds'
  BY <1>4, WayKept DEF vars
<1>3. Ways'
  <2>1. UNCHANGED <<at, again, path, lastRes, request, costs>> /\ Reached' = Reached
    BY DEF vars, Reached, tables
  <2>2. Stale => Stale'
    BY <1>4, <2>1 DEF Stale, request
  <2> QED
    BY <2>1, <2>2 DEF Ways, Under, Walks, Leads, Usable, request
<1> QED
  BY <1>1, <1>2, <1>3

LEMMA StepOfAdd ==
  ASSUME PlannerInv, AddPathfindRequest
  PROVE  PlannerInv'
<1>1. /\ phase = "add" /\ phase' = "returned" /\ UNCHANGED <<vars, again, left, requesting, told, way>>
      /\ order = "none" /\ listed = FALSE /\ at = None /\ at' = at /\ todo' = todo /\ lastRes' = lastRes
  BY DEF AddPathfindRequest, PlannerInv, Control, vars
<1>2. /\ order' \in {"none", "queued"} /\ listed' \in BOOLEAN
      /\ order' = "queued" \/ listed' = TRUE => lastRes = "NotComplete"
  BY <1>1 DEF AddPathfindRequest, Unfinished
<1>3. told # "nothing" => order' = "none" /\ listed' = FALSE
  BY <1>1, <1>2 DEF PlannerInv, Control, AddPathfindRequest, Unfinished
<1>4. Control'
  BY <1>1, <1>2, <1>3 DEF PlannerInv, Control
<1> QED
  BY <1>1, <1>4, SearchStutters DEF PlannerInv

LEMMA StepOfWorker ==
  ASSUME PlannerInv, Worker
  PROVE  PlannerInv'
<1>1. /\ order \in {"queued", "running"} /\ phase = "returned" /\ told = "nothing" /\ again = None
      /\ UNCHANGED <<phase, again, left, requesting, listed, told, way>>
  BY DEF Worker, RunOrder, Work, OrderRun, planner, PlannerInv, Control
<1>2. CASE RunOrder /\ lastRes = "NotComplete"
  <2>1. Inv' /\ Ways'
    BY <1>1, <1>2, SearchStep, WaysSearchStep DEF RunOrder, PlannerInv
  <2>2. Control'
    BY <1>1, <1>2 DEF RunOrder, PlannerInv, Control
  <2>3. UNCHANGED request
    BY <1>2 DEF RunOrder, DoSearchStep, Expand, GiveUp
  <2>4. Exhausted => Exhausted'
    BY <1>2, ExhaustedStays DEF RunOrder
  <2> QED
    BY <1>1, <2>1, <2>2, <2>3, <2>4, WayKept DEF PlannerInv
<1>3. CASE RunOrder /\ lastRes # "NotComplete"
  <2>1. lastRes = "NotFound" /\ open = <<>>
    BY <1>1, <1>3, SearchFacts DEF RunOrder, PlannerInv, Control
  <2>2. UNCHANGED vars /\ order' = "running"
    BY <1>3, <2>1 DEF RunOrder, DoSearchStep, Expand, GiveUp, vars
  <2>3. Control'
    BY <1>1, <2>2 DEF PlannerInv, Control, vars
  <2> QED
    BY <1>1, <2>2, <2>3, SearchStutters DEF PlannerInv, vars
<1>4. CASE Work
  <2>1. Inv' /\ Ways'
    BY <1>1, <1>4, SearchStep, WaysSearchStep DEF Work, PlannerInv
  <2>2. Control'
    BY <1>1, <1>4 DEF Work, planner, PlannerInv, Control
  <2>3. UNCHANGED request
    BY <1>4 DEF Work, InStep, Relax, Back
  <2>4. Exhausted => Exhausted'
    BY <1>4, ExhaustedStays DEF Work
  <2> QED
    BY <1>1, <2>1, <2>2, <2>3, <2>4, WayKept DEF PlannerInv
<1>5. CASE OrderRun
  <2>1. UNCHANGED vars /\ order' \in {"queued", "done"} /\ (order' = "queued" => lastRes = "NotFound")
    BY <1>5 DEF OrderRun, Ended
  <2>2. Control'
    BY <1>1, <2>1 DEF PlannerInv, Control, vars
  <2> QED
    BY <1>1, <2>1, <2>2, SearchStutters DEF PlannerInv, vars
<1> QED
  BY <1>2, <1>3, <1>4, <1>5 DEF Worker

\* The main thread has nothing to do: a request it would answer was never
\* listed.
LEMMA StepOfUpdate ==
  ASSUME PlannerInv, Update
  PROVE  PlannerInv'
<1>1. UNCHANGED <<vars, phase, again, left, order, listed, requesting, told, way>>
  BY DEF Update, PlannerInv, Control
<1>2. Control'
  BY <1>1 DEF PlannerInv, Control, vars
<1> QED
  BY <1>1, <1>2, SearchStutters DEF PlannerInv

LEMMA PlannerInvStep ==
  ASSUME PlannerInv, [PlannerNext]_allVars
  PROVE  PlannerInv'
<1>1. CASE UNCHANGED allVars
  <2>1. UNCHANGED <<vars, phase, again, left, order, listed, requesting, told, way>>
    BY <1>1 DEF allVars, planner, vars
  <2>2. Control'
    BY <2>1 DEF PlannerInv, Control, vars
  <2> QED
    BY <2>1, <2>2, SearchStutters DEF PlannerInv
<1> QED
  BY <1>1, StepOfPre, StepOfGeneratePath, StepOfGenerate, StepOfAdd, StepOfWorker, StepOfUpdate
     DEF PlannerNext, Request

LEMMA PlannerInvAlways == PlannerSpec => []PlannerInv
BY PlannerInvInit, PlannerInvStep, PTL DEF PlannerSpec

-----------------------------------------------------------------------------
(* Theorems.                                                               *)

\* The variables of a request keep their types.
THEOREM PlannerTypeCorrect == PlannerSpec => []PlannerTypeOK
<1>1. ASSUME PlannerInv
      PROVE  PlannerTypeOK
  <2>1. again \in Nodes \cup {None}
    BY <1>1, SearchFacts DEF PlannerInv, Ways, Under, Stale, Reached
  <2>2. TypeOK
    BY <1>1 DEF PlannerInv, Inv, Shape
  <2> QED
    BY <1>1, <2>1, <2>2 DEF PlannerTypeOK, PlannerInv, Control, WayHolds
<1> QED
  BY <1>1, PlannerInvAlways, PTL

\* What the owner of a request was given holds: its path is a path from the
\* begin, or the search was exhausted when GeneratePath was called and the path
\* is an earlier one; when it was told that there is none, there is none; and nobody
\* goes on with a request that was answered.
THEOREM AnswersAreRight == PlannerSpec => []AnswersHold
<1>1. ASSUME PlannerInv
      PROVE  AnswersHold
  <2>1. told = "PathNotFound" => Unreachable(end)
    <3>1. lastRes = "NotFound" => Unreachable(end)
      BY <1>1, NothingFound DEF PlannerInv
    <3> QED
      BY <1>1, <3>1 DEF PlannerInv, Control
  <2>2. told # "nothing" => ~ listed /\ order = "none" /\ ~ requesting
    BY <1>1 DEF PlannerInv, Control
  <2> QED
    BY <1>1, <2>1, <2>2 DEF AnswersHold, PlannerInv, WayHolds
<1> QED
  BY <1>1, PlannerInvAlways, PTL

-----------------------------------------------------------------------------
(* What was proved of the search holds of the search of a request, too.    *)

\* A step of the request is one of the search or leaves its tables alone;
\* then no createPath of the search is going on.
LEMMA StepOfSearch ==
  ASSUME PlannerInv, [PlannerNext]_allVars
  PROVE  \/ [Next]_vars
         \/ at = None /\ UNCHANGED <<request, tables, node, todo, at, lastRes>>
<1>1. ASSUME (DoSearchStep /\ lastRes = "NotComplete") \/ InStep
      PROVE  Next
  BY <1>1 DEF DoSearchStep, Next, Step
<1>2. CASE PreStep
  BY <1>1, <1>2 DEF PreStep
<1>3. CASE GeneratePath
  BY <1>3 DEF GeneratePath, Idle
<1>4. CASE Generate
  BY <1>4 DEF Generate, PlannerInv, Control
<1>5. CASE RunOrder
  <2>1. CASE lastRes = "NotComplete"
    BY <1>1, <1>5, <2>1 DEF RunOrder
  <2>2. CASE lastRes # "NotComplete"
    <3>1. lastRes = "NotFound" /\ open = <<>>
      BY <1>5, <2>2, SearchFacts DEF RunOrder, PlannerInv, Control
    <3> QED
      BY <1>5, <3>1 DEF RunOrder, DoSearchStep, Expand, GiveUp, vars
  <2> QED
    BY <2>1, <2>2
<1>6. CASE Work
  BY <1>1, <1>6 DEF Work
<1>7. CASE AddPathfindRequest \/ OrderRun \/ Update \/ UNCHANGED allVars
  <2>1. UNCHANGED vars
    BY <1>7 DEF AddPathfindRequest, OrderRun, Update, allVars
  <2> QED
    BY <2>1
<1> QED
  BY <1>2, <1>3, <1>4, <1>5, <1>6, <1>7 DEF PlannerNext, Request, Worker

\* A request whose search ended without a path has none.
THEOREM RequestNotFoundIsRight == PlannerSpec => []NotFoundIsUnreachable
<1>1. PlannerInv => NotFoundIsUnreachable
  BY NothingFound DEF NotFoundIsUnreachable, PlannerInv
<1> QED
  BY <1>1, PlannerInvAlways, PTL

\* The search of a request finds the cheapest way, too.
THEOREM RequestNoShorterPath == PlannerSpec => []FoundIsShortest
<1>1. PlannerInit => OrderInv
  BY OrderInit DEF OrderInv, PlannerInit
<1>2. ASSUME PlannerInv, OrderInv, [PlannerNext]_allVars
      PROVE  OrderInv'
  <2>1. CASE [Next]_vars
    BY <1>2, <2>1, OrderStep, NavSearchAssumption DEF PlannerInv
  <2>2. CASE UNCHANGED <<request, tables, node, todo, at, lastRes>>
    <3>1. Consistent' => Consistent
      BY <2>2 DEF Consistent, Usable, request
    <3>2. Order => Order'
      <4>1. SUFFICES ASSUME Order PROVE Order'
        OBVIOUS
      <4>2. at # None \/ lastRes = "FullFound" => node = end /\ todo = {}
        BY <4>1 DEF Order
      <4> QED
        BY <2>2, <4>1, <4>2, OrderKept
    <3> QED
      BY <1>2, <3>1, <3>2 DEF OrderInv
  <2> QED
    BY <1>2, <2>1, <2>2, StepOfSearch
<1>3. PlannerInv /\ OrderInv => FoundIsShortest
  BY PriceHolds, NavSearchAssumption DEF OrderInv, FoundIsShortest, PlannerInv
<1> QED
  BY <1>1, <1>2, <1>3, PlannerInvAlways, PTL DEF PlannerSpec

\* The path the search of a request has found leads to the end, before
\* GeneratePath puts another in its place.
THEOREM RequestPathLeadsToEnd == PlannerSpec => PathArrives
<1>1. PlannerInit => PathInv
  BY DEF PlannerInit, Init, Setup, PathInv
<1>2. ASSUME PlannerInv, PathInv, [PlannerNext]_allVars
      PROVE  PathInv' /\ [lastRes # "FullFound" /\ lastRes' = "FullFound"
                            => Walks(path, begin, end)']_vars
  <2>1. CASE [Next]_vars
    BY <1>2, <2>1, PathStep, NavSearchAssumption DEF PlannerInv, FindsEnd
  <2>2. CASE at = None /\ UNCHANGED <<request, tables, node, todo, at, lastRes>>
    BY <2>2 DEF PathInv
  <2> QED
    BY <1>2, <2>1, <2>2, StepOfSearch
<1> QED
  BY <1>1, <1>2, PlannerInvAlways, PTL DEF PlannerSpec, PathArrives

\* Every step of it brings it closer to its end.
THEOREM RequestGetsCloser == PlannerSpec => EveryStepIsCloser
<1>1. PlannerInv => [Next => Closer]_vars
  BY StepIsCloser DEF PlannerInv
<1> QED
  BY <1>1, PlannerInvAlways, PTL DEF EveryStepIsCloser
=============================================================================
