------------------------------ MODULE NavSearch ------------------------------
(***************************************************************************)
(* The A* search of a navigation mesh: NavAStarSearch (src/Engine/mrayAI), *)
(* from SetupForNewSearch to the result of Search.  The loop over the      *)
(* links of a node and the loop of createPath take one step an iteration,  *)
(* the links of a node in any order: a node is expanded once, so every     *)
(* order is that of some list of links.                                    *)
(*                                                                         *)
(* A link is the pair of its nodes.  What it costs is its length divided   *)
(* by the weight the ICostFunction gives it, 0 here for the weight 0 by    *)
(* which a cost function closes a link; a search without a cost function   *)
(* has the heuristic 0 everywhere.  Costs are whole numbers: the rounding  *)
(* of floats is left out, and linked nodes are at different places.        *)
(***************************************************************************)
EXTENDS Integers, Sequences, FiniteSets, SequencesExt

CONSTANTS Nodes, Links,
          Costs,        \* what a link can cost
          Heuristics,   \* what the cost function can say of a node
          OldPaths,     \* what an earlier search may have left in m_path
          None          \* no node, no link

ASSUME NavSearchAssumption ==
  /\ \A l \in Links : \E m, n \in Nodes : m # n /\ l = {m, n}
  /\ Costs \subseteq Nat
  /\ Heuristics \subseteq Nat
  /\ OldPaths \subseteq Seq(Links)
  /\ None \notin Nodes \cup Links

VARIABLES cost,         \* of each link, 0 when it is closed
          heuristic,    \* of each node
          begin, end,   \* m_begin, m_end
          open,         \* m_openList; m_openListDirect marks the nodes in it
          closed,       \* the nodes m_closeListDirect marks
          costs,        \* m_costs
          actualCosts,  \* m_actualCosts
          parents,      \* m_parents
          node,         \* the node DoSearchStep has taken
          todo,         \* its links the loop has not come to
          at,           \* i of createPath, None outside it
          path,         \* m_path
          lastRes       \* m_lastRes

request == <<cost, heuristic, begin, end>>
tables == <<open, closed, costs, actualCosts, parents>>
vars == <<request, tables, node, todo, at, path, lastRes>>

TypeOK ==
  /\ cost \in [Links -> Costs]
  /\ heuristic \in [Nodes -> Heuristics]
  /\ begin \in Nodes /\ end \in Nodes
  /\ open \in Seq(Nodes) /\ IsInjective(open)
  /\ closed \subseteq Nodes \ ToSet(open)
  /\ costs \in [Nodes -> Nat \cup {-1}]
  /\ actualCosts \in [Nodes -> Nat \cup {-1}]
  /\ parents \in [Nodes -> Links \cup {None}]
  /\ node \in Nodes
  /\ todo \subseteq Links
  /\ at \in Nodes \cup {None}
  /\ path \in Seq(Links)
  /\ lastRes \in {"NotComplete", "FullFound", "NotFound"}

(***************************************************************************)
(* The graph.                                                              *)
(***************************************************************************)
Usable == {l \in Links : cost[l] > 0}

OtherNode(l, n) == CHOOSE m \in l : m # n

Reached == {n \in Nodes : costs[n] >= 0}

(***************************************************************************)
(* The open list, kept in the order of m_actualCosts.                      *)
(***************************************************************************)
\* Variant: push_back.
Behind(l, f, n) == Len(l) + 1

\* insertToList: before the first node that costs more
Place(l, f, n) ==
  LET more == {i \in 1..Len(l) : f[l[i]] > f[n]}
  IN IF more = {} THEN Len(l) + 1 ELSE Min(more)

Inserted(l, f, n) == InsertAt(l, Place(l, f, n), n)

\* Variant: the node stays where it was.
Kept(l, n) == l

\* removeFromList
Removed(l, n) == RemoveFirst(l, n)

(***************************************************************************)
(* cleanUp and SetupForNewSearch.  Neither touches m_path: what an earlier  *)
(* search of the planner left there stays until createPath clears it.      *)
(***************************************************************************)
\* Variant: cleanUp leaves 0 for a node nobody came to.
ZeroCosts == [n \in Nodes |-> 0]

NoCosts == [n \in Nodes |-> -1]

Setup ==
  /\ open = <<begin>>
  /\ closed = {}
  /\ costs = [NoCosts EXCEPT ![begin] = 0]
  /\ actualCosts = [NoCosts EXCEPT ![begin] = heuristic[begin]]
  /\ parents = [n \in Nodes |-> None]
  /\ node = begin
  /\ todo = {}
  /\ at = None
  /\ path \in OldPaths
  /\ lastRes = "NotComplete"

Init ==
  /\ cost \in [Links -> Costs]
  /\ heuristic \in [Nodes -> Heuristics]
  /\ begin \in Nodes
  /\ end \in Nodes
  /\ Setup

(***************************************************************************)
(* DoSearchStep.                                                           *)
(***************************************************************************)
Idle == todo = {} /\ at = None

\* Variant: the node is not erased.
Whole(l) == l

Rest(l) == Tail(l)

\* the first node of the open list: the end, or one to expand
Expand ==
  /\ Idle
  /\ open # <<>>
  /\ open' = Rest(open)
  /\ node' = Head(open)
  /\ lastRes' = "NotComplete"
  /\ IF Head(open) = end
     THEN /\ at' = end
          /\ path' = <<>>
          /\ UNCHANGED <<closed, todo>>
     ELSE /\ closed' = closed \cup {Head(open)}
          /\ todo' = {l \in Usable : Head(open) \in l}
          /\ UNCHANGED <<at, path>>
  /\ UNCHANGED <<request, costs, actualCosts, parents>>

GiveUp ==
  /\ Idle
  /\ open = <<>>
  /\ lastRes' = "NotFound"
  /\ UNCHANGED <<request, tables, node, todo, at, path>>

\* Variant: the test is > 0.
CheaperPositive(n, c) == costs[n] > 0 /\ c > costs[n]

\* the node was reached before, by a way that costs less
Cheaper(n, c) == costs[n] >= 0 /\ c > costs[n]

Enter(n, f) ==
  open' = IF n \in ToSet(open) THEN Inserted(Removed(open, n), f, n)
          ELSE IF n \notin closed THEN Inserted(open, f, n)
          ELSE open

Relax(l) ==
  LET adj == OtherNode(l, node)
      c == costs[node] + cost[l]
  IN /\ l \in todo
     /\ todo' = todo \ {l}
     /\ IF Cheaper(adj, c) THEN UNCHANGED tables
        ELSE /\ costs' = [costs EXCEPT ![adj] = c]
             /\ actualCosts' = [actualCosts EXCEPT ![adj] = c + heuristic[adj]]
             /\ parents' = [parents EXCEPT ![adj] = l]
             /\ Enter(adj, actualCosts')
             /\ UNCHANGED closed
     /\ UNCHANGED <<request, node, at, path, lastRes>>

\* Variant: push_back.
PushedBack(l, p) == Append(p, l)

Pushed(l, p) == Cons(l, p)      \* push_front

\* an iteration of createPath, or its end
Back ==
  /\ at # None
  /\ IF at = begin
     THEN /\ at' = None
          /\ lastRes' = "FullFound"
          /\ UNCHANGED path
     ELSE /\ path' = Pushed(parents[at], path)
          /\ at' = OtherNode(parents[at], at)
          /\ UNCHANGED lastRes
  /\ UNCHANGED <<request, tables, node, todo>>

\* what is left of a call of DoSearchStep once it has taken a node
InStep == (\E l \in Links : Relax(l)) \/ Back

\* Search calls DoSearchStep until it has a result
Step == lastRes = "NotComplete" /\ (Expand \/ GiveUp)

Next == Step \/ InStep

Spec == Init /\ [][Next]_vars

(***************************************************************************)
(* Properties.                                                             *)
(***************************************************************************)
\* m_parents leads back to the begin and never round in a circle: the node
\* at the other end of a node's parent was reached for less than it, by at
\* least the cost of the link.  createPath ends because of it, also when a
\* heuristic has m_costs change for nodes that are closed.
ParentsAreCheaper ==
  \A n \in Reached \ {begin} :
    LET l == parents[n]
    IN /\ l \in Usable /\ n \in l
       /\ OtherNode(l, n) \in Reached
       /\ costs[OtherNode(l, n)] + cost[l] <= costs[n]

\* p leads through the nodes t, over usable links
Leads(p, t) == \A i \in 1..Len(p) : p[i] \in Usable /\ p[i] = {t[i - 1], t[i]}

\* p goes from m to n, and none of its links costs more than what m_costs
\* grows by along it
Walks(p, m, n) ==
  \E t \in [0..Len(p) -> Nodes] :
    /\ t[0] = m /\ t[Len(p)] = n
    /\ Leads(p, t)
    /\ \A i \in 1..Len(p) : costs[t[i - 1]] + cost[p[i]] <= costs[t[i]]

\* the path that DoSearchStep leaves with ESR_FullFound goes from the begin
\* to the end, over no link that the cost function closes, and costs no more
\* than m_costs says of the end
PathArrives ==
  [][lastRes # "FullFound" /\ lastRes' = "FullFound" => Walks(path, begin, end)']_vars

Unreachable(n) ==
  \E S \in SUBSET Nodes :
    /\ begin \in S /\ n \notin S
    /\ \A l \in Usable : l \cap S # {} => l \subseteq S

\* ESR_NotFound says that there is no way: it is not only that the search
\* lost a node between its two lists
NotFoundIsUnreachable == lastRes = "NotFound" => Unreachable(end)

\* the heuristic never says more of one end of a link than the link costs
\* and the other end
Consistent ==
  \A l \in Usable : \A m, n \in l : heuristic[m] <= heuristic[n] + cost[l]

\* no way from the begin to n is cheaper than d: prices of the nodes that no
\* link undercuts
NoneCheaper(price, n, d) ==
  /\ price[begin] = 0
  /\ price[n] = d
  /\ \A l \in Usable : \A a, b \in l : a # b => price[b] <= price[a] + cost[l]

\* what the nodes cost, those the search did not come to as much as the end
\* would make them
Price == [n \in Nodes |->
            IF n \in Reached /\ actualCosts[n] <= actualCosts[end]
            THEN costs[n] ELSE actualCosts[end] - heuristic[n]]

\* with a heuristic that is consistent, and so without any, no path to the
\* end is cheaper than m_costs says of the one that was found
FoundIsShortest ==
  lastRes = "FullFound" /\ Consistent => NoneCheaper(Price, end, costs[end])

\* every search ends: a step of it gives a result, expands a node that was
\* not expanded before, is done with one more link of it, or brings
\* createPath to a node that costs less
Closer ==
  \/ lastRes' # "NotComplete"
  \/ closed \subseteq closed' /\ closed' # closed
  \/ closed' = closed /\ todo' \subseteq todo /\ todo' # todo
  \/ /\ UNCHANGED <<closed, todo>>
     /\ at' # None /\ (at = None \/ costs'[at'] < costs[at])

EveryStepIsCloser == [][Next => Closer]_vars
=============================================================================
