----------------------------- MODULE PathFinding -----------------------------
(***************************************************************************)
(* A request for a path: PathFindPlanner::RequestPathToNodePos when it is  *)
(* not immediate (NavSearch itself is the immediate one), the order the    *)
(* PathFindingManager gives the JobPool for it and ProcessRequests, over   *)
(* the search of NavSearch.  The main thread takes the first steps itself; *)
(* a worker has the search from then on.  One planner asks once; it may    *)
(* have asked before (OldPaths), as long as no order is left of that.      *)
(***************************************************************************)
EXTENDS NavSearch

CONSTANT PreSteps       \* the values of preSteps

ASSUME PathFindingAssumption == PreSteps \subseteq Nat

VARIABLES phase,        \* of RequestPathToNodePos; "returned" after it
          again,        \* i of the createPath GeneratePath calls, None outside it
          left,         \* its calls of Process still to come
          requesting,   \* m_isRequesting
          listed,       \* the planner is in m_planners of the manager
          order,        \* the PathFindingJobOrder: "none", "queued", "running", "done"
          told,         \* the message the owner got, "nothing" before it
          way           \* the path OnPathFound last gave OptimizePath for this request

planner == <<phase, again, left, requesting, listed, order, told, way>>
allVars == <<vars, planner>>

PlannerTypeOK ==
  /\ TypeOK
  /\ phase \in {"presteps", "generate", "add", "returned"}
  /\ again \in Nodes \cup {None}
  /\ left \in Nat
  /\ requesting \in BOOLEAN /\ listed \in BOOLEAN
  /\ order \in {"none", "queued", "running", "done"}
  /\ told \in {"nothing", "PathFound", "PathNotFound"}
  /\ way \in Seq(Links)

PlannerInit ==
  /\ Init
  /\ left \in PreSteps
  /\ phase = IF left > 0 THEN "presteps" ELSE "add"
  /\ again = None
  /\ requesting = TRUE
  /\ listed = FALSE
  /\ order = "none"
  /\ told = "nothing"
  /\ way = <<>>

\* what Process and OnSearchDone do with a result
Answer(res, p) ==
  /\ requesting' = (requesting /\ res = "NotComplete")
  /\ told' = CASE res = "FullFound" -> "PathFound"
               [] res = "NotFound" -> "PathNotFound"
               [] OTHER -> told
  /\ way' = IF res = "FullFound" THEN p ELSE way

DoSearchStep == Expand \/ GiveUp

\* Process: a call of DoSearchStep begins or goes on; at its end it answers
PreStep ==
  /\ phase = "presteps"
  /\ \/ /\ left > 0 /\ lastRes = "NotComplete"
        /\ DoSearchStep
        /\ left' = left - 1
     \/ InStep /\ UNCHANGED left
  /\ Answer(lastRes', path')
  /\ UNCHANGED <<phase, again, listed, order>>

\* GeneratePath begins, to the first node of the open list
Target == IF open = <<>> THEN begin ELSE Head(open)

GeneratePath ==
  /\ phase = "presteps" /\ Idle
  /\ left = 0 \/ lastRes # "NotComplete"
  /\ IF lastRes = "NotFound"
     THEN phase' = "add" /\ UNCHANGED <<again, path>>
     ELSE /\ phase' = "generate"
          /\ again' = Target
          /\ path' = IF open = <<>> THEN path ELSE <<>>
  /\ UNCHANGED <<request, tables, node, todo, at, lastRes,
                 left, requesting, listed, order, told, way>>

\* an iteration of createPath, or its end and OnPathFound
Generate ==
  /\ phase = "generate"
  /\ IF again = begin
     THEN /\ again' = None
          /\ phase' = "add"
          /\ way' = path
          /\ UNCHANGED path
     ELSE /\ path' = Pushed(parents[again], path)
          /\ again' = OtherNode(parents[again], again)
          /\ UNCHANGED <<phase, way>>
  /\ UNCHANGED <<request, tables, node, todo, at, lastRes,
                 left, requesting, listed, order, told>>

\* Variant: it is also given those that were answered with a path.
UnfinishedUnless(res) == res # "NotFound"

\* the manager is given the requests that have no result yet
Unfinished(res) == res = "NotComplete"

AddPathfindRequest ==
  /\ phase = "add"
  /\ phase' = "returned"
  /\ IF Unfinished(lastRes)
     THEN listed' = TRUE /\ order' = "queued"
     ELSE UNCHANGED <<listed, order>>
  /\ UNCHANGED <<vars, again, left, requesting, told, way>>

\* ExecuteJob calls Process_MT until it says anything but ESR_NotFound; a
\* search that has failed fails again at once, for all the ticks
Ended(res) == res # "NotFound"

RunOrder ==
  /\ order = "queued"
  /\ DoSearchStep
  /\ order' = "running"
  /\ UNCHANGED <<phase, again, left, requesting, listed, told, way>>

Work ==
  /\ order = "running"
  /\ InStep
  /\ UNCHANGED planner

\* the order is done or, when the ticks are spent, back in the pool
OrderRun ==
  /\ order = "running" /\ Idle
  /\ order' = IF Ended(lastRes) THEN "done" ELSE "queued"
  /\ UNCHANGED <<vars, phase, again, left, requesting, listed, told, way>>

\* AISystem::Update calls ProcessRequests
Update ==
  /\ phase = "returned"
  /\ IF listed /\ ~requesting
     THEN listed' = FALSE /\ Answer(lastRes, path)
     ELSE UNCHANGED <<listed, requesting, told, way>>
  /\ UNCHANGED <<vars, phase, again, left, order>>

Request == PreStep \/ GeneratePath \/ Generate \/ AddPathfindRequest
Worker == RunOrder \/ Work \/ OrderRun

PlannerNext == Request \/ Worker \/ Update

PlannerSpec ==
  /\ PlannerInit /\ [][PlannerNext]_allVars
  /\ WF_allVars(Request) /\ WF_allVars(Worker) /\ WF_allVars(Update)
(***************************************************************************)
(* Properties.                                                             *)
(***************************************************************************)
\* the path p begins where the search did and goes on from node to node to n
Arrives(p, n) ==
  \E t \in [0..Len(p) -> Nodes] : t[0] = begin /\ t[Len(p)] = n /\ Leads(p, t)

\* the search has nowhere left to go and has not found the end
Exhausted == Idle /\ open = <<>> /\ lastRes # "FullFound"

\* What the owner has been given holds.  Its path is a path from the begin,
\* whatever part of the search it is from, unless the search was exhausted: then
\* GeneratePath makes none, and OnPathFound gives the owner what an earlier search
\* left.  When it was told that there is none, there is none; and an answered
\* request is in no other hands: the manager does not list it and no order goes
\* on with its search.
AnswersHold ==
  /\ (\E n \in Nodes : Arrives(way, n)) \/ (Exhausted /\ way \in OldPaths)
  /\ told = "PathNotFound" => Unreachable(end)
  /\ told # "nothing" => ~listed /\ order = "none" /\ ~requesting

\* The owner never gets a path that is not from this search.  No run has this
\* property, because it does not hold: RequestPathToNodePos does not look at what
\* GeneratePath returns.
WayIsFromBegin == \E n \in Nodes : Arrives(way, n)

\* The path that PathFound was sent for is the path to the destination.  No run
\* has this property, because it does not hold: GeneratePath comes after
\* OnSearchDone, and its path, to whatever node the open list is left with,
\* takes the place of the other.
FoundWayArrives == told = "PathFound" => Arrives(way, end)

\* the owner is told, as the goal that waits for the message expects
RequestAnswered == <>(told # "nothing")
=============================================================================
