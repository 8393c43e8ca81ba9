----------------------------- MODULE Rendezvous -----------------------------
(***************************************************************************)
(* What a reusable barrier promises to its parties: nobody goes on before  *)
(* everybody has arrived, round after round.  Who is away is no party.     *)
(***************************************************************************)
EXTENDS FiniteSets

CONSTANT Parties

VARIABLE at   \* "away", "out", "in" (arrived, may not go on) or "released"

Init == at \in [Parties -> {"away", "out"}]

Present == {p \in Parties : at[p] # "away"}

Arrive(p) ==
  /\ at[p] = "out"
  /\ \E q \in Present \ {p} : at[q] # "in"
  /\ at' = [at EXCEPT ![p] = "in"]

\* The last to arrive releases all.
ArriveLast(p) ==
  /\ at[p] = "out"
  /\ \A q \in Present \ {p} : at[q] = "in"
  /\ at' = [q \in Parties |-> IF q \in Present THEN "released" ELSE "away"]

Leave(p) ==
  /\ at[p] = "released"
  /\ at' = [at EXCEPT ![p] = "out"]

Next == \E p \in Parties : Arrive(p) \/ ArriveLast(p) \/ Leave(p)

Spec == Init /\ [][Next]_at

\* Of a pair, who was released does leave.
Pair == Cardinality(Present) = 2
FairSpec == Spec /\ \A p \in Parties : WF_at(Pair /\ Leave(p))

=============================================================================
