--------------------------- MODULE OneTimeTicket ---------------------------
(***************************************************************************)
(* What a pairing ticket promises: it is issued once, somebody may take it *)
(* once, and whoever takes it gets one session or nothing.  An open ticket *)
(* may die at any time; a dead or used one never opens again.              *)
(***************************************************************************)
CONSTANT Ticket

VARIABLE state      \* per ticket

State == {"unissued", "open", "taken", "used", "dead"}

Init == state = [p \in Ticket |-> "unissued"]

\* Any set of open and taken tickets may die, together with or without an issue.
Die(P) == \A p \in P : state[p] \in {"open", "taken"}
After(P, Q) == [p \in Ticket |-> IF p \in P THEN "dead" ELSE IF p \in Q THEN "open" ELSE state[p]]

Issue(p) ==
    /\ state[p] = "unissued"
    /\ \E P \in SUBSET Ticket : Die(P) /\ state' = After(P, {p})
Take(p) == state[p] = "open" /\ state' = [state EXCEPT ![p] = "taken"]
Use(p) == state[p] = "taken" /\ state' = [state EXCEPT ![p] = "used"]
Lose == \E P \in SUBSET Ticket : Die(P) /\ state' = After(P, {})

Next == Lose \/ \E p \in Ticket : Issue(p) \/ Take(p) \/ Use(p)

\* A ticket that was taken does not stay in the hands of its handler.
Concludes == \A p \in Ticket : state[p] = "taken" ~> state[p] # "taken"

Spec == Init /\ [][Next]_state /\ Concludes

\* What a reader may rely on: a ticket that made its session, or died, does nothing more.
SpentStaysSpent ==
    [][\A p \in Ticket : state[p] \in {"used", "dead"} => state'[p] = state[p]]_state
=============================================================================
