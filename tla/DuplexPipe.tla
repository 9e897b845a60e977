----------------------------- MODULE DuplexPipe -----------------------------
(***************************************************************************)
(* What a relay between two ends promises: whatever reaches an end is what *)
(* the other end said, from the beginning, in order, nothing left out and  *)
(* nothing twice; and nothing reaches an end once its side is closed.      *)
(***************************************************************************)
EXTENDS Naturals, Sequences

CONSTANTS End, Word

VARIABLES
    said,       \* per end, what it said
    heard,      \* per end, what reached it
    side        \* per end, its side of the pipe: new, open or closed for good

vars == <<said, heard, side>>

Other(e) == CHOOSE d \in End : d # e

Init ==
    /\ said \in [End -> Seq(Word)]
    /\ heard = [e \in End |-> <<>>]
    /\ side = [e \in End |-> "new"]

Say(e) ==
    /\ \E w \in Word : said' = [said EXCEPT ![e] = Append(@, w)]
    /\ UNCHANGED <<heard, side>>

Hear(e) ==
    /\ side[e] = "open"
    /\ \E n \in Len(heard[e]) + 1 .. Len(said[Other(e)]) :
        heard' = [heard EXCEPT ![e] = SubSeq(said[Other(e)], 1, n)]
    /\ UNCHANGED <<said, side>>

Open(e) ==
    /\ side[e] = "new"
    /\ side' = [side EXCEPT ![e] = "open"]
    /\ UNCHANGED <<said, heard>>

Close == \E E \in SUBSET End :
    /\ side' = [e \in End |-> IF e \in E THEN "closed" ELSE side[e]]
    /\ UNCHANGED <<said, heard>>

Next == Close \/ \E e \in End : Say(e) \/ Hear(e) \/ Open(e)

Spec == Init /\ [][Next]_vars

-----------------------------------------------------------------------------
\* What an end may rely on: it has heard the beginning of what the other one said, it
\* never hears that again or otherwise, and nothing more once its side is closed.
Begins(s, t) == Len(s) <= Len(t) /\ \A i \in 1..Len(s) : s[i] = t[i]

HeardWasSaid == \A e \in End : Begins(heard[e], said[Other(e)])

NothingIsTakenBack ==
    [][\A e \in End :
        /\ Begins(heard[e], heard'[e])
        /\ side[e] = "closed" => heard'[e] = heard[e] /\ side'[e] = "closed"]_vars
=============================================================================
