--------------------------- MODULE RevocableGrant ---------------------------
(***************************************************************************)
(* What both an app device and an OAuth authorization promise.  A grant is *)
(* valid from its making until it is revoked, and void ever after.  At     *)
(* most one key works for it, which was made for it and for no other; a    *)
(* key that another one replaced, that the revocation took along or that   *)
(* its maker lost never works again.  A key may be made some time before   *)
(* it is put to work, and by then the grant may be void.                   *)
(***************************************************************************)
CONSTANTS Grant, Key, None

VARIABLES
    life,       \* per grant: new, valid, or void for good
    works,      \* per grant, the key that works for it
    waits,      \* per grant, the keys made for it and not yet put to work
    made        \* keys made so far

vars == <<life, works, waits, made>>

Init ==
    /\ life = [g \in Grant |-> "new"]
    /\ works = [g \in Grant |-> None]
    /\ waits = [g \in Grant |-> {}]
    /\ made = {}

\* With its first key, or to be given one later.
Begin(g) ==
    /\ life[g] = "new"
    /\ life' = [life EXCEPT ![g] = "valid"]
    /\ \/ UNCHANGED <<works, made>>
       \/ \E k \in Key \ made :
            /\ works' = [works EXCEPT ![g] = k]
            /\ made' = made \cup {k}
    /\ UNCHANGED waits

Make(g) ==
    /\ life[g] # "new"
    /\ \E k \in Key \ made :
        /\ waits' = [waits EXCEPT ![g] = waits[g] \cup {k}]
        /\ made' = made \cup {k}
    /\ UNCHANGED <<life, works>>

\* A key that was made for the grant takes the former one's place.
Renew(g) ==
    /\ life[g] = "valid"
    /\ \E k \in waits[g] \cup (Key \ made) :
        /\ works' = [works EXCEPT ![g] = k]
        /\ waits' = [waits EXCEPT ![g] = waits[g] \ {k}]
        /\ made' = made \cup {k}
    /\ UNCHANGED life

Revoke(g) ==
    /\ life[g] = "valid"
    /\ life' = [life EXCEPT ![g] = "void"]
    /\ works' = [works EXCEPT ![g] = None]
    /\ UNCHANGED <<waits, made>>

\* Keys are lost, one of them perhaps as soon as it is made.
Lose ==
    /\ \E K \in SUBSET Key : waits' = [g \in Grant |-> waits[g] \ K]
    /\ made' = made \/ \E k \in Key \ made : made' = made \cup {k}
    /\ UNCHANGED <<life, works>>

Next == Lose \/ \E g \in Grant : Begin(g) \/ Make(g) \/ Renew(g) \/ Revoke(g)

Spec == Init /\ [][Next]_vars

-----------------------------------------------------------------------------
\* What a reader may rely on: whoever presents a key speaks for one grant at most, and
\* for none that is not valid; a key that works no more, and waits for no grant, is dead
\* for good.
KeyNamesItsGrant ==
    /\ \A g, h \in Grant : works[g] = works[h] /\ works[g] # None => g = h
    /\ \A g \in Grant : life[g] # "valid" => works[g] = None

Dead(k) == k \in made /\ \A g \in Grant : works[g] # k /\ k \notin waits[g]
DeadKeyStaysDead == [][\A k \in Key : Dead(k) => Dead(k)']_vars

\* Why: a key is in one place at a time.
KeyInv ==
    /\ life \in [Grant -> {"new", "valid", "void"}]
    /\ works \in [Grant -> made \cup {None}]
    /\ waits \in [Grant -> SUBSET made]
    /\ made \subseteq Key
    /\ KeyNamesItsGrant
    /\ \A g, h \in Grant :
        /\ works[g] \notin waits[h]
        /\ g # h => waits[g] \cap waits[h] = {}
=============================================================================
