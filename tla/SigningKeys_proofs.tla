------------------------- MODULE SigningKeys_proofs -------------------------
(***************************************************************************)
(* What SigningKeys promises for any number of processes, keys, key ids    *)
(* and rotations, and whether or not statements fail.                      *)
(***************************************************************************)
EXTENDS SigningKeys, TLAPS

USE SigningKeysAssumption, NoneAssumption DEF Process

\* A process has a pending key exactly while it is about to insert it.
PendingInv == \A p \in Process : pending[p] # None <=> pc[p] = "insert"
TypeInv == TypeOK /\ PendingInv

LEMMA InitTypeInv == Init => TypeInv
BY DEF Init, TypeInv, TypeOK, PendingInv, NoFile, JWK

LEMMA NextTypeInv == TypeInv /\ [Next]_vars => TypeInv'
<1> SUFFICES ASSUME TypeInv, [Next]_vars
             PROVE TypeInv'
  OBVIOUS
<1> USE DEF TypeInv, TypeOK, PendingInv
<1>1. ASSUME NEW p \in Process, LoadFirstKey(p)
      PROVE TypeInv'
  BY <1>1 DEF LoadFirstKey, IsFirst
<1>2. ASSUME NEW p \in Process, FindNoKey(p)
      PROVE TypeInv'
  BY <1>2 DEF FindNoKey, At
<1>3. ASSUME NEW p \in Process, Generate(p)
      PROVE TypeInv'
  <2>1. PICK k \in Key, kid \in Kid :
          /\ pending' = [pending EXCEPT ![p] = [kid |-> kid, key |-> k]]
          /\ older' = older \cup {<<x.key, k>> : x \in Made}
    BY <1>3 DEF Generate, KidFor, Kid
  <2>2. [kid |-> kid, key |-> k] \in JWK
    BY DEF JWK
  <2>3. Made \subseteq JWK
    BY DEF Made
  <2>4. \A x \in JWK : x.key \in Key
    BY DEF JWK
  <2> QED BY <1>3, <2>1, <2>2, <2>3, <2>4 DEF Generate, At
<1>4. ASSUME NEW p \in Process, Insert(p)
      PROVE TypeInv'
  <2>1. pending[p] \in JWK
    BY <1>4 DEF Insert, At
  <2>2. older' \subseteq Key \X Key
    BY <1>4 DEF Insert, Without
  <2>3. /\ rows' \subseteq JWK
        /\ stored' \subseteq JWK
        /\ cached' \in [Process -> JWK \cup {None}]
    BY <1>4, <2>1 DEF Insert, KeepsNothing
  <2> QED BY <1>4, <2>2, <2>3 DEF Insert
<1>5. ASSUME NEW p \in Process, Rotate(p)
      PROVE TypeInv'
  <2>1. rotations' \in 0..MaxRotations
    BY <1>5 DEF Rotate
  <2>2. older' \subseteq Key \X Key
    BY <1>5 DEF Rotate, Without
  <2>3. rows' \subseteq JWK
    BY <1>5 DEF Rotate, RotatedRows
  <2>4. publicFile' \in [key : Key \cup {None}, settled : BOOLEAN]
    BY <1>5 DEF Rotate
  <2> QED BY <1>5, <2>1, <2>2, <2>3, <2>4 DEF Rotate, At
<1>6. ASSUME NEW p \in Process, WriteKeyFiles(p)
      PROVE TypeInv'
  BY <1>6 DEF WriteKeyFiles, JWK, local
<1>7. ASSUME NEW p \in Process, Restart(p)
      PROVE TypeInv'
  BY <1>7 DEF Restart, Without
<1>8. CASE UNCHANGED vars
  BY <1>8 DEF vars
<1> QED BY <1>1, <1>2, <1>3, <1>4, <1>5, <1>6, <1>7, <1>8 DEF Next, ProcessStep

\* Every state the processes reach is well-typed.
THEOREM TypeCorrect == Spec => []TypeOK
<1>1. Spec => []TypeInv
  BY InitTypeInv, NextTypeInv, PTL DEF Spec
<1> QED BY <1>1, PTL DEF TypeInv

-----------------------------------------------------------------------------
(***************************************************************************)
(* Where keys come from.  A pending key is nobody else's and was never     *)
(* stored; a retired one was stored, so no INSERT brings it back.          *)
(***************************************************************************)
PendingIsFresh ==
    /\ \A p \in Process : pending[p] # None => \A x \in stored : x.key # pending[p].key
    /\ \A p, q \in Process :
        p # q /\ pending[p] # None /\ pending[q] # None => pending[p].key # pending[q].key

Provenance ==
    /\ rows \subseteq stored
    /\ retired \subseteq stored
    /\ rows \cap retired = {}
    /\ \A x, y \in stored : x.key = y.key => x = y
    /\ \A p \in Process : retiredAt[p] \subseteq retired

StoredInv ==
    /\ PendingIsFresh
    /\ Provenance
    /\ SigningKeysWereStored
    /\ RetiredKeyStaysRetired

LEMMA InitStoredInv == Init => StoredInv
BY DEF Init, StoredInv, PendingIsFresh, Provenance, SigningKeysWereStored,
       RetiredKeyStaysRetired, NoFile

LEMMA NextStoredInv == TypeInv /\ StoredInv /\ [Next]_vars => StoredInv'
<1> SUFFICES ASSUME TypeInv, StoredInv, [Next]_vars
             PROVE StoredInv'
  OBVIOUS
<1> USE DEF TypeInv, TypeOK, PendingInv, StoredInv, PendingIsFresh, Provenance,
            SigningKeysWereStored, RetiredKeyStaysRetired
<1>1. ASSUME NEW p \in Process, LoadFirstKey(p)
      PROVE StoredInv'
  BY <1>1 DEF LoadFirstKey, IsFirst
<1>2. ASSUME NEW p \in Process, FindNoKey(p)
      PROVE StoredInv'
  BY <1>2 DEF FindNoKey
<1>3. ASSUME NEW p \in Process, Generate(p)
      PROVE StoredInv'
  <2>1. PICK k \in Key, kid \in Kid :
          /\ FreshKey(k)
          /\ pending' = [pending EXCEPT ![p] = [kid |-> kid, key |-> k]]
    BY <1>3 DEF Generate, KidFor, Kid
  <2>2. PendingIsFresh'
    BY <1>3, <2>1 DEF Generate, FreshKey, Made
  <2> QED BY <1>3, <2>2 DEF Generate
<1>4. ASSUME NEW p \in Process, Insert(p)
      PROVE StoredInv'
  <2>1. pending[p] # None
    BY <1>4 DEF Insert, At
  <2>2. pending' = [pending EXCEPT ![p] = None]
    BY <1>4 DEF Insert
  <2>3. CASE /\ rows' = rows \cup {pending[p]}
             /\ stored' = stored \cup {pending[p]}
             /\ cached' = [cached EXCEPT ![p] = pending[p]]
    BY <1>4, <2>1, <2>2, <2>3 DEF Insert
  <2>4. CASE /\ cached' = [cached EXCEPT ![p] = None]
             /\ UNCHANGED <<rows, stored>>
    BY <1>4, <2>2, <2>4 DEF Insert
  <2> QED BY <1>4, <2>3, <2>4 DEF Insert, KeepsNothing
<1>5. ASSUME NEW p \in Process, Rotate(p)
      PROVE StoredInv'
  BY <1>5 DEF Rotate, RotatedRows
<1>6. ASSUME NEW p \in Process, WriteKeyFiles(p)
      PROVE StoredInv'
  BY <1>6 DEF WriteKeyFiles, local
<1>7. ASSUME NEW p \in Process, Restart(p)
      PROVE StoredInv'
  BY <1>7 DEF Restart
<1>8. CASE UNCHANGED vars
  BY <1>8 DEF vars
<1> QED BY <1>1, <1>2, <1>3, <1>4, <1>5, <1>6, <1>7, <1>8 DEF Next, ProcessStep

LEMMA StoredInvAlways == Spec => [](TypeInv /\ StoredInv)
BY InitTypeInv, NextTypeInv, InitStoredInv, NextStoredInv, PTL DEF Spec

\* No process works with a key the database never held, however INSERTs fail or collide.
THEOREM SigningKeysWereStoredAlways == Spec => []SigningKeysWereStored
BY StoredInvAlways, PTL DEF StoredInv

\* A process that starts after a rotation's DELETE never works with a key it deleted.
THEOREM RetiredKeyStaysRetiredAlways == Spec => []RetiredKeyStaysRetired
BY StoredInvAlways, PTL DEF StoredInv

\* A key pair that a rotation deleted is never in the table again, under its own id or
\* another, whatever INSERTs were under way when the DELETE ran.
THEOREM DeletedKeyIsNeverStored == Spec => []\A x \in rows, y \in retired : x.key # y.key
<1>1. StoredInv => \A x \in rows, y \in retired : x.key # y.key
  BY DEF StoredInv, Provenance
<1> QED
  BY <1>1, StoredInvAlways, PTL

-----------------------------------------------------------------------------
(***************************************************************************)
(* Key ids.  Until the first rotation no row was ever removed, so that the *)
(* primary key keeps one id to one key.                                    *)
(***************************************************************************)
KidInv == rotations = 0 => rows = stored /\ \A x, y \in stored : x.kid = y.kid => x.key = y.key

LEMMA NextKidInv == TypeInv /\ KidInv /\ [Next]_vars => KidInv'
<1> SUFFICES ASSUME TypeInv, KidInv, [Next]_vars PROVE KidInv'
  OBVIOUS
<1> USE DEF KidInv
<1>1. ASSUME NEW p \in Process, Insert(p)
      PROVE KidInv'
  BY <1>1 DEF Insert, PrimaryKeyAllows
<1>2. ASSUME NEW p \in Process, Rotate(p)
      PROVE KidInv'
  <2>1. rotations \in Nat /\ rotations' = rotations + 1
    BY <1>2, SigningKeysAssumption DEF Rotate, TypeInv, TypeOK
  <2> QED BY <2>1
<1>3. CASE UNCHANGED <<rows, stored, rotations>>
  BY <1>3
<1> QED BY <1>1, <1>2, <1>3
        DEF Next, ProcessStep, LoadFirstKey, FindNoKey, Generate, WriteKeyFiles, Restart, local, vars

\* Until somebody rotates, one key id stands for one key, whoever made it.
THEOREM KidNamesOneKeyAlways == Spec => []KidNamesOneKey
<1>1. Init => KidInv
  BY DEF Init, KidInv
<1>2. TypeInv /\ KidInv /\ [Next]_vars => KidInv'
  BY NextKidInv
<1>3. Spec => []KidInv
  BY <1>1, <1>2, StoredInvAlways, PTL DEF Spec
<1>4. KidInv => KidNamesOneKey
  BY DEF KidInv, KidNamesOneKey
<1> QED BY <1>3, <1>4, PTL

-----------------------------------------------------------------------------
(***************************************************************************)
(* Agreement.  Two keys that were made are ordered by their stamps, so a   *)
(* table nobody is adding to has one first row.  A process that found it   *)
(* settled holds that row, and the table stays settled until a rotation.   *)
(***************************************************************************)
OrderTotal ==
    \A x, y \in Made : x # y => <<x.key, y.key>> \in older \/ <<y.key, x.key>> \in older

SettledInv ==
    /\ settled # {} \/ publicFile.settled => Settled
    /\ \A p \in settled : cached[p] \in JWK /\ IsFirst(cached[p])
    /\ publicFile.settled => \E x \in rows : IsFirst(x) /\ x.key = publicFile.key

\* Two keys of the table or in flight are different key pairs.
LEMMA MadeKeys ==
    ASSUME TypeInv, StoredInv
    PROVE  /\ Made \subseteq JWK
           /\ \A x, y \in Made : x.key = y.key => x = y
<1> QED BY DEF TypeInv, TypeOK, StoredInv, PendingIsFresh, Provenance, Made

LEMMA OneFirstRow ==
    ASSUME TypeInv, OrderTotal, NEW x, NEW y, IsFirst(x), IsFirst(y)
    PROVE  x = y
<1>1. x \in Made /\ y \in Made
  BY DEF IsFirst, Made
<1> QED BY <1>1 DEF IsFirst, OrderTotal

LEMMA NextOrderTotal == TypeInv /\ StoredInv /\ OrderTotal /\ [Next]_vars => OrderTotal'
<1> SUFFICES ASSUME TypeInv, StoredInv, OrderTotal, [Next]_vars
             PROVE OrderTotal'
  OBVIOUS
<1>1. ASSUME NEW p \in Process, Generate(p)
      PROVE OrderTotal'
  <2>1. PICK k \in Key, kid \in Kid :
          /\ FreshKey(k)
          /\ pending' = [pending EXCEPT ![p] = [kid |-> kid, key |-> k]]
          /\ older' = older \cup {<<x.key, k>> : x \in Made}
    BY <1>1 DEF Generate, KidFor, Kid
  <2>2. Made' \subseteq Made \cup {[kid |-> kid, key |-> k]}
    BY <1>1, <2>1 DEF Generate, Made, TypeInv, TypeOK
  <2> QED BY <2>1, <2>2 DEF OrderTotal
<1>2. ASSUME NEW p \in Process, Insert(p)
      PROVE OrderTotal'
  <2>1. pending[p] # None
    BY <1>2 DEF Insert, At, TypeInv, PendingInv
  <2>2. CASE rows' = rows \cup {pending[p]} /\ UNCHANGED older
    <3>1. Made' \subseteq Made
      BY <1>2, <2>1, <2>2 DEF Insert, Made, TypeInv, TypeOK
    <3> QED BY <2>2, <3>1 DEF OrderTotal
  <2>3. CASE older' = Without({pending[p]}) /\ UNCHANGED rows
    <3>1. Made' \subseteq Made \ {pending[p]}
      BY <1>2, <2>1, <2>3 DEF Insert, Made, TypeInv, TypeOK, StoredInv, PendingIsFresh, Provenance
    <3>2. pending[p] \in Made
      BY <2>1 DEF Made
    <3> QED BY <2>3, <3>1, <3>2, MadeKeys DEF OrderTotal, Without
  <2> QED BY <1>2, <2>2, <2>3 DEF Insert
<1>3. ASSUME NEW p \in Process, Rotate(p)
      PROVE OrderTotal'
  <2>1. Made' \subseteq Made \ rows
    BY <1>3 DEF Rotate, RotatedRows, Made, TypeInv, TypeOK, StoredInv, PendingIsFresh, Provenance
  <2>2. rows \subseteq Made
    BY DEF Made
  <2> QED BY <1>3, <2>1, <2>2, MadeKeys DEF Rotate, OrderTotal, Without
<1>4. ASSUME NEW p \in Process, Restart(p)
      PROVE OrderTotal'
  <2>1. Made' \subseteq Made \ ({pending[p]} \ {None})
    BY <1>4 DEF Restart, Made, TypeInv, TypeOK, StoredInv, PendingIsFresh, Provenance
  <2>2. {pending[p]} \ {None} \subseteq Made
    BY DEF Made
  <2> QED BY <1>4, <2>1, <2>2, MadeKeys DEF Restart, OrderTotal, Without
<1>5. CASE UNCHANGED <<rows, pending, older>>
  BY <1>5 DEF OrderTotal, Made
<1> QED BY <1>1, <1>2, <1>3, <1>4, <1>5
        DEF Next, ProcessStep, LoadFirstKey, FindNoKey, WriteKeyFiles, local, vars

\* While the table is settled, only a rotation changes it or what comes first in it.
LEMMA SettledFrame ==
    ASSUME TypeInv, Settled, NEW p \in Process, ProcessStep(p), ~Rotate(p)
    PROVE  Settled' /\ UNCHANGED <<rows, older>>
<1>1. ~FindNoKey(p) /\ ~Generate(p) /\ ~Insert(p)
  BY DEF Settled, FindNoKey, Generate, Insert, At
<1>2. ASSUME Restart(p)
      PROVE Settled' /\ UNCHANGED <<rows, older>>
  <2>1. pending[p] = None
    BY DEF Settled, At, TypeInv, PendingInv
  <2>2. UNCHANGED <<rows, older>>
    BY <1>2, <2>1 DEF Restart, Without
  <2>3. pc' = pc
    BY <1>2 DEF Restart, Settled, At, TypeInv, TypeOK
  <2> QED BY <2>2, <2>3 DEF Settled, At
<1>3. ASSUME LoadFirstKey(p) \/ WriteKeyFiles(p)
      PROVE Settled' /\ UNCHANGED <<rows, older>>
  BY <1>3 DEF LoadFirstKey, WriteKeyFiles, local, Settled, At
<1> QED BY <1>1, <1>2, <1>3 DEF ProcessStep

LEMMA NextSettledInv == TypeInv /\ SettledInv /\ [Next]_vars => SettledInv'
<1> SUFFICES ASSUME TypeInv, SettledInv, [Next]_vars
             PROVE SettledInv'
  OBVIOUS
<1>1. CASE UNCHANGED vars
  BY <1>1 DEF vars, SettledInv, Settled, At, IsFirst
<1>2. ASSUME NEW p \in Process, Rotate(p)
      PROVE SettledInv'
  BY <1>2 DEF Rotate, SettledInv, TypeInv, TypeOK
<1>3. ASSUME NEW p \in Process, ProcessStep(p), ~Rotate(p), Settled
      PROVE SettledInv'
  <2>1. Settled' /\ UNCHANGED <<rows, older>>
    BY <1>3, SettledFrame
  <2>2. \A x : IsFirst(x) <=> IsFirst(x)'
    BY <2>1 DEF IsFirst
  <2>3. ASSUME LoadFirstKey(p)
        PROVE SettledInv'
    BY <2>1, <2>2, <2>3 DEF LoadFirstKey, SettledInv, IsFirst, TypeInv, TypeOK
  <2>4. ASSUME WriteKeyFiles(p)
        PROVE SettledInv'
    BY <2>1, <2>2, <2>4 DEF WriteKeyFiles, local, SettledInv, IsFirst
  <2>5. ASSUME Restart(p)
        PROVE SettledInv'
    BY <2>1, <2>2, <2>5 DEF Restart, SettledInv, TypeInv, TypeOK
  <2>6. ~FindNoKey(p) /\ ~Generate(p) /\ ~Insert(p)
    BY <1>3 DEF Settled, FindNoKey, Generate, Insert, At
  <2> QED BY <1>3, <2>3, <2>4, <2>5, <2>6 DEF ProcessStep
<1>4. ASSUME NEW p \in Process, ProcessStep(p), ~Rotate(p), ~Settled
      PROVE SettledInv'
  <2>1. settled = {} /\ publicFile.settled = FALSE
    BY <1>4 DEF SettledInv, TypeInv, TypeOK
  <2>2. CASE WriteKeyFiles(p)
    BY <2>1, <2>2 DEF WriteKeyFiles, SettledInv
  <2>3. CASE ~WriteKeyFiles(p)
    <3>1. settled' = {} /\ publicFile' = publicFile
      BY <1>4, <2>1, <2>3 DEF ProcessStep, LoadFirstKey, FindNoKey, Generate, Insert, Restart
    <3> QED BY <2>1, <3>1 DEF SettledInv
  <2> QED BY <2>2, <2>3
<1> QED BY <1>1, <1>2, <1>3, <1>4 DEF Next

\* Processes that look for a key once nobody is making one hold the same key, and so
\* does the file they export, until the next rotation.
THEOREM SettledProcessesAgreeAlways == Spec => []SettledProcessesAgree
<1>1. Init => OrderTotal /\ SettledInv
  BY DEF Init, OrderTotal, SettledInv, Made, NoFile
<1>2. Spec => [](TypeInv /\ OrderTotal /\ SettledInv)
  BY <1>1, StoredInvAlways, NextOrderTotal, NextSettledInv, PTL DEF Spec
<1>3. TypeInv /\ OrderTotal /\ SettledInv => SettledProcessesAgree
  BY OneFirstRow DEF SettledInv, SettledProcessesAgree
<1> QED BY <1>2, <1>3, PTL
=============================================================================
