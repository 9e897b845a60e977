---------------------------- MODULE SigningKeys ----------------------------
(***************************************************************************)
(* The JWT signing key: the JWK_KEY_ table and the KeyManager of jwk.go,   *)
(* used by the server and by the CLI's commands, which are processes of    *)
(* their own on the same database.  A KeyManager reads the table once and  *)
(* keeps what it found; its mutex serialises the goroutines of one process *)
(* but nothing serialises two processes, so one action is one statement of *)
(* one process together with the local code up to the next.                *)
(***************************************************************************)
EXTENDS Naturals

CONSTANTS
    Server,         \* the server's process
    Cli,            \* processes that may run a CLI command
    Key,            \* key pairs rsa.GenerateKey can return
    NamedKid,       \* ids an operator passes as --key-id or JWK_KEY_ID
    MaxRotations,   \* bound: how often the operator rotates
    StoreFails,     \* whether a SQL statement may return an error
    None            \* no key

Process == {Server} \cup Cli

ASSUME SigningKeysAssumption ==
    /\ Server \notin Cli
    /\ NamedKid \cap Key = {}
    /\ MaxRotations \in Nat
    /\ StoreFails \in BOOLEAN

\* A random uuid is known by the key it was made for.
Kid == NamedKid \cup Key
JWK == [kid : Kid, key : Key]

ASSUME NoneAssumption == None \notin JWK \cup Key \cup Kid

VARIABLES
    rows,       \* JWK_KEY_
    pc,         \* where each process is in LoadOrCreateWithKeyID or Rotate
    pending,    \* the key a process is about to INSERT
    older,      \* CREATE_AT_: which key was made before which
    cached,     \* KeyManager.key
    publicFile, \* the public key the CLI wrote last, and whether it had settled
    rotations,  \* history: how often a rotation began
    stored,     \* history: keys that were in JWK_KEY_ at some time
    retired,    \* history: keys a rotation removed
    retiredAt,  \* history: what was retired when each process started
    settled     \* history: processes that found a settled table (below)

local == <<pc, pending, older, cached>>
vars == <<rows, pc, pending, older, cached, publicFile, rotations, stored, retired,
          retiredAt, settled>>

NoFile == [key |-> None, settled |-> FALSE]

At(p, where) == pc[p] = where

\* The keys somebody knows of, and what the order is without some of them.
Made == rows \cup ({pending[p] : p \in Process} \ {None})
Without(K) == {jk \in older : \A x \in K : x.key \notin {jk[1], jk[2]}}

\* Somebody has a key and nobody is making one.
Settled == rows # {} /\ \A p \in Process : At(p, "idle")

TypeOK ==
    /\ rows \subseteq JWK
    /\ pc \in [Process -> {"idle", "generate", "insert"}]
    /\ pending \in [Process -> JWK \cup {None}]
    /\ older \subseteq Key \X Key
    /\ cached \in [Process -> JWK \cup {None}]
    /\ publicFile \in [key : Key \cup {None}, settled : BOOLEAN]
    /\ rotations \in 0..MaxRotations
    /\ stored \subseteq JWK
    /\ retired \subseteq JWK
    /\ retiredAt \in [Process -> SUBSET JWK]
    /\ settled \subseteq Process

Init ==
    /\ rows = {}
    /\ pc = [p \in Process |-> "idle"]
    /\ pending = [p \in Process |-> None]
    /\ older = {}
    /\ cached = [p \in Process |-> None]
    /\ publicFile = NoFile
    /\ rotations = 0
    /\ stored = {}
    /\ retired = {}
    /\ retiredAt = [p \in Process |-> {}]
    /\ settled = {}

-----------------------------------------------------------------------------
\* loadFirstKey: ORDER BY CREATE_AT_ ASC LIMIT 1; the stamps have nanoseconds, so
\* that no two are equal.
\* Mutant: without the ORDER BY any row may come first.
AnyRow(x) == x \in rows
IsFirst(x) == x \in rows /\ \A y \in rows : <<y.key, x.key>> \notin older

LoadFirstKey(p) ==
    /\ At(p, "idle")
    /\ cached[p] = None
    /\ \E x \in rows : IsFirst(x) /\ cached' = [cached EXCEPT ![p] = x]
    /\ settled' = IF Settled THEN settled \cup {p} ELSE settled
    /\ UNCHANGED <<rows, pc, pending, older, publicFile, rotations, stored, retired,
                   retiredAt>>

FindNoKey(p) ==
    /\ At(p, "idle")
    /\ cached[p] = None
    /\ rows = {}
    /\ pc' = [pc EXCEPT ![p] = "generate"]
    /\ UNCHANGED <<rows, pending, older, cached, publicFile, rotations, stored, retired,
                   retiredAt, settled>>

\* The id of a new key: the operator's, or a uuid when there is none.
\* Mutant: the empty id is kept.
EmptyKid(p, k) == {None}
KidFor(p, k) == {k} \cup (IF p = Server THEN {} ELSE NamedKid)

FreshKey(k) == \A x \in stored \cup Made : x.key # k

\* createLocked up to the arguments of its INSERT, CREATE_AT_ among them.
Generate(p) ==
    /\ At(p, "generate")
    /\ \E k \in Key : \E kid \in KidFor(p, k) :
        /\ FreshKey(k)
        /\ pending' = [pending EXCEPT ![p] = [kid |-> kid, key |-> k]]
        /\ older' = older \cup {<<x.key, k>> : x \in Made}
    /\ pc' = [pc EXCEPT ![p] = "insert"]
    /\ UNCHANGED <<rows, cached, publicFile, rotations, stored, retired, retiredAt,
                   settled>>

\* KEY_ID_ is the primary key.
\* Mutant: a table without one.
AnyKid(kid) == TRUE
PrimaryKeyAllows(kid) == \A x \in rows : x.kid # kid

\* What the manager holds after its INSERT was refused.
\* Mutant: the key is kept before the statement runs.
KeepsPending(p) == pending[p]
KeepsNothing(p) == None

Insert(p) ==
    /\ At(p, "insert")
    /\ \/ /\ PrimaryKeyAllows(pending[p].kid)
          /\ rows' = rows \cup {pending[p]}
          /\ stored' = stored \cup {pending[p]}
          /\ cached' = [cached EXCEPT ![p] = pending[p]]
          /\ UNCHANGED older
       \/ /\ StoreFails \/ ~PrimaryKeyAllows(pending[p].kid)
          /\ cached' = [cached EXCEPT ![p] = KeepsNothing(p)]
          /\ older' = Without({pending[p]})
          /\ UNCHANGED <<rows, stored>>
    /\ pc' = [pc EXCEPT ![p] = "idle"]
    /\ pending' = [pending EXCEPT ![p] = None]
    /\ UNCHANGED <<publicFile, rotations, retired, retiredAt, settled>>

\* Rotate: the DELETE is one statement, the INSERT of the new key another.
\* Mutant: a rotation that only inserts.
RemainingRows == rows
RotatedRows == {}

Rotate(p) ==
    /\ p \in Cli
    /\ At(p, "idle")
    /\ rotations < MaxRotations
    /\ rotations' = rotations + 1
    /\ rows' = RotatedRows
    /\ older' = Without(rows)
    /\ retired' = retired \cup rows
    /\ cached' = [cached EXCEPT ![p] = None]
    /\ pc' = [pc EXCEPT ![p] = "generate"]
    /\ settled' = {}
    /\ publicFile' = [publicFile EXCEPT !.settled = FALSE]
    /\ UNCHANGED <<pending, stored, retiredAt>>

-----------------------------------------------------------------------------
\* ExportKeyPairPEM and writeKeyFiles, of whose three files the last is modelled.
WriteKeyFiles(p) ==
    /\ p \in Cli
    /\ At(p, "idle")
    /\ cached[p] # None
    /\ publicFile' = [key |-> cached[p].key, settled |-> p \in settled]
    /\ UNCHANGED <<rows, local, rotations, stored, retired, retiredAt, settled>>

\* The process ends, by itself or killed, and another one starts in its place.
Restart(p) ==
    /\ pc' = [pc EXCEPT ![p] = "idle"]
    /\ pending' = [pending EXCEPT ![p] = None]
    /\ older' = Without({pending[p]} \ {None})
    /\ cached' = [cached EXCEPT ![p] = None]
    /\ retiredAt' = [retiredAt EXCEPT ![p] = retired]
    /\ settled' = settled \ {p}
    /\ UNCHANGED <<rows, publicFile, rotations, stored, retired>>

ProcessStep(p) ==
    \/ LoadFirstKey(p) \/ FindNoKey(p) \/ Generate(p) \/ Insert(p) \/ Rotate(p)
    \/ WriteKeyFiles(p) \/ Restart(p)

Next == \E p \in Process : ProcessStep(p)

Spec == Init /\ [][Next]_vars

-----------------------------------------------------------------------------
\* No process works with, and no file exports, a key the database never held: a
\* refused or failed INSERT leaves the manager without a key (jwk.go 87-100).
SigningKeysWereStored ==
    /\ \A p \in Process : cached[p] # None => cached[p] \in stored
    /\ publicFile.key # None => \E x \in stored : x.key = publicFile.key

\* A process that starts once a rotation has deleted a key never works with that key,
\* even if the rotation died before its INSERT or another process made a key in
\* between the two.
RetiredKeyStaysRetired ==
    \A p \in Process : cached[p] # None => cached[p] \notin retiredAt[p]

\* However many processes made a key at once, those that look for one after the last
\* of them is done agree, and so does the file they exported: what one of them signs,
\* another one verifies, until the next rotation.
SettledProcessesAgree ==
    /\ \A p, q \in settled : cached[p] = cached[q]
    /\ publicFile.settled => \A p \in settled : publicFile.key = cached[p].key

\* Until somebody rotates, one key id stands for one key, whichever process signed
\* or published with it: who caches a JWKS by kid is not misled.
KidNamesOneKey == rotations = 0 => \A x, y \in stored : x.kid = y.kid => x.key = y.key
=============================================================================
