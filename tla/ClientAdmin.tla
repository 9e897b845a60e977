---------------------------- MODULE ClientAdmin ----------------------------
(***************************************************************************)
(* The table OAUTH2_CLIENT_: the admin handlers of server.go that create,  *)
(* update, disable and re-key OAuth clients, the bootstrap client every    *)
(* starting server makes sure of, and the two readers of the table that    *)
(* trust what it says, /authorize and /token.                              *)
(*                                                                         *)
(* One action is one SQL statement with the local code around it.  Names,  *)
(* scopes and redirect URIs are left out.  A grant type named in a request *)
(* is an item of a JSON list; the table stores the list joined by commas,  *)
(* so an item is the set of grant types it will be read back as.           *)
(***************************************************************************)
EXTENDS Naturals

CONSTANTS
    Client,     \* client ids but "mobile-app", the bootstrap client's
    Secret,     \* client secrets
    Request,    \* goroutines
    Server,     \* server processes that start on one database
    Item,       \* grant-type items that requests name
    None        \* no client, no secret

Code == "authorization_code"
Grant == {Code, "refresh_token"}

ASSUME ClientAdminAssumption ==
    /\ Item \subseteq SUBSET Grant
    /\ None \notin Client \cup Secret

VARIABLES
    row,        \* OAUTH2_CLIENT_ by CLIENT_ID_
    mobile,     \* whether it holds the bootstrap client
    server,     \* where each process is in New
    req,        \* the handlers' local variables
    held,       \* client secrets that an administrator was answered
    codes,      \* history: the codes /authorize has issued
    used,       \* history: secrets ever stored
    unheld,     \* history: clients whose new secret reached nobody
    without     \* history: clients whose row ever lacked authorization_code

history == <<codes, used, unheld, without>>
vars == <<row, mobile, server, req, held, codes, used, unheld, without>>

Row == [live : BOOLEAN, secret : Secret \cup {None}, grants : SUBSET Grant,
        pkce : BOOLEAN, active : BOOLEAN]
NoRow == [live |-> FALSE, secret |-> None, grants |-> {}, pkce |-> FALSE, active |-> FALSE]
Settings == [grants : SUBSET Grant, pkce : BOOLEAN, active : BOOLEAN]
NoSettings == [grants |-> {}, pkce |-> FALSE, active |-> FALSE]
IssuedCode == [client : Client, challenge : BOOLEAN]

Handler == [pc : {"idle", "update", "rotate", "respond", "code", "admitted", "exchanged"},
            client : Client \cup {None}, want : Settings, secret : Secret \cup {None},
            key : BOOLEAN]
Idle == [pc |-> "idle", client |-> None, want |-> NoSettings, secret |-> None,
         key |-> FALSE]

TypeOK ==
    /\ row \in [Client -> Row]
    /\ mobile \in BOOLEAN
    /\ server \in [Server -> {"down", "count", "insert", "up", "failed"}]
    /\ req \in [Request -> Handler]
    /\ held \subseteq Secret
    /\ codes \subseteq IssuedCode
    /\ used \subseteq Secret
    /\ unheld \subseteq Client
    /\ without \subseteq Client

Init ==
    /\ row = [c \in Client |-> NoRow]
    /\ mobile = FALSE
    /\ server = [s \in Server |-> "down"]
    /\ req = [r \in Request |-> Idle]
    /\ held = {}
    /\ codes = {}
    /\ used = {}
    /\ unheld = {}
    /\ without = {}

At(r, pc) == req[r].pc = pc
End(r) == req' = [req EXCEPT ![r] = Idle]
Up == \E s \in Server : server[s] = "up"
Exists(c) == row[c].live
Lacking(c, grants) == IF Code \in grants THEN {} ELSE {c}

-----------------------------------------------------------------------------
(***************************************************************************)
(* The bootstrap client is a client as any other once it is there: what    *)
(* the handlers do to it, they do to one created with its settings.        *)
(* A server starts: EnsureBootstrapClient, whose error ends the process;   *)
(* compose.yml restarts it then.                                           *)
(***************************************************************************)
Start(s) ==
    /\ server[s] \in {"down", "failed"}
    /\ server' = [server EXCEPT ![s] = "count"]
    /\ UNCHANGED <<row, mobile, req, held, history>>

\* SELECT COUNT(*). Mutant: the count is not looked at.
AlwaysMissing == TRUE
Missing == ~mobile
CountBootstrap(s) ==
    /\ server[s] = "count"
    /\ server' = [server EXCEPT ![s] = IF Missing THEN "insert" ELSE "up"]
    /\ UNCHANGED <<row, mobile, req, held, history>>

\* The INSERT; CLIENT_ID_ is UNIQUE.
InsertBootstrap(s) ==
    /\ server[s] = "insert"
    /\ server' = [server EXCEPT ![s] = IF mobile THEN "failed" ELSE "up"]
    /\ mobile' = TRUE
    /\ UNCHANGED <<row, req, held, history>>

\* A server stops with the handlers it runs; when it is the last one, they are all.
Unanswered(R) == {req[r].client : r \in {x \in R : At(x, "respond")}}
Stop(s) ==
    /\ server[s] = "up"
    /\ server' = [server EXCEPT ![s] = "down"]
    /\ \E R \in SUBSET Request :
        /\ (\A t \in Server \ {s} : server[t] # "up") => R = Request
        /\ req' = [r \in Request |-> IF r \in R THEN Idle ELSE req[r]]
        /\ unheld' = unheld \cup Unanswered(R)
    /\ UNCHANGED <<row, mobile, held, codes, used, without>>

StartStep(s) == Start(s) \/ CountBootstrap(s) \/ InsertBootstrap(s)

-----------------------------------------------------------------------------
(***************************************************************************)
(* The admin's handlers.                                                   *)
(***************************************************************************)
\* contains compares whole items; joinCSV and splitCSV take them apart.
Names(items, g) == {g} \in items
Stored(items) == UNION items
AsItems(grants) == {{g} : g \in grants}

\* A secret is optional. Mutant: none counts as one.
GivenAlways(s) == {s}
Given(s) == {s} \ {None}

\* handleCreateClient: pkce is TRUE unless the request says otherwise.
CreateClient(r) ==
    /\ Up /\ At(r, "idle")
    /\ \E c \in Client, items \in SUBSET Item \ {{}}, pkce, active \in BOOLEAN,
          s \in (Secret \ used) \cup {None} :
        /\ Names(items, Code) => pkce
        /\ ~Exists(c)                       \* else 409: CLIENT_ID_ is UNIQUE
        /\ row' = [row EXCEPT ![c] = [live |-> TRUE, secret |-> s, grants |-> Stored(items),
                                      pkce |-> pkce, active |-> active]]
        /\ used' = used \cup Given(s)
        /\ held' = held \cup Given(s)
        /\ without' = without \cup Lacking(c, Stored(items))
    /\ UNCHANGED <<mobile, server, req, codes, unheld>>

\* handleUpdateClient reads the row, fills in what the request leaves out, and checks.
\* No items or no pkce stand for a request that does not name them; a status that is
\* left out is ACTIVE.
\* Mutant: the check looks at what the request names only.
AllowedAsNamed(named, items, pkce) == Names(named, Code) => pkce
Allowed(named, items, pkce) == Names(items, Code) => pkce

FindForUpdate(r) ==
    /\ Up /\ At(r, "idle")
    /\ \E c \in {x \in Client : Exists(x)}, named \in SUBSET Item, pkce, active \in BOOLEAN :
        LET items == IF named = {} THEN AsItems(row[c].grants) ELSE named
        IN /\ Allowed(named, items, pkce)
           /\ req' = [req EXCEPT ![r] = [Idle EXCEPT !.pc = "update", !.client = c,
                        !.want = [grants |-> Stored(items), pkce |-> pkce, active |-> active]]]
    /\ UNCHANGED <<row, mobile, server, held, history>>

\* UpdateClient's UPDATE. Mutant: REQUIRE_PKCE_ is not among its columns.
UpdatedGrants(c, want) ==
    [row EXCEPT ![c] = [@ EXCEPT !.grants = want.grants, !.active = want.active]]
Updated(c, want) ==
    [row EXCEPT ![c] = [@ EXCEPT !.grants = want.grants, !.pkce = want.pkce,
                                 !.active = want.active]]

UpdateClient(r) ==
    /\ At(r, "update")
    /\ row' = Updated(req[r].client, req[r].want)
    /\ without' = without \cup Lacking(req[r].client, req[r].want.grants)
    /\ End(r)
    /\ UNCHANGED <<mobile, server, held, codes, used, unheld>>

PatchClientStatus(c) ==
    /\ Up /\ Exists(c)
    /\ row' = [row EXCEPT ![c].active = ~@]
    /\ UNCHANGED <<mobile, server, req, held, history>>

\* handleRotateClientSecret: the row exists, bcrypt, the UPDATE, the answer.
FindForRotate(r) ==
    /\ Up /\ At(r, "idle")
    /\ \E c \in {x \in Client : Exists(x)} :
        req' = [req EXCEPT ![r] = [Idle EXCEPT !.pc = "rotate", !.client = c]]
    /\ UNCHANGED <<row, mobile, server, held, history>>

\* Mutant: the answer carries what the row held before.
FormerSecret(c, s) == row[c].secret
NewSecret(c, s) == s

RotateClientSecret(r) ==
    /\ At(r, "rotate")
    /\ \E s \in Secret \ used :
        /\ row' = [row EXCEPT ![req[r].client].secret = s]
        /\ used' = used \cup {s}
        /\ req' = [req EXCEPT ![r].pc = "respond", ![r].secret = NewSecret(req[r].client, s)]
    /\ UNCHANGED <<mobile, server, held, codes, unheld, without>>

Respond(r) ==
    /\ At(r, "respond")
    /\ \/ held' = held \cup {req[r].secret} /\ UNCHANGED unheld
       \/ unheld' = unheld \cup {req[r].client} /\ UNCHANGED held
    /\ End(r)
    /\ UNCHANGED <<row, mobile, server, codes, used, without>>

AdminStep(r) ==
    \/ CreateClient(r) \/ FindForUpdate(r) \/ UpdateClient(r)
    \/ FindForRotate(r) \/ RotateClientSecret(r) \/ Respond(r)

-----------------------------------------------------------------------------
(***************************************************************************)
(* The readers.                                                            *)
(***************************************************************************)
\* /authorize reads the client once; the code is stored after consent was looked up.
Authorize(r) ==
    /\ Up /\ At(r, "idle")
    /\ \E c \in Client, challenge \in BOOLEAN :
        /\ Exists(c) /\ row[c].active
        /\ Code \in row[c].grants
        /\ row[c].pkce => challenge
        /\ req' = [req EXCEPT ![r] = [Idle EXCEPT !.pc = "code", !.client = c, !.key = challenge]]
    /\ UNCHANGED <<row, mobile, server, held, history>>

SaveOAuthCode(r) ==
    /\ At(r, "code")
    /\ codes' = codes \cup {[client |-> req[r].client, challenge |-> req[r].key]}
    /\ End(r)
    /\ UNCHANGED <<row, mobile, server, held, used, unheld, without>>

\* authenticateOAuthClient, for a request of client c with a secret or none; what it read
\* of the row is what the exchange goes by.
Knows(c, s) == row[c].secret \in {None, s}

AuthenticateClient(r) ==
    /\ Up /\ At(r, "idle")
    /\ \E c \in Client, s \in held \cup {None} :
        /\ Exists(c) /\ row[c].active
        /\ Knows(c, s)
        /\ req' = [req EXCEPT ![r] = [Idle EXCEPT !.pc = "admitted", !.client = c,
                                       !.key = row[c].pkce]]
    /\ UNCHANGED <<row, mobile, server, held, history>>

\* handleOAuthTokenByAuthCode asks for the verifier if the client requires PKCE; key then
\* says whether one was shown.
Exchange(r) ==
    /\ At(r, "admitted")
    /\ \E k \in codes, proved \in BOOLEAN :
        /\ k.client = req[r].client
        /\ req[r].key => k.challenge /\ proved
        /\ req' = [req EXCEPT ![r].pc = "exchanged", ![r].key = proved]
    /\ UNCHANGED <<row, mobile, server, held, history>>

Finish(r) ==
    /\ req[r].pc \in {"admitted", "exchanged"}
    /\ End(r)
    /\ UNCHANGED <<row, mobile, server, held, history>>

ReaderStep(r) ==
    \/ Authorize(r) \/ SaveOAuthCode(r)
    \/ AuthenticateClient(r) \/ Exchange(r) \/ Finish(r)

Next ==
    \/ \E s \in Server : StartStep(s) \/ Stop(s)
    \/ \E r \in Request : AdminStep(r) \/ ReaderStep(r)
    \/ \E c \in Client : PatchClientStatus(c)

\* A process that was started runs, and one that failed is started again.
Spec == Init /\ [][Next]_vars /\ \A s \in Server : WF_vars(server[s] # "down" /\ StartStep(s))

-----------------------------------------------------------------------------
\* Updates read the row, fill in what was not named, and write both columns a statement
\* later; /token does not ask for the grant type, only for REQUIRE_PKCE_.  Still every
\* code /authorize hands out carries a challenge, and is exchanged without its verifier
\* only by a client that was at some time no authorization_code client.
CodesNeedTheirVerifier ==
    /\ \A k \in codes : k.challenge
    /\ \A r \in Request : At(r, "exchanged") /\ ~req[r].key => req[r].client \in without

\* The secret of a client is known to an administrator or about to be answered to one,
\* whichever of two racing rotations wrote last, unless an answer was lost.
LiveClientSecretIsHeld ==
    \A c \in Client :
        row[c].secret # None =>
            \/ row[c].secret \in held
            \/ c \in unheld
            \/ \E r \in Request : At(r, "respond") /\ req[r].secret = row[c].secret

\* Servers that start at once on a new database race for the bootstrap client; the
\* loser fails, is started again, and in the end serves with the client in place.
BootstrapCompletes ==
    \A s \in Server :
        server[s] \notin {"down", "up"} ~> server[s] = "up" /\ mobile
=============================================================================
