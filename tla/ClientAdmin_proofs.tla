------------------------- MODULE ClientAdmin_proofs -------------------------
(***************************************************************************)
(* Proofs about ClientAdmin, for every set of clients, secrets, handlers   *)
(* and servers.                                                            *)
(***************************************************************************)
EXTENDS ClientAdmin, TLAPS

-----------------------------------------------------------------------------
(***************************************************************************)
(* Types, with what a handler has in hand at each of its statements.       *)
(***************************************************************************)
HandlerOK(h) ==
    /\ h.pc # "idle" => h.client \in Client
    /\ h.pc = "respond" => h.secret \in Secret

HandlersOK ==
    /\ req \in [Request -> Handler]
    /\ \A r \in Request : HandlerOK(req[r])

TypeInv == TypeOK /\ HandlersOK

LEMMA Distinct ==
    /\ None \notin Client /\ None \notin Secret
    /\ Idle \in Handler /\ HandlerOK(Idle) /\ Idle.pc = "idle"
    /\ NoSettings \in Settings /\ NoRow \in Row
BY ClientAdminAssumption
   DEF Idle, Handler, HandlerOK, NoSettings, Settings, NoRow, Row, Grant

LEMMA SetHandler ==
    ASSUME HandlersOK, NEW r \in Request, NEW h \in Handler, HandlerOK(h),
           req' = [req EXCEPT ![r] = h]
    PROVE  HandlersOK'
BY DEF HandlersOK

LEMMA EndHandler ==
    ASSUME HandlersOK, NEW r \in Request, End(r)
    PROVE  HandlersOK'
BY Distinct, SetHandler DEF End

\* What the items of a request are stored as is a set of grant types.
LEMMA StoredType ==
    /\ \A items \in SUBSET Item : Stored(items) \in SUBSET Grant
    /\ \A grants \in SUBSET Grant : Stored(AsItems(grants)) = grants
BY ClientAdminAssumption DEF Stored, AsItems

\* What FindForUpdate does with the request it read.
FindUpdate(r, c, named, pkce, active) ==
    LET items == IF named = {} THEN AsItems(row[c].grants) ELSE named
    IN /\ Allowed(named, items, pkce)
       /\ req' = [req EXCEPT ![r] = [Idle EXCEPT !.pc = "update", !.client = c,
                    !.want = [grants |-> Stored(items), pkce |-> pkce, active |-> active]]]

LEMMA InitType == Init => TypeInv
BY Distinct DEF Init, TypeInv, TypeOK, HandlersOK

LEMMA NextType == TypeInv /\ [Next]_vars => TypeInv'
<1> SUFFICES ASSUME TypeInv, [Next]_vars PROVE TypeInv'
  OBVIOUS
<1>1. TypeOK /\ HandlersOK /\ \A r \in Request : req[r] \in Handler /\ HandlerOK(req[r])
  BY DEF TypeInv, HandlersOK
<1>2. ASSUME NEW s \in Server, StartStep(s) PROVE TypeInv'
  <2>1. server' \in [Server -> {"down", "count", "insert", "up", "failed"}] /\ mobile' \in BOOLEAN
    BY <1>1, <1>2 DEF StartStep, Start, CountBootstrap, InsertBootstrap, TypeOK
  <2> QED
    BY <1>1, <1>2, <2>1 DEF StartStep, Start, CountBootstrap, InsertBootstrap, TypeInv, TypeOK,
       HandlersOK, history
<1>3. ASSUME NEW s \in Server, Stop(s) PROVE TypeInv'
  <2> PICK R \in SUBSET Request :
        /\ req' = [r \in Request |-> IF r \in R THEN Idle ELSE req[r]]
        /\ unheld' = unheld \cup Unanswered(R)
    BY <1>3 DEF Stop
  <2>1. HandlersOK'
    BY <1>1, Distinct DEF HandlersOK
  <2>2. unheld' \subseteq Client
    BY <1>1 DEF Unanswered, At, HandlerOK, TypeOK
  <2>3. server' \in [Server -> {"down", "count", "insert", "up", "failed"}]
    BY <1>1, <1>3 DEF Stop, TypeOK
  <2> QED
    BY <1>1, <1>3, <2>1, <2>2, <2>3 DEF Stop, TypeInv, TypeOK, HandlersOK
<1>4. ASSUME NEW r \in Request, CreateClient(r) PROVE TypeInv'
  <2> PICK c \in Client, items \in SUBSET Item \ {{}}, pkce \in BOOLEAN, active \in BOOLEAN,
           s \in (Secret \ used) \cup {None} :
        /\ row' = [row EXCEPT ![c] = [live |-> TRUE, secret |-> s, grants |-> Stored(items),
                                      pkce |-> pkce, active |-> active]]
        /\ used' = used \cup Given(s)
        /\ held' = held \cup Given(s)
        /\ without' = without \cup Lacking(c, Stored(items))
    BY <1>4 DEF CreateClient
  <2>1. row' \in [Client -> Row]
    BY <1>1, StoredType DEF TypeOK, Row
  <2>2. used' \subseteq Secret /\ held' \subseteq Secret /\ without' \subseteq Client
    BY <1>1 DEF TypeOK, Given, Lacking
  <2> QED
    BY <1>1, <1>4, <2>1, <2>2 DEF CreateClient, TypeInv, TypeOK, HandlersOK
<1>5. ASSUME NEW r \in Request, FindForUpdate(r) PROVE TypeInv'
  <2> PICK c \in {x \in Client : Exists(x)}, named \in SUBSET Item, pkce \in BOOLEAN,
           active \in BOOLEAN : FindUpdate(r, c, named, pkce, active)
    BY <1>5 DEF FindForUpdate, FindUpdate
  <2> DEFINE items == IF named = {} THEN AsItems(row[c].grants) ELSE named
             h == [Idle EXCEPT !.pc = "update", !.client = c,
                     !.want = [grants |-> Stored(items), pkce |-> pkce, active |-> active]]
  <2>1. Stored(items) \in SUBSET Grant
    <3>1. row[c].grants \in SUBSET Grant
      BY <1>1 DEF TypeOK, Row
    <3> QED
      BY <3>1, StoredType
  <2>2. h \in Handler /\ HandlerOK(h)
    <3> HIDE DEF items
    <3> QED
      BY <2>1, Distinct DEF Handler, HandlerOK, Settings
  <2>3. req' = [req EXCEPT ![r] = h]
    BY DEF FindUpdate
  <2>4. HandlersOK'
    <3> HIDE DEF h
    <3> QED
      BY <1>1, <2>2, <2>3, SetHandler
  <2> QED
    BY <1>1, <1>5, <2>4 DEF FindForUpdate, TypeInv, TypeOK, HandlersOK, history
<1>6. ASSUME NEW r \in Request, UpdateClient(r) PROVE TypeInv'
  <2>1. req[r].client \in Client /\ req[r].want \in Settings
    BY <1>1, <1>6 DEF UpdateClient, At, HandlerOK, Handler
  <2>2. row' \in [Client -> Row] /\ without' \subseteq Client
    BY <1>1, <1>6, <2>1 DEF UpdateClient, Updated, Lacking, TypeOK, Row, Settings
  <2>3. HandlersOK'
    BY <1>1, <1>6, EndHandler DEF UpdateClient
  <2> QED
    BY <1>1, <1>6, <2>2, <2>3 DEF UpdateClient, TypeInv, TypeOK, HandlersOK
<1>7. ASSUME NEW c \in Client, PatchClientStatus(c) PROVE TypeInv'
  <2>1. row' \in [Client -> Row]
    BY <1>1, <1>7 DEF PatchClientStatus, TypeOK, Row
  <2> QED
    BY <1>1, <1>7, <2>1 DEF PatchClientStatus, TypeInv, TypeOK, HandlersOK, history
<1>8. ASSUME NEW r \in Request, FindForRotate(r) PROVE TypeInv'
  <2> PICK c \in Client : req' = [req EXCEPT ![r] = [Idle EXCEPT !.pc = "rotate", !.client = c]]
    BY <1>8 DEF FindForRotate
  <2> DEFINE h == [Idle EXCEPT !.pc = "rotate", !.client = c]
  <2>1. h \in Handler /\ HandlerOK(h)
    BY Distinct DEF Handler, HandlerOK
  <2>2. HandlersOK'
    BY <1>1, <2>1, SetHandler
  <2> QED
    BY <1>1, <1>8, <2>2 DEF FindForRotate, TypeInv, TypeOK, HandlersOK, history
<1>9. ASSUME NEW r \in Request, RotateClientSecret(r) PROVE TypeInv'
  <2> PICK s \in Secret \ used :
        /\ row' = [row EXCEPT ![req[r].client].secret = s]
        /\ used' = used \cup {s}
        /\ req' = [req EXCEPT ![r].pc = "respond", ![r].secret = s]
    BY <1>9 DEF RotateClientSecret, NewSecret
  <2> DEFINE h == [req[r] EXCEPT !.pc = "respond", !.secret = s]
  <2>1. h \in Handler /\ HandlerOK(h)
    BY <1>1, <1>9 DEF RotateClientSecret, At, Handler, HandlerOK
  <2>2. HandlersOK'
    BY <1>1, <2>1, SetHandler
  <2>3. row' \in [Client -> Row]
    BY <1>1 DEF TypeOK, Row
  <2> QED
    BY <1>1, <1>9, <2>2, <2>3 DEF RotateClientSecret, TypeInv, TypeOK, HandlersOK
<1>10. ASSUME NEW r \in Request, Respond(r) PROVE TypeInv'
  <2>1. req[r].client \in Client /\ req[r].secret \in Secret
    BY <1>1, <1>10 DEF Respond, At, HandlerOK
  <2>2. HandlersOK'
    BY <1>1, <1>10, EndHandler DEF Respond
  <2> QED
    BY <1>1, <1>10, <2>1, <2>2 DEF Respond, TypeInv, TypeOK, HandlersOK
<1>11. ASSUME NEW r \in Request, Authorize(r) PROVE TypeInv'
  <2> PICK c \in Client, challenge \in BOOLEAN :
        req' = [req EXCEPT ![r] = [Idle EXCEPT !.pc = "code", !.client = c, !.key = challenge]]
    BY <1>11 DEF Authorize
  <2> DEFINE h == [Idle EXCEPT !.pc = "code", !.client = c, !.key = challenge]
  <2>1. h \in Handler /\ HandlerOK(h)
    BY Distinct DEF Handler, HandlerOK
  <2>2. HandlersOK'
    BY <1>1, <2>1, SetHandler
  <2> QED
    BY <1>1, <1>11, <2>2 DEF Authorize, TypeInv, TypeOK, HandlersOK, history
<1>12. ASSUME NEW r \in Request, SaveOAuthCode(r) PROVE TypeInv'
  <2>1. [client |-> req[r].client, challenge |-> req[r].key] \in IssuedCode
    BY <1>1, <1>12 DEF SaveOAuthCode, At, HandlerOK, Handler, IssuedCode
  <2>2. HandlersOK'
    BY <1>1, <1>12, EndHandler DEF SaveOAuthCode
  <2> QED
    BY <1>1, <1>12, <2>1, <2>2 DEF SaveOAuthCode, TypeInv, TypeOK, HandlersOK
<1>13. ASSUME NEW r \in Request, AuthenticateClient(r) PROVE TypeInv'
  <2> PICK c \in Client :
        req' = [req EXCEPT ![r] = [Idle EXCEPT !.pc = "admitted", !.client = c,
                                               !.key = row[c].pkce]]
    BY <1>13 DEF AuthenticateClient
  <2> DEFINE h == [Idle EXCEPT !.pc = "admitted", !.client = c, !.key = row[c].pkce]
  <2>1. h \in Handler /\ HandlerOK(h)
    BY <1>1, Distinct DEF Handler, HandlerOK, TypeOK, Row
  <2>2. HandlersOK'
    BY <1>1, <2>1, SetHandler
  <2> QED
    BY <1>1, <1>13, <2>2 DEF AuthenticateClient, TypeInv, TypeOK, HandlersOK, history
<1>14. ASSUME NEW r \in Request, Exchange(r) PROVE TypeInv'
  <2> PICK proved \in BOOLEAN : req' = [req EXCEPT ![r].pc = "exchanged", ![r].key = proved]
    BY <1>14 DEF Exchange
  <2> DEFINE h == [req[r] EXCEPT !.pc = "exchanged", !.key = proved]
  <2>1. h \in Handler /\ HandlerOK(h)
    BY <1>1, <1>14 DEF Exchange, At, Handler, HandlerOK
  <2>2. HandlersOK'
    BY <1>1, <2>1, SetHandler
  <2> QED
    BY <1>1, <1>14, <2>2 DEF Exchange, TypeInv, TypeOK, HandlersOK, history
<1>15. ASSUME NEW r \in Request, Finish(r) PROVE TypeInv'
  <2>1. HandlersOK'
    BY <1>1, <1>15, EndHandler DEF Finish
  <2> QED
    BY <1>1, <1>15, <2>1 DEF Finish, TypeInv, TypeOK, HandlersOK, history
<1>16. CASE UNCHANGED vars
  BY <1>1, <1>16 DEF vars, TypeInv, TypeOK, HandlersOK
<1> QED
  BY <1>2, <1>3, <1>4, <1>5, <1>6, <1>7, <1>8, <1>9, <1>10, <1>11, <1>12, <1>13, <1>14, <1>15,
     <1>16 DEF Next, AdminStep, ReaderStep

\* Every variable keeps its type in every behaviour.
THEOREM TypeCorrect == Spec => []TypeOK
<1>1. TypeInv => TypeOK
  BY DEF TypeInv
<1> QED
  BY <1>1, InitType, NextType, PTL DEF Spec

-----------------------------------------------------------------------------
(***************************************************************************)
(* Secrets.  A secret is stored for one client only, so that a handler     *)
(* with the secret some client has is the one that stored it there.        *)
(***************************************************************************)
Respondent(r, x) == req[r].pc = "respond" /\ req[r].secret = x

SecretInv ==
    /\ \A c \in Client, x \in Secret :
        row[c].secret = x =>
            /\ x \in used
            /\ x \in held \/ c \in unheld \/ \E r \in Request : Respondent(r, x)
    /\ \A r \in Request, x \in Secret :
        Respondent(r, x) =>
            /\ x \in used
            /\ \A c \in Client : row[c].secret = x => c = req[r].client

LEMMA InitSecret == Init => SecretInv
BY Distinct DEF Init, SecretInv, Respondent, NoRow

LEMMA NextSecret == TypeInv /\ SecretInv /\ [Next]_vars => SecretInv'
<1> SUFFICES ASSUME TypeInv, SecretInv, [Next]_vars PROVE SecretInv'
  OBVIOUS
<1>1. TypeOK /\ HandlersOK /\ \A r \in Request : req[r] \in Handler /\ HandlerOK(req[r])
  BY DEF TypeInv, HandlersOK
\* Most steps store no secret, and take no handler to its answer nor away from it.
<1> DEFINE Silent == /\ UNCHANGED <<held, used, unheld>>
                     /\ \A c \in Client : row'[c].secret = row[c].secret
                     /\ \A r \in Request :
                          req'[r] = req[r] \/ (req[r].pc # "respond" /\ req'[r].pc # "respond")
<1>2. Silent => SecretInv'
  <2> SUFFICES ASSUME Silent PROVE SecretInv'
    OBVIOUS
  <2>1. \A r \in Request, x \in Secret :
          /\ Respondent(r, x)' <=> Respondent(r, x)
          /\ Respondent(r, x) => req'[r].client = req[r].client
    BY DEF Respondent
  <2> QED
    BY <2>1 DEF SecretInv
<1>3. ASSUME NEW s \in Server, StartStep(s) PROVE SecretInv'
  BY <1>2, <1>3 DEF StartStep, Start, CountBootstrap, InsertBootstrap, history
<1>4. ASSUME NEW s \in Server, Stop(s) PROVE SecretInv'
  <2> PICK R \in SUBSET Request :
        /\ req' = [r \in Request |-> IF r \in R THEN Idle ELSE req[r]]
        /\ unheld' = unheld \cup Unanswered(R)
    BY <1>4 DEF Stop
  <2>1. UNCHANGED <<row, held, used>>
    BY <1>4 DEF Stop
  <2>2. \A r \in Request, x \in Secret :
          /\ Respondent(r, x)' => Respondent(r, x) /\ req'[r] = req[r]
          /\ Respondent(r, x) => Respondent(r, x)' \/ req[r].client \in unheld'
    BY Distinct DEF Respondent, Unanswered, At
  <2> QED
    BY <2>1, <2>2 DEF SecretInv
<1>5. ASSUME NEW r \in Request, CreateClient(r) PROVE SecretInv'
  <2> PICK c \in Client, s \in (Secret \ used) \cup {None} :
        /\ \A d \in Client \ {c} : row'[d].secret = row[d].secret
        /\ row'[c].secret = s
        /\ used' = used \cup ({s} \ {None})
        /\ held' = held \cup ({s} \ {None})
    BY <1>1, <1>5 DEF CreateClient, Given, TypeOK
  <2>1. UNCHANGED <<req, unheld>>
    BY <1>5 DEF CreateClient
  <2>2. \A q \in Request, x \in Secret : Respondent(q, x)' <=> Respondent(q, x)
    BY <2>1 DEF Respondent
  <2> QED
    BY <2>1, <2>2, Distinct DEF SecretInv
<1>6. ASSUME NEW r \in Request, FindForUpdate(r) \/ FindForRotate(r) \/ Authorize(r)
                                \/ AuthenticateClient(r)
      PROVE  SecretInv'
  <2>1. UNCHANGED <<row, held, used, unheld>>
    BY <1>6 DEF FindForUpdate, FindForRotate, Authorize, AuthenticateClient, history
  <2>2. req[r].pc = "idle" /\ \A q \in Request \ {r} : req'[q] = req[q]
    BY <1>1, <1>6 DEF FindForUpdate, FindForRotate, Authorize, AuthenticateClient, At, TypeOK
  <2>3. req'[r].pc \in {"update", "rotate", "code", "admitted"}
    <3>1. CASE FindForUpdate(r)
      BY <1>1, <3>1 DEF FindForUpdate, TypeOK, Idle
    <3>2. CASE FindForRotate(r)
      BY <1>1, <3>2 DEF FindForRotate, TypeOK, Idle
    <3>3. CASE Authorize(r)
      BY <1>1, <3>3 DEF Authorize, TypeOK, Idle
    <3>4. CASE AuthenticateClient(r)
      BY <1>1, <3>4 DEF AuthenticateClient, TypeOK, Idle
    <3> QED
      BY <1>6, <3>1, <3>2, <3>3, <3>4
  <2> QED
    BY <1>2, <2>1, <2>2, <2>3
<1>7. ASSUME NEW r \in Request, UpdateClient(r) \/ SaveOAuthCode(r) \/ Exchange(r) \/ Finish(r)
      PROVE  SecretInv'
  <2>1. UNCHANGED <<held, used, unheld>>
    BY <1>7 DEF UpdateClient, SaveOAuthCode, Exchange, Finish, history
  <2>2. /\ req[r].pc # "respond" /\ req'[r].pc # "respond"
        /\ \A q \in Request \ {r} : req'[q] = req[q]
    BY <1>1, <1>7, Distinct
       DEF UpdateClient, SaveOAuthCode, Exchange, Finish, At, End, TypeOK, Handler
  <2>3. \A c \in Client : row'[c].secret = row[c].secret
    <3>1. CASE UpdateClient(r)
      <4>1. req[r].client \in Client
        BY <1>1, <3>1 DEF UpdateClient, At, HandlerOK
      <4> QED
        BY <1>1, <3>1, <4>1 DEF UpdateClient, Updated, TypeOK, Row
    <3>2. CASE SaveOAuthCode(r) \/ Exchange(r) \/ Finish(r)
      BY <3>2 DEF SaveOAuthCode, Exchange, Finish
    <3> QED
      BY <1>7, <3>1, <3>2
  <2> QED
    BY <1>2, <2>1, <2>2, <2>3
<1>8. ASSUME NEW c \in Client, PatchClientStatus(c) PROVE SecretInv'
  <2>1. UNCHANGED <<req, held, used, unheld>>
    BY <1>8 DEF PatchClientStatus, history
  <2>2. \A d \in Client : row'[d].secret = row[d].secret
    BY <1>1, <1>8 DEF PatchClientStatus, TypeOK, Row
  <2> QED
    BY <1>2, <2>1, <2>2
<1>9. ASSUME NEW r \in Request, RotateClientSecret(r) PROVE SecretInv'
  <2> PICK s \in Secret \ used :
        /\ row' = [row EXCEPT ![req[r].client].secret = s]
        /\ used' = used \cup {s}
        /\ req' = [req EXCEPT ![r].pc = "respond", ![r].secret = s]
    BY <1>9 DEF RotateClientSecret, NewSecret
  <2> PICK c \in Client : c = req[r].client
    BY <1>1, <1>9 DEF RotateClientSecret, At, HandlerOK
  <2>1. /\ req[r].pc # "respond" /\ req'[r].pc = "respond" /\ req'[r].secret = s
        /\ req'[r].client = c
        /\ \A q \in Request \ {r} : req'[q] = req[q]
    BY <1>1, <1>9 DEF RotateClientSecret, At, TypeOK, Handler
  <2>2. row'[c].secret = s /\ \A d \in Client \ {c} : row'[d].secret = row[d].secret
    BY <1>1 DEF TypeOK, Row
  <2>3. UNCHANGED <<held, unheld>>
    BY <1>9 DEF RotateClientSecret
  <2>4. \A q \in Request, x \in Secret :
          Respondent(q, x)' <=> \/ Respondent(q, x)
                                \/ q = r /\ x = s
    BY <2>1 DEF Respondent
  <2>5. \A q \in Request : req'[q].client = req[q].client
    BY <2>1
  <2>6. \A d \in Client, x \in Secret :
          row'[d].secret = x <=> IF d = c THEN x = s ELSE row[d].secret = x
    BY <2>2
  <2>7. ASSUME NEW d \in Client, NEW x \in Secret, row'[d].secret = x
        PROVE  /\ x \in used'
               /\ x \in held' \/ d \in unheld' \/ \E q \in Request : Respondent(q, x)'
    BY <2>3, <2>4, <2>6, <2>7 DEF SecretInv
  <2>8. ASSUME NEW q \in Request, NEW x \in Secret, Respondent(q, x)'
        PROVE  /\ x \in used'
               /\ \A d \in Client : row'[d].secret = x => d = req'[q].client
    <3>1. CASE Respondent(q, x)
      <4>1. x \in used /\ x # s
        BY <3>1 DEF SecretInv
      <4>2. \A d \in Client : row'[d].secret = x => row[d].secret = x
        BY <2>6, <4>1
      <4>3. \A d \in Client : row[d].secret = x => d = req[q].client
        BY <3>1 DEF SecretInv
      <4>4. req'[q].client = req[q].client
        BY <2>5
      <4> QED
        BY <2>2, <4>1, <4>2, <4>3, <4>4
    <3>2. CASE q = r /\ x = s
      BY <2>1, <2>6, <3>2 DEF SecretInv
    <3> QED
      BY <2>4, <2>8, <3>1, <3>2
  <2> QED
    BY <2>7, <2>8 DEF SecretInv
<1>10. ASSUME NEW r \in Request, Respond(r) PROVE SecretInv'
  <2>1. UNCHANGED <<row, used>>
    BY <1>10 DEF Respond
  <2>2. req[r].secret \in held' \/ req[r].client \in unheld'
    BY <1>10 DEF Respond
  <2>3. held \subseteq held' /\ unheld \subseteq unheld'
    BY <1>10 DEF Respond
  <2>4. req'[r].pc = "idle" /\ \A q \in Request \ {r} : req'[q] = req[q]
    BY <1>1, <1>10, Distinct DEF Respond, End, TypeOK
  <2>5. \A q \in Request, x \in Secret :
          /\ Respondent(q, x)' => Respondent(q, x) /\ req'[q] = req[q]
          /\ Respondent(q, x) => Respondent(q, x)' \/ (q = r /\ x = req[r].secret)
    BY <2>4 DEF Respondent
  <2> QED
    BY <2>1, <2>2, <2>3, <2>5 DEF SecretInv
<1>11. CASE UNCHANGED vars
  BY <1>2, <1>11 DEF vars
<1> QED
  BY <1>3, <1>4, <1>5, <1>6, <1>7, <1>8, <1>9, <1>10, <1>11 DEF Next, AdminStep, ReaderStep

\* The secret of a client is known to an administrator or about to be answered to one,
\* whichever of two racing rotations wrote last, unless an answer was lost.
THEOREM LiveSecretHeld == Spec => []LiveClientSecretIsHeld
<1>1. TypeInv /\ SecretInv => LiveClientSecretIsHeld
  BY DEF TypeInv, TypeOK, Row, SecretInv, Respondent, LiveClientSecretIsHeld, At
<1> QED
  BY <1>1, InitType, NextType, InitSecret, NextSecret, PTL DEF Spec

-----------------------------------------------------------------------------
(***************************************************************************)
(* PKCE.  The check of an update compares whole items, and the table       *)
(* stores grant types: the two agree when an item names one grant type.    *)
(* Then every row with authorization_code asks for PKCE, and what a        *)
(* handler read of a row stays true of a client that never lacked it.      *)
(***************************************************************************)
Plain == \A i \in Item : \E g \in Grant : i = {g}

Prudent(grants, pkce) == Code \in grants => pkce

RowsPrudent ==
    \A c \in Client :
        /\ Prudent(row[c].grants, row[c].pkce)
        /\ row[c].live => Code \in row[c].grants \/ c \in without

Vouched(h, w) ==
    /\ h.pc = "update" => Prudent(h.want.grants, h.want.pkce)
    /\ h.pc = "code" => h.key
    /\ h.pc \in {"admitted", "exchanged"} => h.key \/ h.client \in w

PkceInv ==
    /\ RowsPrudent
    /\ \A r \in Request : Vouched(req[r], without)
    /\ \A k \in codes : k.challenge

\* The check on items and the check on what is stored come to the same.
LEMMA NamesStored ==
    ASSUME Plain
    PROVE  /\ \A items \in SUBSET Item : Code \in Stored(items) => Names(items, Code)
           /\ \A grants \in SUBSET Grant :
                Code \in Stored(AsItems(grants)) => Names(AsItems(grants), Code)
BY DEF Plain, Stored, Names, AsItems

LEMMA VouchedIdle == \A w : Vouched(Idle, w)
BY DEF Vouched, Idle

LEMMA VouchedGrows ==
    ASSUME NEW h, NEW w, NEW v, w \subseteq v, Vouched(h, w)
    PROVE  Vouched(h, v)
BY DEF Vouched

\* Most steps change one handler, and leave the table and the codes alone.
LEMMA VouchOne ==
    ASSUME HandlersOK, PkceInv, NEW r \in Request, NEW h, Vouched(h, without),
           req' = [req EXCEPT ![r] = h], UNCHANGED <<row, without, codes>>
    PROVE  PkceInv'
BY DEF HandlersOK, PkceInv, RowsPrudent

LEMMA InitPkce == Init => PkceInv
BY VouchedIdle DEF Init, PkceInv, RowsPrudent, Prudent, NoRow

LEMMA NextPkce ==
    ASSUME Plain, TypeInv, PkceInv, [Next]_vars
    PROVE  PkceInv'
<1>1. TypeOK /\ HandlersOK /\ \A r \in Request : req[r] \in Handler /\ HandlerOK(req[r])
  BY DEF TypeInv, HandlersOK
<1>2. \A r \in Request : Vouched(req[r], without)
  BY DEF PkceInv
<1>3. ASSUME NEW s \in Server, StartStep(s) PROVE PkceInv'
  BY <1>3 DEF StartStep, Start, CountBootstrap, InsertBootstrap, history, PkceInv, RowsPrudent
<1>4. ASSUME NEW s \in Server, Stop(s) PROVE PkceInv'
  <2>1. UNCHANGED <<row, without, codes>>
    BY <1>4 DEF Stop
  <2>2. \A r \in Request : Vouched(req'[r], without)
    BY <1>2, <1>4, VouchedIdle DEF Stop
  <2> QED
    BY <2>1, <2>2 DEF PkceInv, RowsPrudent
<1>5. ASSUME NEW r \in Request, CreateClient(r) PROVE PkceInv'
  <2> PICK c \in Client, items \in SUBSET Item, pkce \in BOOLEAN, active \in BOOLEAN,
           s \in (Secret \ used) \cup {None} :
        /\ Names(items, Code) => pkce
        /\ row' = [row EXCEPT ![c] = [live |-> TRUE, secret |-> s, grants |-> Stored(items),
                                      pkce |-> pkce, active |-> active]]
        /\ without' = without \cup Lacking(c, Stored(items))
    BY <1>5 DEF CreateClient
  <2>1. UNCHANGED <<req, codes>>
    BY <1>5 DEF CreateClient
  <2>2. Prudent(Stored(items), pkce)
    BY NamesStored DEF Prudent
  <2>3. /\ row'[c].grants = Stored(items) /\ row'[c].pkce = pkce
        /\ \A d \in Client \ {c} : row'[d] = row[d]
    BY <1>1 DEF TypeOK
  <2>4. Code \in row'[c].grants \/ c \in without'
    BY <2>3 DEF Lacking
  <2>5. RowsPrudent'
    BY <2>2, <2>3, <2>4 DEF PkceInv, RowsPrudent
  <2> QED
    BY <1>2, <2>1, <2>5, VouchedGrows DEF PkceInv
<1>6. ASSUME NEW r \in Request, FindForUpdate(r) PROVE PkceInv'
  <2> PICK c \in {x \in Client : Exists(x)}, named \in SUBSET Item, pkce \in BOOLEAN,
           active \in BOOLEAN : FindUpdate(r, c, named, pkce, active)
    BY <1>6 DEF FindForUpdate, FindUpdate
  <2> DEFINE items == IF named = {} THEN AsItems(row[c].grants) ELSE named
             h == [Idle EXCEPT !.pc = "update", !.client = c,
                     !.want = [grants |-> Stored(items), pkce |-> pkce, active |-> active]]
  <2>1. row[c].grants \in SUBSET Grant
    BY <1>1 DEF TypeOK, Row
  <2>2. (Names(items, Code) => pkce) /\ req' = [req EXCEPT ![r] = h]
    BY DEF FindUpdate, Allowed
  <2>3. Prudent(Stored(items), pkce)
    BY <2>1, <2>2, NamesStored DEF Prudent
  <2>4. Vouched(h, without)
    <3> HIDE DEF items
    <3> QED
      BY <2>3 DEF Vouched, Idle
  <2>5. UNCHANGED <<row, without, codes>>
    BY <1>6 DEF FindForUpdate, history
  <2> HIDE DEF h
  <2> QED
    BY <1>1, <2>2, <2>4, <2>5, VouchOne
<1>7. ASSUME NEW r \in Request, UpdateClient(r) PROVE PkceInv'
  <2> PICK c \in Client, want \in Settings : c = req[r].client /\ want = req[r].want
    BY <1>1, <1>7 DEF UpdateClient, At, HandlerOK, Handler
  <2>1. Prudent(want.grants, want.pkce)
    BY <1>2, <1>7 DEF Vouched, UpdateClient, At
  <2>2. /\ row' = Updated(c, want) /\ UNCHANGED codes
        /\ without' = without \cup Lacking(c, want.grants)
        /\ req' = [req EXCEPT ![r] = Idle]
    BY <1>7 DEF UpdateClient, End
  <2>3. /\ row'[c].grants = want.grants /\ row'[c].pkce = want.pkce
        /\ \A d \in Client \ {c} : row'[d] = row[d]
    BY <1>1, <2>2 DEF Updated, TypeOK, Row
  <2>4. Code \in want.grants \/ c \in without'
    BY <2>2 DEF Lacking
  <2>5. RowsPrudent'
    BY <2>1, <2>2, <2>3, <2>4 DEF PkceInv, RowsPrudent
  <2>6. \A q \in Request : Vouched(req'[q], without)
    BY <1>1, <1>2, <2>2, VouchedIdle DEF HandlersOK
  <2> QED
    BY <2>2, <2>5, <2>6, VouchedGrows DEF PkceInv
<1>8. ASSUME NEW c \in Client, PatchClientStatus(c) PROVE PkceInv'
  <2>1. UNCHANGED <<req, without, codes>>
    BY <1>8 DEF PatchClientStatus, history
  <2>2. \A d \in Client : /\ row'[d].grants = row[d].grants
                          /\ row'[d].pkce = row[d].pkce
                          /\ row'[d].live = row[d].live
    BY <1>1, <1>8 DEF PatchClientStatus, TypeOK, Row
  <2> QED
    BY <2>1, <2>2 DEF PkceInv, RowsPrudent
<1>9. ASSUME NEW r \in Request, FindForRotate(r) PROVE PkceInv'
  <2> PICK c \in Client : req' = [req EXCEPT ![r] = [Idle EXCEPT !.pc = "rotate", !.client = c]]
    BY <1>9 DEF FindForRotate
  <2> DEFINE h == [Idle EXCEPT !.pc = "rotate", !.client = c]
  <2>1. Vouched(h, without)
    BY DEF Vouched, Idle
  <2> HIDE DEF h
  <2> QED
    BY <1>1, <1>9, <2>1, VouchOne DEF FindForRotate, history, h
<1>10. ASSUME NEW r \in Request, RotateClientSecret(r) PROVE PkceInv'
  <2> PICK s \in Secret :
        /\ row' = [row EXCEPT ![req[r].client].secret = s]
        /\ req' = [req EXCEPT ![r].pc = "respond", ![r].secret = s]
    BY <1>10 DEF RotateClientSecret, NewSecret
  <2>1. UNCHANGED <<without, codes>>
    BY <1>10 DEF RotateClientSecret
  <2>2. req[r].client \in Client
    BY <1>1, <1>10 DEF RotateClientSecret, At, HandlerOK
  <2>3. \A d \in Client : /\ row'[d].grants = row[d].grants
                          /\ row'[d].pkce = row[d].pkce
                          /\ row'[d].live = row[d].live
    BY <1>1, <2>2 DEF TypeOK, Row
  <2>4. req'[r].pc = "respond" /\ \A q \in Request \ {r} : req'[q] = req[q]
    BY <1>1 DEF TypeOK, Handler
  <2>5. \A q \in Request : Vouched(req'[q], without)
    BY <1>2, <2>4 DEF Vouched
  <2> QED
    BY <2>1, <2>3, <2>5 DEF PkceInv, RowsPrudent
<1>11. ASSUME NEW r \in Request, Respond(r) \/ Finish(r) PROVE PkceInv'
  BY <1>1, <1>11, VouchOne, VouchedIdle DEF Respond, Finish, End, history
<1>12. ASSUME NEW r \in Request, Authorize(r) PROVE PkceInv'
  <2> PICK c \in Client, challenge \in BOOLEAN :
        /\ Code \in row[c].grants /\ (row[c].pkce => challenge)
        /\ req' = [req EXCEPT ![r] = [Idle EXCEPT !.pc = "code", !.client = c,
                                                  !.key = challenge]]
    BY <1>12 DEF Authorize
  <2> DEFINE h == [Idle EXCEPT !.pc = "code", !.client = c, !.key = challenge]
  <2>1. challenge
    BY DEF PkceInv, RowsPrudent, Prudent
  <2>2. Vouched(h, without)
    BY <2>1 DEF Vouched, Idle
  <2> HIDE DEF h
  <2> QED
    BY <1>1, <1>12, <2>2, VouchOne DEF Authorize, history, h
<1>13. ASSUME NEW r \in Request, SaveOAuthCode(r) PROVE PkceInv'
  <2>1. req[r].key
    BY <1>2, <1>13 DEF Vouched, SaveOAuthCode, At
  <2>2. \A k \in codes' : k.challenge
    BY <1>13, <2>1 DEF SaveOAuthCode, PkceInv
  <2>3. \A q \in Request : Vouched(req'[q], without)
    BY <1>1, <1>2, <1>13, VouchedIdle DEF SaveOAuthCode, End, HandlersOK
  <2> QED
    BY <1>13, <2>2, <2>3 DEF SaveOAuthCode, PkceInv, RowsPrudent
<1>14. ASSUME NEW r \in Request, AuthenticateClient(r) PROVE PkceInv'
  <2> PICK c \in Client :
        /\ Exists(c)
        /\ req' = [req EXCEPT ![r] = [Idle EXCEPT !.pc = "admitted", !.client = c,
                                                  !.key = row[c].pkce]]
    BY <1>14 DEF AuthenticateClient
  <2> DEFINE h == [Idle EXCEPT !.pc = "admitted", !.client = c, !.key = row[c].pkce]
  <2>1. row[c].pkce \/ c \in without
    BY DEF Exists, PkceInv, RowsPrudent, Prudent
  <2>2. Vouched(h, without)
    BY <2>1 DEF Vouched, Idle
  <2> HIDE DEF h
  <2> QED
    BY <1>1, <1>14, <2>2, VouchOne DEF AuthenticateClient, history, h
<1>15. ASSUME NEW r \in Request, Exchange(r) PROVE PkceInv'
  <2> PICK proved \in BOOLEAN :
        /\ req[r].key => proved
        /\ req' = [req EXCEPT ![r].pc = "exchanged", ![r].key = proved]
    BY <1>15 DEF Exchange
  <2> DEFINE h == [req[r] EXCEPT !.pc = "exchanged", !.key = proved]
  <2>1. req[r].key \/ req[r].client \in without
    BY <1>2, <1>15 DEF Vouched, Exchange, At
  <2>2. Vouched(h, without)
    BY <1>1, <2>1 DEF Vouched, Handler
  <2>3. req' = [req EXCEPT ![r] = h]
    OBVIOUS
  <2> HIDE DEF h
  <2> QED
    BY <1>1, <1>15, <2>2, <2>3, VouchOne DEF Exchange, history
<1>16. CASE UNCHANGED vars
  BY <1>16 DEF vars, PkceInv, RowsPrudent
<1> QED
  BY <1>3, <1>4, <1>5, <1>6, <1>7, <1>8, <1>9, <1>10, <1>11, <1>12, <1>13, <1>14, <1>15, <1>16
     DEF Next, AdminStep, ReaderStep

\* While every item names one grant type, every code carries a challenge, and is exchanged
\* without its verifier only by a client that was at some time no authorization_code
\* client, however updates, authorizations and exchanges overlap.
THEOREM VerifierNeeded == ASSUME Plain PROVE Spec => []CodesNeedTheirVerifier
<1>1. PkceInv => CodesNeedTheirVerifier
  BY DEF PkceInv, Vouched, CodesNeedTheirVerifier, At
<1>2. TypeInv /\ PkceInv /\ [Next]_vars => PkceInv'
  BY NextPkce
<1> QED
  BY <1>1, <1>2, InitType, NextType, InitPkce, PTL DEF Spec

-----------------------------------------------------------------------------
(***************************************************************************)
(* Starting.  The safety half of BootstrapCompletes.                       *)
(***************************************************************************)
\* No server serves, and none fails, before the bootstrap client is there, however many
\* start on one new database; so a server that failed finds it when it counts again.
THEOREM NoServerWithoutClient ==
    Spec => []\A s \in Server : server[s] \in {"up", "failed"} => mobile
<1> DEFINE Inv == \A s \in Server : server[s] \in {"up", "failed"} => mobile
<1>1. Init => Inv
  BY DEF Init
<1>2. TypeInv /\ Inv /\ [Next]_vars => Inv'
  <2> SUFFICES ASSUME TypeInv, Inv, [Next]_vars PROVE Inv'
    OBVIOUS
  <2>1. server \in [Server -> {"down", "count", "insert", "up", "failed"}]
    BY DEF TypeInv, TypeOK
  <2>2. ASSUME NEW s \in Server, StartStep(s) \/ Stop(s) PROVE Inv'
    BY <2>1, <2>2 DEF StartStep, Start, CountBootstrap, InsertBootstrap, Missing, Stop
  <2>3. CASE UNCHANGED <<server, mobile>>
    BY <2>3
  <2> QED
    BY <2>2, <2>3
       DEF Next, vars, AdminStep, ReaderStep, CreateClient, FindForUpdate, UpdateClient,
           FindForRotate, RotateClientSecret, Respond, Authorize, SaveOAuthCode,
           AuthenticateClient, Exchange, Finish, PatchClientStatus
<1> QED
  BY <1>1, <1>2, InitType, NextType, PTL DEF Spec
=============================================================================
