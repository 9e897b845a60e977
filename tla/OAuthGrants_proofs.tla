------------------------- MODULE OAuthGrants_proofs -------------------------
(***************************************************************************)
(* Proofs about OAuthGrants, for every set of authorizations, clients,     *)
(* users, scopes and handlers, all lifetimes, with and without rotation    *)
(* and failing statements.                                                 *)
(***************************************************************************)
EXTENDS OAuthGrants, TLAPS

-----------------------------------------------------------------------------
(***************************************************************************)
(* Types, with what a handler has in hand at each of its statements.       *)
(***************************************************************************)
\* A handler with a signed access token.
Signed == {"save", "auditAccess", "auditRefresh", "respond"}

HandlerOK(h) ==
    /\ h.pc = "idle" => h = Idle
    /\ h.pc # "idle" => h.client \in Client
    /\ h.pc \in {"consent", "insert", "sign"} => h.username \in Username /\ h.scopes \in Scopes
    /\ h.pc \in {"redirect", "sign", "delete", "mark"} \cup Signed => h.auth \in Auth
    /\ h.pc \in {"sign"} \cup Signed /\ h.op # "exchange" => h.refresh \in Refresh
    /\ h.pc \in Signed => h.access \in Access /\ h.refresh \in Refresh
    /\ h.refresh \in Refresh => h.auth \in Auth
    /\ h.pc = "auditRefresh" => h.op = "exchange" \/ RotateRefresh

RowOK(a) ==
    /\ ~row[a].live => row[a] = NoRow
    /\ row[a].live => row[a].client \in Client /\ row[a].username \in Username /\ row[a].scopes \in Scopes

HandlersOK ==
    /\ req \in [Request -> Handler]
    /\ \A r \in Request : HandlerOK(req[r])

TypeInv == TypeOK /\ HandlersOK /\ \A a \in Auth : RowOK(a)

LEMMA Distinct ==
    /\ None \notin Auth /\ None \notin Client /\ None \notin Username
    /\ None \notin Access /\ None \notin Refresh
    /\ Access \cap Refresh = {}
    /\ Access \subseteq Token /\ Refresh \subseteq Token
BY OAuthGrantsAssumption DEF Token

LEMMA IdleOK == Idle \in Handler /\ HandlerOK(Idle)
BY Distinct DEF Idle, Handler, HandlerOK, Op, Pc, Signed

LEMMA NoRowType == NoRow \in Row
BY DEF NoRow, Row

\* A handler's locals change to something that fits its next statement.
LEMMA SetHandler ==
    ASSUME HandlersOK, NEW r \in Request, NEW h \in Handler, HandlerOK(h),
           req' = [req EXCEPT ![r] = h]
    PROVE  HandlersOK'
BY DEF HandlersOK

LEMMA EndHandler ==
    ASSUME HandlersOK, NEW r \in Request, End(r)
    PROVE  HandlersOK'
BY IdleOK, SetHandler DEF End

LEMMA StepHandler ==
    ASSUME HandlersOK, NEW r \in Request, NEW pc \in Pc \ {"idle", "insert", "sign"},
           ~At(r, "idle"),
           pc \in {"mark"} \cup Signed => req[r].auth \in Auth,
           pc \in Signed => req[r].access \in Access /\ req[r].refresh \in Refresh,
           pc = "auditRefresh" => NewRefresh(r),
           pc \notin {"consent", "redirect", "delete"},
           Step(r, pc)
    PROVE  HandlersOK'
<1> DEFINE h == [req[r] EXCEPT !.pc = pc]
<1>1. req[r] \in Handler /\ HandlerOK(req[r])
  BY DEF HandlersOK
<1>2. h \in Handler /\ h.pc = pc /\ h.op = req[r].op /\ h.client = req[r].client
      /\ h.auth = req[r].auth /\ h.access = req[r].access /\ h.refresh = req[r].refresh
  BY <1>1 DEF Handler
<1>3. HandlerOK(h)
  BY <1>1, <1>2 DEF HandlerOK, At, NewRefresh, Signed, Pc
<1>4. req' = [req EXCEPT ![r] = h]
  BY DEF Step
<1> QED
  BY <1>2, <1>3, <1>4, SetHandler

LEMMA LosesType ==
    ASSUME HandlersOK, NEW R \in SUBSET Request
    PROVE  Loses(R) \subseteq Auth
BY DEF Loses, HoldsNewRefresh, HandlersOK, HandlerOK

LEMMA InitTypeInv == Init => TypeInv
<1> SUFFICES ASSUME Init PROVE TypeInv
  OBVIOUS
<1>1. 0 \in Time
  BY OAuthGrantsAssumption DEF Time
<1>2. HandlersOK
  BY IdleOK DEF Init, HandlersOK
<1>3. audit \in [Token -> AuditRow]
  BY DEF Init, AuditRow, NotAudited
<1>4. \A a \in Auth : RowOK(a)
  BY DEF Init, RowOK, NoRow
<1> QED
  BY <1>1, <1>2, <1>3, <1>4, NoRowType DEF Init, TypeInv, TypeOK, HandlersOK

LEMMA NextTypeInv == TypeInv /\ [Next]_vars => TypeInv'
<1> SUFFICES ASSUME TypeInv, [Next]_vars PROVE TypeInv'
  OBVIOUS
<1> USE DEF TypeInv
<1>1. HandlersOK /\ TypeOK /\ \A a \in Auth : RowOK(a)
  OBVIOUS
<1>2. ASSUME NEW r \in Request PROVE req[r] \in Handler /\ HandlerOK(req[r])
  BY <1>1 DEF HandlersOK
\* Rows that stay as they are stay well formed.
<1>3. row' = row => \A a \in Auth : RowOK(a)'
  BY <1>1 DEF RowOK
<1>4. CASE ConsentSubmit
  BY <1>3, <1>4 DEF ConsentSubmit, TypeOK, HandlersOK, Scopes, clients
<1>5. ASSUME NEW r \in Request, StartAuthorize(r) PROVE TypeInv'
  <2> PICK c \in Client, u \in Username, S \in Scopes :
        req' = [req EXCEPT ![r] = Running("authorize", "consent", c, u, S, None, None)]
    BY <1>5 DEF StartAuthorize
  <2> DEFINE h == Running("authorize", "consent", c, u, S, None, None)
  <2>1. h \in Handler /\ HandlerOK(h)
    BY Distinct DEF Handler, HandlerOK, Running, Op, Pc, Signed, Scopes
  <2>2. HandlersOK'
    BY <1>1, <2>1, SetHandler
  <2> QED
    BY <1>1, <1>3, <1>5, <2>2 DEF StartAuthorize, TypeOK, HandlersOK, db, clients, history
<1>6. ASSUME NEW r \in Request, FindOAuthConsent(r) PROVE TypeInv'
  <2>1. HandlersOK'
    <3>1. CASE End(r)
      BY <1>1, <3>1, EndHandler
    <3>2. CASE Step(r, "insert")
      <4> DEFINE h == [req[r] EXCEPT !.pc = "insert"]
      <4>1. h \in Handler /\ HandlerOK(h)
        BY <1>2, <1>6 DEF FindOAuthConsent, At, Handler, HandlerOK, Pc, Signed
      <4> QED
        BY <1>1, <3>2, <4>1, SetHandler DEF Step
    <3> QED
      BY <1>6, <3>1, <3>2 DEF FindOAuthConsent
  <2> QED
    BY <1>1, <1>3, <1>6, <2>1 DEF FindOAuthConsent, TypeOK, HandlersOK, db, clients, history
<1>7. ASSUME NEW r \in Request, SaveOAuthCode(r) PROVE TypeInv'
  <2> PICK a \in Auth \ born :
        /\ row' = [row EXCEPT ![a] =
                     [NoRow EXCEPT !.live = TRUE, !.client = req[r].client,
                                   !.username = req[r].username, !.scopes = req[r].scopes,
                                   !.codeExp = now + CodeTTL]]
        /\ born' = born \cup {a}
        /\ req' = [req EXCEPT ![r].pc = "redirect", ![r].auth = a]
    BY <1>7 DEF SaveOAuthCode
  <2> DEFINE h == [req[r] EXCEPT !.pc = "redirect", !.auth = a]
             n == [NoRow EXCEPT !.live = TRUE, !.client = req[r].client,
                                !.username = req[r].username, !.scopes = req[r].scopes,
                                !.codeExp = now + CodeTTL]
  <2>1. h \in Handler /\ HandlerOK(h)
    BY <1>2, <1>7 DEF SaveOAuthCode, At, Handler, HandlerOK, Pc, Signed
  <2>2. HandlersOK'
    BY <1>1, <2>1, SetHandler
  <2>3. /\ req[r].client \in Client /\ req[r].username \in Username /\ req[r].scopes \in Scopes
        /\ now + CodeTTL \in Nat
    BY <1>1, <1>2, <1>7, OAuthGrantsAssumption DEF SaveOAuthCode, At, HandlerOK, TypeOK, Time
  <2>4. n \in Row /\ n.live /\ n.client \in Client /\ n.username \in Username /\ n.scopes \in Scopes
    BY <2>3 DEF NoRow, Row, Scopes
  <2>5. row' \in [Auth -> Row] /\ \A b \in Auth : RowOK(b)'
    BY <1>1, <2>4 DEF TypeOK, RowOK
  <2> QED
    BY <1>1, <1>7, <2>2, <2>5 DEF SaveOAuthCode, TypeOK, HandlersOK, clients
<1>8. ASSUME NEW r \in Request, Redirect(r) PROVE TypeInv'
  <2>1. HandlersOK' /\ req[r].auth \in Auth
    BY <1>1, <1>2, <1>8, EndHandler DEF Redirect, At, HandlerOK
  <2> QED
    BY <1>1, <1>3, <1>8, <2>1 DEF Redirect, TypeOK, HandlersOK, db, history
<1>9. ASSUME NEW r \in Request, StartClientRequest(r) PROVE TypeInv'
  <2> PICK c \in Client, op \in {"exchange", "refresh", "revoke"} :
        req' = [req EXCEPT ![r] = Running(op, "find", c, None, {}, None, None)]
    BY <1>9 DEF StartClientRequest
  <2> DEFINE h == Running(op, "find", c, None, {}, None, None)
  <2>1. h \in Handler /\ HandlerOK(h)
    BY Distinct DEF Handler, HandlerOK, Running, Op, Pc, Signed
  <2>2. HandlersOK'
    BY <1>1, <2>1, SetHandler
  <2> QED
    BY <1>1, <1>3, <1>9, <2>2 DEF StartClientRequest, TypeOK, HandlersOK, db, clients, history
<1>10. ASSUME NEW r \in Request, FindOAuthByCode(r) \/ FindOAuthByRefreshToken(r) PROVE TypeInv'
  <2> PICK a \in Auth, x \in Refresh \cup {None} :
        /\ row[a].live
        /\ req[r].op = "exchange" \/ x \in Refresh
        /\ Found(r, a, x)
    BY <1>1, <1>10 DEF FindOAuthByCode, FindOAuthByRefreshToken, Exchangeable, TypeOK
  <2> DEFINE h == Running(req[r].op, "sign", req[r].client, row[a].username, row[a].scopes, a, x)
  <2>1. h \in Handler /\ HandlerOK(h)
    <3>1. row[a].username \in Username /\ row[a].scopes \in Scopes
      BY <1>1 DEF RowOK
    <3>2. req[r].client \in Client /\ req[r].op \in Op
      BY <1>2, <1>10 DEF FindOAuthByCode, FindOAuthByRefreshToken, At, HandlerOK, Handler
    <3> QED
      BY <3>1, <3>2 DEF Handler, HandlerOK, Running, Pc, Signed, Scopes
  <2>2. HandlersOK'
    BY <1>1, <2>1, SetHandler DEF Found
  <2> QED
    BY <1>1, <1>3, <1>10, <2>2 DEF FindOAuthByCode, FindOAuthByRefreshToken, TypeOK, HandlersOK,
       db, clients, history
<1>11. ASSUME NEW r \in Request, Refuse(r) PROVE TypeInv'
  <2>1. HandlersOK'
    BY <1>1, <1>11, EndHandler DEF Refuse
  <2> QED
    BY <1>1, <1>3, <1>11, <2>1 DEF Refuse, TypeOK, HandlersOK, db, clients, history
<1>12. ASSUME NEW r \in Request, Sign(r) PROVE TypeInv'
  <2> DEFINE t == [client |-> req[r].client, username |-> req[r].username,
                   scopes |-> req[r].scopes, iat |-> now]
  <2>1. t \in Access
    BY <1>1, <1>2, <1>12 DEF Sign, At, HandlerOK, Access, TypeOK
  <2>2. PICK x \in Refresh :
          /\ req' = [req EXCEPT ![r] = [req[r] EXCEPT !.pc = "save", !.access = t, !.refresh = x]]
          /\ generated' \in {generated, generated \cup {x}}
    <3>1. CASE NewRefresh(r)
      <4>1. PICK x \in Refresh :
              /\ generated' = generated \cup {x}
              /\ req' = [req EXCEPT ![r].pc = "save", ![r].access = t, ![r].refresh = x]
        BY <1>12, <3>1 DEF Sign, NextRefresh
      <4> QED
        BY <1>1, <4>1 DEF HandlersOK
    <3>2. CASE ~NewRefresh(r)
      <4>1. req[r].refresh \in Refresh
        BY <1>2, <1>12, <3>2 DEF Sign, At, HandlerOK, NewRefresh
      <4>2. req' = [req EXCEPT ![r].pc = "save", ![r].access = t] /\ generated' = generated
        BY <1>12, <3>2 DEF Sign
      <4>3. [req[r] EXCEPT !.pc = "save", !.access = t]
              = [req[r] EXCEPT !.pc = "save", !.access = t, !.refresh = req[r].refresh]
        BY <1>2 DEF Handler
      <4> QED
        BY <1>1, <4>1, <4>2, <4>3 DEF HandlersOK
    <3> QED
      BY <3>1, <3>2
  <2> DEFINE h == [req[r] EXCEPT !.pc = "save", !.access = t, !.refresh = x]
  <2>3. h \in Handler /\ HandlerOK(h)
    <3>1. h \in Handler /\ h.pc = "save" /\ h.access = t /\ h.refresh = x
          /\ h.auth = req[r].auth /\ h.client = req[r].client
      BY <1>2, <2>1 DEF Handler, Pc
    <3> QED
      BY <1>2, <1>12, <2>1, <3>1 DEF Sign, At, HandlerOK, Signed
  <2>4. HandlersOK'
    BY <1>1, <2>2, <2>3, SetHandler
  <2>5. minted' \in [once : SUBSET Access, twice : SUBSET Access] /\ generated' \subseteq Refresh
    BY <1>1, <1>12, <2>1, <2>2 DEF Sign, TypeOK
  <2> QED
    BY <1>1, <1>3, <1>12, <2>4, <2>5 DEF Sign, TypeOK, HandlersOK, db, clients
<1>13. ASSUME NEW r \in Request, SaveOAuthTokens(r) PROVE TypeInv'
  <2>1. /\ req[r].auth \in Auth /\ req[r].access \in Access /\ req[r].refresh \in Refresh
        /\ ExpiresAt(req[r].access) \in Nat /\ req[r].access.iat + RefreshTTL \in Nat
    BY <1>1, <1>2, <1>13, OAuthGrantsAssumption
       DEF SaveOAuthTokens, At, HandlerOK, Signed, Access, Time, ExpiresAt
  <2>2. HandlersOK'
    BY <1>1, <1>13, <2>1, StepHandler DEF SaveOAuthTokens, At, Signed, Pc
  <2>3. row' \in [Auth -> Row] /\ \A b \in Auth : RowOK(b)'
    <3>1. row' = Saved(req[r].auth, req[r].access, req[r].refresh, SavesRefresh(r))
      BY <1>13 DEF SaveOAuthTokens
    <3>2. CASE ~row[req[r].auth].live
      BY <1>1, <1>3, <3>1, <3>2 DEF Saved, TypeOK
    <3>3. CASE row[req[r].auth].live
      <4>1. PICK a \in Auth : a = req[r].auth
        BY <2>1
      <4> DEFINE one == [row[a] EXCEPT !.access = req[r].access, !.accessExp = ExpiresAt(req[r].access)]
                 two == [one EXCEPT !.refresh = req[r].refresh,
                                    !.refreshExp = req[r].access.iat + RefreshTTL]
      <4>2. row[a] \in Row /\ RowOK(a)
        BY <1>1, <1>3 DEF TypeOK
      <4>3. one \in Row /\ two \in Row
        BY <2>1, <4>2 DEF Row
      <4>4. row' = [row EXCEPT ![a] = one] \/ row' = [row EXCEPT ![a] = two]
        BY <3>1, <3>3, <4>1 DEF Saved
      <4>5. \A h \in {one, two} : h.live = row[a].live /\ h.client = row[a].client
                                   /\ h.username = row[a].username /\ h.scopes = row[a].scopes
        BY <4>2 DEF Row
      <4> HIDE DEF one, two
      <4>6. PICK h \in {one, two} : row' = [row EXCEPT ![a] = h]
        BY <4>4
      <4>7. row' \in [Auth -> Row] /\ row'[a] = h /\ \A b \in Auth \ {a} : row'[b] = row[b]
        BY <1>1, <4>3, <4>6 DEF TypeOK
      <4>8. row[a].live /\ RowOK(a)'
        BY <3>3, <4>1, <4>2, <4>5, <4>7 DEF RowOK
      <4>9. ASSUME NEW b \in Auth \ {a} PROVE RowOK(b)'
        BY <1>3, <4>7 DEF RowOK
      <4> QED
        BY <4>7, <4>8, <4>9
    <3> QED
      BY <3>2, <3>3
  <2>4. replaced' \subseteq Refresh
    BY <1>1, <1>13, <2>1 DEF SaveOAuthTokens, TypeOK, Row
  <2> QED
    BY <1>1, <1>13, <2>2, <2>3, <2>4 DEF SaveOAuthTokens, TypeOK, HandlersOK, clients
<1>14. ASSUME NEW r \in Request, RecordAccessAudit(r) \/ RecordRefreshAudit(r) PROVE TypeInv'
  <2>1. /\ req[r].auth \in Auth /\ req[r].access \in Token /\ req[r].refresh \in Token
        /\ req[r].access \in Access /\ req[r].refresh \in Refresh
    BY <1>2, <1>14, Distinct DEF RecordAccessAudit, RecordRefreshAudit, At, HandlerOK, Signed
  <2>2. HandlersOK'
    <3>1. PICK pc \in {"auditRefresh", "respond"} :
            Step(r, pc) /\ (pc = "auditRefresh" => NewRefresh(r))
      BY <1>14 DEF RecordAccessAudit, RecordRefreshAudit
    <3> QED
      BY <1>1, <1>14, <2>1, <3>1, StepHandler DEF RecordAccessAudit, RecordRefreshAudit, At, Signed, Pc
  <2>3. audit' \in [Token -> AuditRow]
    BY <1>1, <1>14, <2>1 DEF RecordAccessAudit, RecordRefreshAudit, Recorded, TypeOK, AuditRow
  <2> QED
    BY <1>1, <1>3, <1>14, <2>2, <2>3 DEF RecordAccessAudit, RecordRefreshAudit, TypeOK, HandlersOK,
       clients, history
<1>15. ASSUME NEW r \in Request, Respond(r) PROVE TypeInv'
  <2>1. req[r].access \in Token /\ req[r].refresh \in Token
    BY <1>2, <1>15, Distinct DEF Respond, At, HandlerOK, Signed
  <2>2. HandlersOK'
    BY <1>1, <1>15, EndHandler DEF Respond
  <2> QED
    BY <1>1, <1>3, <1>15, <2>1, <2>2 DEF Respond, Answered, TypeOK, HandlersOK, db, history
<1>16. ASSUME NEW r \in Request, SelectRevoked(r) PROVE TypeInv'
  <2> PICK t \in heldTokens :
        \/ /\ \E a \in Auth : req' = [req EXCEPT ![r].pc = "delete", ![r].auth = a]
           /\ revoked' = revoked
        \/ /\ End(r)
           /\ revoked' = revoked \cup {t}
    BY <1>16 DEF SelectRevoked
  <2>1. HandlersOK'
    <3>1. ASSUME NEW a \in Auth, req' = [req EXCEPT ![r].pc = "delete", ![r].auth = a]
          PROVE  HandlersOK'
      <4> DEFINE h == [req[r] EXCEPT !.pc = "delete", !.auth = a]
      <4>1. h \in Handler /\ HandlerOK(h)
        BY <1>2, <1>16 DEF SelectRevoked, At, Handler, HandlerOK, Pc, Signed
      <4> QED
        BY <1>1, <3>1, <4>1, SetHandler
    <3> QED
      BY <1>1, <3>1, EndHandler
  <2> QED
    BY <1>1, <1>3, <1>16, <2>1 DEF SelectRevoked, TypeOK, HandlersOK, db, clients
<1>17. ASSUME NEW r \in Request, DeleteRevoked(r) PROVE TypeInv'
  <2>1. req[r].auth \in Auth
    BY <1>2, <1>17 DEF DeleteRevoked, At, HandlerOK
  <2>2. HandlersOK'
    BY <1>1, <1>17, <2>1, StepHandler DEF DeleteRevoked, At, Pc, Signed
  <2>3. row' \in [Auth -> Row] /\ \A b \in Auth : RowOK(b)'
    BY <1>1, <1>17, <2>1, NoRowType DEF DeleteRevoked, TypeOK, RowOK, NoRow
  <2>4. revoked' \subseteq Token
    BY <1>1, <1>17, <2>1, Distinct DEF DeleteRevoked, TypeOK, Row
  <2> QED
    BY <1>1, <1>17, <2>2, <2>3, <2>4 DEF DeleteRevoked, TypeOK, HandlersOK, clients
<1>18. ASSUME NEW r \in Request, MarkTokensRevokedByAuthorizationID(r) PROVE TypeInv'
  <2>1. HandlersOK'
    BY <1>1, <1>18, EndHandler DEF MarkTokensRevokedByAuthorizationID
  <2>2. audit' \in [Token -> AuditRow]
    BY <1>1, <1>18 DEF MarkTokensRevokedByAuthorizationID, MarkedRevoked, TypeOK, AuditRow
  <2> QED
    BY <1>1, <1>3, <1>18, <2>1, <2>2 DEF MarkTokensRevokedByAuthorizationID, TypeOK, HandlersOK,
       clients, history
<1>19. ASSUME NEW r \in Request, HandlerFails(r) PROVE TypeInv'
  <2>1. HandlersOK'
    BY <1>1, <1>19, EndHandler DEF HandlerFails
  <2>2. undelivered' \subseteq Auth
    BY <1>1, <1>19, LosesType DEF HandlerFails, TypeOK
  <2> QED
    BY <1>1, <1>3, <1>19, <2>1, <2>2 DEF HandlerFails, TypeOK, HandlersOK, db, clients
<1>20. ASSUME NEW r \in Request, AuditFails(r) PROVE TypeInv'
  <2>1. HandlersOK'
    <3>1. PICK pc \in {"auditRefresh", "respond"} :
            Step(r, pc) /\ (pc = "auditRefresh" => NewRefresh(r))
      BY <1>20 DEF AuditFails
    <3> QED
      BY <1>1, <1>2, <1>20, <3>1, StepHandler DEF AuditFails, At, HandlerOK, Signed, Pc
  <2> QED
    BY <1>1, <1>3, <1>20, <2>1 DEF AuditFails, TypeOK, HandlersOK, db, clients, history
<1>21. CASE ServerRestart
  <2>1. HandlersOK'
    BY <1>21, IdleOK DEF ServerRestart, HandlersOK
  <2>2. undelivered' \subseteq Auth
    BY <1>1, <1>21, LosesType DEF ServerRestart, TypeOK
  <2> QED
    BY <1>1, <1>3, <1>21, <2>1, <2>2 DEF ServerRestart, TypeOK, HandlersOK, db, clients
<1>22. CASE PatchClientStatus
  BY <1>1, <1>3, <1>22 DEF PatchClientStatus, TypeOK, HandlersOK, clients, history
<1>23. CASE Tick
  BY <1>1, <1>3, <1>23, OAuthGrantsAssumption DEF Tick, TypeOK, HandlersOK, Time, db, clients, history
<1>24. CASE UNCHANGED vars
  BY <1>1, <1>3, <1>24 DEF vars, TypeOK, HandlersOK, db, clients, history
<1> QED
  BY <1>4, <1>5, <1>6, <1>7, <1>8, <1>9, <1>10, <1>11, <1>12, <1>13, <1>14, <1>15, <1>16, <1>17,
     <1>18, <1>19, <1>20, <1>21, <1>22, <1>23, <1>24 DEF Next, HandlerStep

\* Every variable keeps its type in every behaviour.
THEOREM TypeCorrect == Spec => []TypeOK
<1>1. TypeInv => TypeOK
  BY DEF TypeInv
<1> QED
  BY <1>1, InitTypeInv, NextTypeInv, PTL DEF Spec

-----------------------------------------------------------------------------
(***************************************************************************)
(* Most steps are quiet: they change no table and no token, and let a      *)
(* handler begin, end, or go from one statement to the next with the       *)
(* tokens it has.  The others are taken one by one.                        *)
(***************************************************************************)
Busy == {"sign", "delete", "mark"} \cup Signed

Rests(r) == req'[r].pc \notin Busy \cup {"insert"}
Proceeds(r) ==
    /\ req[r].pc \in Signed
    /\ req'[r].pc \in Signed \ {"save"}
    /\ req'[r].op = req[r].op /\ req'[r].auth = req[r].auth
    /\ req'[r].access = req[r].access /\ req'[r].refresh = req[r].refresh

Others(r) == \A x \in Request \ {r} : req'[x] = req[x]

Quiet ==
    /\ UNCHANGED <<consent, row, audit, heldTokens, born, generated, replaced, minted,
                   consented, revoked>>
    /\ undelivered \subseteq undelivered'
    /\ \A r \in Request :
        \/ req'[r] = req[r]
        \/ Proceeds(r) /\ req[r].pc # "save"
        \/ Rests(r) /\ (HoldsNewRefresh(r) /\ req[r].pc \in Signed => req[r].auth \in undelivered')

Loud(r) ==
    \/ FindOAuthConsent(r) \/ SaveOAuthCode(r)
    \/ FindOAuthByCode(r) \/ FindOAuthByRefreshToken(r)
    \/ Sign(r) \/ SaveOAuthTokens(r) \/ RecordAccessAudit(r) \/ RecordRefreshAudit(r)
    \/ Respond(r) \/ SelectRevoked(r) \/ DeleteRevoked(r)
    \/ MarkTokensRevokedByAuthorizationID(r)

LEMMA EndEffect ==
    ASSUME HandlersOK, NEW r \in Request, End(r)
    PROVE  Others(r) /\ req'[r] = Idle /\ Rests(r)
BY DEF HandlersOK, End, Others, Idle, Rests, Busy, Signed

LEMMA StepEffect ==
    ASSUME HandlersOK, NEW r \in Request, NEW pc, Step(r, pc)
    PROVE  /\ Others(r)
           /\ req'[r].op = req[r].op /\ req'[r].pc = pc
           /\ req'[r].client = req[r].client /\ req'[r].username = req[r].username
           /\ req'[r].scopes = req[r].scopes /\ req'[r].auth = req[r].auth
           /\ req'[r].access = req[r].access /\ req'[r].refresh = req[r].refresh
<1>1. req[r] \in Handler
  BY DEF HandlersOK
<1> QED
  BY <1>1 DEF HandlersOK, Step, Others, Handler

LEMMA QuietOrLoud ==
    ASSUME TypeInv, [Next]_vars
    PROVE  Quiet \/ ConsentSubmit \/ \E r \in Request : Loud(r)
<1>1. HandlersOK
  BY DEF TypeInv
<1> DEFINE Tables == UNCHANGED <<consent, row, audit, heldTokens, born, generated, replaced,
                                 minted, consented, revoked>>
<1>2. ASSUME NEW r \in Request, StartAuthorize(r) \/ StartClientRequest(r) PROVE Quiet
  <2>1. Tables /\ UNCHANGED undelivered
    BY <1>2 DEF StartAuthorize, StartClientRequest, db, clients, history
  <2>2. req[r].pc = "idle"
    BY <1>2 DEF StartAuthorize, StartClientRequest, At
  <2>3. Others(r) /\ req'[r].pc \in {"consent", "find"}
    BY <1>1, <1>2 DEF StartAuthorize, StartClientRequest, HandlersOK, Running, Others
  <2> QED
    BY <2>1, <2>2, <2>3 DEF Quiet, Others, Rests, Busy, Signed
<1>3. ASSUME NEW r \in Request, Redirect(r) \/ Refuse(r) PROVE Quiet
  <2>1. Tables /\ UNCHANGED undelivered
    BY <1>3 DEF Redirect, Refuse, db, clients, history
  <2>2. Others(r) /\ Rests(r) /\ req[r].pc \notin Signed
    BY <1>1, <1>3, EndEffect DEF Redirect, Refuse, At, Signed
  <2> QED
    BY <2>1, <2>2 DEF Quiet, Others
<1>4. ASSUME NEW r \in Request, HandlerFails(r) PROVE Quiet
  <2>1. Tables /\ undelivered' = undelivered \cup Loses({r})
    BY <1>4 DEF HandlerFails, db, clients
  <2>2. Others(r) /\ Rests(r)
    BY <1>1, <1>4, EndEffect DEF HandlerFails
  <2>3. HoldsNewRefresh(r) => req[r].auth \in Loses({r})
    BY DEF Loses
  <2> QED
    BY <2>1, <2>2, <2>3 DEF Quiet, Others
<1>5. ASSUME NEW r \in Request, AuditFails(r) PROVE Quiet
  <2>1. Tables /\ UNCHANGED undelivered
    BY <1>5 DEF AuditFails, db, clients, history
  <2>2. PICK pc \in {"auditRefresh", "respond"} : Step(r, pc)
    BY <1>5 DEF AuditFails
  <2>3. Others(r) /\ Proceeds(r) /\ req[r].pc # "save"
    BY <1>1, <1>5, <2>2, StepEffect DEF AuditFails, At, Proceeds, Signed
  <2> QED
    BY <2>1, <2>3 DEF Quiet, Others
<1>6. CASE ServerRestart
  <2>1. Tables /\ undelivered' = undelivered \cup Loses(Request)
    BY <1>6 DEF ServerRestart, db, clients
  <2>2. \A r \in Request : Rests(r)
    BY <1>6 DEF ServerRestart, Idle, Rests, Busy, Signed
  <2>3. \A r \in Request : HoldsNewRefresh(r) => req[r].auth \in Loses(Request)
    BY DEF Loses
  <2> QED
    BY <2>1, <2>2, <2>3 DEF Quiet
<1>7. CASE PatchClientStatus \/ Tick \/ UNCHANGED vars
  BY <1>7 DEF PatchClientStatus, Tick, vars, Quiet, db, clients, history
<1> QED
  BY <1>2, <1>3, <1>4, <1>5, <1>6, <1>7 DEF Next, HandlerStep, Loud

\* The steps that end a handler, or take it to its next statement, and write a table.
LEMMA FoundEffect ==
    ASSUME TypeInv, NEW r \in Request, FindOAuthByCode(r) \/ FindOAuthByRefreshToken(r)
    PROVE  /\ Others(r)
           /\ UNCHANGED <<consent, row, audit, heldTokens, born, generated, replaced, minted,
                          consented, revoked, undelivered>>
           /\ \E a \in Auth, x \in Refresh \cup {None} :
                /\ row[a].live /\ row[a].client = req[r].client
                /\ req'[r].op = req[r].op /\ req'[r].pc = "sign"
                /\ req'[r].client = req[r].client /\ req'[r].username = row[a].username
                /\ req'[r].scopes = row[a].scopes
                /\ req'[r].auth = a /\ req'[r].access = None /\ req'[r].refresh = x
                /\ req[r].op = "exchange" \/ x \in heldTokens
<1>1. HandlersOK /\ TypeOK
  BY DEF TypeInv
<1>2. UNCHANGED <<consent, row, audit, heldTokens, born, generated, replaced, minted,
                  consented, revoked, undelivered>>
  BY DEF FindOAuthByCode, FindOAuthByRefreshToken, db, clients, history
<1>3. \E a \in Auth, x \in Refresh \cup {None} :
        /\ row[a].live /\ row[a].client = req[r].client
        /\ Found(r, a, x)
        /\ req[r].op = "exchange" \/ x \in heldTokens
  BY <1>1 DEF FindOAuthByCode, FindOAuthByRefreshToken, Exchangeable, TypeOK
<1>4. PICK a \in Auth, x \in Refresh \cup {None} :
        /\ row[a].live /\ row[a].client = req[r].client
        /\ Found(r, a, x)
        /\ req[r].op = "exchange" \/ x \in heldTokens
  BY <1>3
<1>5. /\ Others(r)
      /\ req'[r].op = req[r].op /\ req'[r].pc = "sign"
      /\ req'[r].client = req[r].client /\ req'[r].username = row[a].username
      /\ req'[r].scopes = row[a].scopes
      /\ req'[r].auth = a /\ req'[r].access = None /\ req'[r].refresh = x
  BY <1>1, <1>4 DEF Found, Running, HandlersOK, Others
<1> QED
  BY <1>2, <1>4, <1>5

LEMMA SignEffect ==
    ASSUME TypeInv, NEW r \in Request, Sign(r)
    PROVE  /\ Others(r)
           /\ UNCHANGED <<consent, row, audit, heldTokens, born, replaced, consented, revoked,
                          undelivered>>
           /\ req[r].pc = "sign" /\ req'[r].pc = "save"
           /\ req'[r].op = req[r].op /\ req'[r].auth = req[r].auth
           /\ req'[r].access \in Access
           /\ req'[r].access.client = req[r].client /\ req'[r].access.username = req[r].username
           /\ req'[r].access.scopes = req[r].scopes
           /\ minted'.once = minted.once \cup {req'[r].access}
           /\ minted'.twice = minted.twice \cup (minted.once \cap {req'[r].access})
           /\ req'[r].refresh \in Refresh
           /\ NewRefresh(r) => /\ req'[r].refresh \notin generated
                               /\ generated' = generated \cup {req'[r].refresh}
           /\ ~NewRefresh(r) => req'[r].refresh = req[r].refresh /\ generated' = generated
<1> DEFINE t == [client |-> req[r].client, username |-> req[r].username,
                 scopes |-> req[r].scopes, iat |-> now]
<1>1. HandlersOK /\ TypeOK /\ req[r] \in Handler /\ HandlerOK(req[r]) /\ req[r].pc = "sign"
  BY DEF TypeInv, HandlersOK, Sign, At
<1>2. t \in Access
  BY <1>1 DEF HandlerOK, Access, TypeOK
<1>3. UNCHANGED <<consent, row, audit, heldTokens, born, replaced, consented, revoked,
                  undelivered>>
      /\ minted' = [once |-> minted.once \cup {t}, twice |-> minted.twice \cup (minted.once \cap {t})]
      /\ t.client = req[r].client /\ t.username = req[r].username /\ t.scopes = req[r].scopes
  BY DEF Sign, db, clients
<1> HIDE DEF t
<1>4. CASE NewRefresh(r)
  <2>1. PICK x \in Refresh \ generated :
          /\ generated' = generated \cup {x}
          /\ req' = [req EXCEPT ![r].pc = "save", ![r].access = t, ![r].refresh = x]
    BY <1>4 DEF Sign, NextRefresh, t
  <2>2. /\ Others(r) /\ req'[r].pc = "save" /\ req'[r].access = t /\ req'[r].refresh = x
        /\ req'[r].op = req[r].op /\ req'[r].auth = req[r].auth
    BY <1>1, <2>1 DEF HandlersOK, Handler, Others
  <2> QED
    BY <1>1, <1>2, <1>3, <1>4, <2>1, <2>2 DEF t
<1>5. CASE ~NewRefresh(r)
  <2>1. /\ generated' = generated
        /\ req' = [req EXCEPT ![r].pc = "save", ![r].access = t]
    BY <1>5 DEF Sign, t
  <2>2. /\ Others(r) /\ req'[r].pc = "save" /\ req'[r].access = t
        /\ req'[r].refresh = req[r].refresh
        /\ req'[r].op = req[r].op /\ req'[r].auth = req[r].auth
    BY <1>1, <2>1 DEF HandlersOK, Handler, Others
  <2>3. req[r].refresh \in Refresh
    BY <1>1, <1>5 DEF HandlerOK, NewRefresh
  <2> QED
    BY <1>1, <1>2, <1>3, <1>5, <2>1, <2>2, <2>3 DEF t
<1> QED
  BY <1>4, <1>5

LEMMA SaveEffect ==
    ASSUME TypeInv, NEW r \in Request, SaveOAuthTokens(r)
    PROVE  /\ Others(r) /\ Proceeds(r) /\ req[r].pc = "save"
           /\ UNCHANGED <<consent, audit, heldTokens, born, generated, minted, consented, revoked,
                          undelivered>>
           /\ req[r].auth \in Auth
           /\ \A a \in Auth \ {req[r].auth} : row'[a] = row[a]
           /\ row'[req[r].auth].live = row[req[r].auth].live
           /\ row'[req[r].auth].client = row[req[r].auth].client
           /\ row'[req[r].auth].username = row[req[r].auth].username
           /\ row'[req[r].auth].scopes = row[req[r].auth].scopes
           /\ ~row[req[r].auth].live => row' = row /\ replaced' = replaced
           /\ row[req[r].auth].live =>
                /\ row'[req[r].auth].access = req[r].access
                /\ row'[req[r].auth].accessExp = ExpiresAt(req[r].access)
                /\ NewRefresh(r) =>
                    /\ row'[req[r].auth].refresh = req[r].refresh
                    /\ replaced' = replaced \cup ({row[req[r].auth].refresh} \ {None})
                /\ ~NewRefresh(r) =>
                    /\ row'[req[r].auth].refresh = row[req[r].auth].refresh
                    /\ replaced' = replaced
<1> DEFINE a == req[r].auth
<1>1. /\ HandlersOK /\ TypeOK /\ req[r].pc = "save" /\ a \in Auth
      /\ row \in [Auth -> Row] /\ RowOK(a)
  BY DEF TypeInv, HandlersOK, HandlerOK, SaveOAuthTokens, At, Signed, TypeOK
<1>2. Others(r) /\ Proceeds(r)
  BY <1>1, StepEffect DEF SaveOAuthTokens, Proceeds, Signed
<1>3. UNCHANGED <<consent, audit, heldTokens, born, generated, minted, consented, revoked,
                  undelivered>>
  BY DEF SaveOAuthTokens, clients
<1>4. /\ row' = Saved(a, req[r].access, req[r].refresh, NewRefresh(r))
      /\ replaced' = replaced \cup (IF NewRefresh(r) THEN {row[a].refresh} \ {None} ELSE {})
  BY DEF SaveOAuthTokens, SavesRefresh
<1> HIDE DEF a
<1>5. CASE ~row[a].live
  <2>1. row' = row /\ row[a].refresh = None
    BY <1>1, <1>4, <1>5 DEF Saved, RowOK, NoRow
  <2> QED
    BY <1>1, <1>2, <1>3, <1>4, <1>5, <2>1 DEF a
<1>6. CASE row[a].live
  <2>1. /\ \A b \in Auth \ {a} : row'[b] = row[b]
        /\ row'[a].live = row[a].live /\ row'[a].client = row[a].client
        /\ row'[a].username = row[a].username /\ row'[a].scopes = row[a].scopes
        /\ row'[a].access = req[r].access /\ row'[a].accessExp = ExpiresAt(req[r].access)
        /\ NewRefresh(r) => row'[a].refresh = req[r].refresh
        /\ ~NewRefresh(r) => row'[a].refresh = row[a].refresh
    BY <1>1, <1>4, <1>6 DEF Saved, Row
  <2>2. ~NewRefresh(r) => replaced' = replaced
    BY <1>4
  <2> QED
    BY <1>1, <1>2, <1>3, <1>4, <1>6, <2>1, <2>2 DEF a
<1> QED
  BY <1>5, <1>6

LEMMA ConsentEffect ==
    ASSUME TypeInv, NEW r \in Request, FindOAuthConsent(r)
    PROVE  /\ Others(r) /\ req[r].pc = "consent"
           /\ UNCHANGED <<consent, row, audit, heldTokens, born, generated, replaced, minted,
                          consented, revoked, undelivered>>
           /\ \/ Rests(r)
              \/ /\ req'[r].pc = "insert"
                 /\ req'[r].client = req[r].client /\ req'[r].username = req[r].username
                 /\ req'[r].scopes = req[r].scopes
                 /\ req[r].scopes \subseteq consent[<<req[r].client, req[r].username>>]
<1>1. HandlersOK /\ req[r].pc = "consent"
  BY DEF TypeInv, FindOAuthConsent, At
<1>2. UNCHANGED <<consent, row, audit, heldTokens, born, generated, replaced, minted,
                  consented, revoked, undelivered>>
  BY DEF FindOAuthConsent, db, clients, history
<1>3. CASE End(r)
  BY <1>1, <1>2, <1>3, EndEffect
<1>4. CASE Step(r, "insert")
                 /\ req[r].scopes \subseteq consent[<<req[r].client, req[r].username>>]
  BY <1>1, <1>2, <1>4, StepEffect
<1> QED
  BY <1>3, <1>4 DEF FindOAuthConsent, ContainsAll

LEMMA CodeEffect ==
    ASSUME TypeInv, NEW r \in Request, SaveOAuthCode(r)
    PROVE  /\ Others(r) /\ req[r].pc = "insert" /\ Rests(r)
           /\ UNCHANGED <<consent, audit, heldTokens, generated, replaced, minted,
                          consented, revoked, undelivered>>
           /\ \E a \in Auth \ born :
                /\ born' = born \cup {a}
                /\ \A b \in Auth \ {a} : row'[b] = row[b]
                /\ row'[a].live
                /\ row'[a].client = req[r].client /\ row'[a].username = req[r].username
                /\ row'[a].scopes = req[r].scopes
                /\ row'[a].access = None /\ row'[a].refresh = None
<1>1. HandlersOK /\ TypeOK /\ req[r].pc = "insert"
  BY DEF TypeInv, SaveOAuthCode, At
<1>2. UNCHANGED <<consent, audit, heldTokens, generated, replaced, minted,
                  consented, revoked, undelivered>>
  BY DEF SaveOAuthCode, clients
<1> PICK a \in Auth \ born :
      /\ row' = [row EXCEPT ![a] =
                   [NoRow EXCEPT !.live = TRUE, !.client = req[r].client,
                                 !.username = req[r].username, !.scopes = req[r].scopes,
                                 !.codeExp = now + CodeTTL]]
      /\ born' = born \cup {a}
      /\ req' = [req EXCEPT ![r].pc = "redirect", ![r].auth = a]
  BY DEF SaveOAuthCode
<1>3. Others(r) /\ req'[r].pc = "redirect"
  BY <1>1 DEF HandlersOK, Handler, Others
<1>4. /\ \A b \in Auth \ {a} : row'[b] = row[b]
      /\ row'[a].live
      /\ row'[a].client = req[r].client /\ row'[a].username = req[r].username
      /\ row'[a].scopes = req[r].scopes
      /\ row'[a].access = None /\ row'[a].refresh = None
  BY <1>1 DEF TypeOK, NoRow
<1> QED
  BY <1>1, <1>2, <1>3, <1>4 DEF Rests, Busy, Signed

\* A token that handler r is to hand out and was the first to have.
Carries(r, t) ==
    /\ req[r].pc \in Signed
    /\ t = req[r].access \/ (NewRefresh(r) /\ t = req[r].refresh)

LEMMA RecordEffect ==
    ASSUME TypeInv, NEW r \in Request, RecordAccessAudit(r) \/ RecordRefreshAudit(r)
    PROVE  /\ Others(r) /\ Proceeds(r)
           /\ UNCHANGED <<consent, row, heldTokens, born, generated, replaced, minted,
                          consented, revoked, undelivered>>
           /\ req[r].auth \in Auth
           /\ \E t \in Token :
                /\ Carries(r, t)
                /\ \A s \in Token \ {t} : audit'[s] = audit[s]
                /\ audit'[t].auth = req[r].auth /\ audit'[t].revoked = audit[t].revoked
<1>1. HandlersOK /\ audit \in [Token -> AuditRow] /\ req[r] \in Handler /\ HandlerOK(req[r])
      /\ req[r].pc \in {"auditAccess", "auditRefresh"}
  BY DEF TypeInv, TypeOK, HandlersOK, RecordAccessAudit, RecordRefreshAudit, At
<1>2. UNCHANGED <<consent, row, heldTokens, born, generated, replaced, minted,
                  consented, revoked, undelivered>>
  BY DEF RecordAccessAudit, RecordRefreshAudit, clients, history
<1>3. Others(r) /\ Proceeds(r)
  <2>1. PICK pc \in {"auditRefresh", "respond"} : Step(r, pc)
    BY DEF RecordAccessAudit, RecordRefreshAudit
  <2> QED
    BY <1>1, <2>1, StepEffect DEF Proceeds, Signed
<1>4. req[r].auth \in Auth /\ req[r].access \in Token /\ req[r].refresh \in Token
  BY <1>1, Distinct DEF HandlerOK, Signed
<1>5. \/ audit' = [audit EXCEPT ![req[r].access].auth = req[r].auth]
      \/ Carries(r, req[r].refresh) /\ audit' = [audit EXCEPT ![req[r].refresh].auth = req[r].auth]
  BY <1>1, <1>4 DEF RecordAccessAudit, RecordRefreshAudit, Recorded, Carries, Signed, At, HandlerOK,
     NewRefresh
<1>6. PICK t \in Token : Carries(r, t) /\ audit' = [audit EXCEPT ![t].auth = req[r].auth]
  BY <1>1, <1>4, <1>5, Zenon DEF Carries, Signed
<1>7. /\ \A s \in Token \ {t} : audit'[s] = audit[s]
      /\ audit'[t].auth = req[r].auth /\ audit'[t].revoked = audit[t].revoked
  BY <1>1, <1>6 DEF AuditRow
<1> QED
  BY <1>2, <1>3, <1>4, <1>6, <1>7

LEMMA RespondEffect ==
    ASSUME TypeInv, NEW r \in Request, Respond(r)
    PROVE  /\ Others(r) /\ Rests(r) /\ req[r].pc = "respond"
           /\ UNCHANGED <<consent, row, audit, born, generated, replaced, minted,
                          consented, revoked, undelivered>>
           /\ req[r].access \in Access /\ req[r].refresh \in Refresh
           /\ heldTokens' = heldTokens \cup {req[r].access, req[r].refresh}
<1>1. HandlersOK /\ req[r].pc = "respond" /\ HandlerOK(req[r])
  BY DEF TypeInv, HandlersOK, Respond, At
<1>2. Others(r) /\ Rests(r)
  BY <1>1, EndEffect DEF Respond
<1>3. UNCHANGED <<consent, row, audit, born, generated, replaced, minted,
                  consented, revoked, undelivered>>
  BY DEF Respond, db, history
<1> QED
  BY <1>1, <1>2, <1>3 DEF Respond, Answered, HandlerOK, Signed

LEMMA SelectEffect ==
    ASSUME TypeInv, NEW r \in Request, SelectRevoked(r)
    PROVE  /\ Others(r) /\ req[r].pc = "find"
           /\ UNCHANGED <<consent, row, audit, heldTokens, born, generated, replaced, minted,
                          consented, undelivered>>
           /\ \E t \in heldTokens :
                \/ /\ revoked' = revoked /\ req'[r].pc = "delete"
                   /\ req'[r].auth \in Auth /\ HoldsToken(req'[r].auth, t)
                \/ /\ revoked' = revoked \cup {t} /\ Rests(r)
                   /\ \A a \in Auth : ~HoldsToken(a, t)
<1>1. HandlersOK /\ req[r].pc = "find" /\ req[r] \in Handler
  BY DEF TypeInv, HandlersOK, SelectRevoked, At
<1>2. UNCHANGED <<consent, row, audit, heldTokens, born, generated, replaced, minted,
                  consented, undelivered>>
  BY DEF SelectRevoked, db, clients
<1> PICK t \in heldTokens :
        \/ /\ \E a \in Auth :
                /\ HoldsToken(a, t)
                /\ req' = [req EXCEPT ![r].pc = "delete", ![r].auth = a]
           /\ revoked' = revoked
        \/ /\ \A a \in Auth : ~HoldsToken(a, t)
           /\ End(r)
           /\ revoked' = revoked \cup {t}
  BY DEF SelectRevoked
<1>3. ASSUME NEW a \in Auth, HoldsToken(a, t), revoked' = revoked,
             req' = [req EXCEPT ![r].pc = "delete", ![r].auth = a]
      PROVE  /\ Others(r)
             /\ req'[r].pc = "delete" /\ req'[r].auth \in Auth /\ HoldsToken(req'[r].auth, t)
  <2>1. Others(r) /\ req'[r].pc = "delete" /\ req'[r].auth = a
    BY <1>1, <1>3 DEF HandlersOK, Handler, Others
  <2> QED
    BY <1>3, <2>1
<1>4. End(r) => Others(r) /\ Rests(r)
  BY <1>1, EndEffect
<1> QED
  BY <1>1, <1>2, <1>3, <1>4

LEMMA DeleteEffect ==
    ASSUME TypeInv, NEW r \in Request, DeleteRevoked(r)
    PROVE  /\ Others(r) /\ req[r].pc = "delete" /\ req'[r].pc = "mark"
           /\ req[r].auth \in Auth /\ req'[r].auth = req[r].auth
           /\ UNCHANGED <<consent, audit, heldTokens, born, generated, replaced, minted,
                          consented, undelivered>>
           /\ \A a \in Auth \ {req[r].auth} : row'[a] = row[a]
           /\ row'[req[r].auth] = NoRow
           /\ revoked' = revoked \cup ({row[req[r].auth].access, row[req[r].auth].refresh} \ {None})
<1>1. HandlersOK /\ TypeOK /\ req[r].pc = "delete" /\ HandlerOK(req[r])
  BY DEF TypeInv, HandlersOK, DeleteRevoked, At
<1>2. UNCHANGED <<consent, audit, heldTokens, born, generated, replaced, minted,
                  consented, undelivered>>
  BY DEF DeleteRevoked, clients
<1>3. Others(r) /\ req'[r].pc = "mark" /\ req'[r].auth = req[r].auth
  BY <1>1, StepEffect DEF DeleteRevoked
<1>4. req[r].auth \in Auth
  BY <1>1 DEF HandlerOK
<1>5. row'[req[r].auth] = NoRow /\ \A a \in Auth \ {req[r].auth} : row'[a] = row[a]
  BY <1>1, <1>4 DEF DeleteRevoked, TypeOK
<1> QED
  BY <1>1, <1>2, <1>3, <1>4, <1>5 DEF DeleteRevoked

LEMMA MarkEffect ==
    ASSUME TypeInv, NEW r \in Request, MarkTokensRevokedByAuthorizationID(r)
    PROVE  /\ Others(r) /\ Rests(r) /\ req[r].pc = "mark" /\ req[r].auth \in Auth
           /\ UNCHANGED <<consent, row, heldTokens, born, generated, replaced, minted,
                          consented, revoked, undelivered>>
           /\ \A t \in Token :
                audit'[t] = IF audit[t].auth = req[r].auth
                            THEN [audit[t] EXCEPT !.revoked = TRUE] ELSE audit[t]
<1>1. HandlersOK /\ req[r].pc = "mark" /\ HandlerOK(req[r])
  BY DEF TypeInv, HandlersOK, MarkTokensRevokedByAuthorizationID, At
<1>2. Others(r) /\ Rests(r)
  BY <1>1, EndEffect DEF MarkTokensRevokedByAuthorizationID
<1>3. UNCHANGED <<consent, row, heldTokens, born, generated, replaced, minted,
                  consented, revoked, undelivered>>
  BY DEF MarkTokensRevokedByAuthorizationID, clients, history
<1> QED
  BY <1>1, <1>2, <1>3 DEF MarkTokensRevokedByAuthorizationID, MarkedRevoked, HandlerOK

-----------------------------------------------------------------------------
(***************************************************************************)
(* The rows that handlers know of were inserted, and a row about to have   *)
(* its audit records marked is gone.                                       *)
(***************************************************************************)
BornInv ==
    /\ \A a \in Auth : row[a].live => a \in born
    /\ \A r \in Request :
        /\ req[r].pc \in Busy => req[r].auth \in born
        /\ req[r].pc = "mark" => ~row[req[r].auth].live

LEMMA InitBorn == Init => BornInv
BY DEF Init, BornInv, Busy, Signed, Idle, NoRow

LEMMA NextBorn == TypeInv /\ BornInv /\ [Next]_vars => BornInv'
<1> SUFFICES ASSUME TypeInv, BornInv, [Next]_vars PROVE BornInv'
  OBVIOUS
<1>1. ASSUME NEW r \in Request PROVE req[r].pc \in Busy \cup {"redirect"} => req[r].auth \in Auth
  BY DEF TypeInv, HandlersOK, HandlerOK, Busy, Signed
<1>2. CASE Quiet \/ ConsentSubmit
  BY <1>2 DEF Quiet, ConsentSubmit, BornInv, Proceeds, Rests, Busy, Signed
<1>3. ASSUME NEW r \in Request, FindOAuthConsent(r) \/ Respond(r) \/ SelectRevoked(r)
                                \/ MarkTokensRevokedByAuthorizationID(r)
      PROVE  BornInv'
  <2>1. /\ Others(r) /\ UNCHANGED <<row, born>>
        /\ \/ req'[r].pc \notin Busy
           \/ req'[r].pc = "delete" /\ row[req'[r].auth].live /\ req'[r].auth \in Auth
    BY <1>3, ConsentEffect, RespondEffect, SelectEffect, MarkEffect
       DEF Rests, Busy, Signed, HoldsToken
  <2> QED
    BY <2>1 DEF Others, BornInv, Busy
<1>4. ASSUME NEW r \in Request, SaveOAuthCode(r) PROVE BornInv'
  <2> PICK a \in Auth \ born :
        /\ born' = born \cup {a}
        /\ \A b \in Auth \ {a} : row'[b] = row[b]
    BY <1>4, CodeEffect
  <2>1. Others(r) /\ req'[r].pc \notin Busy
    BY <1>4, CodeEffect DEF Rests
  <2>2. \A x \in Request : req'[x].pc \in Busy => req'[x] = req[x] /\ req[x].auth \in Auth \ {a}
    BY <1>1, <2>1 DEF Others, BornInv
  <2> QED
    BY <2>2 DEF BornInv, Busy
<1>5. ASSUME NEW r \in Request, FindOAuthByCode(r) \/ FindOAuthByRefreshToken(r) PROVE BornInv'
  <2>1. /\ Others(r) /\ UNCHANGED <<row, born>>
        /\ req'[r].pc = "sign" /\ row[req'[r].auth].live /\ req'[r].auth \in Auth
    BY <1>5, FoundEffect
  <2> QED
    BY <2>1 DEF Others, BornInv
<1>6. ASSUME NEW r \in Request, Sign(r) \/ SaveOAuthTokens(r) \/ RecordAccessAudit(r)
                                \/ RecordRefreshAudit(r)
      PROVE  BornInv'
  <2>1. /\ Others(r) /\ born' = born /\ \A a \in Auth : row'[a].live = row[a].live
        /\ req[r].pc \in Busy /\ req'[r].pc # "mark" /\ req'[r].auth = req[r].auth
    BY <1>6, SignEffect, SaveEffect, RecordEffect DEF Proceeds, Busy, Signed
  <2> QED
    BY <1>1, <2>1 DEF Others, BornInv, Busy
<1>7. ASSUME NEW r \in Request, DeleteRevoked(r) PROVE BornInv'
  <2>1. /\ Others(r) /\ born' = born /\ \A a \in Auth : row'[a].live => row[a].live
        /\ req[r].pc \in Busy /\ req'[r].auth = req[r].auth
        /\ req[r].auth \in Auth /\ ~row'[req[r].auth].live
    BY <1>7, DeleteEffect DEF Busy, NoRow
  <2> QED
    BY <1>1, <2>1 DEF Others, BornInv, Busy
<1> QED
  BY <1>2, <1>3, <1>4, <1>5, <1>6, <1>7, QuietOrLoud DEF Loud

LEMMA InvariantBorn == Spec => [](TypeInv /\ BornInv)
BY InitTypeInv, NextTypeInv, InitBorn, NextBorn, PTL DEF Spec

\* A deleted authorization never comes back: only an authorize request makes a row, under
\* an id that never was; handlers that go on after a revocation find no row to write to.
THEOREM DeletedStaysDeleted == Spec => RevokedGrantStaysRevoked
<1>1. TypeInv /\ BornInv /\ [Next]_vars
        => [\A a \in born : ~row[a].live => ~row'[a].live]_vars
  <2> SUFFICES ASSUME TypeInv, BornInv, [Next]_vars, NEW a \in born, ~row[a].live
               PROVE  ~row'[a].live
    OBVIOUS
  <2>1. a \in Auth
    BY DEF TypeInv, TypeOK
  <2>2. CASE Quiet \/ ConsentSubmit
    BY <2>2 DEF Quiet, ConsentSubmit
  <2>3. ASSUME NEW r \in Request, Loud(r), ~SaveOAuthCode(r) PROVE ~row'[a].live
    <3>1. CASE SaveOAuthTokens(r) \/ DeleteRevoked(r)
      BY <2>1, <3>1, SaveEffect, DeleteEffect DEF NoRow
    <3>2. CASE FindOAuthConsent(r) \/ Respond(r) \/ SelectRevoked(r)
      BY <3>2, ConsentEffect, RespondEffect, SelectEffect
    <3>3. CASE FindOAuthByCode(r) \/ FindOAuthByRefreshToken(r) \/ Sign(r)
      BY <3>3, FoundEffect, SignEffect
    <3>4. CASE RecordAccessAudit(r) \/ RecordRefreshAudit(r)
               \/ MarkTokensRevokedByAuthorizationID(r)
      BY <3>4, RecordEffect, MarkEffect
    <3> QED
      BY <2>3, <3>1, <3>2, <3>3, <3>4 DEF Loud
  <2>4. ASSUME NEW r \in Request, SaveOAuthCode(r) PROVE ~row'[a].live
    BY <2>1, <2>4, CodeEffect
  <2> QED
    BY <2>2, <2>3, <2>4, QuietOrLoud
<1> QED
  BY <1>1, InvariantBorn, PTL DEF Spec, RevokedGrantStaysRevoked

-----------------------------------------------------------------------------
(***************************************************************************)
(* Scopes: what a handler, a row or a token has was consented to.          *)
(***************************************************************************)
GrantedTo(S, c, u) == S \subseteq consented[<<c, u>>]

ConsentInv ==
    /\ \A cu \in Client \X Username : consent[cu] \subseteq consented[cu]
    /\ \A r \in Request :
        /\ req[r].pc \in {"insert", "sign"} => GrantedTo(req[r].scopes, req[r].client, req[r].username)
        /\ req[r].pc \in Signed =>
              GrantedTo(req[r].access.scopes, req[r].access.client, req[r].access.username)
    /\ \A a \in Auth : row[a].live => GrantedTo(row[a].scopes, row[a].client, row[a].username)
    /\ \A t \in heldTokens \cap Access : GrantedTo(t.scopes, t.client, t.username)

LEMMA InitConsent == Init => ConsentInv
BY DEF Init, ConsentInv, Signed, Idle, NoRow

LEMMA NextConsent == TypeInv /\ ConsentInv /\ [Next]_vars => ConsentInv'
<1> SUFFICES ASSUME TypeInv, ConsentInv, [Next]_vars PROVE ConsentInv'
  OBVIOUS
<1> USE DEF GrantedTo
<1>1. ASSUME NEW r \in Request
      PROVE  /\ req[r].pc \in {"consent", "insert", "sign"} =>
                  req[r].client \in Client /\ req[r].username \in Username
             /\ req[r].pc \in Signed => req[r].access \in Access /\ req[r].refresh \in Refresh
  BY DEF TypeInv, HandlersOK, HandlerOK, Busy, Signed
<1>2. CASE Quiet
  BY <1>2 DEF Quiet, ConsentInv, Proceeds, Rests, Busy, Signed
<1>3. CASE ConsentSubmit
  <2>1. /\ UNCHANGED <<row, req, heldTokens>>
        /\ \A cu \in Client \X Username : consented[cu] \subseteq consented'[cu]
        /\ \A cu \in Client \X Username : consent'[cu] \subseteq consented'[cu]
    BY <1>3 DEF ConsentSubmit, ConsentInv, TypeInv, TypeOK, clients
  <2>2. \A a \in Auth : row[a].live => row[a].client \in Client /\ row[a].username \in Username
    BY DEF TypeInv, RowOK
  <2>3. \A t \in Access : t.client \in Client /\ t.username \in Username
    BY DEF Access
  <2> QED
    BY <1>1, <2>1, <2>2, <2>3 DEF ConsentInv
<1>4. ASSUME NEW r \in Request, FindOAuthConsent(r) PROVE ConsentInv'
  <2>1. /\ Others(r) /\ UNCHANGED <<consent, consented, row, heldTokens>>
        /\ req'[r].pc \notin {"sign"} \cup Signed
        /\ req'[r].pc = "insert" => GrantedTo(req'[r].scopes, req'[r].client, req'[r].username)
    BY <1>1, <1>4, ConsentEffect DEF Rests, Busy, Signed, ConsentInv
  <2> QED
    BY <2>1 DEF Others, ConsentInv
<1>5. ASSUME NEW r \in Request, SaveOAuthCode(r) PROVE ConsentInv'
  <2> PICK a \in Auth \ born :
        /\ \A b \in Auth \ {a} : row'[b] = row[b]
        /\ row'[a].client = req[r].client /\ row'[a].username = req[r].username
        /\ row'[a].scopes = req[r].scopes
    BY <1>5, CodeEffect
  <2>1. /\ Others(r) /\ UNCHANGED <<consent, consented, heldTokens>>
        /\ req'[r].pc \notin {"insert", "sign"} \cup Signed
        /\ GrantedTo(req[r].scopes, req[r].client, req[r].username)
    BY <1>5, CodeEffect DEF Rests, Busy, ConsentInv
  <2> QED
    BY <2>1 DEF Others, ConsentInv
<1>6. ASSUME NEW r \in Request, FindOAuthByCode(r) \/ FindOAuthByRefreshToken(r) PROVE ConsentInv'
  <2>1. /\ Others(r) /\ UNCHANGED <<consent, consented, row, heldTokens>>
        /\ req'[r].pc = "sign" /\ GrantedTo(req'[r].scopes, req'[r].client, req'[r].username)
    BY <1>6, FoundEffect DEF ConsentInv
  <2> QED
    BY <2>1 DEF Others, ConsentInv, Signed
<1>7. ASSUME NEW r \in Request, Sign(r) PROVE ConsentInv'
  <2>1. /\ Others(r) /\ UNCHANGED <<consent, consented, row, heldTokens>>
        /\ req'[r].pc = "save"
        /\ GrantedTo(req'[r].access.scopes, req'[r].access.client, req'[r].access.username)
    BY <1>7, SignEffect DEF ConsentInv
  <2> QED
    BY <2>1 DEF Others, ConsentInv
<1>8. ASSUME NEW r \in Request, SaveOAuthTokens(r) \/ RecordAccessAudit(r) \/ RecordRefreshAudit(r)
      PROVE  ConsentInv'
  <2>1. /\ Others(r) /\ UNCHANGED <<consent, consented, heldTokens>>
        /\ \A a \in Auth : /\ row'[a].live = row[a].live /\ row'[a].scopes = row[a].scopes
                           /\ row'[a].client = row[a].client /\ row'[a].username = row[a].username
        /\ Proceeds(r)
    BY <1>8, SaveEffect, RecordEffect
  <2> QED
    BY <2>1 DEF Others, ConsentInv, Proceeds, Signed
<1>9. ASSUME NEW r \in Request, Respond(r) PROVE ConsentInv'
  <2>1. /\ Others(r) /\ UNCHANGED <<consent, consented, row>> /\ Rests(r) /\ req[r].pc \in Signed
        /\ req[r].refresh \notin Access
        /\ heldTokens' = heldTokens \cup {req[r].access, req[r].refresh}
    BY <1>9, RespondEffect, Distinct DEF Signed
  <2> QED
    BY <2>1 DEF Others, ConsentInv, Rests, Busy
<1>10. ASSUME NEW r \in Request, SelectRevoked(r) \/ MarkTokensRevokedByAuthorizationID(r)
                                 \/ DeleteRevoked(r)
       PROVE ConsentInv'
  <2>1. /\ Others(r) /\ UNCHANGED <<consent, consented, heldTokens>>
        /\ \A a \in Auth : row'[a].live => row'[a] = row[a]
        /\ req'[r].pc \notin {"insert", "sign"} \cup Signed
    BY <1>10, SelectEffect, MarkEffect, DeleteEffect DEF Rests, Busy, Signed, NoRow
  <2> QED
    BY <2>1 DEF Others, ConsentInv
<1> QED
  BY <1>2, <1>3, <1>4, <1>5, <1>6, <1>7, <1>8, <1>9, <1>10, QuietOrLoud DEF Loud

\* Nobody holds a token with scopes its user never consented to for that client, although
\* the consent is read statements before the code is stored and the token is signed.
THEOREM HeldScopesWereConsented == Spec => []ScopesWereConsented
<1>1. ConsentInv => ScopesWereConsented
  BY DEF ConsentInv, GrantedTo, ScopesWereConsented
<1> QED
  BY <1>1, InitTypeInv, NextTypeInv, InitConsent, NextConsent, PTL DEF Spec

-----------------------------------------------------------------------------
(***************************************************************************)
(* Introspection: the row a handler read has not changed hands since, and  *)
(* a row's token and its expiry come from one handler.                     *)
(***************************************************************************)
Agrees(a, c, u, S) ==
    row[a].live => row[a].client = c /\ row[a].username = u /\ row[a].scopes = S

AgreeInv ==
    /\ \A r \in Request :
        /\ req[r].pc = "sign" =>
              Agrees(req[r].auth, req[r].client, req[r].username, req[r].scopes)
        /\ req[r].pc \in Signed =>
              Agrees(req[r].auth, req[r].access.client, req[r].access.username, req[r].access.scopes)
    /\ \A a \in Auth : row[a].access # None =>
          /\ Agrees(a, row[a].access.client, row[a].access.username, row[a].access.scopes)
          /\ row[a].accessExp = ExpiresAt(row[a].access)

LEMMA InitAgree == Init => AgreeInv
BY DEF Init, AgreeInv, Signed, Idle, NoRow

LEMMA NextAgree == TypeInv /\ BornInv /\ AgreeInv /\ [Next]_vars => AgreeInv'
<1> SUFFICES ASSUME TypeInv, BornInv, AgreeInv, [Next]_vars PROVE AgreeInv'
  OBVIOUS
<1> USE DEF Agrees
<1>1. ASSUME NEW r \in Request PROVE req[r].pc \in Busy => req[r].auth \in Auth /\ req[r].auth \in born
  BY DEF TypeInv, HandlersOK, HandlerOK, BornInv, Busy, Signed
<1>2. CASE Quiet \/ ConsentSubmit
  BY <1>2 DEF Quiet, ConsentSubmit, AgreeInv, Proceeds, Rests, Busy, Signed
<1>3. ASSUME NEW r \in Request, FindOAuthConsent(r) \/ Respond(r) \/ SelectRevoked(r)
                                \/ MarkTokensRevokedByAuthorizationID(r)
      PROVE  AgreeInv'
  <2>1. Others(r) /\ row' = row /\ req'[r].pc \notin {"sign"} \cup Signed
    BY <1>3, ConsentEffect, RespondEffect, SelectEffect, MarkEffect DEF Rests, Busy, Signed
  <2> QED
    BY <2>1 DEF Others, AgreeInv
<1>4. ASSUME NEW r \in Request, SaveOAuthCode(r) PROVE AgreeInv'
  <2> PICK a \in Auth \ born :
        /\ \A b \in Auth \ {a} : row'[b] = row[b]
        /\ row'[a].access = None
    BY <1>4, CodeEffect
  <2>1. Others(r) /\ req'[r].pc \notin {"sign"} \cup Signed
    BY <1>4, CodeEffect DEF Rests, Busy
  <2>2. \A x \in Request : req'[x].pc \in {"sign"} \cup Signed =>
          req'[x] = req[x] /\ row'[req[x].auth] = row[req[x].auth]
    BY <1>1, <2>1 DEF Others, Busy
  <2> QED
    BY <2>2 DEF AgreeInv
<1>5. ASSUME NEW r \in Request, FindOAuthByCode(r) \/ FindOAuthByRefreshToken(r) PROVE AgreeInv'
  <2>1. /\ Others(r) /\ row' = row /\ req'[r].pc = "sign"
        /\ Agrees(req'[r].auth, req'[r].client, req'[r].username, req'[r].scopes)
    BY <1>5, FoundEffect
  <2> QED
    BY <2>1 DEF Others, AgreeInv, Signed
<1>6. ASSUME NEW r \in Request, Sign(r) PROVE AgreeInv'
  <2>1. /\ Others(r) /\ row' = row /\ req'[r].pc = "save"
        /\ Agrees(req'[r].auth, req'[r].access.client, req'[r].access.username, req'[r].access.scopes)
    BY <1>6, SignEffect DEF AgreeInv
  <2> QED
    BY <2>1 DEF Others, AgreeInv
<1>7. ASSUME NEW r \in Request, SaveOAuthTokens(r) PROVE AgreeInv'
  <2>1. /\ Others(r)
        /\ Agrees(req[r].auth, req[r].access.client, req[r].access.username, req[r].access.scopes)
        /\ \A a \in Auth : /\ row'[a].live = row[a].live /\ row'[a].scopes = row[a].scopes
                           /\ row'[a].client = row[a].client /\ row'[a].username = row[a].username
                           /\ \/ row'[a].access = row[a].access /\ row'[a].accessExp = row[a].accessExp
                              \/ /\ a = req[r].auth /\ row'[a].access = req[r].access
                                 /\ row'[a].accessExp = ExpiresAt(req[r].access)
    BY <1>7, SaveEffect DEF AgreeInv, Signed
  <2>2. Proceeds(r)
    BY <1>7, SaveEffect
  <2>3. \A x \in Request : req[x].pc \in {"sign"} \cup Signed => req[x].auth \in Auth
    BY <1>1 DEF Busy
  <2> QED
    BY <2>1, <2>2, <2>3 DEF Others, AgreeInv, Proceeds, Signed
<1>8. ASSUME NEW r \in Request, RecordAccessAudit(r) \/ RecordRefreshAudit(r) PROVE AgreeInv'
  <2>1. Others(r) /\ row' = row /\ Proceeds(r)
    BY <1>8, RecordEffect
  <2> QED
    BY <2>1 DEF Others, AgreeInv, Proceeds, Signed
<1>9. ASSUME NEW r \in Request, DeleteRevoked(r) PROVE AgreeInv'
  <2>1. /\ Others(r) /\ req'[r].pc \notin {"sign"} \cup Signed
        /\ \A a \in Auth : row'[a] = row[a] \/ row'[a] = NoRow
    BY <1>9, DeleteEffect DEF Signed
  <2>2. ~NoRow.live /\ NoRow.access = None
    BY DEF NoRow
  <2>3. \A x \in Request : req[x].pc \in {"sign"} \cup Signed => req[x].auth \in Auth
    BY <1>1 DEF Busy
  <2>4. /\ \A x \in Request : req'[x].pc \in {"sign"} \cup Signed => req'[x] = req[x]
        /\ \A a \in Auth : row'[a] = row[a] \/ (~row'[a].live /\ row'[a].access = None)
    BY <2>1, <2>2 DEF Others
  <2> QED
    BY <2>3, <2>4 DEF AgreeInv
<1> QED
  BY <1>2, <1>3, <1>4, <1>5, <1>6, <1>7, <1>8, <1>9, QuietOrLoud DEF Loud

\* Introspection answers an access token's client, username, scopes and expiry as they were
\* signed into it, whichever of the racing handlers wrote it to the row and whenever it had
\* read that row; /openid/userinfo, which reads the token only, agrees until that expiry.
THEOREM IntrospectionAgrees == Spec => []IntrospectionAgreesWithToken
<1>1. TypeInv /\ AgreeInv => IntrospectionAgreesWithToken
  <2> SUFFICES ASSUME TypeInv, AgreeInv,
                      NEW t \in heldTokens \cap Access, NEW i \in Introspected(t)
               PROVE  /\ i = [client |-> t.client, username |-> t.username, scopes |-> t.scopes,
                              exp |-> ExpiresAt(t)]
                      /\ now # i.exp =>
                            UserInfo(t) = {[username |-> i.username, scopes |-> i.scopes]}
    BY DEF IntrospectionAgreesWithToken
  <2>1. PICK a \in Active(t) :
          i = [client |-> row[a].client, username |-> row[a].username, scopes |-> row[a].scopes,
               exp |-> row[a].accessExp]
    BY DEF Introspected
  <2>2. a \in Auth /\ row[a].live /\ row[a].access = t /\ ~(row[a].accessExp < now) /\ t # None
    BY <2>1, Distinct DEF Active
  <2>3. /\ row[a].client = t.client /\ row[a].username = t.username /\ row[a].scopes = t.scopes
        /\ row[a].accessExp = ExpiresAt(t)
    BY <2>2 DEF AgreeInv, Agrees
  <2>4. i = [client |-> t.client, username |-> t.username, scopes |-> t.scopes, exp |-> ExpiresAt(t)]
    BY <2>1, <2>3
  <2>5. now \in Nat /\ ExpiresAt(t) \in Nat
    BY OAuthGrantsAssumption DEF TypeInv, TypeOK, Time, Access, ExpiresAt
  <2>6. now # i.exp => VerifiesOAuthAccessToken(t)
    BY <2>2, <2>3, <2>4, <2>5 DEF VerifiesOAuthAccessToken
  <2> QED
    BY <2>4, <2>6 DEF UserInfo
<1> QED
  BY <1>1, InitTypeInv, NextTypeInv, InitBorn, NextBorn, InitAgree, NextAgree, PTL DEF Spec

-----------------------------------------------------------------------------
(***************************************************************************)
(* Where tokens can be: nowhere before they are signed or generated.       *)
(***************************************************************************)
In(a, t) == t \in {row[a].access, row[a].refresh}
Issued == minted.once \cup generated
Audited(t) == audit[t].auth # None \/ audit[t].revoked

IssuedInv ==
    /\ minted.twice \subseteq minted.once
    /\ minted.once \subseteq Access
    /\ heldTokens \cup revoked \cup replaced \subseteq Issued
    /\ \A t \in Token :
        /\ \A r \in Request : Carries(r, t) => t \in Issued
        /\ \A a \in Auth : In(a, t) => t \in Issued
        /\ Audited(t) => t \in Issued
    /\ \A r \in Request :
        req[r].pc \in {"sign"} \cup Signed /\ ~NewRefresh(r) => req[r].refresh \in heldTokens

LEMMA InitIssued == Init => IssuedInv
<1> SUFFICES ASSUME Init PROVE IssuedInv
  OBVIOUS
<1>1. \A t \in Token, a \in Auth : ~In(a, t)
  BY Distinct, OAuthGrantsAssumption DEF Init, In, NoRow
<1>2. \A t \in Token : ~Audited(t)
  BY DEF Init, Audited, NotAudited
<1> QED
  BY <1>1, <1>2 DEF Init, IssuedInv, Issued, Carries, Signed, Idle

\* A handler that goes on carries what it carried; one that stops carries nothing.
LEMMA CarriesOn ==
    ASSUME NEW r \in Request, Proceeds(r) \/ req'[r] = req[r]
    PROVE  /\ \A t : Carries(r, t)' <=> Carries(r, t)
           /\ NewRefresh(r)' = NewRefresh(r)
BY DEF Carries, NewRefresh, Proceeds, Signed

LEMMA StopsCarrying ==
    ASSUME NEW r \in Request, req'[r].pc \notin Signed
    PROVE  \A t : ~Carries(r, t)'
BY DEF Carries

LEMMA NextIssued == TypeInv /\ BornInv /\ IssuedInv /\ [Next]_vars => IssuedInv'
<1> SUFFICES ASSUME TypeInv, BornInv, IssuedInv, [Next]_vars PROVE IssuedInv'
  OBVIOUS
<1> DEFINE Kept == UNCHANGED <<heldTokens, revoked, replaced, minted, generated>>
           HoldsOld(r) == req[r].pc \in {"sign"} \cup Signed /\ ~NewRefresh(r)
<1>1. CASE Quiet
  <2>1. UNCHANGED <<row, audit, heldTokens, revoked, replaced, minted, generated>>
    BY <1>1 DEF Quiet
  <2>2. \A r \in Request :
          \/ /\ \A t : Carries(r, t)' <=> Carries(r, t)
             /\ HoldsOld(r)' => HoldsOld(r) /\ req'[r].refresh = req[r].refresh
          \/ (\A t : ~Carries(r, t)') /\ ~HoldsOld(r)'
    BY <1>1, CarriesOn, StopsCarrying DEF Quiet, Rests, Busy, Proceeds, Signed
  <2> QED
    BY <2>1, <2>2 DEF IssuedInv, Issued, In, Audited
<1>2. CASE ConsentSubmit
  BY <1>2 DEF ConsentSubmit, IssuedInv, Issued, In, Audited, Carries, NewRefresh, clients
\* The others: what happens to handler r, and to the tables.
<1>3. ASSUME NEW r \in Request, Others(r), Proceeds(r) \/ req'[r].pc \notin {"sign"} \cup Signed
      PROVE  \A x \in Request :
                /\ \A t : Carries(x, t)' => Carries(x, t)
                /\ HoldsOld(x)' => HoldsOld(x) /\ req'[x].refresh = req[x].refresh
  BY <1>3, CarriesOn, StopsCarrying DEF Others, Proceeds, Signed
<1>4. ASSUME NEW r \in Request, FindOAuthConsent(r) PROVE IssuedInv'
  <2>1. /\ UNCHANGED <<row, audit, heldTokens, revoked, replaced, minted, generated>>
        /\ Others(r) /\ req'[r].pc \notin {"sign"} \cup Signed
    BY <1>4, ConsentEffect DEF Rests, Busy, Signed
  <2> QED
    BY <1>3, <2>1 DEF IssuedInv, Issued, In, Audited
<1>5. ASSUME NEW r \in Request, SaveOAuthCode(r) PROVE IssuedInv'
  <2>1. /\ UNCHANGED <<audit, heldTokens, revoked, replaced, minted, generated>>
        /\ Others(r) /\ req'[r].pc \notin {"sign"} \cup Signed
        /\ \A a \in Auth : row'[a] = row[a] \/ (row'[a].access = None /\ row'[a].refresh = None)
    BY <1>5, CodeEffect DEF Rests, Busy, Signed
  <2>2. \A a \in Auth, t \in Token : In(a, t)' => In(a, t)
    BY <2>1, OAuthGrantsAssumption DEF In
  <2> QED
    BY <1>3, <2>1, <2>2 DEF IssuedInv, Issued, Audited
<1>6. ASSUME NEW r \in Request, FindOAuthByCode(r) \/ FindOAuthByRefreshToken(r) PROVE IssuedInv'
  <2>1. /\ UNCHANGED <<row, audit, heldTokens, revoked, replaced, minted, generated>>
        /\ Others(r) /\ req'[r].pc = "sign" /\ (NewRefresh(r)' \/ req'[r].refresh \in heldTokens)
    BY <1>6, FoundEffect DEF NewRefresh
  <2>2. \A x \in Request :
          /\ \A t : Carries(x, t)' => Carries(x, t)
          /\ HoldsOld(x)' => req'[x].refresh \in heldTokens
    BY <2>1, CarriesOn, StopsCarrying DEF Others, Signed, IssuedInv
  <2> QED
    BY <2>1, <2>2 DEF IssuedInv, Issued, In, Audited
<1>7. ASSUME NEW r \in Request, Sign(r) PROVE IssuedInv'
  <2>1. /\ UNCHANGED <<row, audit, heldTokens, revoked, replaced>> /\ Others(r)
        /\ req[r].pc = "sign" /\ NewRefresh(r)' = NewRefresh(r)
    BY <1>7, SignEffect DEF NewRefresh
  <2>2. /\ req'[r].access \in Access /\ minted'.once = minted.once \cup {req'[r].access}
        /\ minted'.twice = minted.twice \cup (minted.once \cap {req'[r].access})
        /\ generated \subseteq generated'
        /\ NewRefresh(r) => req'[r].refresh \in generated'
        /\ ~NewRefresh(r) => req'[r].refresh = req[r].refresh
    BY <1>7, SignEffect
  <2>3. Issued \subseteq Issued' /\ req'[r].access \in Issued'
        /\ (NewRefresh(r) => req'[r].refresh \in Issued')
    BY <2>2 DEF Issued
  <2>4. \A x \in Request :
          /\ \A t : Carries(x, t)' => Carries(x, t) \/ t \in Issued'
          /\ HoldsOld(x)' => HoldsOld(x) /\ req'[x].refresh = req[x].refresh
    BY <2>1, <2>2, <2>3, CarriesOn DEF Others, Carries
  <2> QED
    BY <2>1, <2>2, <2>3, <2>4 DEF IssuedInv, In, Audited
<1>8. ASSUME NEW r \in Request, SaveOAuthTokens(r) PROVE IssuedInv'
  <2>1. /\ UNCHANGED <<audit, heldTokens, revoked, minted, generated>>
        /\ Others(r) /\ Proceeds(r) /\ req[r].pc = "save" /\ req[r].auth \in Auth
    BY <1>8, SaveEffect
  <2>2. replaced' \subseteq replaced \cup ({row[req[r].auth].refresh} \ {None})
    BY <1>8, SaveEffect
  <2>3. row[req[r].auth].refresh # None => row[req[r].auth].refresh \in Issued
    BY <2>1, Distinct DEF TypeInv, TypeOK, Row, IssuedInv, In
  <2>4. \A a \in Auth, t \in Token : In(a, t)' => In(a, t) \/ Carries(r, t)
    BY <1>8, <2>1, SaveEffect DEF In, Carries, Signed
  <2> QED
    BY <1>3, <2>1, <2>2, <2>3, <2>4 DEF IssuedInv, Issued, Audited
<1>9. ASSUME NEW r \in Request, RecordAccessAudit(r) \/ RecordRefreshAudit(r) PROVE IssuedInv'
  <2>1. /\ UNCHANGED <<row, heldTokens, revoked, replaced, minted, generated>>
        /\ Others(r) /\ Proceeds(r)
    BY <1>9, RecordEffect
  <2>2. \A t \in Token : Audited(t)' => Audited(t) \/ Carries(r, t)
    BY <1>9, RecordEffect DEF Audited
  <2> QED
    BY <1>3, <2>1, <2>2 DEF IssuedInv, Issued, In
<1>10. ASSUME NEW r \in Request, Respond(r) PROVE IssuedInv'
  <2>1. /\ UNCHANGED <<row, audit, revoked, replaced, minted, generated>>
        /\ Others(r) /\ req'[r].pc \notin {"sign"} \cup Signed
        /\ req[r].pc = "respond" /\ req[r].access \in Token /\ req[r].refresh \in Token
        /\ heldTokens' = heldTokens \cup {req[r].access, req[r].refresh}
    BY <1>10, RespondEffect, Distinct DEF Rests, Busy, Signed
  <2>2. req[r].access \in Issued /\ req[r].refresh \in Issued
    BY <2>1 DEF IssuedInv, Carries, Signed
  <2> QED
    BY <1>3, <2>1, <2>2 DEF IssuedInv, Issued, In, Audited
<1>11. ASSUME NEW r \in Request, SelectRevoked(r) PROVE IssuedInv'
  <2>1. /\ UNCHANGED <<row, audit, heldTokens, replaced, minted, generated>>
        /\ Others(r) /\ req'[r].pc \notin {"sign"} \cup Signed
        /\ revoked' \subseteq revoked \cup heldTokens
    BY <1>11, SelectEffect DEF Rests, Busy, Signed
  <2> QED
    BY <1>3, <2>1 DEF IssuedInv, Issued, In, Audited
<1>12. ASSUME NEW r \in Request, DeleteRevoked(r) PROVE IssuedInv'
  <2>1. /\ UNCHANGED <<audit, heldTokens, replaced, minted, generated>>
        /\ Others(r) /\ req'[r].pc \notin {"sign"} \cup Signed /\ req[r].auth \in Auth
        /\ \A a \in Auth : row'[a] = row[a] \/ row'[a] = NoRow
        /\ revoked' = revoked \cup ({row[req[r].auth].access, row[req[r].auth].refresh} \ {None})
    BY <1>12, DeleteEffect DEF Signed
  <2>2. \A a \in Auth, t \in Token : In(a, t)' => In(a, t)
    BY <2>1, OAuthGrantsAssumption DEF In, NoRow
  <2>3. /\ row[req[r].auth].access # None => row[req[r].auth].access \in Issued
        /\ row[req[r].auth].refresh # None => row[req[r].auth].refresh \in Issued
    BY <2>1, Distinct DEF TypeInv, TypeOK, Row, IssuedInv, In
  <2> QED
    BY <1>3, <2>1, <2>2, <2>3 DEF IssuedInv, Issued, Audited
<1>13. ASSUME NEW r \in Request, MarkTokensRevokedByAuthorizationID(r) PROVE IssuedInv'
  <2>1. /\ UNCHANGED <<row, heldTokens, revoked, replaced, minted, generated>>
        /\ Others(r) /\ req'[r].pc \notin {"sign"} \cup Signed
    BY <1>13, MarkEffect DEF Rests, Busy, Signed
  <2>2. \A t \in Token : Audited(t)' => Audited(t)
    <3>1. req[r].auth # None
      BY <1>13, MarkEffect, Distinct
    <3> QED
      BY <1>13, <3>1, MarkEffect DEF Audited
  <2> QED
    BY <1>3, <2>1, <2>2 DEF IssuedInv, Issued, In
<1> QED
  BY <1>1, <1>2, <1>4, <1>5, <1>6, <1>7, <1>8, <1>9, <1>10, <1>11, <1>12, <1>13, QuietOrLoud DEF Loud

-----------------------------------------------------------------------------
(***************************************************************************)
(* Whose a token is.  A token that was signed once, or a refresh token,    *)
(* belongs to one handler until it is stored and to one row afterwards.    *)
(***************************************************************************)
Untouched(t) ==
    /\ \A a \in Auth : ~In(a, t)
    /\ t \notin heldTokens \cup revoked \cup replaced
    /\ ~Audited(t)

Owned(t) ==
    /\ \A r, q \in Request : Carries(r, t) /\ Carries(q, t) => r = q
    /\ \A a, b \in Auth : In(a, t) /\ In(b, t) => a = b
    /\ \A r \in Request, a \in Auth : Carries(r, t) /\ In(a, t) => a = req[r].auth
    /\ \A r \in Request : req[r].pc = "save" /\ Carries(r, t) => Untouched(t)
    /\ \A a \in Auth : In(a, t) =>
        /\ t \notin revoked \cup replaced
        /\ audit[t].auth \in {None, a}
        /\ ~audit[t].revoked

OwnedInv == \A t \in Token \ minted.twice : Owned(t)

LEMMA InitOwned == Init => OwnedInv
<1> SUFFICES ASSUME Init, NEW t \in Token PROVE Owned(t)
  BY DEF OwnedInv
<1>1. \A a \in Auth : ~In(a, t)
  BY Distinct, OAuthGrantsAssumption DEF Init, In, NoRow
<1> QED
  BY <1>1 DEF Init, Owned, Carries, Signed, Idle

LEMMA NotIssued ==
    ASSUME IssuedInv, NEW t \in Token \ Issued
    PROVE  Untouched(t) /\ \A r \in Request : ~Carries(r, t)
BY DEF IssuedInv, Untouched

LEMMA OneMoves ==
    ASSUME NEW r \in Request, Others(r), Proceeds(r) \/ req'[r].pc \notin Signed
    PROVE  \A x \in Request : \A t :
             Carries(x, t)' => /\ Carries(x, t) /\ req'[x].auth = req[x].auth
                               /\ req'[x].pc = "save" => req[x].pc = "save" /\ x # r
<1> SUFFICES ASSUME NEW x \in Request, NEW t, Carries(x, t)'
             PROVE  /\ Carries(x, t) /\ req'[x].auth = req[x].auth
                    /\ req'[x].pc = "save" => req[x].pc = "save" /\ x # r
  OBVIOUS
<1>1. CASE x = r
  BY <1>1, CarriesOn, StopsCarrying DEF Proceeds
<1>2. CASE x # r
  BY <1>2, CarriesOn DEF Others
<1> QED
  BY <1>1, <1>2

LEMMA NextOwned ==
    TypeInv /\ BornInv /\ IssuedInv /\ OwnedInv /\ [Next]_vars => OwnedInv'
<1> SUFFICES ASSUME TypeInv, BornInv, IssuedInv, OwnedInv, [Next]_vars,
                    NEW t \in Token \ minted'.twice
             PROVE  Owned(t)'
  BY DEF OwnedInv
<1>1. t \in Token \ minted.twice /\ Owned(t) /\ t # None
  <2>1. minted.twice \subseteq minted'.twice
    <3>1. CASE Quiet \/ ConsentSubmit
      BY <3>1 DEF Quiet, ConsentSubmit
    <3>2. ASSUME NEW r \in Request, Sign(r) PROVE minted.twice \subseteq minted'.twice
      BY <3>2, SignEffect
    <3>3. ASSUME NEW r \in Request, Loud(r), ~Sign(r) PROVE minted' = minted
      <4>1. CASE SaveOAuthTokens(r) \/ DeleteRevoked(r)
        BY <4>1, SaveEffect, DeleteEffect
      <4>2. CASE FindOAuthConsent(r) \/ Respond(r) \/ SelectRevoked(r)
        BY <4>2, ConsentEffect, RespondEffect, SelectEffect
      <4>3. CASE FindOAuthByCode(r) \/ FindOAuthByRefreshToken(r) \/ SaveOAuthCode(r)
        BY <4>3, FoundEffect, CodeEffect
      <4>4. CASE RecordAccessAudit(r) \/ RecordRefreshAudit(r)
                 \/ MarkTokensRevokedByAuthorizationID(r)
        BY <4>4, RecordEffect, MarkEffect
      <4> QED
        BY <3>3, <4>1, <4>2, <4>3, <4>4 DEF Loud
    <3> QED
      BY <3>1, <3>2, <3>3, QuietOrLoud
  <2> QED
    BY <2>1, OAuthGrantsAssumption DEF OwnedInv
<1>2. CASE Quiet
  <2>1. UNCHANGED <<row, audit, heldTokens, revoked, replaced>>
    BY <1>2 DEF Quiet
  <2>2. \A x \in Request :
          Carries(x, t)' => /\ Carries(x, t) /\ req'[x].auth = req[x].auth
                            /\ req'[x].pc = "save" => req[x].pc = "save"
    BY <1>2, CarriesOn, StopsCarrying DEF Quiet, Rests, Busy, Proceeds
  <2> QED
    BY <1>1, <2>1, <2>2 DEF Owned, Untouched, In, Audited
<1>3. CASE ConsentSubmit
  BY <1>1, <1>3 DEF ConsentSubmit, Owned, Untouched, In, Audited, Carries, NewRefresh, clients
<1>4. ASSUME NEW r \in Request, FindOAuthConsent(r) \/ FindOAuthByCode(r)
                                \/ FindOAuthByRefreshToken(r)
      PROVE  Owned(t)'
  <2>1. /\ UNCHANGED <<row, audit, heldTokens, revoked, replaced>>
        /\ Others(r) /\ req'[r].pc \notin Signed
    BY <1>4, ConsentEffect, FoundEffect DEF Rests, Busy, Signed
  <2> QED
    BY <1>1, <2>1, OneMoves DEF Owned, Untouched, In, Audited
<1>5. ASSUME NEW r \in Request, SaveOAuthCode(r) PROVE Owned(t)'
  <2>1. /\ UNCHANGED <<audit, heldTokens, revoked, replaced>>
        /\ Others(r) /\ req'[r].pc \notin Signed
        /\ \A a \in Auth : row'[a] = row[a] \/ (row'[a].access = None /\ row'[a].refresh = None)
    BY <1>5, CodeEffect DEF Rests, Busy
  <2>2. \A a \in Auth : In(a, t)' => In(a, t)
    BY <1>1, <2>1 DEF In
  <2> QED
    BY <1>1, <2>1, <2>2, OneMoves DEF Owned, Untouched, Audited
<1>6. ASSUME NEW r \in Request, Sign(r) PROVE Owned(t)'
  <2>1. UNCHANGED <<row, audit, heldTokens, revoked, replaced>> /\ Others(r)
    BY <1>6, SignEffect
  <2>2. ~Carries(r, t)
    BY <1>6, SignEffect DEF Carries, Signed
  <2>3. Untouched(t)' = Untouched(t) /\ \A a \in Auth : In(a, t)' = In(a, t)
    BY <2>1 DEF Untouched, In, Audited
  <2>4. \A x \in Request \ {r} : (Carries(x, t)' <=> Carries(x, t)) /\ req'[x] = req[x]
    BY <2>1, CarriesOn DEF Others
  <2>5. Carries(r, t)' => t \notin Issued
    <3>1. CASE t = req'[r].access
      BY <1>6, <3>1, SignEffect, Distinct DEF TypeInv, TypeOK, Issued
    <3>2. CASE NewRefresh(r) /\ t = req'[r].refresh
      BY <1>6, <3>2, SignEffect, Distinct DEF IssuedInv, Issued
    <3>3. NewRefresh(r)' = NewRefresh(r)
      BY <1>6, SignEffect DEF NewRefresh
    <3> QED
      BY <3>1, <3>2, <3>3 DEF Carries
  <2>6. CASE Carries(r, t)'
    <3>1. Untouched(t) /\ \A x \in Request : ~Carries(x, t)
      BY <1>1, <2>5, <2>6, NotIssued
    <3>2. \A a \in Auth : ~In(a, t)
      BY <3>1 DEF Untouched
    <3> QED
      BY <2>3, <2>4, <3>1, <3>2 DEF Owned
  <2>7. CASE ~Carries(r, t)'
    BY <1>1, <2>1, <2>2, <2>3, <2>4, <2>7 DEF Owned
  <2> QED
    BY <2>6, <2>7
<1>7. ASSUME NEW r \in Request, SaveOAuthTokens(r) PROVE Owned(t)'
  <2> PICK a \in Auth : a = req[r].auth
    BY <1>7, SaveEffect
  <2>1. /\ UNCHANGED <<audit, heldTokens, revoked>>
        /\ Others(r) /\ Proceeds(r) /\ req[r].pc = "save"
    BY <1>7, SaveEffect
  <2>2. \A x \in Request :
          Carries(x, t)' => /\ Carries(x, t) /\ req'[x].auth = req[x].auth
                            /\ req'[x].pc = "save" => req[x].pc = "save" /\ x # r
    BY <2>1, OneMoves
  <2>3. \A b \in Auth : In(b, t)' => In(b, t) \/ (b = a /\ Carries(r, t))
    BY <1>7, <2>1, SaveEffect DEF In, Carries, Signed
  <2>4. t \in replaced' => t \in replaced \/ t = row[a].refresh
    BY <1>7, SaveEffect
  <2>5. t \in replaced' /\ t \notin replaced => ~In(a, t)'
    <3>1. SUFFICES ASSUME t \in replaced', t \notin replaced PROVE ~In(a, t)'
      OBVIOUS
    <3>2. /\ t = row[a].refresh /\ t \in Refresh
          /\ row'[a].access = req[r].access /\ row'[a].refresh = req[r].refresh
          /\ NewRefresh(r) /\ req[r].access \in Access
      <4>1. row[a].refresh \in Refresh \cup {None} /\ req[r].access \in Access
        BY <2>1 DEF TypeInv, TypeOK, Row, HandlersOK, HandlerOK, Signed
      <4> QED
        BY <1>1, <1>7, <2>4, <3>1, <4>1, SaveEffect
    <3>3. ~Carries(r, t)
      BY <1>1, <2>1, <3>2 DEF Owned, Untouched, In
    <3> QED
      BY <2>1, <3>2, <3>3, Distinct DEF In, Carries, Signed
  <2>6. CASE Carries(r, t)
    <3>1. Untouched(t)
      BY <1>1, <2>1, <2>6 DEF Owned
    <3>2. \A x \in Request : Carries(x, t)' => x = r
      BY <1>1, <2>2, <2>6 DEF Owned
    <3>3. t \notin replaced' /\ \A b \in Auth : In(b, t)' => b = a
      BY <2>1, <2>3, <2>4, <3>1 DEF Untouched, In
    <3>4. audit[t].auth = None /\ ~audit[t].revoked /\ t \notin revoked
      BY <3>1 DEF Untouched, Audited
    <3> QED
      BY <2>1, <2>2, <3>2, <3>3, <3>4 DEF Owned
  <2>7. CASE ~Carries(r, t)
    <3>1. \A b \in Auth : In(b, t)' => In(b, t)
      BY <2>3, <2>7
    <3>2. \A b \in Auth : In(b, t)' => t \notin replaced'
      <4>1. t \in replaced' /\ t \notin replaced => In(a, t)
        BY <2>4 DEF In
      <4> QED
        BY <1>1, <2>1, <2>5, <3>1, <4>1 DEF Owned
    <3>3. \A x \in Request : req'[x].pc = "save" /\ Carries(x, t)' => Untouched(t)'
      <4>1. Untouched(t) => t \notin replaced'
        BY <2>1, <2>4 DEF Untouched, In
      <4> QED
        BY <1>1, <2>1, <2>2, <3>1, <4>1 DEF Owned, Untouched, Audited
    <3> QED
      BY <1>1, <2>1, <2>2, <3>1, <3>2, <3>3 DEF Owned
  <2> QED
    BY <2>6, <2>7
<1>8. ASSUME NEW r \in Request, RecordAccessAudit(r) \/ RecordRefreshAudit(r) PROVE Owned(t)'
  <2>1. /\ UNCHANGED <<row, heldTokens, revoked, replaced>>
        /\ Others(r) /\ Proceeds(r)
    BY <1>8, RecordEffect
  <2>2. \/ audit'[t] = audit[t]
        \/ /\ Carries(r, t)
           /\ audit'[t].auth = req[r].auth /\ audit'[t].revoked = audit[t].revoked
    BY <1>8, RecordEffect
  <2>3. \A x \in Request :
          Carries(x, t)' => /\ Carries(x, t) /\ req'[x].auth = req[x].auth
                            /\ req'[x].pc = "save" => req[x].pc = "save" /\ x # r
    BY <2>1, OneMoves
  <2>4. Untouched(t) /\ audit'[t] = audit[t] => Untouched(t)'
    BY <2>1 DEF Untouched, In, Audited
  <2>5. \A b \in Auth : In(b, t)' <=> In(b, t)
    BY <2>1 DEF In
  <2> QED
    BY <1>1, <2>1, <2>2, <2>3, <2>4, <2>5 DEF Owned
<1>9. ASSUME NEW r \in Request, Respond(r) PROVE Owned(t)'
  <2>1. /\ UNCHANGED <<row, audit, revoked, replaced>>
        /\ Others(r) /\ req'[r].pc \notin Signed /\ req[r].pc = "respond"
        /\ heldTokens' = heldTokens \cup {req[r].access, req[r].refresh}
    BY <1>9, RespondEffect DEF Rests, Busy
  <2>2. \A x \in Request :
          Carries(x, t)' => /\ Carries(x, t) /\ req'[x].auth = req[x].auth
                            /\ req'[x].pc = "save" => req[x].pc = "save" /\ x # r
    BY <2>1, OneMoves
  <2>3. t \in heldTokens' => t \in heldTokens \/ Carries(r, t)
    BY <2>1 DEF IssuedInv, Carries, Signed
  <2>4. Untouched(t) /\ ~Carries(r, t) => Untouched(t)'
    BY <2>1, <2>3 DEF Untouched, In, Audited
  <2>5. \A b \in Auth : In(b, t)' <=> In(b, t)
    BY <2>1 DEF In
  <2> QED
    BY <1>1, <2>1, <2>2, <2>4, <2>5 DEF Owned
<1>10. ASSUME NEW r \in Request, SelectRevoked(r) PROVE Owned(t)'
  <2>1. /\ UNCHANGED <<row, audit, heldTokens, replaced>>
        /\ Others(r) /\ req'[r].pc \notin Signed
    BY <1>10, SelectEffect DEF Rests, Busy, Signed
  <2>2. t \in revoked' /\ t \notin revoked =>
          t \in heldTokens /\ \A a \in Auth : ~HoldsToken(a, t)
    BY <1>10, SelectEffect
  <2>3. \A a \in Auth : In(a, t) => HoldsToken(a, t)
    BY <1>1 DEF In, HoldsToken, TypeInv, RowOK, NoRow
  <2>4. Untouched(t) => Untouched(t)'
    BY <2>1, <2>2 DEF Untouched, In, Audited
  <2>5. \A b \in Auth : In(b, t)' <=> In(b, t)
    BY <2>1 DEF In
  <2> QED
    BY <1>1, <2>1, <2>2, <2>3, <2>4, <2>5, OneMoves DEF Owned
<1>11. ASSUME NEW r \in Request, DeleteRevoked(r) PROVE Owned(t)'
  <2>1. /\ UNCHANGED <<audit, heldTokens, replaced>>
        /\ Others(r) /\ req'[r].pc \notin Signed /\ req[r].auth \in Auth
        /\ \A a \in Auth \ {req[r].auth} : row'[a] = row[a]
        /\ row'[req[r].auth] = NoRow
        /\ revoked' = revoked \cup ({row[req[r].auth].access, row[req[r].auth].refresh} \ {None})
    BY <1>11, DeleteEffect DEF Signed
  <2>2. \A b \in Auth : In(b, t)' => In(b, t) /\ b # req[r].auth
    BY <1>1, <2>1 DEF In, NoRow
  <2>3. t \in revoked' => t \in revoked \/ In(req[r].auth, t)
    BY <2>1 DEF In
  <2>4. Untouched(t) => Untouched(t)'
    BY <2>1, <2>2, <2>3 DEF Untouched, Audited
  <2> QED
    BY <1>1, <2>1, <2>2, <2>3, <2>4, OneMoves DEF Owned
<1>12. ASSUME NEW r \in Request, MarkTokensRevokedByAuthorizationID(r) PROVE Owned(t)'
  <2>1. /\ UNCHANGED <<row, heldTokens, revoked, replaced>>
        /\ Others(r) /\ req'[r].pc \notin Signed /\ req[r].auth \in Auth
        /\ req[r].pc = "mark"
    BY <1>12, MarkEffect DEF Rests, Busy
  <2>2. audit'[t] = IF audit[t].auth = req[r].auth
                    THEN [audit[t] EXCEPT !.revoked = TRUE] ELSE audit[t]
    BY <1>1, <1>12, MarkEffect
  <2>3. ~In(req[r].auth, t)
    BY <1>1, <2>1 DEF In, BornInv, TypeInv, RowOK, NoRow
  <2>4. audit'[t].auth = audit[t].auth
        /\ (audit[t].auth # req[r].auth => audit'[t] = audit[t])
    BY <1>1, <2>2 DEF TypeInv, TypeOK, AuditRow
  <2>5. Untouched(t) => Untouched(t)'
    BY <2>1, <2>4, Distinct DEF Untouched, In, Audited
  <2>6. \A b \in Auth : In(b, t)' <=> In(b, t)
    BY <2>1 DEF In
  <2>7. \A b \in Auth : In(b, t) => audit[t].auth # req[r].auth
    BY <1>1, <2>1, <2>3, Distinct DEF Owned
  <2> QED
    BY <1>1, <2>1, <2>4, <2>5, <2>6, <2>7, OneMoves DEF Owned
<1> QED
  BY <1>2, <1>3, <1>4, <1>5, <1>6, <1>7, <1>8, <1>9, <1>10, <1>11, <1>12, QuietOrLoud DEF Loud

OwnershipInv == TypeInv /\ BornInv /\ IssuedInv /\ OwnedInv

LEMMA InvariantOwned == Spec => []OwnershipInv
<1>1. Init => OwnershipInv
  BY InitTypeInv, InitBorn, InitIssued, InitOwned DEF OwnershipInv
<1>2. OwnershipInv /\ [Next]_vars => OwnershipInv'
  BY NextTypeInv, NextBorn, NextIssued, NextOwned DEF OwnershipInv
<1> QED
  BY <1>1, <1>2, PTL DEF Spec

\* A revoked token is in no row: its refresh is refused and introspection calls it
\* inactive, unless it is an access token that was signed twice.
THEOREM RevokedIsRefused == Spec => []RevokedTokenIsRefused
<1>1. OwnershipInv => RevokedTokenIsRefused
  <2> SUFFICES ASSUME OwnershipInv, NEW a \in Auth, row[a].live
               PROVE  /\ row[a].refresh \notin revoked
                      /\ row[a].access \in revoked => row[a].access \in minted.twice
    BY DEF RevokedTokenIsRefused
  <2>1. revoked \subseteq Token /\ row[a].refresh \in Refresh \cup {None}
    BY DEF OwnershipInv, TypeInv, TypeOK, Row
  <2>2. minted.twice \cap Refresh = {}
    BY Distinct DEF OwnershipInv, IssuedInv
  <2>3. \A t \in Token \ minted.twice : In(a, t) => t \notin revoked
    BY DEF OwnershipInv, OwnedInv, Owned
  <2> QED
    BY <2>1, <2>2, <2>3, OAuthGrantsAssumption DEF In
<1> QED
  BY <1>1, InvariantOwned, PTL

\* A replaced refresh token is in no row, however exchanges of one code and refreshes of
\* its tokens interleave.
THEOREM ReplacedIsDead == Spec => []ReplacedRefreshIsDead
<1>1. OwnershipInv => ReplacedRefreshIsDead
  <2> SUFFICES ASSUME OwnershipInv, NEW a \in Auth, row[a].refresh \in replaced PROVE FALSE
    BY DEF ReplacedRefreshIsDead
  <2>1. row[a].refresh \in Refresh
    BY DEF OwnershipInv, TypeInv, TypeOK
  <2>2. row[a].refresh \in Token \ minted.twice
    BY <2>1, Distinct DEF OwnershipInv, IssuedInv
  <2> QED
    BY <2>2 DEF OwnershipInv, OwnedInv, Owned, In
<1> QED
  BY <1>1, InvariantOwned, PTL

\* The audit list calls only tokens revoked that are in no row any more.
THEOREM AuditRevokedIsDead == Spec => []AuditRevokedMeansDead
<1>1. OwnershipInv => AuditRevokedMeansDead
  BY DEF OwnershipInv, OwnedInv, Owned, In, HoldsToken, AuditRevokedMeansDead
<1> QED
  BY <1>1, InvariantOwned, PTL

-----------------------------------------------------------------------------
(***************************************************************************)
(* The refresh token of a row: somebody has it.                            *)
(***************************************************************************)
HeldInv ==
    \A a \in Auth, x \in Refresh :
        row[a].refresh = x =>
            \/ x \in heldTokens
            \/ \E r \in Request : Carries(r, x)
            \/ a \in undelivered

LEMMA NextHeld == OwnershipInv /\ HeldInv /\ [Next]_vars => HeldInv'
<1> SUFFICES ASSUME OwnershipInv, HeldInv, [Next]_vars,
                    NEW a \in Auth, NEW x \in Refresh, row'[a].refresh = x
             PROVE  \/ x \in heldTokens'
                    \/ \E r \in Request : Carries(r, x)'
                    \/ a \in undelivered'
  BY DEF HeldInv
<1> DEFINE Goal == x \in heldTokens' \/ (\E r \in Request : Carries(r, x)') \/ a \in undelivered'
<1>1. TypeInv /\ IssuedInv
  BY DEF OwnershipInv
\* A handler that carries the row's refresh token generated it for this row.
<1>2. ASSUME NEW r \in Request, Carries(r, x), row[a].refresh = x
      PROVE  a = req[r].auth /\ x = req[r].refresh
  <2>1. req[r].access \in Access
    BY <1>1, <1>2 DEF TypeInv, HandlersOK, HandlerOK, Carries
  <2>2. x \in Token \ minted.twice
    BY <1>1, Distinct DEF IssuedInv
  <2> QED
    BY <1>2, <2>1, <2>2, Distinct DEF OwnershipInv, OwnedInv, Owned, In, Carries
<1>3. CASE Quiet
  <2>1. row[a].refresh = x /\ heldTokens' = heldTokens /\ undelivered \subseteq undelivered'
    BY <1>3 DEF Quiet
  <2>2. ASSUME NEW r \in Request, Carries(r, x) PROVE Goal
    <3>1. CASE req'[r] = req[r] \/ Proceeds(r)
      BY <2>2, <3>1, CarriesOn
    <3>2. CASE HoldsNewRefresh(r) /\ req[r].pc \in Signed => req[r].auth \in undelivered'
      BY <1>2, <2>1, <2>2, <3>2 DEF HoldsNewRefresh, Carries
    <3> QED
      BY <1>3, <3>1, <3>2 DEF Quiet
  <2> QED
    BY <2>1, <2>2 DEF HeldInv
<1>4. CASE ConsentSubmit
  BY <1>4 DEF ConsentSubmit, HeldInv, Carries, NewRefresh, clients
\* A handler that had nothing yet, or still has it, leaves everything where it was.
<1>5. ASSUME NEW r \in Request, Others(r), req[r].pc \notin Signed \/ Proceeds(r),
             row[a].refresh = x, UNCHANGED <<heldTokens, undelivered>>
      PROVE  Goal
  <2>1. ASSUME NEW q \in Request, Carries(q, x) PROVE Carries(q, x)'
    <3>1. req'[q] = req[q] \/ Proceeds(q)
      BY <1>5, <2>1 DEF Others, Carries
    <3> QED
      BY <2>1, <3>1, CarriesOn
  <2> QED
    BY <1>5, <2>1 DEF HeldInv
<1>6. ASSUME NEW r \in Request, Loud(r), ~SaveOAuthTokens(r), ~Respond(r) PROVE Goal
  <2>1. x # None
    BY Distinct
  <2>2. CASE FindOAuthConsent(r) \/ SaveOAuthCode(r)
    <3>1. row[a].refresh = x
      BY <1>1, <2>1, <2>2, ConsentEffect, CodeEffect
    <3> QED
      BY <1>1, <1>5, <2>2, <3>1, ConsentEffect, CodeEffect DEF Signed
  <2>3. CASE FindOAuthByCode(r) \/ FindOAuthByRefreshToken(r) \/ Sign(r)
    <3>1. req[r].pc \notin Signed
      BY <2>3, <1>1, SignEffect DEF FindOAuthByCode, FindOAuthByRefreshToken, At, Signed
    <3> QED
      BY <1>1, <1>5, <2>3, <3>1, FoundEffect, SignEffect
  <2>4. CASE RecordAccessAudit(r) \/ RecordRefreshAudit(r)
    BY <1>1, <1>5, <2>4, RecordEffect
  <2>5. CASE SelectRevoked(r) \/ DeleteRevoked(r) \/ MarkTokensRevokedByAuthorizationID(r)
    <3>1. row[a].refresh = x /\ req[r].pc \notin Signed
      BY <1>1, <2>1, <2>5, SelectEffect, DeleteEffect, MarkEffect DEF Signed, NoRow
    <3> QED
      BY <1>1, <1>5, <2>5, <3>1, SelectEffect, DeleteEffect, MarkEffect
  <2> QED
    BY <1>6, <2>2, <2>3, <2>4, <2>5 DEF Loud
<1>7. ASSUME NEW r \in Request, SaveOAuthTokens(r) PROVE Goal
  <2>1. CASE row[a].refresh = x
    BY <1>1, <1>5, <1>7, <2>1, SaveEffect
  <2>2. CASE row[a].refresh # x
    <3>1. NewRefresh(r) /\ x = req[r].refresh /\ Proceeds(r) /\ req[r].pc = "save"
      BY <1>1, <1>7, <2>2, SaveEffect
    <3>2. Carries(r, x)
      BY <3>1 DEF Carries, Signed
    <3> QED
      BY <3>1, <3>2, CarriesOn
  <2> QED
    BY <2>1, <2>2
<1>8. ASSUME NEW r \in Request, Respond(r) PROVE Goal
  <2>1. /\ Others(r) /\ row' = row /\ undelivered' = undelivered
        /\ heldTokens' = heldTokens \cup {req[r].access, req[r].refresh}
    BY <1>1, <1>8, RespondEffect
  <2>2. \A q \in Request : Carries(q, x) => Carries(q, x)' \/ q = r
    BY <2>1, CarriesOn DEF Others
  <2> QED
    BY <1>2, <2>1, <2>2 DEF HeldInv
<1> QED
  BY <1>1, <1>3, <1>4, <1>6, <1>7, <1>8, QuietOrLoud

\* The refresh token that works for an authorization is held by a client or about to be
\* answered to one, whichever handler wrote last, unless an answer was lost.
THEOREM LiveRefreshHeld == Spec => []LiveRefreshIsHeld
<1>1. Init => HeldInv
  BY Distinct DEF Init, HeldInv, NoRow
<1>2. OwnershipInv /\ HeldInv => LiveRefreshIsHeld
  <2> SUFFICES ASSUME OwnershipInv, HeldInv, NEW a \in Auth, row[a].live, row[a].refresh # None
               PROVE  \/ row[a].refresh \in heldTokens
                      \/ \E r \in Request : req[r].refresh = row[a].refresh
                      \/ a \in undelivered
    BY DEF LiveRefreshIsHeld
  <2>1. row[a].refresh \in Refresh
    BY DEF OwnershipInv, TypeInv, TypeOK, Row
  <2>2. ASSUME NEW r \in Request, Carries(r, row[a].refresh) PROVE req[r].refresh = row[a].refresh
    <3>1. req[r].access \in Access
      BY <2>2 DEF OwnershipInv, TypeInv, HandlersOK, HandlerOK, Carries
    <3> QED
      BY <2>1, <2>2, <3>1, Distinct DEF Carries
  <2> QED
    BY <2>1, <2>2 DEF HeldInv
<1> QED
  BY <1>1, <1>2, InvariantOwned, NextHeld, PTL DEF Spec

-----------------------------------------------------------------------------
(***************************************************************************)
(* Codes: an authorization with tokens on the audit list is exchanged.     *)
(***************************************************************************)
Spent(a) == a \in born /\ (row[a].live => row[a].access # None)

Stored == Signed \ {"save"}

SpentInv ==
    \A a \in Auth :
        \/ \E r \in Request : req[r].pc \in Stored /\ req[r].auth = a
        \/ \E t \in Token : audit[t].auth = a
        => Spent(a)

LEMMA SpentForGood ==
    ASSUME TypeInv, [Next]_vars, NEW a \in Auth, Spent(a)
    PROVE  Spent(a)'
<1>1. CASE Quiet \/ ConsentSubmit
  BY <1>1 DEF Quiet, ConsentSubmit, Spent
<1>2. ASSUME NEW r \in Request, Loud(r) PROVE Spent(a)'
  <2>1. CASE SaveOAuthTokens(r)
    <3>1. req[r].access # None
      BY <2>1, Distinct DEF SaveOAuthTokens, At, TypeInv, HandlersOK, HandlerOK, Signed
    <3> QED
      BY <2>1, <3>1, SaveEffect DEF Spent
  <2>2. CASE SaveOAuthCode(r)
    BY <2>2, CodeEffect DEF Spent
  <2>3. CASE FindOAuthConsent(r) \/ Respond(r) \/ SelectRevoked(r)
    BY <2>3, ConsentEffect, RespondEffect, SelectEffect DEF Spent
  <2>6. CASE DeleteRevoked(r)
    <3>1. born' = born /\ (row'[a] = row[a] \/ ~row'[a].live)
      BY <2>6, DeleteEffect DEF NoRow
    <3> QED
      BY <3>1 DEF Spent
  <2>4. CASE FindOAuthByCode(r) \/ FindOAuthByRefreshToken(r) \/ Sign(r)
    BY <2>4, FoundEffect, SignEffect DEF Spent
  <2>5. CASE RecordAccessAudit(r) \/ RecordRefreshAudit(r)
             \/ MarkTokensRevokedByAuthorizationID(r)
    BY <2>5, RecordEffect, MarkEffect DEF Spent
  <2> QED
    BY <1>2, <2>1, <2>2, <2>3, <2>4, <2>5, <2>6 DEF Loud
<1> QED
  BY <1>1, <1>2, QuietOrLoud

LEMMA NextSpent == TypeInv /\ BornInv /\ SpentInv /\ [Next]_vars => SpentInv'
<1> SUFFICES ASSUME TypeInv, BornInv, SpentInv, [Next]_vars, NEW a \in Auth,
                    \/ \E r \in Request : req'[r].pc \in Stored /\ req'[r].auth = a
                    \/ \E t \in Token : audit'[t].auth = a
             PROVE  Spent(a)'
  BY DEF SpentInv
<1> DEFINE Past == \/ \E r \in Request : req[r].pc \in Stored /\ req[r].auth = a
                   \/ \E t \in Token : audit[t].auth = a
<1>1. Past => Spent(a)'
  BY SpentForGood DEF SpentInv
<1>2. CASE Quiet \/ ConsentSubmit
  <2>1. audit' = audit
    BY <1>2 DEF Quiet, ConsentSubmit
  <2>2. \A r \in Request : req'[r].pc \in Stored => req[r].pc \in Stored /\ req'[r].auth = req[r].auth
    BY <1>2 DEF Quiet, ConsentSubmit, Proceeds, Rests, Busy, Stored, Signed
  <2> QED
    BY <1>1, <2>1, <2>2
<1>3. ASSUME NEW r \in Request, Others(r), audit' = audit, req'[r].pc \notin Stored PROVE Past
  BY <1>3 DEF Others
<1>4. ASSUME NEW r \in Request, SaveOAuthTokens(r) PROVE Spent(a)'
  <2>1. Others(r) /\ audit' = audit /\ req'[r].auth = req[r].auth
    BY <1>4, SaveEffect DEF Proceeds
  <2>2. CASE req[r].auth = a
    <3>1. a \in born /\ req[r].access # None
      BY <1>4, <2>2, Distinct
         DEF SaveOAuthTokens, At, TypeInv, HandlersOK, HandlerOK, Signed, BornInv, Busy
    <3> QED
      BY <1>4, <2>2, <3>1, SaveEffect DEF Spent
  <2>3. CASE req[r].auth # a
    BY <1>1, <2>1, <2>3 DEF Others
  <2> QED
    BY <2>2, <2>3
<1>5. ASSUME NEW r \in Request, RecordAccessAudit(r) \/ RecordRefreshAudit(r) PROVE Past
  <2>1. /\ Others(r) /\ req'[r].auth = req[r].auth
        /\ \A t \in Token : audit'[t].auth = audit[t].auth \/ audit'[t].auth = req[r].auth
    BY <1>5, RecordEffect DEF Proceeds
  <2>2. req[r].pc \in Stored
    BY <1>5 DEF RecordAccessAudit, RecordRefreshAudit, At, Stored, Signed
  <2> QED
    BY <2>1, <2>2 DEF Others
<1>6. ASSUME NEW r \in Request, MarkTokensRevokedByAuthorizationID(r) PROVE Past
  <2>1. /\ Others(r) /\ req'[r].pc \notin Stored
        /\ \A t \in Token : audit'[t].auth = audit[t].auth
    BY <1>6, MarkEffect DEF Rests, Busy, Stored, TypeInv, TypeOK, AuditRow
  <2> QED
    BY <2>1 DEF Others
<1>7. ASSUME NEW r \in Request, FindOAuthConsent(r) \/ SaveOAuthCode(r) \/ Respond(r)
                                \/ SelectRevoked(r) \/ DeleteRevoked(r)
      PROVE  Past
  BY <1>3, <1>7, ConsentEffect, CodeEffect, RespondEffect, SelectEffect, DeleteEffect
     DEF Rests, Busy, Stored, Signed
<1>8. ASSUME NEW r \in Request, FindOAuthByCode(r) \/ FindOAuthByRefreshToken(r) \/ Sign(r)
      PROVE  Past
  BY <1>3, <1>8, FoundEffect, SignEffect DEF Stored, Signed
<1> QED
  BY <1>1, <1>2, <1>4, <1>5, <1>6, <1>7, <1>8, QuietOrLoud DEF Loud

\* Once the tokens of an authorization are on the audit list, no new exchange of its code
\* begins; those that began earlier go on.
THEOREM SpentCodeRefused == Spec => SpentCodeIsRefused
<1>1. Init => SpentInv
  BY Distinct DEF Init, SpentInv, Stored, Signed, Idle, NotAudited
<1>2. TypeInv /\ SpentInv /\ [Next]_vars
        => [\A r \in Request :
              req[r].op = "exchange" /\ req[r].pc = "find" /\ req'[r].pc = "sign"
                => ~\E t \in heldTokens : audit[t].auth = req'[r].auth]_vars
  <2> SUFFICES ASSUME TypeInv, SpentInv, [Next]_vars, NEW r \in Request,
                      req[r].op = "exchange", req[r].pc = "find", req'[r].pc = "sign",
                      NEW t \in heldTokens, audit[t].auth = req'[r].auth
               PROVE  FALSE
    OBVIOUS
  <2>1. ~(Quiet \/ ConsentSubmit)
    BY DEF Quiet, ConsentSubmit, Proceeds, Rests, Busy, Signed
  <2>2. PICK q \in Request : Loud(q)
    BY <2>1, QuietOrLoud
  <2>3. q = r
    <3>1. Others(q)
      <4>1. CASE FindOAuthConsent(q) \/ SaveOAuthCode(q) \/ Respond(q)
        BY <4>1, ConsentEffect, CodeEffect, RespondEffect
      <4>2. CASE SelectRevoked(q) \/ DeleteRevoked(q) \/ SaveOAuthTokens(q)
        BY <4>2, SelectEffect, DeleteEffect, SaveEffect
      <4>3. CASE FindOAuthByCode(q) \/ FindOAuthByRefreshToken(q) \/ Sign(q)
        BY <4>3, FoundEffect, SignEffect
      <4>4. CASE RecordAccessAudit(q) \/ RecordRefreshAudit(q)
                 \/ MarkTokensRevokedByAuthorizationID(q)
        BY <4>4, RecordEffect, MarkEffect
      <4> QED
        BY <2>2, <4>1, <4>2, <4>3, <4>4 DEF Loud
    <3> QED
      BY <3>1 DEF Others
  <2>4. FindOAuthByCode(r)
    BY <2>2, <2>3, SelectEffect DEF Loud, FindOAuthConsent, SaveOAuthCode, FindOAuthByRefreshToken,
       Sign, SaveOAuthTokens, RecordAccessAudit, RecordRefreshAudit, Respond, DeleteRevoked,
       MarkTokensRevokedByAuthorizationID, At, Rests, Busy
  <2>5. PICK a \in heldCodes : Exchangeable(req[r].client, a) /\ Found(r, a, None)
    BY <2>4 DEF FindOAuthByCode
  <2>6. a \in Auth /\ row[a].live /\ row[a].access = None /\ t \in Token
    BY <2>5 DEF Exchangeable, TypeInv, TypeOK
  <2>7. req'[r].auth = a
    BY <2>5 DEF Found, Running, TypeInv, HandlersOK
  <2> QED
    BY <2>6, <2>7 DEF SpentInv, Spent
<1> QED
  BY <1>1, <1>2, InitTypeInv, NextTypeInv, InitBorn, NextBorn, NextSpent, PTL
     DEF Spec, SpentCodeIsRefused

-----------------------------------------------------------------------------
(***************************************************************************)
(* The refinement.  Every statement of a handler is one step of            *)
(* RevocableGrant or none; that a refresh token waits in one handler only, *)
(* and works for no authorization before, is OwnershipInv.                 *)
(***************************************************************************)
LEMMA WaitingToken ==
    ASSUME OwnershipInv, NEW r \in Request, Unsaved(r)
    PROVE  /\ req[r].auth \in Auth /\ req[r].refresh \in Refresh
           /\ req[r].refresh \in generated
           /\ \A q \in Request : Unsaved(q) /\ req[q].refresh = req[r].refresh => q = r
<1>1. HandlerOK(req[r]) /\ Carries(r, req[r].refresh)
  BY DEF OwnershipInv, TypeInv, HandlersOK, Unsaved, At, Carries, Signed
<1>2. req[r].auth \in Auth /\ req[r].refresh \in Refresh
  BY <1>1 DEF Unsaved, At, HandlerOK, Signed
<1>3. req[r].refresh \in Token /\ req[r].refresh \notin minted.once \cup minted.twice
  BY <1>2, Distinct DEF OwnershipInv, IssuedInv
<1>4. req[r].refresh \in generated
  BY <1>1, <1>3 DEF OwnershipInv, IssuedInv, Issued
<1>5. \A q \in Request : Unsaved(q) /\ req[q].refresh = req[r].refresh => q = r
  BY <1>1, <1>3 DEF OwnershipInv, OwnedInv, Owned, Carries, Unsaved, At, Signed
<1> QED
  BY <1>2, <1>4, <1>5

\* A step after which every handler that still waits to store a token is as it was.
LEMMA LoseStep ==
    ASSUME OwnershipInv, Life' = Life, Works' = Works, generated' = generated,
           \A r \in Request : Unsaved(r)' => req'[r] = req[r]
    PROVE  Grants!Next
<1> DEFINE K == {x \in Refresh : \A r \in Request : Unsaved(r)' => req[r].refresh # x}
<1>1. ASSUME NEW r \in Request, Unsaved(r)' PROVE Unsaved(r) /\ req'[r] = req[r]
  BY <1>1 DEF Unsaved, At, NewRefresh
<1>2. ASSUME NEW a \in Auth PROVE Waits'[a] = Waits[a] \ K
  <2>1. ASSUME NEW x \in Waits'[a] PROVE x \in Waits[a] \ K
    BY <1>1, <2>1 DEF Waits
  <2>2. ASSUME NEW x \in Waits[a] \ K PROVE x \in Waits'[a]
    <3>1. PICK r \in Request : Unsaved(r) /\ req[r].auth = a /\ req[r].refresh = x
      BY <2>2 DEF Waits
    <3>2. PICK q \in Request : Unsaved(q)' /\ req[q].refresh = x
      BY <2>2 DEF Waits
    <3>3. q = r
      BY <1>1, <3>1, <3>2, WaitingToken
    <3> QED
      BY <1>1, <2>2, <3>1, <3>2, <3>3 DEF Waits
  <2> QED
    BY <2>1, <2>2
<1>3. K \in SUBSET Refresh /\ Waits' = [a \in Auth |-> Waits[a] \ K]
  BY <1>2 DEF Waits
<1>4. Grants!Lose
  <2> HIDE DEF K
  <2> QED
    BY <1>3 DEF Grants!Lose
<1> QED
  BY <1>4 DEF Grants!Next

\* The two functions of the rows stay while the rows' life and refresh tokens do.
LEMMA SameRows ==
    ASSUME born' = born,
           \A a \in Auth : row'[a].live = row[a].live /\ row'[a].refresh = row[a].refresh
    PROVE  Life' = Life /\ Works' = Works
BY DEF Life, Works

\* SaveOAuthCode begins a grant that has no key yet.
LEMMA BeginStep ==
    ASSUME OwnershipInv, NEW r \in Request, SaveOAuthCode(r)
    PROVE  Grants!Next
<1>0. TypeInv /\ BornInv
  BY DEF OwnershipInv
<1> PICK a \in Auth \ born :
      /\ born' = born \cup {a}
      /\ \A b \in Auth \ {a} : row'[b] = row[b]
      /\ row'[a].live /\ row'[a].refresh = None
  BY <1>0, CodeEffect
<1>1. Others(r) /\ req[r].pc = "insert" /\ Rests(r) /\ generated' = generated
  BY <1>0, CodeEffect
<1>2. ~row[a].live
  BY <1>0 DEF BornInv
<1>3. Life[a] = "new" /\ Life' = [Life EXCEPT ![a] = "valid"]
  BY DEF Life
<1>4. Works' = Works
  BY <1>2 DEF Works
<1>5. Waits' = Waits
  <2>1. \A x \in Request : (Unsaved(x)' <=> Unsaved(x)) /\ (Unsaved(x) => req'[x] = req[x])
    BY <1>1 DEF Others, Rests, Unsaved, At, NewRefresh, Busy, Signed
  <2> QED
    BY <2>1 DEF Waits
<1>6. Grants!Begin(a)
  BY <1>1, <1>3, <1>4, <1>5 DEF Grants!Begin
<1> QED
  BY <1>6 DEF Grants!Next

\* Sign makes a key, which waits in its handler.
LEMMA MakeStep ==
    ASSUME OwnershipInv, NEW r \in Request, Sign(r)
    PROVE  Grants!Next
<1> DEFINE a == req[r].auth
           x == req'[r].refresh
<1>0. TypeInv /\ BornInv
  BY DEF OwnershipInv
<1>1. /\ Others(r) /\ UNCHANGED <<row, born>>
      /\ req[r].pc = "sign" /\ req'[r].pc = "save"
      /\ req'[r].op = req[r].op /\ req'[r].auth = a
      /\ x \in Refresh
      /\ NewRefresh(r) => x \notin generated /\ generated' = generated \cup {x}
      /\ ~NewRefresh(r) => generated' = generated
  BY <1>0, SignEffect
<1>2. a \in born /\ a \in Auth
  BY <1>0, <1>1 DEF BornInv, Busy, TypeInv, HandlersOK, HandlerOK
<1>3. Life' = Life /\ Works' = Works
  BY <1>1, SameRows
<1>4. CASE ~NewRefresh(r)
  <2>1. \A q \in Request : Unsaved(q)' => req'[q] = req[q]
    BY <1>1, <1>4 DEF Unsaved, NewRefresh, Others
  <2> QED
    BY <1>1, <1>3, <1>4, <2>1, LoseStep
<1>5. CASE NewRefresh(r)
  <2>1. \A q \in Request \ {r} : (Unsaved(q)' <=> Unsaved(q)) /\ req'[q] = req[q]
    BY <1>1 DEF Others, Unsaved, At, NewRefresh
  <2>2. ~Unsaved(r) /\ Unsaved(r)'
    BY <1>1, <1>5 DEF Unsaved, At, NewRefresh
  <2> HIDE DEF a, x
  <2>3. req'[r].auth = a /\ req'[r].refresh = x
    BY <1>1 DEF a, x
  <2>4. \A b \in Auth \ {a} : Waits'[b] = Waits[b]
    BY <2>1, <2>2, <2>3 DEF Waits
  <2>5. Waits'[a] = Waits[a] \cup {x}
    BY <1>1, <1>2, <2>1, <2>2, <2>3 DEF Waits
  <2>6. Waits' = [Waits EXCEPT ![a] = Waits[a] \cup {x}]
    BY <2>4, <2>5 DEF Waits
  <2>7. Life[a] # "new"
    BY <1>2 DEF Life
  <2>8. Grants!Make(a)
    BY <1>1, <1>3, <1>5, <2>6, <2>7 DEF Grants!Make
  <2> QED
    BY <1>2, <2>8 DEF Grants!Next
<1> QED
  BY <1>4, <1>5

\* SaveOAuthTokens puts the handler's key in the former one's place, if there still is a
\* row; otherwise the key is lost.
LEMMA RenewStep ==
    ASSUME OwnershipInv, NEW r \in Request, SaveOAuthTokens(r)
    PROVE  Grants!Next
<1> DEFINE a == req[r].auth
           x == req[r].refresh
<1>0. TypeInv /\ BornInv
  BY DEF OwnershipInv
<1>1. /\ Others(r) /\ Proceeds(r) /\ req[r].pc = "save"
      /\ UNCHANGED <<born, generated>>
      /\ a \in Auth
      /\ \A b \in Auth \ {a} : row'[b] = row[b]
      /\ row'[a].live = row[a].live
      /\ ~row[a].live => row' = row
      /\ row[a].live /\ NewRefresh(r) => row'[a].refresh = x
      /\ row[a].live /\ ~NewRefresh(r) => row'[a].refresh = row[a].refresh
  BY <1>0, SaveEffect
<1>2. \A q \in Request : Unsaved(q)' => q # r /\ req'[q] = req[q]
  BY <1>1 DEF Unsaved, At, Others, Proceeds
<1>3. CASE ~row[a].live \/ ~NewRefresh(r)
  <2>1. \A b \in Auth : row'[b].live = row[b].live /\ row'[b].refresh = row[b].refresh
    BY <1>1, <1>3
  <2> QED
    BY <1>1, <1>2, <2>1, SameRows, LoseStep
<1>4. CASE row[a].live /\ NewRefresh(r)
  <2>1. Unsaved(r) /\ a \in born
    BY <1>0, <1>1, <1>4 DEF Unsaved, At, BornInv
  <2>2. x \in Refresh /\ x \in generated
        /\ \A q \in Request : Unsaved(q) /\ req[q].refresh = x => q = r
    BY <2>1, WaitingToken
  <2>3. \A q \in Request \ {r} : (Unsaved(q)' <=> Unsaved(q)) /\ req'[q] = req[q]
    BY <1>1 DEF Others, Unsaved, At, NewRefresh
  <2> HIDE DEF a, x
  <2>4. req[r].auth = a /\ req[r].refresh = x
    BY DEF a, x
  <2>5. \A b \in Auth \ {a} : Waits'[b] = Waits[b]
    BY <1>2, <2>3, <2>4 DEF Waits
  <2>6. x \in Waits[a] /\ Waits'[a] = Waits[a] \ {x}
    BY <1>1, <1>2, <2>1, <2>2, <2>3, <2>4 DEF Waits
  <2>7. Waits' = [Waits EXCEPT ![a] = Waits[a] \ {x}]
    BY <2>5, <2>6 DEF Waits
  <2>8. Life[a] = "valid" /\ Life' = Life
    BY <1>1, <1>4, <2>1 DEF Life
  <2>9. Works' = [Works EXCEPT ![a] = x]
    BY <1>1, <1>4 DEF Works
  <2>10. generated' = generated \cup {x}
    BY <1>1, <2>2
  <2>11. Grants!Renew(a)
    BY <2>6, <2>7, <2>8, <2>9, <2>10 DEF Grants!Renew
  <2> QED
    BY <1>1, <2>11 DEF Grants!Next
<1> QED
  BY <1>3, <1>4

\* DeleteRevoked revokes, unless the row was gone already.
LEMMA RevokeStep ==
    ASSUME OwnershipInv, NEW r \in Request, DeleteRevoked(r)
    PROVE  Grants!Next
<1> DEFINE a == req[r].auth
<1>0. TypeInv /\ BornInv
  BY DEF OwnershipInv
<1>1. /\ Others(r) /\ req[r].pc = "delete" /\ req'[r].pc = "mark"
      /\ UNCHANGED <<born, generated>>
      /\ a \in Auth
      /\ \A b \in Auth \ {a} : row'[b] = row[b]
      /\ row'[a] = NoRow
  BY <1>0, DeleteEffect
<1>2. a \in born /\ ~row'[a].live
  BY <1>0, <1>1 DEF BornInv, Busy, NoRow
<1>3. \A q \in Request : (Unsaved(q)' <=> Unsaved(q)) /\ (Unsaved(q) => req'[q] = req[q])
  BY <1>1 DEF Others, Unsaved, At, NewRefresh
<1> HIDE DEF a
<1>4. CASE ~row[a].live
  <2>1. Life' = Life /\ Works' = Works
    BY <1>1, <1>2, <1>4 DEF Life, Works
  <2> QED
    BY <1>1, <1>3, <2>1, LoseStep
<1>5. CASE row[a].live
  <2>1. Life[a] = "valid" /\ Life' = [Life EXCEPT ![a] = "void"]
    BY <1>1, <1>2, <1>5 DEF Life
  <2>2. Works' = [Works EXCEPT ![a] = None]
    BY <1>1, <1>2 DEF Works
  <2>3. Waits' = Waits
    BY <1>3 DEF Waits
  <2>4. Grants!Revoke(a)
    BY <1>1, <2>1, <2>2, <2>3 DEF Grants!Revoke
  <2> QED
    BY <1>1, <2>4 DEF Grants!Next
<1> QED
  BY <1>4, <1>5

LEMMA InitGrants == Init => Grants!Init
BY DEF Init, Grants!Init, Life, Works, Waits, Unsaved, At, NoRow, Idle

LEMMA NextGrants == OwnershipInv /\ [Next]_vars => [Grants!Next]_(Grants!vars)
<1> SUFFICES ASSUME OwnershipInv, [Next]_vars PROVE [Grants!Next]_(Grants!vars)
  OBVIOUS
<1>0. TypeInv
  BY DEF OwnershipInv
<1>1. ASSUME UNCHANGED <<row, born, generated>>,
             \A r \in Request : req'[r] = req[r] \/ req'[r].pc # "save"
      PROVE  Grants!Next
  BY <1>1, SameRows, LoseStep DEF Unsaved, At
<1>2. CASE Quiet \/ ConsentSubmit
  BY <1>1, <1>2 DEF Quiet, ConsentSubmit, Proceeds, Rests, Busy, Signed
<1>3. ASSUME NEW r \in Request,
             \/ FindOAuthConsent(r) \/ FindOAuthByCode(r) \/ FindOAuthByRefreshToken(r)
             \/ RecordAccessAudit(r) \/ RecordRefreshAudit(r) \/ Respond(r)
             \/ SelectRevoked(r) \/ MarkTokensRevokedByAuthorizationID(r)
      PROVE  Grants!Next
  <2>1. /\ Others(r) /\ UNCHANGED <<row, born, generated>>
        /\ req'[r].pc # "save"
    BY <1>0, <1>3, ConsentEffect, FoundEffect, RecordEffect, RespondEffect, SelectEffect, MarkEffect
       DEF Rests, Proceeds, Busy, Signed
  <2> QED
    BY <1>1, <2>1 DEF Others
<1> QED
  BY <1>0, <1>2, <1>3, QuietOrLoud, BeginStep, MakeStep, RenewStep, RevokeStep DEF Loud

\* An authorization is a revocable grant, its refresh tokens its keys, in every
\* interleaving of exchanges, refreshes and revocations with failures and restarts.
THEOREM ImplementsRevocableGrant == Spec => AuthorizationsAreRevocableGrants
BY InvariantOwned, InitGrants, NextGrants, PTL
   DEF Spec, AuthorizationsAreRevocableGrants, Grants!Spec

-----------------------------------------------------------------------------
(***************************************************************************)
(* What the refinement is worth.  From RevocableGrant alone, nothing of    *)
(* the rows or handlers behind it: a key is in one place at a time.        *)
(***************************************************************************)
LEMMA InitKeys == Grants!Init => Grants!KeyInv
BY DEF Grants!Init, Grants!KeyInv, Grants!KeyNamesItsGrant

LEMMA BeginKeys ==
    ASSUME Grants!KeyInv, NEW g \in Auth, Grants!Begin(g)
    PROVE  Grants!KeyInv' /\ \A k \in Refresh : Grants!Dead(k) => Grants!Dead(k)'
<1> USE DEF Grants!KeyInv, Grants!KeyNamesItsGrant, Grants!Begin, Grants!Dead
<1>1. None \notin Refresh
  BY Distinct
<1>2. CASE UNCHANGED <<Works, generated>>
  BY <1>2
<1>3. ASSUME NEW k \in Refresh \ generated,
             Works' = [Works EXCEPT ![g] = k], generated' = generated \cup {k}
      PROVE  Grants!KeyInv' /\ \A x \in Refresh : Grants!Dead(x) => Grants!Dead(x)'
  BY <1>1, <1>3
<1> QED
  BY <1>2, <1>3

LEMMA MakeKeys ==
    ASSUME Grants!KeyInv, NEW g \in Auth, Grants!Make(g)
    PROVE  Grants!KeyInv' /\ \A k \in Refresh : Grants!Dead(k) => Grants!Dead(k)'
BY Distinct DEF Grants!KeyInv, Grants!KeyNamesItsGrant, Grants!Make, Grants!Dead

LEMMA RenewKeys ==
    ASSUME Grants!KeyInv, NEW g \in Auth, Grants!Renew(g)
    PROVE  Grants!KeyInv' /\ \A k \in Refresh : Grants!Dead(k) => Grants!Dead(k)'
<1> USE DEF Grants!KeyInv, Grants!KeyNamesItsGrant, Grants!Renew, Grants!Dead
<1> PICK k \in Waits[g] \cup (Refresh \ generated) :
      /\ Works' = [Works EXCEPT ![g] = k]
      /\ Waits' = [Waits EXCEPT ![g] = Waits[g] \ {k}]
      /\ generated' = generated \cup {k}
  OBVIOUS
<1>1. k \in Refresh /\ k # None
  BY Distinct
<1>2. \A h \in Auth : Works[h] # k /\ (h # g => k \notin Waits[h])
  BY <1>1
<1>3. Grants!KeyInv'
  BY <1>1, <1>2
<1>4. \A x \in Refresh : Grants!Dead(x) => Grants!Dead(x)'
  BY <1>1, <1>2
<1> QED
  BY <1>3, <1>4

LEMMA RevokeKeys ==
    ASSUME Grants!KeyInv, NEW g \in Auth, Grants!Revoke(g)
    PROVE  Grants!KeyInv' /\ \A k \in Refresh : Grants!Dead(k) => Grants!Dead(k)'
BY Distinct DEF Grants!KeyInv, Grants!KeyNamesItsGrant, Grants!Revoke, Grants!Dead

LEMMA LoseKeys ==
    ASSUME Grants!KeyInv, Grants!Lose
    PROVE  Grants!KeyInv' /\ \A k \in Refresh : Grants!Dead(k) => Grants!Dead(k)'
BY Distinct DEF Grants!KeyInv, Grants!KeyNamesItsGrant, Grants!Lose, Grants!Dead

LEMMA NextKeys ==
    Grants!KeyInv /\ [Grants!Next]_(Grants!vars) =>
        /\ Grants!KeyInv'
        /\ [\A k \in Refresh : Grants!Dead(k) => Grants!Dead(k)']_(Grants!vars)
<1> SUFFICES ASSUME Grants!KeyInv, [Grants!Next]_(Grants!vars)
             PROVE  /\ Grants!KeyInv'
                    /\ [\A k \in Refresh : Grants!Dead(k) => Grants!Dead(k)']_(Grants!vars)
  OBVIOUS
<1>1. CASE Grants!Next
  BY <1>1, BeginKeys, MakeKeys, RenewKeys, RevokeKeys, LoseKeys DEF Grants!Next
<1>2. CASE UNCHANGED Grants!vars
  BY <1>2 DEF Grants!KeyInv, Grants!KeyNamesItsGrant, Grants!vars
<1> QED
  BY <1>1, <1>2

\* A refresh token works for one authorization at most and for none that is not live; one
\* that was replaced, revoked or lost with its handler never works again.
THEOREM RefreshTokensKeepTheirGrant ==
    Spec => []Grants!KeyNamesItsGrant /\ Grants!DeadKeyStaysDead
<1>1. Grants!KeyInv => Grants!KeyNamesItsGrant
  BY DEF Grants!KeyInv
<1>2. Grants!Spec => []Grants!KeyInv /\ Grants!DeadKeyStaysDead
  BY InitKeys, NextKeys, PTL DEF Grants!Spec, Grants!DeadKeyStaysDead
<1> QED
  BY <1>1, <1>2, ImplementsRevocableGrant, PTL DEF AuthorizationsAreRevocableGrants
=============================================================================
