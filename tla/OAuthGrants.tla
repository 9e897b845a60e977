---------------------------- MODULE OAuthGrants ----------------------------
(***************************************************************************)
(* OAuth authorizations: the oauth2_authorization, *_consent and           *)
(* TOKEN_AUDIT_ tables of store.go and the handlers of server.go that      *)
(* authorize a client, exchange a code, refresh, revoke and introspect.    *)
(*                                                                         *)
(* One action is one SQL statement with the local code up to the next, so  *)
(* that handlers interleave between statements.  A code is known by the    *)
(* authorization it was made for (both are random).  A refresh token is a  *)
(* member of Refresh.  An access token is a JWT without an id: the record  *)
(* of its claims, so that two tokens minted for one user, client and set   *)
(* of scopes in the same second are the same string.                       *)
(*                                                                         *)
(* A user is known by the username, which is unique and never changes: it  *)
(* is PRINCIPAL_NAME_ of the tables and preferred_username of the tokens.  *)
(* The tokens' sub claim, the user's id, goes with it and is left out, as  *)
(* is the display name.                                                    *)
(***************************************************************************)
EXTENDS Naturals

CONSTANTS
    Auth,                \* authorization ids
    Client, Username, Scope,
    Refresh,             \* values randomToken(32) can return for a refresh token
    Request,             \* goroutines that may run at once
    CodeTTL,             \* five minutes
    AccessTTL,           \* cfg.TokenAccessTTL
    RefreshTTL,          \* cfg.TokenRefreshTTL
    RotateRefresh,       \* cfg.TokenRotateRefresh
    MaxTime,             \* bound: the clock stops here
    StoreFails,          \* whether a SQL statement may return an error
    None                 \* the absent id, token, client or username

Time == 0..MaxTime
Scopes == SUBSET Scope \ {{}}
Access == [client : Client, username : Username, scopes : Scopes, iat : Time]
Token == Access \cup Refresh
ExpiresAt(t) == t.iat + AccessTTL    \* the exp claim

ASSUME OAuthGrantsAssumption ==
    /\ {CodeTTL, AccessTTL, RefreshTTL, MaxTime} \subseteq Nat
    /\ RotateRefresh \in BOOLEAN
    /\ StoreFails \in BOOLEAN
    /\ None \notin Auth \cup Client \cup Username \cup Token
    /\ Access \cap Refresh = {}

VARIABLES
    now,            \* wall clock, in seconds
    disabled,       \* clients whose STATUS_ is DISABLED
    consent,        \* oauth2_authorization_consent
    row,            \* oauth2_authorization
    audit,          \* TOKEN_AUDIT_ by TOKEN_SHA256_
    req,            \* what each running handler has in its local variables
    heldCodes,      \* codes that reached a client
    heldTokens,     \* access and refresh tokens that reached a client
    born,           \* history: authorization ids ever inserted
    generated,      \* history: refresh tokens ever generated
    replaced,       \* history: refresh tokens another one took the place of
    minted,         \* history: access tokens signed, and those signed more than once
    consented,      \* history: scopes a user ever consented to for a client
    revoked,        \* history: tokens the revocation endpoint deleted, or found in no row
    undelivered     \* history: authorizations whose new refresh token got lost

db == <<disabled, consent, row, audit>>
clients == <<heldCodes, heldTokens>>
history == <<born, generated, replaced, minted, consented, revoked, undelivered>>
vars == <<now, db, req, clients, history>>

Row == [live : BOOLEAN, client : Client \cup {None}, username : Username \cup {None},
        scopes : SUBSET Scope, codeExp : Nat, access : Access \cup {None}, accessExp : Nat,
        refresh : Refresh \cup {None}, refreshExp : Nat]
NoRow == [live |-> FALSE, client |-> None, username |-> None, scopes |-> {}, codeExp |-> 0,
          access |-> None, accessExp |-> 0, refresh |-> None, refreshExp |-> 0]

AuditRow == [auth : Auth \cup {None}, revoked : BOOLEAN]
NotAudited == [auth |-> None, revoked |-> FALSE]

Op == {"none", "authorize", "exchange", "refresh", "revoke"}
Pc == {"idle", "consent", "insert", "redirect", "find", "sign", "save",
       "auditAccess", "auditRefresh", "respond", "delete", "mark"}
Handler == [op : Op, pc : Pc, client : Client \cup {None}, username : Username \cup {None},
            scopes : SUBSET Scope, auth : Auth \cup {None}, access : Access \cup {None},
            refresh : Refresh \cup {None}]
Idle == [op |-> "none", pc |-> "idle", client |-> None, username |-> None, scopes |-> {},
         auth |-> None, access |-> None, refresh |-> None]
Running(op, pc, c, u, S, a, x) ==
    [op |-> op, pc |-> pc, client |-> c, username |-> u, scopes |-> S, auth |-> a,
     access |-> None, refresh |-> x]

At(r, pc) == req[r].pc = pc
Step(r, pc) == req' = [req EXCEPT ![r].pc = pc]
End(r) == req' = [req EXCEPT ![r] = Idle]

\* A handler that ends without an answer takes the refresh token it generated with it.
HoldsNewRefresh(r) == req[r].refresh \in Refresh \ heldTokens
Loses(R) == {req[r].auth : r \in {x \in R : HoldsNewRefresh(x)}}

TypeOK ==
    /\ now \in Time
    /\ disabled \subseteq Client
    /\ consent \in [Client \X Username -> SUBSET Scope]
    /\ row \in [Auth -> Row]
    /\ audit \in [Token -> AuditRow]
    /\ req \in [Request -> Handler]
    /\ heldCodes \subseteq Auth
    /\ heldTokens \subseteq Token
    /\ born \subseteq Auth
    /\ generated \subseteq Refresh
    /\ replaced \subseteq Refresh
    /\ minted \in [once : SUBSET Access, twice : SUBSET Access]
    /\ consented \in [Client \X Username -> SUBSET Scope]
    /\ revoked \subseteq Token
    /\ undelivered \subseteq Auth

Init ==
    /\ now = 0
    /\ disabled = {}
    /\ consent = [cu \in Client \X Username |-> {}]
    /\ row = [a \in Auth |-> NoRow]
    /\ audit = [t \in Token |-> NotAudited]
    /\ req = [r \in Request |-> Idle]
    /\ heldCodes = {}
    /\ heldTokens = {}
    /\ born = {}
    /\ generated = {}
    /\ replaced = {}
    /\ minted = [once |-> {}, twice |-> {}]
    /\ consented = consent
    /\ revoked = {}
    /\ undelivered = {}

-----------------------------------------------------------------------------
(***************************************************************************)
(* Consent and /authorize, for a user with a login session.                *)
(***************************************************************************)
\* handleOpenIDConsentSubmit, approved: the form's scopes replace the earlier ones.
ConsentSubmit ==
    /\ \E cu \in Client \X Username, S \in Scopes :
        /\ consent' = [consent EXCEPT ![cu] = S]
        /\ consented' = [consented EXCEPT ![cu] = @ \cup S]
    /\ UNCHANGED <<now, disabled, row, audit, req, clients, born, generated, replaced,
                   minted, revoked, undelivered>>

\* FindActiveClient and the checks on the request's redirect URI and PKCE challenge.
StartAuthorize(r) ==
    /\ At(r, "idle")
    /\ \E c \in Client \ disabled, u \in Username, S \in Scopes :
        req' = [req EXCEPT ![r] = Running("authorize", "consent", c, u, S, None, None)]
    /\ UNCHANGED <<now, db, clients, history>>

\* FindOAuthConsent: what is missing sends the browser to the consent page.
\* Mutant: any one of the requested scopes will do.
ContainsAny(have, want) == have \cap want # {}
ContainsAll(have, want) == want \subseteq have

FindOAuthConsent(r) ==
    /\ At(r, "consent")
    /\ IF ContainsAll(consent[<<req[r].client, req[r].username>>], req[r].scopes)
       THEN Step(r, "insert") ELSE End(r)
    /\ UNCHANGED <<now, db, clients, history>>

SaveOAuthCode(r) ==
    /\ At(r, "insert")
    /\ \E a \in Auth \ born :
        /\ row' = [row EXCEPT ![a] =
                     [NoRow EXCEPT !.live = TRUE, !.client = req[r].client,
                                   !.username = req[r].username, !.scopes = req[r].scopes,
                                   !.codeExp = now + CodeTTL]]
        /\ born' = born \cup {a}
        /\ req' = [req EXCEPT ![r].pc = "redirect", ![r].auth = a]
    /\ UNCHANGED <<now, disabled, consent, audit, clients, generated, replaced, minted,
                   consented, revoked, undelivered>>

Redirect(r) ==
    /\ At(r, "redirect")
    /\ heldCodes' = heldCodes \cup {req[r].auth}
    /\ End(r)
    /\ UNCHANGED <<now, db, heldTokens, history>>

-----------------------------------------------------------------------------
(***************************************************************************)
(* /token: the code exchange and the refresh grant.                        *)
(***************************************************************************)
\* authenticateOAuthClient, for the endpoints that begin with it.
StartClientRequest(r) ==
    /\ At(r, "idle")
    /\ \E c \in Client \ disabled, op \in {"exchange", "refresh", "revoke"} :
        req' = [req EXCEPT ![r] = Running(op, "find", c, None, {}, None, None)]
    /\ UNCHANGED <<now, db, clients, history>>

\* The row as the handler goes on with it, whatever happens to it meanwhile.
Found(r, a, x) ==
    req' = [req EXCEPT ![r] = Running(req[r].op, "sign", req[r].client, row[a].username,
                                      row[a].scopes, a, x)]

\* FindOAuthByCode and the checks on the row, the verifier's among them.
\* Mutant: a code that was exchanged already is taken again.
ExchangeableWhenKnown(c, a) ==
    /\ row[a].live
    /\ row[a].client = c
    /\ ~(row[a].codeExp < now)
Exchangeable(c, a) ==
    /\ row[a].live
    /\ row[a].client = c
    /\ ~(row[a].codeExp < now)
    /\ row[a].access = None

FindOAuthByCode(r) ==
    /\ At(r, "find")
    /\ req[r].op = "exchange"
    /\ \E a \in heldCodes : Exchangeable(req[r].client, a) /\ Found(r, a, None)
    /\ UNCHANGED <<now, db, clients, history>>

FindOAuthByRefreshToken(r) ==
    /\ At(r, "find")
    /\ req[r].op = "refresh"
    /\ \E a \in Auth, x \in heldTokens \cap Refresh :
        /\ row[a].live
        /\ row[a].refresh = x
        /\ row[a].client = req[r].client
        /\ ~(row[a].refreshExp < now)
        /\ Found(r, a, x)
    /\ UNCHANGED <<now, db, clients, history>>

\* invalid_grant, and a revocation whose SELECT fails.
Refuse(r) ==
    /\ At(r, "find")
    /\ End(r)
    /\ UNCHANGED <<now, db, clients, history>>

\* The answer carries a new refresh token after an exchange and when refresh tokens
\* rotate, the presented one otherwise.
NewRefresh(r) == req[r].op = "exchange" \/ RotateRefresh

\* nextRefreshToken. Mutant: it keeps the token of the request, which an exchange has none of.
PresentedRefresh(r, x) == req[r].refresh
NextRefresh(r, x) == x

\* FindUserByUsername (users are never deleted, and their status is not looked at) and
\* issueOAuthAccessToken; then randomToken.  Both tokens' times are fixed here.
Sign(r) ==
    /\ At(r, "sign")
    /\ LET t == [client |-> req[r].client, username |-> req[r].username,
                 scopes |-> req[r].scopes, iat |-> now]
       IN /\ \/ /\ NewRefresh(r)
                /\ \E x \in Refresh \ generated :
                    /\ generated' = generated \cup {x}
                    /\ req' = [req EXCEPT ![r].pc = "save", ![r].access = t,
                                          ![r].refresh = NextRefresh(r, x)]
             \/ /\ ~NewRefresh(r)
                /\ req' = [req EXCEPT ![r].pc = "save", ![r].access = t]
                /\ UNCHANGED generated
          /\ minted' = [once |-> minted.once \cup {t},
                        twice |-> minted.twice \cup (minted.once \cap {t})]
    /\ UNCHANGED <<now, db, clients, born, replaced, consented, revoked, undelivered>>

\* SaveOAuthTokens and ReplaceOAuthTokens: UPDATE ... WHERE id; nobody looks at whether
\* there still was such a row, or at what it held by then.
\* Mutant: without rotation the presented refresh token is written back.
SavesAlways(r) == TRUE
SavesRefresh(r) == NewRefresh(r)

\* Mutant: a WHERE that takes the user's every authorization.
SavedByUser(a, t, x, writesRefresh) ==
    [b \in Auth |-> IF row[b].live /\ row[b].username = row[a].username
                   THEN [row[b] EXCEPT !.access = t, !.accessExp = ExpiresAt(t)] ELSE row[b]]
Saved(a, t, x, writesRefresh) ==
    IF ~row[a].live THEN row
    ELSE IF writesRefresh
    THEN [row EXCEPT ![a].access = t, ![a].accessExp = ExpiresAt(t),
                     ![a].refresh = x, ![a].refreshExp = t.iat + RefreshTTL]
    ELSE [row EXCEPT ![a].access = t, ![a].accessExp = ExpiresAt(t)]

SaveOAuthTokens(r) ==
    /\ At(r, "save")
    /\ LET a == req[r].auth
       IN /\ row' = Saved(a, req[r].access, req[r].refresh, SavesRefresh(r))
          /\ replaced' = replaced \cup
               (IF NewRefresh(r) THEN {row[a].refresh} \ {None} ELSE {})
    /\ Step(r, "auditAccess")
    /\ UNCHANGED <<now, disabled, consent, audit, clients, born, generated, minted,
                   consented, revoked, undelivered>>

\* RecordTokenAudit: an upsert by the token's hash that leaves REVOKED_AT_ alone.
Recorded(t, a) == [audit EXCEPT ![t].auth = a]

RecordAccessAudit(r) ==
    /\ At(r, "auditAccess")
    /\ audit' = Recorded(req[r].access, req[r].auth)
    /\ Step(r, IF NewRefresh(r) THEN "auditRefresh" ELSE "respond")
    /\ UNCHANGED <<now, disabled, consent, row, clients, history>>

RecordRefreshAudit(r) ==
    /\ At(r, "auditRefresh")
    /\ audit' = Recorded(req[r].refresh, req[r].auth)
    /\ Step(r, "respond")
    /\ UNCHANGED <<now, disabled, consent, row, clients, history>>

\* Mutant: the answer leaves the refresh token out.
AnsweredAccess(r) == heldTokens \cup {req[r].access}
Answered(r) == heldTokens \cup {req[r].access, req[r].refresh}
Respond(r) ==
    /\ At(r, "respond")
    /\ heldTokens' = Answered(r)
    /\ End(r)
    /\ UNCHANGED <<now, db, heldCodes, history>>

-----------------------------------------------------------------------------
(***************************************************************************)
(* /revoke, three statements; its answer is 200 whatever they return.  The *)
(* client that revokes need not be the one the token was issued to.        *)
(***************************************************************************)
\* Mutant: only access tokens are looked up.
HoldsAccess(a, t) == row[a].live /\ row[a].access = t
HoldsToken(a, t) == row[a].live /\ t \in {row[a].access, row[a].refresh}

SelectRevoked(r) ==
    /\ At(r, "find")
    /\ req[r].op = "revoke"
    /\ \E t \in heldTokens :
        \/ /\ \E a \in Auth :
                /\ HoldsToken(a, t)
                /\ req' = [req EXCEPT ![r].pc = "delete", ![r].auth = a]
           /\ revoked' = revoked
        \/ /\ \A a \in Auth : ~HoldsToken(a, t)
           /\ End(r)
           /\ revoked' = revoked \cup {t}
    /\ UNCHANGED <<now, db, clients, born, generated, replaced, minted, consented, undelivered>>

DeleteRevoked(r) ==
    /\ At(r, "delete")
    /\ row' = [row EXCEPT ![req[r].auth] = NoRow]
    /\ revoked' = revoked \cup ({row[req[r].auth].access, row[req[r].auth].refresh} \ {None})
    /\ Step(r, "mark")
    /\ UNCHANGED <<now, disabled, consent, audit, clients, born, generated, replaced,
                   minted, consented, undelivered>>

\* Mutant: the UPDATE without its WHERE AUTHORIZATION_ID_ = ?.
MarkedAllRevoked(a) ==
    [t \in Token |-> IF audit[t].auth # None THEN [audit[t] EXCEPT !.revoked = TRUE] ELSE audit[t]]
MarkedRevoked(a) ==
    [t \in Token |-> IF audit[t].auth = a THEN [audit[t] EXCEPT !.revoked = TRUE] ELSE audit[t]]

MarkTokensRevokedByAuthorizationID(r) ==
    /\ At(r, "mark")
    /\ audit' = MarkedRevoked(req[r].auth)
    /\ End(r)
    /\ UNCHANGED <<now, disabled, consent, row, clients, history>>

-----------------------------------------------------------------------------
(***************************************************************************)
(* Reading tokens back, the admin's switch, failures, restarts, the clock. *)
(***************************************************************************)
\* What /introspect may answer of an access token, besides "inactive", which it also does
\* when a statement fails: the row decides.  FindClientByInternalID adds nothing, since
\* clients are never deleted and keep their CLIENT_ID_.
Active(t) == {a \in Auth : row[a].live /\ row[a].access = t /\ ~(row[a].accessExp < now)}
Introspected(t) ==
    {[client |-> row[a].client, username |-> row[a].username, scopes |-> row[a].scopes,
      exp |-> row[a].accessExp] : a \in Active(t)}

\* What /openid/userinfo answers: the signed claims decide, no row is read.  It refuses a
\* token whose only scope is called "app"; no member of Scope stands for that one.
VerifiesOAuthAccessToken(t) == now < ExpiresAt(t)
UserInfo(t) ==
    IF VerifiesOAuthAccessToken(t) THEN {[username |-> t.username, scopes |-> t.scopes]} ELSE {}

PatchClientStatus ==
    /\ \E c \in Client : disabled' \in {disabled \cup {c}, disabled \ {c}}
    /\ UNCHANGED <<now, consent, row, audit, req, clients, history>>

\* A statement's error ends the handler, except that errors of RecordTokenAudit are
\* ignored; the client may be gone when it is answered.
HandlerFails(r) ==
    /\ \/ StoreFails /\ req[r].pc \in {"consent", "insert", "sign", "save", "delete", "mark"}
       \/ req[r].pc \in {"redirect", "respond"}
    /\ End(r)
    /\ undelivered' = undelivered \cup Loses({r})
    /\ UNCHANGED <<now, db, clients, born, generated, replaced, minted, consented, revoked>>

AuditFails(r) ==
    /\ StoreFails
    /\ \/ At(r, "auditAccess") /\ Step(r, IF NewRefresh(r) THEN "auditRefresh" ELSE "respond")
       \/ At(r, "auditRefresh") /\ Step(r, "respond")
    /\ UNCHANGED <<now, db, clients, history>>

ServerRestart ==
    /\ req' = [r \in Request |-> Idle]
    /\ undelivered' = undelivered \cup Loses(Request)
    /\ UNCHANGED <<now, db, clients, born, generated, replaced, minted, consented, revoked>>

Tick ==
    /\ now < MaxTime
    /\ now' = now + 1
    /\ UNCHANGED <<db, req, clients, history>>

HandlerStep(r) ==
    \/ StartAuthorize(r) \/ FindOAuthConsent(r) \/ SaveOAuthCode(r) \/ Redirect(r)
    \/ StartClientRequest(r) \/ FindOAuthByCode(r) \/ FindOAuthByRefreshToken(r) \/ Refuse(r)
    \/ Sign(r) \/ SaveOAuthTokens(r) \/ RecordAccessAudit(r) \/ RecordRefreshAudit(r)
    \/ Respond(r)
    \/ SelectRevoked(r) \/ DeleteRevoked(r) \/ MarkTokensRevokedByAuthorizationID(r)
    \/ HandlerFails(r) \/ AuditFails(r)

Next ==
    \/ \E r \in Request : HandlerStep(r)
    \/ ConsentSubmit
    \/ PatchClientStatus
    \/ ServerRestart
    \/ Tick

Spec == Init /\ [][Next]_vars

-----------------------------------------------------------------------------
\* A deleted authorization never comes back, although handlers that read its row
\* before the revocation go on to write their tokens under its id.
RevokedGrantStaysRevoked ==
    [][\A a \in born : ~row[a].live => ~row'[a].live]_vars

\* No row holds a token that was revoked: its refresh finds none, and introspection calls
\* it inactive.  An access token signed twice is excepted: the string may be another
\* authorization's, or may be stored by a slow handler after its revocation.  This is no
\* promise of /openid/userinfo, which goes on answering until the token expires.
RevokedTokenIsRefused ==
    \A a \in Auth :
        row[a].live => /\ row[a].refresh \notin revoked
                       /\ row[a].access \in revoked => row[a].access \in minted.twice

\* A refresh token that another one took the place of is in no row for good, however
\* exchanges of one code and refreshes of its tokens interleave.
ReplacedRefreshIsDead == \A a \in Auth : row[a].live => row[a].refresh \notin replaced

\* A code is exchanged again only by handlers that looked it up before the first of
\* them had stored its tokens: once there are tokens, no new exchange begins.
SpentCodeIsRefused ==
    [][\A r \in Request :
        req[r].op = "exchange" /\ req[r].pc = "find" /\ req'[r].pc = "sign"
            => ~\E t \in heldTokens : audit[t].auth = req'[r].auth]_vars

\* The refresh token that works for an authorization is held by a client or about to
\* be answered to one, whichever of the racing exchanges and refreshes wrote last,
\* unless an answer with a new token was lost.
LiveRefreshIsHeld ==
    \A a \in Auth :
        row[a].live /\ row[a].refresh # None =>
            \/ row[a].refresh \in heldTokens
            \/ \E r \in Request : req[r].refresh = row[a].refresh
            \/ a \in undelivered

\* Nobody holds a token with scopes its user never consented to for that client,
\* although the consent is read two statements before the code is stored and
\* minutes before the token is signed.
ScopesWereConsented ==
    \A t \in heldTokens \cap Access : t.scopes \subseteq consented[<<t.client, t.username>>]

\* Whatever row introspection finds for an access token (two may hold the same string),
\* it answers the client, username, scopes and expiry that were signed into the token, and
\* until that expiry /openid/userinfo answers the same username and scopes.  Their sub
\* differs: introspection answers the username, the token and userinfo the user's id.
IntrospectionAgreesWithToken ==
    \A t \in heldTokens \cap Access : \A i \in Introspected(t) :
        /\ i = [client |-> t.client, username |-> t.username, scopes |-> t.scopes,
                exp |-> ExpiresAt(t)]
        /\ now # i.exp => UserInfo(t) = {[username |-> i.username, scopes |-> i.scopes]}

\* The audit list calls a token revoked only if no authorization holds it any more, so
\* that it neither refreshes nor is active; access tokens signed twice are excepted.
\* /openid/userinfo does not ask the list and accepts such a token until it expires.
AuditRevokedMeansDead ==
    \A t \in Token \ minted.twice :
        audit[t].revoked => \A a \in Auth : ~HoldsToken(a, t)

-----------------------------------------------------------------------------
\* An authorization as a grant and its refresh tokens as keys: its life, the token that
\* works for it, and those that handlers have generated for it and not stored yet.
Life == [a \in Auth |->
            IF a \notin born THEN "new" ELSE IF row[a].live THEN "valid" ELSE "void"]
Works == [a \in Auth |-> IF row[a].live THEN row[a].refresh ELSE None]
Unsaved(r) == At(r, "save") /\ NewRefresh(r)
Waits == [a \in Auth |->
            {x \in Refresh : \E r \in Request :
                Unsaved(r) /\ req[r].auth = a /\ req[r].refresh = x}]

Grants == INSTANCE RevocableGrant WITH
            Grant <- Auth, Key <- Refresh,
            life <- Life, works <- Works, waits <- Waits, made <- generated

\* Exchanges and refreshes in flight may store what they generated out of order or too
\* late, and still a deleted authorization stays deleted, a replaced refresh token dead
\* and each token with the authorization it was made for (server.go 1523-1535, 1576-1593).
AuthorizationsAreRevocableGrants == Grants!Spec
=============================================================================
