---------------------------- MODULE DeviceTokens ----------------------------
(***************************************************************************)
(* App devices and their tokens: the DEVICE_ and TOKEN_AUDIT_ tables of    *)
(* store.go, and the handlers of server.go and programcli.go that create a *)
(* device, refresh, revoke and rename it, mint access tokens for it and    *)
(* check them.                                                             *)
(*                                                                         *)
(* Every store call is one autocommitted SQL statement, so one action is   *)
(* one statement together with the local code up to the next one; handlers *)
(* interleave between statements.  A device token (the refresh secret) is  *)
(* a member of Secret, an access token (a JWT) is the record of the claims *)
(* that tell two JWTs apart: two tokens minted for one device with one TTL *)
(* in the same second are the same string.                                 *)
(***************************************************************************)
EXTENDS Naturals

CONSTANTS
    Device,              \* device ids
    CliDevices,          \* the ids an operator passes to the CLI's --device-id
    Secret,              \* values randomToken(32) can return
    Request,             \* goroutines and CLI processes that may run at once
    TTL,                 \* access-token lifetimes resolveAccessTTL lets through
    MaxTime,             \* bound: the clock stops here
    Retention,           \* CleanupRetention
    RotateDeviceTokens,  \* cfg.AppRotateDeviceToken
    StoreFails,          \* whether a SQL statement may return an error
    Placeholder,         \* placeholderDeviceTokenBcrypt: nobody holds its secret
    None                 \* the absent device, secret or token

Time == 0..MaxTime
Token == [device : Device, iat : Time, ttl : TTL]

ASSUME DeviceTokensAssumption ==
    /\ CliDevices \subseteq Device
    /\ TTL \subseteq Nat
    /\ MaxTime \in Nat
    /\ Retention \in Nat
    /\ RotateDeviceTokens \in BOOLEAN
    /\ StoreFails \in BOOLEAN
    /\ None \notin Device \cup Secret \cup Token
    /\ Placeholder \notin Secret \cup {None}

VARIABLES
    now,            \* wall clock, in seconds
    row,            \* DEVICE_: status, secret and (while REVOKED) UPDATE_AT_
    audit,          \* TOKEN_AUDIT_ by TOKEN_SHA256_: none, active or revoked
    req,            \* what each running handler has in its local variables
    cron,           \* which statement of the cleanup job comes next
    heldSecrets,    \* device tokens that reached a client
    heldTokens,     \* access tokens that reached a client
    born,           \* history: device ids ever inserted (uuid never repeats)
    owner,          \* history: the device each secret was generated for
    revokedOnce,    \* history: device ids that were REVOKED at some time
    undelivered     \* history: devices whose new secret never reached a client

db == <<row, audit>>
clients == <<heldSecrets, heldTokens>>
history == <<born, owner, revokedOnce, undelivered>>
vars == <<now, row, audit, req, cron, heldSecrets, heldTokens,
          born, owner, revokedOnce, undelivered>>

Status == {"absent", "ACTIVE", "REVOKED"}
Row == [status : Status, secret : Secret \cup {Placeholder, None}, updatedAt : Time]
NoRow == [status |-> "absent", secret |-> None, updatedAt |-> 0]
ActiveRow(s) == [status |-> "ACTIVE", secret |-> s, updatedAt |-> 0]

Op == {"none", "session", "refresh", "cli", "auth", "revoke"}
Pc == {"idle", "rotate", "insert", "reread", "sign", "record", "respond",
       "isActive", "authorized", "mark"}
Handler == [op : Op, pc : Pc, device : Device \cup {None},
            secret : Secret \cup {None}, token : Token \cup {None}, late : BOOLEAN]
Idle == [op |-> "none", pc |-> "idle", device |-> None,
         secret |-> None, token |-> None, late |-> FALSE]
\* A handler that starts to work for device d with secret s; late if d was revoked
\* before.
Running(op, pc, d, s) ==
    [op |-> op, pc |-> pc, device |-> d, secret |-> s, token |-> None,
     late |-> (d \in revokedOnce)]

IsActive(d) == row[d].status = "ACTIVE"
At(r, pc) == req[r].pc = pc
Step(r, pc) == req' = [req EXCEPT ![r].pc = pc]
End(r) == req' = [req EXCEPT ![r] = Idle]

(***************************************************************************)
(* What happens to a device when its handler ends without an answer: the   *)
(* secret the handler generated, if it holds one, is lost.                 *)
(***************************************************************************)
HoldsNewSecret(r) == req[r].secret \in Secret \ heldSecrets
Loses(R) == {req[r].device : r \in {x \in R : HoldsNewSecret(x)}}
LoseSecret(r) == undelivered' = undelivered \cup Loses({r})

TypeOK ==
    /\ now \in Time
    /\ row \in [Device -> Row]
    /\ audit \in [Token -> {"none", "active", "revoked"}]
    /\ req \in [Request -> Handler]
    /\ cron \in {"idle", "audit"}
    /\ heldSecrets \subseteq Secret
    /\ heldTokens \subseteq Token
    /\ born \subseteq Device
    /\ owner \in [Secret -> Device \cup {None}]
    /\ revokedOnce \subseteq Device
    /\ undelivered \subseteq Device

Init ==
    /\ now = 0
    /\ row = [d \in Device |-> NoRow]
    /\ audit = [t \in Token |-> "none"]
    /\ req = [r \in Request |-> Idle]
    /\ cron = "idle"
    /\ heldSecrets = {}
    /\ heldTokens = {}
    /\ born = {}
    /\ owner = [s \in Secret |-> None]
    /\ revokedOnce = {}
    /\ undelivered = {}

-----------------------------------------------------------------------------
(***************************************************************************)
(* Creating a device: createAppLoginSession, run by /auth/login, by the    *)
(* admin console's issue form and by a claimed pairing ticket.             *)
(***************************************************************************)
FreshDevice(d) == d \in Device \ (CliDevices \cup born)
FreshSecret(s) == owner[s] = None

InsertRow(d, s) ==
    /\ row' = [row EXCEPT ![d] = ActiveRow(s)]
    /\ born' = born \cup {d}

\* randomToken, then CreateDevice's INSERT.
CreateDevice(r) ==
    /\ At(r, "idle")
    /\ \E d \in Device, s \in Secret :
        /\ FreshDevice(d)
        /\ FreshSecret(s)
        /\ InsertRow(d, s)
        /\ owner' = [owner EXCEPT ![s] = d]
        /\ req' = [req EXCEPT ![r] = Running("session", "reread", d, s)]
    /\ UNCHANGED <<now, audit, cron, clients, revokedOnce, undelivered>>

\* The FindDeviceByID that ends CreateDevice and EnsureActiveDeviceWith*: the
\* row's status is not looked at, only that there is a row.
FindDeviceByID(r) ==
    /\ At(r, "reread")
    /\ \/ /\ row[req[r].device].status # "absent"
          /\ Step(r, "sign")
          /\ UNCHANGED undelivered
       \/ /\ row[req[r].device].status = "absent"
          /\ End(r)
          /\ LoseSecret(r)
    /\ UNCHANGED <<now, db, cron, clients, born, owner, revokedOnce>>

\* issueAppAccessToken (and the CLI's SignJWT): the claims carry whole seconds.
Sign(r) ==
    /\ At(r, "sign")
    /\ \E ttl \in TTL :
        req' = [req EXCEPT ![r].pc = "record",
                           ![r].token = [device |-> req[r].device, iat |-> now, ttl |-> ttl]]
    /\ UNCHANGED <<now, db, cron, clients, history>>

\* RecordTokenAudit: an upsert by the token's hash that leaves REVOKED_AT_ alone.
Recorded(t) == [audit EXCEPT ![t] = IF @ = "none" THEN "active" ELSE @]
RecordTokenAudit(r) ==
    /\ At(r, "record")
    /\ audit' = Recorded(req[r].token)
    /\ Step(r, "respond")
    /\ UNCHANGED <<now, row, cron, clients, history>>

\* The 200 response, or the CLI's output, which holds no device token.
\* Mutant: the answer carries the handler's device token even when there is none.
AnsweredAlways(r) == heldSecrets \cup {req[r].secret}
Answered(r) == heldSecrets \cup ({req[r].secret} \cap Secret)
Respond(r) ==
    /\ At(r, "respond")
    /\ heldTokens' = heldTokens \cup {req[r].token}
    /\ heldSecrets' = Answered(r)
    /\ End(r)
    /\ UNCHANGED <<now, db, cron, history>>

-----------------------------------------------------------------------------
(***************************************************************************)
(* handleAppRefresh.  The device found by its secret is a value read: by   *)
(* the time the next statement runs the row may be revoked or rotated.     *)
(***************************************************************************)
\* Mutant: the configuration is not asked.
RotatesAlways == TRUE
Rotates == RotateDeviceTokens

\* Mutant: the first active row is taken without comparing its hash.
FindActiveDevice(s) == {d \in Device : IsActive(d)}
FindActiveDeviceByToken(s) == {d \in Device : IsActive(d) /\ row[d].secret = s}

StartRefresh(r) ==
    /\ At(r, "idle")
    /\ \E s \in heldSecrets : \E d \in FindActiveDeviceByToken(s) :
        req' = [req EXCEPT ![r] = Running("refresh", "rotate", d, s)]
    /\ UNCHANGED <<now, db, cron, clients, history>>

\* RotateDeviceToken's UPDATE ... WHERE id AND STATUS_ = 'ACTIVE'; nobody looks at
\* how many rows it changed.
\* Mutant: an upsert, which makes the row ACTIVE.
RotatedUpsert(d, s) == [row EXCEPT ![d] = ActiveRow(s)]
Rotated(d, s) == IF IsActive(d) THEN [row EXCEPT ![d].secret = s] ELSE row

\* nextDeviceToken, what the answer will carry once s is stored.
\* Mutant: the answer repeats the token of the request.
PresentedSecret(r, s) == req[r].secret
NextSecret(r, s) == s

RotateDeviceToken(r) ==
    /\ At(r, "rotate")
    /\ Rotates
    /\ \E s \in Secret :
        /\ FreshSecret(s)
        /\ owner' = [owner EXCEPT ![s] = req[r].device]
        /\ row' = Rotated(req[r].device, s)
        /\ req' = [req EXCEPT ![r].pc = "sign", ![r].secret = NextSecret(r, s)]
    /\ UNCHANGED <<now, audit, cron, clients, born, revokedOnce, undelivered>>

\* Without rotation the device is only touched and the client keeps its token.
TouchDevice(r) ==
    /\ At(r, "rotate")
    /\ ~Rotates
    /\ Step(r, "sign")
    /\ UNCHANGED <<now, db, cron, clients, history>>

\* resolveAccessTTL refuses the requested lifetime only after the rotation.
RejectTTL(r) ==
    /\ At(r, "sign")
    /\ req[r].op = "refresh"
    /\ End(r)
    /\ LoseSecret(r)
    /\ UNCHANGED <<now, db, cron, clients, born, owner, revokedOnce>>

-----------------------------------------------------------------------------
(***************************************************************************)
(* Revocation: RevokeDevice and MarkTokensRevokedByDeviceID, two           *)
(* statements whose errors are ignored, run by logout, by an app's delete  *)
(* and by the admin console.                                               *)
(***************************************************************************)
Revoked(d) ==
    IF IsActive(d) THEN [row EXCEPT ![d].status = "REVOKED", ![d].updatedAt = now] ELSE row

RevokeDevice(r, d) ==
    /\ \/ /\ row' = Revoked(d)
          /\ revokedOnce' = IF IsActive(d) THEN revokedOnce \cup {d} ELSE revokedOnce
       \/ /\ StoreFails
          /\ UNCHANGED <<row, revokedOnce>>
    /\ req' = [req EXCEPT ![r] = Running("revoke", "mark", d, None)]
    /\ UNCHANGED <<now, audit, cron, clients, born, owner, undelivered>>

\* An id in a path comes from a device list or the command line: the uuid of a row
\* not inserted yet is nowhere to be read.
KnownDevices == born \cup CliDevices

AdminRevokeDevice(r) == At(r, "idle") /\ \E d \in KnownDevices : RevokeDevice(r, d)
AppLogout(r) == At(r, "authorized") /\ RevokeDevice(r, req[r].device)
AppDeleteDevice(r) == At(r, "authorized") /\ \E d \in KnownDevices : RevokeDevice(r, d)

\* Mutant: the UPDATE without its WHERE DEVICE_ID_ = ?.
MarkedAllRevoked(d) ==
    [t \in Token |-> IF audit[t] = "active" THEN "revoked" ELSE audit[t]]
MarkedRevoked(d) ==
    [t \in Token |-> IF t.device = d /\ audit[t] = "active" THEN "revoked" ELSE audit[t]]

MarkTokensRevokedByDeviceID(r) ==
    /\ At(r, "mark")
    /\ audit' = MarkedRevoked(req[r].device)
    /\ End(r)
    /\ UNCHANGED <<now, row, cron, clients, history>>

-----------------------------------------------------------------------------
(***************************************************************************)
(* Presenting an access token: authenticateAppAccessToken, run by the      *)
(* bearer middleware, and the handlers behind it.                          *)
(***************************************************************************)
Expired(t) == t.iat + t.ttl <= now

PresentToken(r) ==
    /\ At(r, "idle")
    /\ \E t \in heldTokens :
        /\ ~Expired(t)
        /\ req' = [req EXCEPT ![r] = Running("auth", "isActive", t.device, None)]
    /\ UNCHANGED <<now, db, cron, clients, history>>

\* IsDeviceActive; the TouchDevice after it changes nothing modelled here.
\* Mutant: COUNT(*) without STATUS_ = 'ACTIVE'.
AcceptsAnyRow(d) == row[d].status # "absent"
Accepts(d) == IsActive(d)
IsDeviceActive(r) ==
    /\ At(r, "isActive")
    /\ IF Accepts(req[r].device) THEN Step(r, "authorized") ELSE End(r)
    /\ UNCHANGED <<now, db, cron, clients, history>>

\* RenameDevice writes UPDATE_AT_ whatever the row's status is.
Renamed(d) ==
    IF row[d].status = "REVOKED" THEN [row EXCEPT ![d].updatedAt = now] ELSE row

RenameDevice(r) ==
    /\ At(r, "authorized")
    /\ \E d \in KnownDevices : row' = Renamed(d)
    /\ End(r)
    /\ UNCHANGED <<now, audit, cron, clients, history>>

\* A handler behind the middleware that changes no device: me, devices, proxies.
FinishAuthorized(r) ==
    /\ At(r, "authorized")
    /\ End(r)
    /\ UNCHANGED <<now, db, cron, clients, history>>

-----------------------------------------------------------------------------
(***************************************************************************)
(* issue-bridge-access-token and issue-bridge-runner-token, processes of   *)
(* their own on the same database: EnsureActiveDeviceWithID for a device   *)
(* id given on the command line, EnsureActiveDeviceWithHash otherwise.     *)
(***************************************************************************)
CliEnsureWithID(r) ==
    /\ At(r, "idle")
    /\ \E d \in CliDevices :
        /\ row[d].status # "REVOKED"            \* "device is not active"
        /\ req' = [req EXCEPT ![r] =
                     Running("cli", IF IsActive(d) THEN "reread" ELSE "insert", d, None)]
    /\ UNCHANGED <<now, db, cron, clients, history>>

\* The INSERT of the row not found a moment ago: the primary key refuses it when
\* there is one by now, and the command ends with that error.
\* Mutant: INSERT OR REPLACE.
ReplaceAllows(d) == TRUE
PrimaryKeyAllows(d) == row[d].status = "absent"
CliInsert(r) ==
    /\ At(r, "insert")
    /\ \/ /\ PrimaryKeyAllows(req[r].device)
          /\ InsertRow(req[r].device, Placeholder)
          /\ Step(r, "reread")
       \/ /\ ~PrimaryKeyAllows(req[r].device)
          /\ End(r)
          /\ UNCHANGED <<row, born>>
    /\ UNCHANGED <<now, audit, cron, clients, owner, revokedOnce, undelivered>>

\* Without an id: the ACTIVE device last updated under the given name (which one is
\* abstracted, names are not modelled), or a new one.
CliReuseByName(r) ==
    /\ At(r, "idle")
    /\ \E d \in Device :
        /\ IsActive(d)
        /\ req' = [req EXCEPT ![r] = Running("cli", "reread", d, None)]
    /\ UNCHANGED <<now, db, cron, clients, history>>

CliInsertFresh(r) ==
    /\ At(r, "idle")
    /\ \E d \in Device :
        /\ FreshDevice(d)
        /\ InsertRow(d, Placeholder)
        /\ req' = [req EXCEPT ![r] = Running("cli", "reread", d, None)]
    /\ UNCHANGED <<now, audit, cron, clients, owner, revokedOnce, undelivered>>

-----------------------------------------------------------------------------
(***************************************************************************)
(* The cleanup job, two statements, the second one run whatever the first  *)
(* returned; failures; restarts; the clock.                                *)
(***************************************************************************)
\* Mutant: a cutoff that takes the boundary in.
AsOldAsRetention(stamp) == stamp + Retention <= now
OlderThanRetention(stamp) == stamp + Retention < now

DeleteRevokedDevicesOlderThan ==
    /\ cron = "idle"
    /\ Retention > 0
    /\ \/ row' = [d \in Device |->
                    IF row[d].status = "REVOKED" /\ OlderThanRetention(row[d].updatedAt)
                    THEN NoRow ELSE row[d]]
       \/ StoreFails /\ UNCHANGED row
    /\ cron' = "audit"
    /\ UNCHANGED <<now, audit, req, clients, history>>

DeleteTokenAuditIssuedOlderThan ==
    /\ cron = "audit"
    /\ \/ audit' = [t \in Token |-> IF OlderThanRetention(t.iat) THEN "none" ELSE audit[t]]
       \/ StoreFails /\ UNCHANGED audit
    /\ cron' = "idle"
    /\ UNCHANGED <<now, row, req, clients, history>>

\* The steps whose error ends the handler (at "sign", loading the key); an error of
\* RecordTokenAudit only ends the CLI, one of TouchDevice nothing.
Fallible(r) ==
    \/ req[r].pc \in {"insert", "reread", "sign", "isActive", "authorized", "mark"}
    \/ At(r, "rotate") /\ Rotates
    \/ At(r, "record") /\ req[r].op = "cli"

\* A statement fails, the client is gone when the answer is written, or the CLI's
\* process is killed: the handler ends there.
HandlerFails(r) ==
    /\ \/ StoreFails /\ Fallible(r)
       \/ At(r, "respond")
       \/ req[r].op = "cli"
    /\ End(r)
    /\ LoseSecret(r)
    /\ UNCHANGED <<now, db, cron, clients, born, owner, revokedOnce>>

\* The server ignores an error of RecordTokenAudit and answers; the CLI does not.
AuditFails(r) ==
    /\ At(r, "record")
    /\ StoreFails
    /\ req[r].op # "cli"
    /\ Step(r, "respond")
    /\ UNCHANGED <<now, db, cron, clients, history>>

\* The server stops and starts again: its handlers and its cleanup job are gone, the
\* database and the CLI's processes stay.
ServerRestart ==
    /\ cron' = "idle"
    /\ req' = [r \in Request |-> IF req[r].op = "cli" THEN req[r] ELSE Idle]
    /\ undelivered' = undelivered \cup Loses({r \in Request : req[r].op # "cli"})
    /\ UNCHANGED <<now, db, clients, born, owner, revokedOnce>>

Tick ==
    /\ now < MaxTime
    /\ now' = now + 1
    /\ UNCHANGED <<db, req, cron, clients, history>>

HandlerStep(r) ==
    \/ CreateDevice(r) \/ FindDeviceByID(r) \/ Sign(r)
    \/ RecordTokenAudit(r) \/ Respond(r)
    \/ StartRefresh(r) \/ RotateDeviceToken(r) \/ TouchDevice(r) \/ RejectTTL(r)
    \/ AdminRevokeDevice(r) \/ AppLogout(r) \/ AppDeleteDevice(r)
    \/ MarkTokensRevokedByDeviceID(r)
    \/ PresentToken(r) \/ IsDeviceActive(r) \/ RenameDevice(r) \/ FinishAuthorized(r)
    \/ CliEnsureWithID(r) \/ CliInsert(r) \/ CliReuseByName(r) \/ CliInsertFresh(r)
    \/ HandlerFails(r) \/ AuditFails(r)

Next ==
    \/ \E r \in Request : HandlerStep(r)
    \/ DeleteRevokedDevicesOlderThan
    \/ DeleteTokenAuditIssuedOlderThan
    \/ ServerRestart
    \/ Tick

Spec == Init /\ [][Next]_vars

-----------------------------------------------------------------------------
\* A device token names one device: no two rows hold the same token, and a refresh
\* or a login in flight works for the device its token was made for, whatever ran
\* between its SELECT and its UPDATE (server.go 909-941).
SecretNamesItsDevice ==
    /\ \A d \in Device : row[d].secret \in Secret => owner[row[d].secret] = d
    /\ \A r \in Request : req[r].secret \in Secret => owner[req[r].secret] = req[r].device

\* Revocation cuts off what starts after it: no handler that began once the device
\* had been revoked passes the bearer check or mints a token for it, through
\* refreshes in flight, cleanup of the row and restarts.  Ids the operator passes
\* to the CLI are excepted: their row is made anew once the old one is cleaned up.
NothingGrantedAfterRevoke ==
    \A r \in Request :
        req[r].late /\ req[r].pc \in {"authorized", "rotate", "sign", "record", "respond"}
            => req[r].device \in CliDevices

\* A revoked row never turns ACTIVE in place, whoever writes it with values read
\* before the revocation (RotateDeviceToken, the CLI's INSERT, RenameDevice).
RevokedIsFinal ==
    [][\A d \in Device : row[d].status = "REVOKED" => row'[d].status # "ACTIVE"]_vars

\* With rotation switched off, a device token that reached a client stays the token of
\* its device for as long as the device's row exists (server.go 912-926).
UnrotatedSecretNeverDies ==
    RotateDeviceTokens \/
        \A s \in heldSecrets : row[owner[s]].status # "absent" => row[owner[s]].secret = s

\* The audit list never calls a token revoked while its device still works, because
\* the handlers mark tokens only after the device; a failed first statement, whose
\* error they ignore, is excepted, and so are ids the CLI makes anew.
AuditRevokedMeansDeviceIsNot ==
    \A t \in Token :
        audit[t] = "revoked" /\ IsActive(t.device) => StoreFails \/ t.device \in CliDevices

\* A token a client holds is in the audit list until the cleanup job's retention has
\* passed: it is recorded before it is handed out (server.go 723, 945).
HeldTokensWereAudited ==
    \A t \in heldTokens : audit[t] = "none" => StoreFails \/ t.iat + Retention < now

\* The token that refreshes an ACTIVE device is held by a client or about to be
\* answered to one, however refreshes of the device interleave, unless an answer
\* with a new token was lost or refused (server.go 921-936).
LiveSecretIsHeld ==
    \A d \in Device :
        IsActive(d) /\ row[d].secret \in Secret =>
            \/ row[d].secret \in heldSecrets
            \/ \E r \in Request : req[r].secret = row[d].secret
            \/ d \in undelivered

-----------------------------------------------------------------------------
\* A device of the server as a grant, the tokens that refresh it as keys: its life, and
\* the token that works for it.  A new token is generated and stored in one step.
ServerDevices == Device \ CliDevices
Life == [d \in ServerDevices |->
            IF d \notin born THEN "new" ELSE IF IsActive(d) THEN "valid" ELSE "void"]
Works == [d \in ServerDevices |->
            IF IsActive(d) /\ row[d].secret \in Secret THEN row[d].secret ELSE None]
Waits == [d \in ServerDevices |-> {}]
Made == {s \in Secret : owner[s] # None}

Grants == INSTANCE RevocableGrant WITH
            Grant <- ServerDevices, Key <- Secret,
            life <- Life, works <- Works, waits <- Waits, made <- Made

\* Whatever handlers do with a row they read before it was rotated, revoked or cleaned
\* up, a revoked device never works again, a replaced token is dead, and no token comes
\* to work for a device it was not made for (server.go 909-941).
DevicesAreRevocableGrants == Grants!Spec

-----------------------------------------------------------------------------
\* What programcli_test.go 217 asserts of a revoked device id: it stays refused.
RevokedIdStaysRefused == \A d \in revokedOnce : ~IsActive(d)
=============================================================================
