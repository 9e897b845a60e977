# TLA+ models of zenmind-app-server

The app server issues identities: it registers app devices and gives them tokens, is an
OAuth2/OIDC provider, keeps the RSA key all tokens are signed with, and serves an admin
console. These modules model its state-changing code, TLC checks them on small instances,
and TLAPS proves the main invariants for every instance. Line numbers in comments and in
`PROJECT.json` refer to `src/` at the modelled commit; `server.go`, `store.go`, `jwk.go`,
`programcli.go`, `chat_ws_proxy.go`, `schema.sql` stand for the files of that name under
`src/backend/internal`.

## 1. The system

### Components

| Component | Code | State | Operations | What makes it correct |
|---|---|---|---|---|
| Devices and app tokens | `server.go` 641-1090, 1721-1776; `store.go` 366-632; `programcli.go` | `DEVICE_`, `TOKEN_AUDIT_` | login session, refresh, logout, revoke, rename, bearer check, CLI issue, cleanup job | a revoked device is let in no more and gets no tokens; the token that refreshes a device is one its owner holds; a device token names one device |
| OAuth2/OIDC grants | `server.go` 1283-1719; `store.go` 640-855 | `oauth2_authorization`, `_consent`, `TOKEN_AUDIT_` | consent, authorize, code exchange, refresh, revoke, introspect, userinfo | refresh and introspection refuse a revoked or replaced token; one code, one grant; scopes were consented to |
| Onboarding | `server.go` 674-899, 1045-1061 | gate (atomic bool), pairing-ticket map (mutex) | gate, login, pairing start and claim | a ticket makes one session at most; guesses are limited; expiry holds |
| Signing keys | `jwk.go`; `programcli.go` 52-220 | `JWK_KEY_`, one cached key per process, exported files | load or create, rotate, export | a key that signs is stored; a retired key stays retired; processes agree |
| Token audit list | `server.go`, `store.go` 542-632 | `TOKEN_AUDIT_` | record, mark revoked, delete old, list | it tells of every accepted token, and which were revoked |
| OAuth clients | `server.go` 470-639; `store.go` 200-364, 858-890; `main.go` | `OAUTH2_CLIENT_` | create, update, rotate secret, status, bootstrap | a public client's codes need their verifier; somebody knows the stored secret; the first start ends well |
| Users | `server.go` 380-468; `store.go` | `APP_USER_` | create, update, password, status | single statements; who logs in with what was read from them |
| Sessions | `server.go` | two in-memory maps (mutex) | login, look-up, logout, 8-hour age | a session dies at logout and by age; a stale login or a disabled user gets no more than that |
| Access-token lifetimes | `server.go` 1830-1842 | none | `resolveAccessTTL` | no lifetime above the limit |
| WebSocket and API proxy | `chat_ws_proxy.go` | two connections per WebSocket | check, dial, hijack, upgrade, copy, close | bytes arrive in order and complete; no connection is left; it ends when a peer does |
| Static files, configuration, database set-up, `main` | the rest of `backend` | none, or read once | | |
| Admin console | `frontend/src` | React state, unauthorized listener | pages over the admin API | one reaction to an expired session |
| Scripts | `scripts`, release assets | pid file, exported key files | start, stop, package, set-up | one process per pid file |

### How they interact

Handlers run in goroutines of one server process. They share the SQLite database, the
in-memory maps (under a mutex) and the atomic gate. There are **no database
transactions**: each `Store` method is one or a few autocommitted statements, most
handlers call several, and many errors are dropped (`_ =`). So every handler is a
sequence of atomic statements that interleaves with every other one. The CLI
(`programcli`) is a further process on the same database. Tokens are signed by the
`KeyManager`, accepted by signature and expiry and, for app tokens, by the device's row
(`IsDeviceActive`), so that revoking a device cuts off all its tokens although they are
not stored. For OAuth access tokens there is no such second check: introspection goes by
the row the token is stored in, `/openid/userinfo` by the signed claims alone. The cleanup job deletes REVOKED devices and old audit rows by two independent
DELETEs. Several servers may start on one new database and race for the bootstrap client.
The two proxies check an app token and then only talk to the upstream; a WebSocket is two
copying goroutines that tell each other to end by closing both connections.

### What is hard

Reads used statements later; two statements of which one fails; answers that never reach
the client after the database has changed; rows that were deleted and come back; restarts
that lose the maps but not the tables; a JWT string that two handlers mint alike; a
product that wraps around before it is compared; connections closed under a copier's hands. The 40
hazards in `PROJECT.json` list them line by line, with the properties that cover them, or why none does.

## 2. Modules

| Module | Contents |
|---|---|
| `RevocableGrant` | what a device and an OAuth authorization promise alike (abstract specification) |
| `DeviceTokens`, `MCDeviceTokens` | devices, device tokens, access tokens, audit list, cleanup, CLI; implements `RevocableGrant` |
| `DeviceTokens_proofs` | its theorems, the refinement among them |
| `OAuthGrants`, `MCOAuthGrants` | authorizations, codes, tokens, consent, audit list; implements `RevocableGrant` |
| `OAuthGrants_proofs` | its theorems, the refinement among them |
| `OneTimeTicket` | what a pairing ticket promises (abstract specification) |
| `Onboarding`, `MCOnboarding` | gate, logins, pairing tickets; implements `OneTimeTicket` |
| `Onboarding_proofs` | its theorems, the safety part of the refinement among them |
| `SigningKeys`, `MCSigningKeys` | the key table, the managers of several processes, the exported key |
| `SigningKeys_proofs` | its theorems |
| `ClientAdmin`, `MCClientAdmin` | the client table, its handlers and readers, servers that start |
| `ClientAdmin_proofs` | its theorems |
| `LoginSessions`, `MCLoginSessions` | users, both session maps |
| `LoginSessions_proofs` | its theorems |
| `DuplexPipe` | what a relay between two ends promises (abstract specification) |
| `ChatWsProxy`, `MCChatWsProxy` | one WebSocket through the proxy; implements `DuplexPipe` |
| `ChatWsProxy_proofs` | its theorems, the refinement among them |
| `AccessTTL`, `MCAccessTTL` | the lifetime arithmetic, with its theorems |

**Grain.** One action is one SQL statement (or one critical section) with the local code
up to the next one. `req[r]` is the goroutine `r`: its operation, its program counter and
the local variables that later statements use. A handler that returns early goes back to
`Idle`. `HandlerFails` ends a handler when `StoreFails` and its next statement returns an
error the code looks at; where the code drops the error, the statement may do nothing and
the handler goes on (`AuditFails`, the second disjunct of the revocations). `ServerRestart`
ends all handlers and keeps the tables.

**Histories.** `born`, `owner`, `revokedOnce`, `undelivered`, `consented`, `minted`,
`replaced`, `revoked`, `stored`, `retired`, `settled`, `wrong`, the counts of sessions and
logins, `codes`, `used`, `unheld`, `without`, `loggedOut`, `good` are written and never read by the code's guards (except that random values and ids are fresh). They let a
property relate a state to an earlier one.

### RevocableGrant

A grant is *new*, then *valid*, then *void* for good. At most one key works for it, which
was made for it. A key may be made some time before it is put to work (`Make`, `Renew`),
by which time the grant may be void; a key that was replaced, revoked or lost with its
maker never works again. `KeyNamesItsGrant` and `DeadKeyStaysDead` are what follows
from that. Both implementations map grants and keys to rows and secrets:

| | `DeviceTokens` | `OAuthGrants` |
|---|---|---|
| grant | a device the server made (CLI ids may live twice, see section 3) | an authorization |
| key | its device token | its refresh token |
| valid | the row is ACTIVE | the row exists |
| works | the token in the row | the refresh token in the row |
| waits | none: generated and stored in one step | generated by a handler that has not stored it yet |

### DeviceTokens

`row[d]` is the row of `DEVICE_`, `audit[t]` the row of `TOKEN_AUDIT_` under the hash of
`t`. `StartRefresh`, `RotateDeviceToken` or `TouchDevice`, `Sign` or `RejectTTL`,
`RecordTokenAudit`, `Respond` are `handleAppRefresh`; `CreateDevice`, `FindDeviceByID`,
`Sign`, … `createAppLoginSession`; `RevokeDevice`, `MarkTokensRevokedByDeviceID` the three
revoking handlers; `PresentToken`, `IsDeviceActive`, `FinishAuthorized` the bearer check
and what stands behind it; the `Cli` actions `issue-bridge-access-token` and
`issue-bridge-runner-token`.

- An access token is the record of the claims that tell two JWTs apart (device, issue
  second, lifetime). Tokens have no `jti`: equal records are equal strings.
- `TTL` is what `resolveAccessTTL` lets through; its arithmetic is in `AccessTTL`.
- `UPDATE_AT_` matters to the cleanup only while a row is REVOKED, so it is kept there
  only; touching and renaming an ACTIVE device then change nothing. Names are left out.
- `FindActiveDeviceByToken` scans one SELECT's rows with bcrypt: one snapshot read.
- A revoking handler may name any device ever made (`KnownDevices`).
- `late` marks a handler that began after its device was revoked.

### OAuthGrants

`row[a]` is an authorization, `consent` and `disabled` the other tables, `audit[t]` the
audit row. A code is known by its authorization. Registered redirect URIs, client secrets,
PKCE (see `ClientAdmin`) and the login session (see `LoginSessions`) are taken as valid: `StartAuthorize` and
`StartClientRequest` begin behind those checks, which read rows once and change nothing.
Users are never deleted, so the look-up before signing is part of `Sign`.

A user is known by username, the `PRINCIPAL_NAME_` of a row and the `preferred_username`
of a token; it is unique and never changes. The `sub` claim is left out: a token and
userinfo say the user's id there (`server.go` 1788), introspection the username (1663).
`Introspected(t)` is what introspection answers of a token from the rows that hold it,
`UserInfo(t)` what `/openid/userinfo` answers from its claims, whatever the rows say.

`minted.twice` are access tokens signed for two requests in one second: they are one
string, which belongs to two authorizations at once. The properties that speak of one
token's fate except them.

### Onboarding and OneTimeTicket

`tickets[p]` is the entry in the map. `StartClaim` reads the clock, `ClaimTicket` is the
critical section: a claim that waited for the mutex compares an old time. `CheckRequest`
is bcrypt or `resolveAccessTTL` after it, `CreateAppLoginSession` the session's INSERT.
`SaveTicket` drops every expired ticket and adds one. The refinement mapping
(`TicketState`) calls a ticket *open* while it is in the map, *taken* while a claim holds
it, *used* once it made a session and *dead* otherwise. `sessions` counts what tickets
made, not the administrator's issue form. What the session writes is in `DeviceTokens`.

### SigningKeys

Each process (the server, CLI commands) has a `cached` key. `FindNoKey`, `Generate`,
`Insert` are `LoadOrCreateWithKeyID` on an empty table, `Rotate` the DELETE of `Rotate`
followed by `Generate` and `Insert`. `CREATE_AT_` is kept as an order between keys
(`older`): stamps have nanoseconds and are taken to differ. A uuid kid is known by its
key. Of the files that `setup-public-key` writes only the exported public key is kept. A
process found a *settled* table if it looked when there was a key and nobody was
making one.

### ClientAdmin

`row[c]` is the row of `OAUTH2_CLIENT_`. `handleUpdateClient` is two statements (read and
fill in, then write), `handleRotateSecret` likewise; what a request names is a
set of *items*, and the table stores items joined by commas (`Stored`), so that an item is
the set of grant types it is read back as. `PatchClientStatus` is one statement.
`/authorize` reads the row and later stores a code with or without a challenge,
`/token` reads it again, asks for the secret of a client that has one, and for the verifier if
the row it read requires PKCE. `StartStep(s)` is `main`: count the clients, insert
the bootstrap client, serve, or fail and start again.

### LoginSessions

`sessions` is both maps; the administrator's entries belong to `AdminOwner`. `FindUser` is
the SELECT, `CreateOAuthSession` the entry made after bcrypt, by which time the row may
have changed; `PresentCookie` the age check, `Finish` what the request does behind it.
`good` records until when a user could have logged in with a password. `late` marks a
request that came after its session's logout.

### ChatWsProxy and DuplexPipe

`pc` is the handler: check, dial, hijack, write the upgrade request, forward what the HTTP
server had read ahead, start the copiers. `copier[e]` is `proxyChatWSBytes` reading from
`e`: read a chunk, write it, and in the end close the destination and then the source.
Bytes are their positions; `inbox` is what arrived and was not read, `pending` the writes a
peer has not read, of which `Window` fit before the next blocks. A peer may stop sending,
vanish or stop reading. The refinement mapping takes what a peer sent (for the client the
upgrade request before it) as *said*, what was written to it as *heard*. What the
request says, and which of its headers and query keys go on, is left out; so is the API
proxy, which rewrites a request and leaves the rest to `httputil.ReverseProxy`.

### AccessTTL

`Resolved` is `time.Duration(*requested) * time.Second` in a word of any width.

## 3. Runs

All runs with a clock bound it by `MaxTime` seconds; deadlock is not checked because the
clock, the random values, the bytes or the ids of an instance run out. `SYMMETRY` permutes
devices, secrets, tokens, keys, sessions and handlers, which no action tells apart, in runs
without liveness.

| Run | Asks | Properties |
|---|---|---|
| `DevicesRefresh` | two devices, two handlers: login, refresh, revoke, bearer check, restart | `SecretNamesItsDevice`, `NothingGrantedAfterRevoke`, `AuditRevokedMeansDeviceIsNot`, `DevicesAreRevocableGrants` |
| `DevicesCleanup` | both DELETEs of the cleanup job between handlers' statements, with `AUTH_APP_ROTATE_DEVICE_TOKEN=false` | `HeldTokensWereAudited`, `UnrotatedSecretNeverDies` |
| `DevicesCli` | a server's device and an operator's `--device-id`, two handlers or CLI processes, every statement may fail | `TypeOK`, `LiveSecretIsHeld`, `RevokedIsFinal` |
| `OAuthRaces` | one grant, two handlers: exchanges, refreshes, revocations, every statement may fail | `TypeOK`, `RevokedTokenIsRefused`, `LiveRefreshIsHeld`, `SpentCodeIsRefused` |
| `OAuthTwoGrants` | two grants of one user and client in one second, different scopes, refresh tokens do not rotate | `AuthorizationsAreRevocableGrants`, `ScopesWereConsented`, `IntrospectionAgreesWithToken`, `AuditRevokedMeansDead` |
| `OnboardingTickets` | two tickets, racing claims and guesses, purges, expiry, restarts; logins through the gate | `TypeOK`, `MissesSpendTheTicket`, `TicketsAreOneTime`, `NoSessionAfterExpiry`, `TicketDiesForAReason`, `LoginNeedsOpenedGate` |
| `KeysRotation` | server and two CLI processes, any of them first, two rotations, failures, deaths | `TypeOK`, `SigningKeysWereStored`, `RetiredKeyStaysRetired`, `SettledProcessesAgree`, `KidNamesOneKey` |
| `ProxyRelay` | one WebSocket, three bytes each way: read-ahead, half-closes, vanishing and deaf peers, failed set-ups | `NothingLeftOpen`, `HalfCloseDelivers`, `RelaysInOrder`, `HangUpEndsRelay`, `SentBytesArrive` |
| `ClientAdmin` | two servers on a new database; two handlers that update, disable, re-key, authorize and exchange | `TypeOK`, `CodesNeedTheirVerifier`, `LiveClientSecretIsHeld`, `BootstrapCompletes` |
| `LoginSessions` | logins, logouts and requests while the administrator disables the user and resets the password | `TypeOK`, `LoggedOutIsOut`, `CredentialsWereGood` |

Each property of each passing run has a mutant in `PROJECT.json`: one mapped definition
replaced by a plausible bug (defined just before it), under which TLC finds the property
violated. That is the evidence that the bounds reach the interesting case.

**Why the bounds are enough.** The races are between one writer and one or two others on
one row, hence two handlers. A second device or grant is needed only for what one does to
the other (`DevicesRefresh`, `OAuthTwoGrants`). A device token can be made, replaced and
replaced again with three secrets. Two clock ticks pass any expiry or retention of one
second, once on time and once late; three pass an age limit, a slow login and one more.
Two misses are the smallest limit with a miss that does not spend the ticket. Four keys are
two rotations with a key made in between. Three bytes are one read ahead, one in a copier's
hands and one still in the socket; a window of two lets a write pass and the next one
block. The clock of `OAuthTwoGrants` stands still: its question is what two grants of one
second do to each other, and a moving clock multiplies its 1.3 million states. Expiry is in
`OAuthRaces` and, for `IntrospectionAgreesWithToken`, in the theorem only. Every safety
property of every passing run is also a theorem, for which the bounds do not matter.

**Fairness.**

- `Onboarding`: weak fairness of `Progress(r)`, the next step of a running handler. Go
  schedules every runnable goroutine, the mutex is held for a few instructions, and nothing
  else is waited for. It gives `Concludes`, the liveness half of `TicketsAreOneTime`: a
  taken ticket ends in a session or in none.
- `ChatWsProxy`: weak fairness of the handler and of each copier. They are goroutines, and
  the dialer has a timeout. Nothing is assumed of the peers: `HangUpEndsRelay` and
  `SentBytesArrive` have the premise that no peer stops reading for good with its socket
  full (`PeersKeepReading`), because the proxy sets no deadlines. Without it a copier blocks
  in a write for as long as such a peer lives.
- `ClientAdmin`: weak fairness of a starting server's steps. A failed process is started
  again (`compose.yml` 4, `restart: unless-stopped`); one that is down stays so if nobody
  starts it. It gives `BootstrapCompletes`.

`LoginSessions` bounds the time of one bcrypt comparison by `LoginTime` instead, which
stands in `CredentialsWereGood`. All other modules state safety only.

### Violations: where the code and what is written about it differ

| Run | Says | Code |
|---|---|---|
| `DevicesCliSecondLife` | `programcli_test.go` 217: a revoked id is "not active" | the cleanup deletes the REVOKED row that refused it; the CLI then inserts the id as ACTIVE, and tokens from before the revocation that have not expired are accepted again |
| `AccessTtlWraps` | `server.go` 1839: "requested access ttl exceeds limit" | the product with `time.Second` wraps around before it is compared, so that a request for some 292 years passes and its token has already expired. No lifetime above the limit comes of it (`LifetimesAreBounded`) |

Further effects are behaviours of the models that no property forbids. A refresh in flight
across a revocation records its token after the others were marked, so that the audit list
shows it as ACTIVE although it is refused (devices and OAuth alike). A login that was past
the new-device gate makes its device after the gate was closed, because the gate is read
before bcrypt (`server.go` 696-717); `LoginNeedsOpenedGate` says what does hold of the
gate. Audit rows are deleted by issue time, so that a long-lived token may be accepted
without one (`HeldTokensWereAudited` says how long they last). Disabling a user or
resetting a password ends no session; `CredentialsWereGood` says how long one lasts. An
update of a client that names no status enables it, and two updates at once may mix what
each read with what the other wrote; `CodesNeedTheirVerifier` says what survives that.
`/openid/userinfo` goes on answering for an access token that was revoked or replaced until
it expires, while introspection calls it inactive; that is why `RevokedTokenIsRefused` and
`AuditRevokedMeansDead` speak of refresh and introspection only. In the second a token
expires the two disagree the other way round. A refresh that asks for too long a lifetime
is refused after the device token was rotated, so that the client's token is dead and the
new one reaches nobody; `LiveSecretIsHeld` counts it as lost. A WebSocket, once let in,
outlives its token and its device's revocation. Outside of the models, `sub` is the user's
id in a token and the username in introspection's answer.

## 4. Proofs

The theorems hold for all values of the constants under the assumption of each module
(`DeviceTokensAssumption`, `OAuthGrantsAssumption`, ...), which say that the sentinels are
no real values and that bounds are naturals; TLC evaluates them in every run. Each theorem
comes from an inductive invariant; the type invariants are inductive only together with
what a handler has in hand at each of its statements (`HandlersOK`), and are called
`TypeInv`. All safety properties that the passing runs check are proved.

**DeviceTokens_proofs**

- `SecretNamesItsDeviceAlways`: inductive given `TypeInv`. It covers handlers as well as
  rows, since a refresh writes the secret it carries to the device it read before.
- `NothingGrantedAfterRevokeAlways`, `RevokedIsFinalAlways`: from `RevocationInv`. A
  device the server made that was ever REVOKED is *Gone*: born and not ACTIVE. Gone is
  stable, since the UPDATEs require ACTIVE, inserts need an id not born, and the cleanup
  only removes the row (`RowsInv`). So a handler that began late stops at the bearer
  check or is itself a revocation (`LateInv`). The operator's CLI ids are excepted, as in
  the property: `DevicesCliSecondLife` shows why.
- `HeldTokensAreListed`: `ListedInv` adds the tokens of handlers about to answer.
- `MarkedDevicesAreDead`: `KnownInv` (handlers work for devices that were born) and
  `MarkedInv` (a handler about to mark the tokens of a device finds it gone, unless excused).
- `LiveSecretAlwaysHeld`: `CarriesInv`; a new secret is in its handler's hand from the
  statement that stores it until the answer (`SecretInHandStays`).
- `UnrotatedSecretLives`: `KeptInv`, which includes the secrets of handlers in flight.
- `ImplementsRevocableGrant`: from `RevocationInv`. One lemma per statement: an INSERT
  begins a grant (`CreateStep`, `InsertStep`), a rotation renews it, or finds the row not
  ACTIVE and loses its token (`RotateStep`), a revocation makes it void (`RevokeStep`), and
  the cleanup touches only rows that are void already (`CleanupStep`).
- `DeviceTokensKeepTheirDevice`: from `RevocableGrant` alone, by its invariant `KeyInv` (a
  key is in one place at a time): a working token names one valid device, and a dead one
  stays dead.

**OAuthGrants_proofs**

- `DeletedStaysDeleted`: `BornInv`. Rows and the handlers that work for one were inserted,
  and ids are fresh, so that a late UPDATE finds no row.
- `HeldScopesWereConsented`: `ConsentInv`, the same promise for requests, rows, handlers
  and tokens at each place the scopes pass.
- `IntrospectionAgrees`: `AgreeInv`. Racing handlers that store tokens in one row read
  client, username and scopes from that row, which do not change, and store the expiry
  the token was signed with. What userinfo answers follows from the clock.
- `RevokedIsRefused`, `ReplacedIsDead`, `AuditRevokedIsDead`: tokens that are in no live
  row, or begin no refresh. From `OwnershipInv` =
  `IssuedInv` (tokens anywhere were signed or generated) and `OwnedInv`. A token that is
  carried by a handler, or stored, belongs to one authorization, is in one handler's hand at
  most while new, and is not on the revoked or replaced lists. Access tokens that were
  signed twice are outside of it.
- `LiveRefreshHeld`: `HeldInv`. `SpentCodeRefused`: `SpentInv`; once a client holds tokens
  of an authorization its row has tokens or is gone.
- `ImplementsRevocableGrant`: from `OwnershipInv`, of which `BornInv` is a part. `Sign` makes a key that
  waits in its handler, `SaveOAuthTokens` puts it to work if the row still exists and
  loses it otherwise, handlers that end and restarts lose keys, and a revocation makes the
  grant void. `DeletedStaysDeleted` and `ReplacedIsDead` state two of its consequences, proved
  directly; the run of the refinement stands for theirs.
- `RefreshTokensKeepTheirGrant`: from `RevocableGrant` alone, as for devices.

**SigningKeys_proofs**

- `TypeCorrect`: with `PendingInv` (a key is pending exactly at the INSERT).
- `SigningKeysWereStoredAlways`, `RetiredKeyStaysRetiredAlways`: from `StoredInv`. A
  pending key is nobody else's and was never stored (`PendingIsFresh`); rows were stored,
  are not retired, and a key is stored under one id (`Provenance`). Hence no INSERT
  brings back a deleted key.
- `DeletedKeyIsNeverStored`: from `Provenance` as well; it speaks of the key pair, so that
  storing it again under another id is excluded too.
- `KidNamesOneKeyAlways`: until the first rotation nothing has left the table, and the
  primary key of `JWK_KEY_` says it all (`KidInv`). After one, an operator may use a key
  id again, for another key.
- `SettledProcessesAgreeAlways`: `OrderTotal` (any two keys made are ordered by their
  stamps) gives a table one first row, and in a settled table it stays first until a
  rotation (`SettledInv`).

**Onboarding_proofs**

- `LoginsWereLetIn`: `GateInv` (an open gate, and a login under way, mean it was opened
  since the start).
- `MissesSpend`, `NoLateSession`, `DeathHasAReason`, `ImplementsOneTimeTicket`: from
  `TicketInv`. A live ticket has made no session and counted all its misses (`TicketOK`); one
  about to be saved is known to its handler only (`SaveOK`); one that a claim took is not
  live, is in one handler's hands, and was claimed before its expiry (`ClaimOK`).
- `ImplementsOneTimeTicket` is `Spec => Abstract!Init /\ [][Abstract!Next]_ticketStates`,
  the safety half of `TicketsAreOneTime`.
- `OneSessionThenNothing`: one session at most (by `TicketInv`, a claimed ticket has made
  none), and from `OneTimeTicket` that what is used or dead stays so.

**ClientAdmin_proofs**

- `LiveSecretHeld`: `SecretInv`. A secret in a handler's hand is stored for that handler's
  client only, so that of two racing rotations each accounts for its own.
- `VerifierNeeded`: `PkceInv`. Rows ask for PKCE where they have the authorization_code
  type (`RowsPrudent`), so does what an update is about to write, and what a reader read is
  vouched for (`Vouched`). It assumes `Plain`: every item of a request names one
  grant type. Without it the theorem fails: the item `authorization_code,refresh_token` is
  checked as one unknown name and read back as two known ones (`store.go` 872).
- `NoServerWithoutClient`: the safety half of `BootstrapCompletes`. A server that failed
  finds the client when it counts again, which is why it does not fail for ever.

**LoginSessions_proofs**

- `LoggedOutStaysOut`: `OutInv`. Session ids are not used again, so one that was logged out is
  never in the map.
- `OldCredentialsExpire`: `GoodInv` bounds when a login read the row by when the
  credentials were good, and a session's start by that and the time a login takes.
- `SessionsNeverReturn`: an id that was answered keeps its owner and start while it is in
  the map and is never used again, after restarts too.

**ChatWsProxy_proofs**

- `AllIsClosed`: `ConnInv`, which connection is open at each step of the handler
  (`HeldOK`), that both copiers start or none (`StartedOK`), and that each closes both
  (`ClosingOK`).
- `NothingIsCutOff`: `DoneInv`. A copier ends for a reason: a peer is gone, or one of the
  copiers finished, that is, its peer stopped sending and everything was written. That a
  copier sees a connection closed is traced to the other copier by `ConnInv`.
- `ImplementsDuplexPipe`: `FlowInv` says where each byte is: what was written, followed
  by what the proxy holds, followed by what is still to be read, is what the peer said. Each
  write therefore extends what the other end heard to a longer beginning of it.
- `PeersGetBeginnings`: from `DuplexPipe` alone, what has reached a peer is a beginning of
  what the other one said, is never taken back, and stays as it is after the close.

**AccessTTL**

- `ExactUnlessItWraps`: a duration that fits a word is granted exactly and refused
  exactly above the limit.
- `LifetimesAreBounded`: by `LifetimeInv`. Even after a wrap-around a lifetime is a word
  within the limit, or the default if none was asked for.
- `OnlyWrapsPassTheLimit`: what `AccessTtlWraps` finds is the only way past the check: a
  request above the limit is granted only if its duration does not fit a word.

They assume `Sound`: positive unit and width, limit and default words, the limit not
negative.

**Only model-checked**: liveness, that is `Concludes` in `TicketsAreOneTime`,
`HangUpEndsRelay`, `SentBytesArrive` and `BootstrapCompletes`, which is out of the prover's reach, as are
ENABLED, induction over data and RECURSIVE operators (the last two are not needed).

## 5. What is not modelled

HTML pages and templates, HTTP decoding, static files, packaging, configuration parsing,
opening the database, cryptography (a signature is valid or not), the wording of errors,
names, display names and redirect URIs. They keep no state or are pure input and output.

- **The admin console** (`frontend/src`): its state is React's, and the server decides every
  request by itself. The reaction to many 401s at once (`App.jsx` 32) stays a listed hazard.
- **The scripts**: starting and stopping go by a pid file and the operating system's process
  table (`program-common.sh` 103).
- **The API proxy and the content of what either proxy forwards**: which headers and query
  keys are stripped and set is a function of one request and the configuration, tested case
  by case in `chat_ws_proxy_test.go`. The two lists differ: a `Sec-WebSocket-Protocol` with a
  bearer token is dropped on the WebSocket path (365) and passes the API proxy (32-37).
  Relaying an API request is the standard library's. The `sync.Once` around its set-up
  (76) only caches a function of the configuration.
- **The private and JWK files** of `setup-public-key` (`programcli.go` 203): nothing in the
  repository reads them back. The ephemeral key pair touches no state.
- **A ticket that outlives the desktop that started it** (`server.go` 898) is a behaviour of
  `Onboarding`, which does not tie tickets to devices, as the code does not.
- **Tokens recorded after the marks of a revocation** (`server.go` 945) are behaviours of
  `DeviceTokens` and `OAuthGrants`.

What remains to be done: a composition of `OAuthGrants` with `LoginSessions`, so that an
authorization names the session it came from; OAuth's share of the audit list's cleanup.
