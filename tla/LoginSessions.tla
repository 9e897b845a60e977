--------------------------- MODULE LoginSessions ---------------------------
(***************************************************************************)
(* Users, and the login sessions of server.go: the administrator's, which  *)
(* the admin API asks for, and the OAuth user's, which /authorize and the  *)
(* consent page ask for.  Users are rows of APP_USER_; sessions are two    *)
(* maps in memory under a mutex each, looked at by age and never purged.   *)
(* A session is written into the map after a slow bcrypt comparison with   *)
(* the user's row as it was read before; nothing ends it when the user is  *)
(* disabled or gets another password.                                      *)
(***************************************************************************)
EXTENDS Naturals

CONSTANTS
    User,       \* user names
    Password,   \* their passwords
    Session,    \* uuids of sessions
    Request,    \* goroutines
    MaxAge,     \* eight hours
    LoginTime,  \* bound: a login's bcrypt takes no longer
    MaxTime,    \* bound: the clock stops here
    None        \* the absent user, password or session

\* Whose a session is: the administrator's, nobody's, or the user's who showed a password.
AdminOwner == <<"admin", "admin">>
Nobody == <<None, None>>
Owner == (User \X Password) \cup {AdminOwner, Nobody}

ASSUME LoginSessionsAssumption ==
    /\ MaxAge \in Nat /\ LoginTime \in Nat /\ MaxTime \in Nat
    /\ None \notin User \cup Password \cup Session
    /\ AdminOwner \notin User \X Password     \* the two kinds have maps of their own

VARIABLES
    now,
    user,           \* APP_USER_ by USERNAME_: status and password
    sessions,       \* adminSessions and oauthSessions
    req,            \* the handlers' local variables
    cookies,        \* session ids that were answered to a browser
    loggedOut,      \* history: ids of sessions that were logged out
    good            \* history: the second after the one in which a user could last
                    \* have logged in with a password, or zero

history == <<loggedOut, good>>
vars == <<now, user, sessions, req, cookies, loggedOut, good>>

Account == [status : {"absent", "ACTIVE", "DISABLED"}, password : Password \cup {None}]
\* The password in by is history; the code keeps the user's name only.
Entry == [by : Owner, iat : 0..MaxTime]
NoEntry == [by |-> Nobody, iat |-> 0]
Handler == [pc : {"idle", "create", "admitted"}, by : Owner, session : Session \cup {None},
            seen : 0..MaxTime, late : BOOLEAN]
Idle == [pc |-> "idle", by |-> Nobody, session |-> None, seen |-> 0, late |-> FALSE]

TypeOK ==
    /\ now \in 0..MaxTime
    /\ user \in [User -> Account]
    /\ sessions \in [Session -> Entry]
    /\ req \in [Request -> Handler]
    /\ cookies \subseteq Session
    /\ loggedOut \subseteq Session
    /\ good \in [User \X Password -> 0..(MaxTime + 1)]

Init ==
    /\ now = 0
    /\ user = [u \in User |-> [status |-> "absent", password |-> None]]
    /\ sessions = [k \in Session |-> NoEntry]
    /\ req = [r \in Request |-> Idle]
    /\ cookies = {}
    /\ loggedOut = {}
    /\ good = [uw \in User \X Password |-> 0]

At(r, pc) == req[r].pc = pc
End(r) == req' = [req EXCEPT ![r] = Idle]
LogsIn(account, w) == account.status = "ACTIVE" /\ account.password = w

-----------------------------------------------------------------------------
(***************************************************************************)
(* Logging in.                                                             *)
(***************************************************************************)
NewSession(k, by) ==
    /\ k \in Session \ cookies
    /\ sessions' = [sessions EXCEPT ![k] = [by |-> by, iat |-> now]]
    /\ cookies' = cookies \cup {k}

\* handleAdminLogin compares with the configuration only.
AdminLogin ==
    /\ \E k \in Session : NewSession(k, AdminOwner)
    /\ UNCHANGED <<now, user, req, history>>

\* handleOpenIDLoginSubmit: FindUserByUsername, bcrypt, then the session.
FindUser(r) ==
    /\ At(r, "idle")
    /\ \E u \in User, w \in Password :
        /\ LogsIn(user[u], w)
        /\ req' = [req EXCEPT ![r] = [Idle EXCEPT !.pc = "create", !.by = <<u, w>>, !.seen = now]]
    /\ UNCHANGED <<now, user, sessions, cookies, history>>

CreateOAuthSession(r) ==
    /\ At(r, "create")
    /\ \E k \in Session : NewSession(k, req[r].by)
    /\ End(r)
    /\ UNCHANGED <<now, user, history>>

-----------------------------------------------------------------------------
(***************************************************************************)
(* A request with a session's cookie: adminAPIMiddleware and               *)
(* currentOAuthUser.                                                       *)
(***************************************************************************)
\* Mutant: the session's age is not looked at, as if the cookie's MaxAge were enough.
AnyAge(k) == TRUE
YoungEnough(k) == now - sessions[k].iat <= MaxAge

PresentCookie(r) ==
    /\ At(r, "idle")
    /\ \E k \in cookies :
        /\ sessions[k] # NoEntry
        /\ YoungEnough(k)
        /\ req' = [req EXCEPT ![r] = [Idle EXCEPT !.pc = "admitted", !.by = sessions[k].by,
                                                  !.session = k, !.late = k \in loggedOut]]
    /\ UNCHANGED <<now, user, sessions, cookies, history>>

\* What needs a session and changes neither users nor sessions.
Finish(r) ==
    /\ At(r, "admitted")
    /\ End(r)
    /\ UNCHANGED <<now, user, sessions, cookies, history>>

Admin(r) == At(r, "admitted") /\ req[r].by = AdminOwner

\* Mutant: only the cookie is cleared.
StaysInMap(k) == sessions
RemovedFromMap(k) == [sessions EXCEPT ![k] = NoEntry]
AdminLogout(r) ==
    /\ Admin(r)
    /\ sessions' = RemovedFromMap(req[r].session)
    /\ loggedOut' = loggedOut \cup {req[r].session}
    /\ End(r)
    /\ UNCHANGED <<now, user, cookies, good>>

-----------------------------------------------------------------------------
(***************************************************************************)
(* The admin's handlers on users, one statement each.                      *)
(***************************************************************************)
\* normalizeStatus. Mutant: what it does not know is stored as the empty status.
NormalizedOrEmpty == {"ACTIVE", "DISABLED", ""}
Normalized == {"ACTIVE", "DISABLED"}

Write(u, account) ==
    /\ user' = [user EXCEPT ![u] = account]
    /\ good' = [uw \in User \X Password |->
                  IF uw[1] = u /\ LogsIn(account, uw[2]) THEN now + 1 ELSE good[uw]]

CreateUser(r, u) ==
    /\ user[u].status = "absent"                \* USERNAME_ is UNIQUE
    /\ \E w \in Password, status \in Normalized :
        Write(u, [status |-> status, password |-> w])

\* UpdateUser and PatchUserStatus.
UpdateStatus(r, u) ==
    /\ user[u].status # "absent"
    /\ \E status \in Normalized : Write(u, [user[u] EXCEPT !.status = status])

ResetUserPassword(r, u) ==
    /\ user[u].status # "absent"
    /\ \E w \in Password : Write(u, [user[u] EXCEPT !.password = w])

AdministerUser(r) ==
    /\ Admin(r)
    /\ \E u \in User : CreateUser(r, u) \/ UpdateStatus(r, u) \/ ResetUserPassword(r, u)
    /\ End(r)
    /\ UNCHANGED <<now, sessions, cookies, loggedOut>>

-----------------------------------------------------------------------------
\* The maps are gone with the process; a login that was not finished is, too.
ServerRestart ==
    /\ sessions' = [k \in Session |-> NoEntry]
    /\ req' = [r \in Request |-> Idle]
    /\ UNCHANGED <<now, user, cookies, history>>

Tick ==
    /\ now < MaxTime
    /\ \A r \in Request : At(r, "create") => now < req[r].seen + LoginTime
    /\ now' = now + 1
    /\ good' = [uw \in User \X Password |->
                  IF LogsIn(user[uw[1]], uw[2]) THEN now + 2 ELSE good[uw]]
    /\ UNCHANGED <<user, sessions, req, cookies, loggedOut>>

Next ==
    \/ AdminLogin
    \/ \E r \in Request :
        \/ FindUser(r) \/ CreateOAuthSession(r) \/ PresentCookie(r) \/ Finish(r)
        \/ AdminLogout(r) \/ AdministerUser(r)
    \/ ServerRestart
    \/ Tick

Spec == Init /\ [][Next]_vars

-----------------------------------------------------------------------------
\* Sessions are not ended when their user is disabled or gets another password, and a
\* login that read the old row makes one afterwards; still nobody is let in eight hours,
\* and the time of one login, after the user could last have logged in that way.
CredentialsWereGood ==
    [][\A r \in Request :
        ~At(r, "admitted") /\ req'[r].pc = "admitted" /\ req'[r].by \in User \X Password
            => now < good[req'[r].by] + LoginTime + MaxAge]_vars

\* A request made after its session was logged out is not let in, whichever requests of
\* the same session were under way then, and so changes no user.
LoggedOutIsOut == \A r \in Request : ~(At(r, "admitted") /\ req[r].late)
=============================================================================
