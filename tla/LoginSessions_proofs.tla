------------------------ MODULE LoginSessions_proofs ------------------------
(***************************************************************************)
(* Proofs about LoginSessions, for every set of users, passwords, sessions *)
(* and handlers, and every age limit and login time.                       *)
(***************************************************************************)
EXTENDS LoginSessions, TLAPS

\* What a handler has in hand at each of its steps.
HandlerOK(h) ==
    /\ h.pc = "create" => h.by \in User \X Password
    /\ h.pc = "admitted" => h.session \in cookies

TypeInv == TypeOK /\ \A r \in Request : HandlerOK(req[r])

LEMMA Distinct ==
    /\ MaxAge \in Nat /\ LoginTime \in Nat /\ MaxTime \in Nat
    /\ None \notin User /\ None \notin Password /\ None \notin Session
    /\ 0 \in 0..MaxTime /\ 0 \in 0..(MaxTime + 1)
    /\ Idle \in Handler /\ Idle.pc = "idle" /\ NoEntry \in Entry
    /\ Nobody \notin User \X Password /\ AdminOwner \notin User \X Password
    /\ User \X Password \subseteq Owner /\ AdminOwner \in Owner
BY LoginSessionsAssumption DEF Idle, Handler, NoEntry, Entry, Owner, Nobody

\* A request that writes a user's row writes a whole one.
LEMMA Administered ==
    ASSUME TypeOK, NEW r \in Request, AdministerUser(r)
    PROVE  \E u \in User, account \in Account : Write(u, account)
<1>1. ASSUME NEW u \in User, NEW status \in Normalized, NEW w \in Password
      PROVE  /\ [status |-> status, password |-> w] \in Account
             /\ [user[u] EXCEPT !.status = status] \in Account
  BY DEF TypeOK, Account, Normalized
<1>6. ASSUME NEW u \in User, NEW w \in Password PROVE [user[u] EXCEPT !.password = w] \in Account
  BY DEF TypeOK, Account
<1>2. PICK u \in User : CreateUser(r, u) \/ UpdateStatus(r, u) \/ ResetUserPassword(r, u)
  BY DEF AdministerUser
<1>3. CASE CreateUser(r, u)
  BY <1>1, <1>3 DEF CreateUser
<1>4. CASE UpdateStatus(r, u)
  <2>1. \A w \in Password \cup {None}, status \in Normalized :
          [user[u] EXCEPT !.status = status] \in Account
    BY DEF TypeOK, Account, Normalized
  <2> QED
    BY <1>4, <2>1 DEF UpdateStatus
<1>5. CASE ResetUserPassword(r, u)
  BY <1>5, <1>6 DEF ResetUserPassword
<1> QED
  BY <1>2, <1>3, <1>4, <1>5

LEMMA WriteType ==
    ASSUME TypeOK, NEW u \in User, NEW account \in Account, Write(u, account)
    PROVE  user' \in [User -> Account] /\ good' \in [User \X Password -> 0..(MaxTime + 1)]
BY Distinct DEF TypeOK, Write

LEMMA InitType == Init => TypeInv
<1> SUFFICES ASSUME Init PROVE TypeInv
  OBVIOUS
<1>1. [status |-> "absent", password |-> None] \in Account
  BY DEF Account
<1> QED
  BY <1>1, Distinct DEF Init, TypeInv, TypeOK, HandlerOK

\* Where the handlers are after a step that one of them takes.
LEMMA SetHandler ==
    ASSUME TypeInv, NEW r \in Request, NEW h \in Handler, cookies \subseteq cookies',
           req' = [req EXCEPT ![r] = h], HandlerOK(h)
    PROVE  req' \in [Request -> Handler] /\ (\A x \in Request : HandlerOK(req[x]))'
BY DEF TypeInv, TypeOK, HandlerOK

LEMMA EndHandler ==
    ASSUME TypeInv, NEW r \in Request, End(r), cookies \subseteq cookies'
    PROVE  req' \in [Request -> Handler] /\ (\A x \in Request : HandlerOK(req[x]))'
BY Distinct, SetHandler DEF End, HandlerOK

LEMMA NewSessionType ==
    ASSUME TypeOK, NEW k, NEW by \in Owner, NewSession(k, by)
    PROVE  sessions' \in [Session -> Entry] /\ cookies' \subseteq Session
BY DEF NewSession, TypeOK, Entry

LEMMA NextType == TypeInv /\ [Next]_vars => TypeInv'
<1> SUFFICES ASSUME TypeInv, [Next]_vars PROVE TypeInv'
  OBVIOUS
<1>1. TypeOK /\ \A r \in Request : HandlerOK(req[r])
  BY DEF TypeInv
<1>2. CASE AdminLogin
  <2>1. sessions' \in [Session -> Entry] /\ cookies' \subseteq Session /\ cookies \subseteq cookies'
    BY <1>1, <1>2, NewSessionType, Distinct DEF AdminLogin, NewSession
  <2> QED
    BY <1>1, <1>2, <2>1 DEF AdminLogin, TypeInv, TypeOK, HandlerOK, history
<1>3. ASSUME NEW r \in Request, FindUser(r) PROVE TypeInv'
  <2> PICK u \in User, w \in Password :
        req' = [req EXCEPT ![r] = [Idle EXCEPT !.pc = "create", !.by = <<u, w>>, !.seen = now]]
    BY <1>3 DEF FindUser
  <2> DEFINE h == [Idle EXCEPT !.pc = "create", !.by = <<u, w>>, !.seen = now]
  <2>1. h \in Handler /\ HandlerOK(h)
    BY <1>1, Distinct DEF Handler, TypeOK, HandlerOK
  <2>2. cookies' = cookies
    BY <1>3 DEF FindUser
  <2> QED
    BY <1>1, <1>3, <2>1, <2>2, SetHandler DEF FindUser, TypeInv, TypeOK, history
<1>4. ASSUME NEW r \in Request, CreateOAuthSession(r) PROVE TypeInv'
  <2>1. req[r].by \in Owner
    BY <1>1 DEF TypeOK, Handler
  <2>2. sessions' \in [Session -> Entry] /\ cookies' \subseteq Session /\ cookies \subseteq cookies'
    BY <1>1, <1>4, <2>1, NewSessionType DEF CreateOAuthSession, NewSession
  <2>3. req' \in [Request -> Handler] /\ (\A x \in Request : HandlerOK(req[x]))'
    BY <1>4, <2>2, EndHandler DEF CreateOAuthSession
  <2> QED
    BY <1>1, <1>4, <2>2, <2>3 DEF CreateOAuthSession, TypeInv, TypeOK, history
<1>5. ASSUME NEW r \in Request, PresentCookie(r) PROVE TypeInv'
  <2> PICK k \in cookies :
        req' = [req EXCEPT ![r] = [Idle EXCEPT !.pc = "admitted", !.by = sessions[k].by,
                                               !.session = k, !.late = k \in loggedOut]]
    BY <1>5 DEF PresentCookie
  <2> PICK late \in BOOLEAN : late = (k \in loggedOut)
    <3>1. CASE k \in loggedOut
      <4>1. TRUE = (k \in loggedOut)
        BY <3>1
      <4> QED
        BY <4>1
    <3>2. CASE k \notin loggedOut
      <4>1. FALSE = (k \in loggedOut)
        BY <3>2
      <4> QED
        BY <4>1
    <3> QED
      BY <3>1, <3>2
  <2> DEFINE h == [Idle EXCEPT !.pc = "admitted", !.by = sessions[k].by,
                               !.session = k, !.late = late]
  <2>1. sessions[k].by \in Owner /\ k \in Session
    BY <1>1 DEF TypeOK, Entry
  <2>2. h \in Handler /\ HandlerOK(h)
    BY <2>1, Distinct DEF Handler, HandlerOK
  <2>3. cookies' = cookies
    BY <1>5 DEF PresentCookie
  <2> QED
    BY <1>1, <1>5, <2>2, <2>3, SetHandler DEF PresentCookie, TypeInv, TypeOK, history
<1>6. ASSUME NEW r \in Request, Finish(r) PROVE TypeInv'
  <2>1. req' \in [Request -> Handler] /\ (\A x \in Request : HandlerOK(req[x]))'
    BY <1>6, EndHandler DEF Finish
  <2> QED
    BY <1>1, <1>6, <2>1 DEF Finish, TypeInv, TypeOK, history
<1>7. ASSUME NEW r \in Request, AdminLogout(r) PROVE TypeInv'
  <2>1. req[r].session \in Session
    BY <1>1, <1>7 DEF AdminLogout, Admin, At, HandlerOK, TypeOK
  <2>2. req' \in [Request -> Handler] /\ (\A x \in Request : HandlerOK(req[x]))'
    BY <1>7, EndHandler DEF AdminLogout
  <2> QED
    BY <1>1, <1>7, <2>1, <2>2, Distinct DEF AdminLogout, RemovedFromMap, TypeInv, TypeOK
<1>8. ASSUME NEW r \in Request, AdministerUser(r) PROVE TypeInv'
  <2>1. user' \in [User -> Account] /\ good' \in [User \X Password -> 0..(MaxTime + 1)]
    BY <1>1, <1>8, Administered, WriteType
  <2>2. req' \in [Request -> Handler] /\ (\A x \in Request : HandlerOK(req[x]))'
    BY <1>8, EndHandler DEF AdministerUser
  <2> QED
    BY <1>1, <1>8, <2>1, <2>2 DEF AdministerUser, TypeInv, TypeOK
<1>9. CASE ServerRestart
  BY <1>1, <1>9, Distinct DEF ServerRestart, TypeInv, TypeOK, HandlerOK, history
<1>10. CASE Tick
  <2>1. now' \in 0..MaxTime /\ now + 2 \in 0..(MaxTime + 1)
    BY <1>1, <1>10, Distinct DEF Tick, TypeOK
  <2>2. good' \in [User \X Password -> 0..(MaxTime + 1)]
    BY <1>1, <1>10, <2>1 DEF Tick, TypeOK
  <2> QED
    BY <1>1, <1>10, <2>1, <2>2 DEF Tick, TypeInv, TypeOK, HandlerOK
<1>11. CASE UNCHANGED vars
  BY <1>1, <1>11 DEF vars, history, TypeInv, TypeOK, HandlerOK
<1> QED
  BY <1>2, <1>3, <1>4, <1>5, <1>6, <1>7, <1>8, <1>9, <1>10, <1>11 DEF Next

\* Every variable keeps its type in every behaviour.
THEOREM TypeCorrect == Spec => []TypeOK
<1>1. TypeInv => TypeOK
  BY DEF TypeInv
<1> QED
  BY <1>1, InitType, NextType, PTL DEF Spec

-----------------------------------------------------------------------------
(***************************************************************************)
(* Logging out: the session's id is in the map no more, nor will it be.    *)
(***************************************************************************)
OutInv ==
    /\ loggedOut \subseteq cookies
    /\ \A k \in loggedOut : sessions[k] = NoEntry
    /\ LoggedOutIsOut

LEMMA NextOut == TypeInv /\ OutInv /\ [Next]_vars => OutInv'
<1> SUFFICES ASSUME TypeInv, OutInv, [Next]_vars PROVE OutInv'
  OBVIOUS
<1>1. TypeOK /\ \A r \in Request : HandlerOK(req[r])
  BY DEF TypeInv
<1>2. ASSUME NEW k, NEW by, NewSession(k, by)
      PROVE  cookies \subseteq cookies' /\ \A x \in loggedOut : sessions'[x] = sessions[x]
  BY <1>1, <1>2 DEF NewSession, TypeOK, OutInv
<1>3. ASSUME NEW r \in Request, End(r) PROVE LoggedOutIsOut'
  BY <1>1, <1>3, Distinct DEF End, OutInv, LoggedOutIsOut, At, TypeOK
<1>4. CASE AdminLogin
  BY <1>2, <1>4 DEF AdminLogin, OutInv, LoggedOutIsOut, At, history
<1>5. ASSUME NEW r \in Request, CreateOAuthSession(r) PROVE OutInv'
  BY <1>2, <1>3, <1>5 DEF CreateOAuthSession, OutInv, history
<1>6. ASSUME NEW r \in Request, FindUser(r) PROVE OutInv'
  <2>1. /\ req'[r].pc = "create" /\ \A x \in Request \ {r} : req'[x] = req[x]
    BY <1>1, <1>6, Distinct DEF FindUser, TypeOK, Handler
  <2>2. LoggedOutIsOut'
    BY <1>6, <2>1 DEF OutInv, LoggedOutIsOut, At
  <2> QED
    BY <1>6, <2>2 DEF FindUser, OutInv, history
<1>7. ASSUME NEW r \in Request, PresentCookie(r) PROVE OutInv'
  <2> PICK k \in cookies :
        /\ sessions[k] # NoEntry
        /\ req' = [req EXCEPT ![r] = [Idle EXCEPT !.pc = "admitted", !.by = sessions[k].by,
                                                  !.session = k, !.late = k \in loggedOut]]
    BY <1>7 DEF PresentCookie
  <2>1. ~req'[r].late /\ \A x \in Request \ {r} : req'[x] = req[x]
    BY <1>1, Distinct DEF OutInv, TypeOK, Handler
  <2>2. LoggedOutIsOut'
    BY <2>1 DEF OutInv, LoggedOutIsOut, At
  <2> QED
    BY <1>7, <2>2 DEF PresentCookie, OutInv, history
<1>8. ASSUME NEW r \in Request, Finish(r) \/ AdministerUser(r) PROVE OutInv'
  BY <1>3, <1>8 DEF Finish, AdministerUser, OutInv, history
<1>9. ASSUME NEW r \in Request, AdminLogout(r) PROVE OutInv'
  <2>1. req[r].session \in cookies /\ req[r].session \in Session
    BY <1>1, <1>9 DEF AdminLogout, Admin, At, HandlerOK, TypeOK
  <2>2. \A k \in loggedOut' : sessions'[k] = NoEntry
    BY <1>1, <1>9, <2>1 DEF AdminLogout, RemovedFromMap, OutInv, TypeOK
  <2> QED
    BY <1>3, <1>9, <2>1, <2>2 DEF AdminLogout, OutInv
<1>10. CASE ServerRestart
  BY <1>1, <1>10, Distinct DEF ServerRestart, OutInv, LoggedOutIsOut, At, TypeOK, history
<1>11. CASE Tick \/ UNCHANGED vars
  BY <1>11 DEF Tick, vars, OutInv, LoggedOutIsOut, At, history
<1> QED
  BY <1>4, <1>5, <1>6, <1>7, <1>8, <1>9, <1>10, <1>11 DEF Next

\* A request made after its session was logged out is never let in.
THEOREM LoggedOutStaysOut == Spec => []LoggedOutIsOut
<1>1. Init => OutInv
  BY Distinct DEF Init, OutInv, LoggedOutIsOut, At
<1>2. OutInv => LoggedOutIsOut
  BY DEF OutInv
<1> QED
  BY <1>1, <1>2, InitType, NextType, NextOut, PTL DEF Spec

\* An id that a browser was answered never comes to stand for another session: it keeps
\* its owner and the moment its age is counted from, and once it left the map, by a
\* logout or with the process, no login brings it back.
THEOREM SessionsNeverReturn ==
    Spec => [][\A k \in cookies : sessions'[k] \in {sessions[k], NoEntry}]_vars
<1>1. TypeInv /\ [Next]_vars => [\A k \in cookies : sessions'[k] \in {sessions[k], NoEntry}]_vars
  <2> SUFFICES ASSUME TypeInv, Next, NEW k \in cookies
               PROVE  sessions'[k] \in {sessions[k], NoEntry}
    OBVIOUS
  <2>1. k \in Session /\ sessions \in [Session -> Entry]
    BY DEF TypeInv, TypeOK
  <2>2. ASSUME NEW x, NEW by, NewSession(x, by) PROVE sessions'[k] = sessions[k]
    BY <2>1, <2>2 DEF NewSession
  <2>3. ASSUME NEW r \in Request, AdminLogout(r) PROVE sessions'[k] \in {sessions[k], NoEntry}
    BY <2>1, <2>3 DEF AdminLogout, RemovedFromMap
  <2>4. CASE ServerRestart
    BY <2>1, <2>4 DEF ServerRestart
  <2> QED
    BY <2>2, <2>3, <2>4 DEF Next, AdminLogin, FindUser, CreateOAuthSession, PresentCookie, Finish,
       AdministerUser, Tick
<1> QED
  BY <1>1, InitType, NextType, PTL DEF Spec

-----------------------------------------------------------------------------
(***************************************************************************)
(* Credentials: what was good when a login read the user's row was good    *)
(* not long before its session began, and no session counts for longer     *)
(* than its age limit.                                                     *)
(***************************************************************************)
GoodInv ==
    /\ \A u \in User, w \in Password :
        /\ good[<<u, w>>] <= now + 1
        /\ LogsIn(user[u], w) => good[<<u, w>>] = now + 1
    /\ \A r \in Request : At(r, "create") =>
        /\ req[r].seen < good[req[r].by]
        /\ now <= req[r].seen + LoginTime
    /\ \A k \in Session : sessions[k].by \in User \X Password =>
        sessions[k].iat < good[sessions[k].by] + LoginTime

\* No step takes back what good records.
LEMMA GoodGrows ==
    ASSUME TypeInv, GoodInv, [Next]_vars, NEW uw \in User \X Password
    PROVE  good[uw] <= good'[uw]
<1>1. TypeOK /\ good[uw] \in Nat /\ good[uw] <= now + 1 /\ now \in Nat
  BY Distinct DEF TypeInv, TypeOK, GoodInv
<1>2. CASE good' = good
  BY <1>1, <1>2
<1>3. CASE Tick
  BY <1>1, <1>3 DEF Tick
<1>4. ASSUME NEW r \in Request, AdministerUser(r) PROVE good[uw] <= good'[uw]
  <2> PICK u \in User, account \in Account : Write(u, account)
    BY <1>1, <1>4, Administered
  <2>1. good'[uw] = now + 1 \/ good'[uw] = good[uw]
    BY DEF Write
  <2> QED
    BY <1>1, <2>1
<1> QED
  BY <1>2, <1>3, <1>4 DEF Next, AdminLogin, FindUser, CreateOAuthSession, PresentCookie, Finish,
     AdminLogout, ServerRestart, vars, history

LEMMA NextGood == TypeInv /\ GoodInv /\ [Next]_vars => GoodInv'
<1> SUFFICES ASSUME TypeInv, GoodInv, [Next]_vars PROVE GoodInv'
  OBVIOUS
<1> DEFINE Users == \A u \in User, w \in Password :
                      /\ good[<<u, w>>] <= now + 1
                      /\ LogsIn(user[u], w) => good[<<u, w>>] = now + 1
           Logins == \A r \in Request : At(r, "create") =>
                      /\ req[r].seen < good[req[r].by]
                      /\ now <= req[r].seen + LoginTime
           Ages == \A k \in Session : sessions[k].by \in User \X Password =>
                      sessions[k].iat < good[sessions[k].by] + LoginTime
<1>1. TypeOK /\ now \in Nat /\ LoginTime \in Nat /\ \A r \in Request : HandlerOK(req[r])
  BY Distinct DEF TypeInv, TypeOK
<1>2. /\ \A uw \in User \X Password :
            good[uw] <= good'[uw] /\ good[uw] \in Nat /\ good'[uw] \in Nat
  BY <1>1, GoodGrows, NextType, Distinct DEF TypeInv, TypeOK
<1>3. \A r \in Request : req[r].seen \in Nat /\ (At(r, "create") => req[r].by \in User \X Password)
  BY <1>1, Distinct DEF TypeOK, Handler, HandlerOK, At
<1>4. \A k \in Session : sessions[k].iat \in Nat
  BY <1>1, Distinct DEF TypeOK, Entry
\* Each part holds on where its subject does not change.
<1>5. UNCHANGED <<user, good, now>> => Users'
  BY DEF GoodInv, LogsIn
<1>6. ASSUME \A r \in Request : req'[r].pc = "create" => req'[r] = req[r], now' = now PROVE Logins'
  BY <1>1, <1>2, <1>3, <1>6 DEF GoodInv, At
<1>7. ASSUME \A k \in Session : sessions'[k] \in {sessions[k], NoEntry} PROVE Ages'
  BY <1>1, <1>2, <1>4, <1>7, Distinct DEF GoodInv, NoEntry
<1>8. ASSUME NEW r \in Request, End(r)
      PROVE  \A x \in Request : req'[x].pc = "create" => req'[x] = req[x]
  BY <1>1, <1>8, Distinct DEF End, TypeOK
<1>9. ASSUME NEW k, NEW by \in Owner, NewSession(k, by),
             by \in User \X Password => now < good'[by] + LoginTime
      PROVE  Ages'
  <2>1. \A x \in Session :
          \/ sessions'[x] = sessions[x]
          \/ sessions'[x].by = by /\ sessions'[x].iat = now
    BY <1>1, <1>9 DEF NewSession, TypeOK
  <2> QED
    BY <1>1, <1>2, <1>4, <1>9, <2>1 DEF GoodInv
<1>10. CASE AdminLogin
  <2>1. UNCHANGED <<user, good, now, req>> /\ \E k \in Session : NewSession(k, AdminOwner)
    BY <1>10 DEF AdminLogin, history
  <2>2. Ages'
    BY <1>9, <2>1, Distinct
  <2> QED
    BY <1>5, <1>6, <2>1, <2>2 DEF GoodInv
<1>11. ASSUME NEW r \in Request, FindUser(r) PROVE GoodInv'
  <2> PICK u \in User, w \in Password :
        /\ LogsIn(user[u], w)
        /\ req' = [req EXCEPT ![r] = [Idle EXCEPT !.pc = "create", !.by = <<u, w>>, !.seen = now]]
    BY <1>11 DEF FindUser
  <2>1. UNCHANGED <<user, good, now, sessions>>
    BY <1>11 DEF FindUser, history
  <2>2. /\ \A x \in Request \ {r} : req'[x] = req[x]
        /\ req'[r].by = <<u, w>> /\ req'[r].seen = now
    BY <1>1, Distinct DEF TypeOK, Handler
  <2>3. good[<<u, w>>] = now + 1
    BY DEF GoodInv
  <2>4. Logins'
    BY <1>1, <2>1, <2>2, <2>3 DEF GoodInv, At
  <2> QED
    BY <1>5, <1>7, <2>1, <2>4 DEF GoodInv
<1>12. ASSUME NEW r \in Request, CreateOAuthSession(r) PROVE GoodInv'
  <2> PICK by : by = req[r].by
    OBVIOUS
  <2>1. UNCHANGED <<user, good, now>> /\ End(r) /\ \E k \in Session : NewSession(k, by)
    BY <1>12 DEF CreateOAuthSession, history
  <2>2. by \in User \X Password /\ by \in Owner
    BY <1>3, <1>12, Distinct DEF CreateOAuthSession
  <2>3. now < good[by] + LoginTime
    BY <1>1, <1>2, <1>3, <1>12, <2>2 DEF CreateOAuthSession, GoodInv
  <2>4. Ages'
    BY <1>9, <2>1, <2>2, <2>3
  <2> QED
    BY <1>5, <1>6, <1>8, <2>1, <2>4 DEF GoodInv
<1>13. ASSUME NEW r \in Request, PresentCookie(r) PROVE GoodInv'
  <2>1. UNCHANGED <<user, good, now, sessions>>
    BY <1>13 DEF PresentCookie, history
  <2>2. \A x \in Request : req'[x].pc = "create" => req'[x] = req[x]
    BY <1>1, <1>13, Distinct DEF PresentCookie, TypeOK, Handler
  <2> QED
    BY <1>5, <1>6, <1>7, <2>1, <2>2 DEF GoodInv
<1>14. ASSUME NEW r \in Request, Finish(r) \/ AdminLogout(r) PROVE GoodInv'
  <2>1. UNCHANGED <<user, good, now>> /\ End(r)
    BY <1>14 DEF Finish, AdminLogout, history
  <2>2. \A k \in Session : sessions'[k] \in {sessions[k], NoEntry}
    BY <1>1, <1>14 DEF Finish, AdminLogout, RemovedFromMap, TypeOK
  <2> QED
    BY <1>5, <1>6, <1>7, <1>8, <2>1, <2>2 DEF GoodInv
<1>15. ASSUME NEW r \in Request, AdministerUser(r) PROVE GoodInv'
  <2> PICK v \in User, account \in Account : Write(v, account)
    BY <1>1, <1>15, Administered
  <2>1. UNCHANGED <<now, sessions>> /\ End(r)
    BY <1>15 DEF AdministerUser
  <2>2. \A u \in User, w \in Password :
          /\ u = v /\ LogsIn(account, w) => good'[<<u, w>>] = now + 1
          /\ ~(u = v /\ LogsIn(account, w)) => good'[<<u, w>>] = good[<<u, w>>]
    BY DEF Write
  <2>3. Users'
    <3> SUFFICES ASSUME NEW u \in User, NEW w \in Password
                 PROVE  /\ good'[<<u, w>>] <= now + 1
                        /\ LogsIn(user'[u], w) => good'[<<u, w>>] = now + 1
      BY <2>1 DEF LogsIn
    <3>1. good[<<u, w>>] \in Nat /\ good[<<u, w>>] <= now + 1
      BY <1>2 DEF GoodInv
    <3>2. CASE u = v
      <4>1. user'[u] = account
        BY <1>1, <3>2 DEF Write, TypeOK
      <4> QED
        BY <1>1, <2>2, <3>1, <3>2, <4>1
    <3>3. CASE u # v
      <4>1. user'[u] = user[u]
        BY <1>1, <3>3 DEF Write, TypeOK
      <4> QED
        BY <2>2, <3>1, <3>3, <4>1 DEF GoodInv
    <3> QED
      BY <3>2, <3>3
  <2> QED
    BY <1>6, <1>7, <1>8, <2>1, <2>3 DEF GoodInv
<1>16. CASE ServerRestart
  <2>1. UNCHANGED <<user, good, now>> /\ (\A r \in Request : req'[r] = Idle)
        /\ \A k \in Session : sessions'[k] = NoEntry
    BY <1>16 DEF ServerRestart, history
  <2> QED
    BY <1>5, <1>6, <1>7, <2>1, Distinct DEF GoodInv
<1>17. CASE Tick
  <2>1. /\ UNCHANGED <<user, sessions, req>> /\ now' = now + 1
        /\ \A r \in Request : At(r, "create") => now < req[r].seen + LoginTime
    BY <1>17 DEF Tick
  <2>2. \A u \in User, w \in Password :
          /\ LogsIn(user[u], w) => good'[<<u, w>>] = now + 2
          /\ ~LogsIn(user[u], w) => good'[<<u, w>>] = good[<<u, w>>]
    BY <1>17 DEF Tick
  <2>3. Users'
    <3> SUFFICES ASSUME NEW u \in User, NEW w \in Password
                 PROVE  /\ good'[<<u, w>>] <= now + 2
                        /\ LogsIn(user[u], w) => good'[<<u, w>>] = now + 2
      <4>1. now' + 1 = now + 2
        BY <1>1, <2>1
      <4> QED
        BY <2>1, <4>1 DEF LogsIn
    <3>1. good[<<u, w>>] \in Nat /\ good[<<u, w>>] <= now + 1
      BY <1>2 DEF GoodInv
    <3> QED
      BY <1>1, <2>2, <3>1
  <2>4. Logins'
    BY <1>1, <1>2, <1>3, <2>1 DEF GoodInv, At
  <2> QED
    BY <1>7, <2>1, <2>3, <2>4 DEF GoodInv
<1>18. CASE UNCHANGED vars
  BY <1>5, <1>6, <1>7, <1>18 DEF vars, history, GoodInv
<1> QED
  BY <1>10, <1>11, <1>12, <1>13, <1>14, <1>15, <1>16, <1>17, <1>18 DEF Next

\* Nobody is let in later than the age limit and one login's time after the user could
\* last have logged in with that password, whatever happens to the user meanwhile.
THEOREM OldCredentialsExpire == Spec => CredentialsWereGood
<1>1. Init => GoodInv
  BY Distinct DEF Init, GoodInv, LogsIn, At, NoEntry
<1>2. TypeInv /\ GoodInv /\ [Next]_vars
        => [\A r \in Request :
              ~At(r, "admitted") /\ req'[r].pc = "admitted" /\ req'[r].by \in User \X Password
                => now < good[req'[r].by] + LoginTime + MaxAge]_vars
  <2> SUFFICES ASSUME TypeInv, GoodInv, [Next]_vars, NEW r \in Request, ~At(r, "admitted"),
                      req'[r].pc = "admitted", req'[r].by \in User \X Password
               PROVE  now < good[req'[r].by] + LoginTime + MaxAge
    OBVIOUS
  <2>1. TypeOK
    BY DEF TypeInv
  <2>2. PresentCookie(r)
    <3>1. ASSUME NEW q \in Request, End(q) PROVE req'[r].pc # "admitted"
      BY <2>1, <3>1, Distinct DEF End, At, TypeOK
    <3>2. ASSUME NEW q \in Request, FindUser(q) PROVE req'[r].pc # "admitted"
      BY <2>1, <3>2, Distinct DEF FindUser, At, TypeOK, Handler
    <3>3. ASSUME NEW q \in Request, q # r, PresentCookie(q) PROVE req'[r].pc # "admitted"
      BY <2>1, <3>3 DEF PresentCookie, At, TypeOK
    <3>4. ServerRestart => req'[r].pc # "admitted"
      BY Distinct DEF ServerRestart
    <3>5. req' # req
      BY DEF At
    <3> QED
      BY <3>1, <3>2, <3>3, <3>4, <3>5 DEF Next, AdminLogin, CreateOAuthSession, Finish, AdminLogout,
         AdministerUser, Tick, vars
  <2>3. PICK k \in cookies :
          /\ now - sessions[k].iat <= MaxAge
          /\ req'[r].by = sessions[k].by
    BY <2>1, <2>2, Distinct DEF PresentCookie, YoungEnough, TypeOK, Handler
  <2>4. sessions[k].iat < good[req'[r].by] + LoginTime
    BY <2>1, <2>3 DEF GoodInv, TypeOK
  <2>5. /\ now \in Nat /\ sessions[k].iat \in Nat /\ good[req'[r].by] \in Nat
        /\ LoginTime \in Nat /\ MaxAge \in Nat
    BY <2>1, <2>3, Distinct DEF TypeOK, Entry
  <2> QED
    BY <2>3, <2>4, <2>5
<1> QED
  BY <1>1, <1>2, InitType, NextType, NextGood, PTL DEF Spec, CredentialsWereGood
=============================================================================
