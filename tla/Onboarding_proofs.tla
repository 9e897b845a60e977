------------------------- MODULE Onboarding_proofs -------------------------
(***************************************************************************)
(* Proofs about Onboarding, for every set of tickets and handlers and for  *)
(* every lifetime and limit, among them that the tickets implement         *)
(* OneTimeTicket but for its liveness.                                     *)
(***************************************************************************)
EXTENDS Onboarding, TLAPS

-----------------------------------------------------------------------------
(***************************************************************************)
(* Types, with which operation is at which statement.                      *)
(***************************************************************************)
HandlerOK(h) ==
    /\ h.op \in {"start", "claim"} <=> h.ticket \in Ticket
    /\ h.pc = "password" => h.op \in {"login", "issue"}
    /\ h.pc = "save" => h.op = "start"
    /\ h.pc \in {"take", "ttl"} => h.op = "claim"
    /\ h.pc = "create" => h.op \in {"login", "issue", "claim"}

HandlersOK ==
    /\ req \in [Request -> Handler]
    /\ \A r \in Request : HandlerOK(req[r])

\* A live ticket has a guess left, so that counting one more stays in range.
SpareOK == \A p \in Ticket : tickets[p].live => tickets[p].misses < MaxMisses

TypeInv == TypeOK /\ HandlersOK /\ SpareOK

LEMMA Constants ==
    /\ TicketTTL \in Nat /\ MaxMisses \in Nat /\ MaxMisses > 0
    /\ MaxTime \in Nat /\ MaxLogins \in Nat
    /\ None \notin Ticket
    /\ Idle \in Handler /\ HandlerOK(Idle)
    /\ NoTicket \in TicketRow
BY OnboardingAssumption
   DEF Idle, Handler, HandlerOK, Op, Pc, Time, NoTicket, TicketRow

LEMMA SetHandler ==
    ASSUME HandlersOK, NEW r \in Request, NEW h \in Handler, HandlerOK(h),
           req' = [req EXCEPT ![r] = h]
    PROVE  HandlersOK'
BY DEF HandlersOK

LEMMA StepHandler ==
    ASSUME HandlersOK, NEW r \in Request, NEW pc \in Pc, HandlerOK([req[r] EXCEPT !.pc = pc]),
           Step(r, pc)
    PROVE  HandlersOK'
<1> DEFINE h == [req[r] EXCEPT !.pc = pc]
<1>1. h \in Handler
  BY DEF HandlersOK, Handler
<1>2. req' = [req EXCEPT ![r] = h]
  BY DEF Step
<1> HIDE DEF h
<1> QED
  BY <1>1, <1>2, SetHandler DEF h

LEMMA EndHandler ==
    ASSUME HandlersOK, NEW r \in Request, End(r)
    PROVE  HandlersOK'
BY Constants, SetHandler DEF End

\* What a wrong secret does to the tickets.
LEMMA MissedRow ==
    ASSUME tickets \in [Ticket -> TicketRow], NEW p \in Ticket, tickets[p].live,
           tickets[p].misses + 1 \in 0..MaxMisses
    PROVE  /\ Missed(p)[p].live => tickets[p].misses + 1 < MaxMisses
           /\ ~Missed(p)[p].live => tickets[p].misses + 1 >= MaxMisses
           /\ Missed(p)[p].misses = tickets[p].misses + 1
           /\ Missed(p)[p].expiresAt = tickets[p].expiresAt
           /\ Missed(p)[p] \in TicketRow
           /\ \A q \in Ticket \ {p} : Missed(p)[q] = tickets[q]
<1>1. tickets[p].misses \in Nat /\ tickets[p].expiresAt \in 0..(MaxTime + TicketTTL)
  BY Constants DEF TicketRow
<1>2. \A q \in Ticket \ {p} : Missed(p)[q] = tickets[q]
  BY DEF Missed
<1> DEFINE missed == [tickets[p] EXCEPT !.misses = tickets[p].misses + 1,
                        !.live = tickets[p].live /\ tickets[p].misses + 1 < MaxMisses]
<1>3. Missed(p)[p] = missed
  <2>1. Missed(p) = [tickets EXCEPT ![p] = missed]
    BY DEF Missed
  <2> HIDE DEF missed
  <2> QED
    BY <2>1
<1>4. CASE tickets[p].misses + 1 < MaxMisses
  <2>1. Missed(p)[p] = [tickets[p] EXCEPT !.misses = tickets[p].misses + 1, !.live = TRUE]
    BY <1>3, <1>4
  <2> QED
    BY <1>1, <1>2, <1>4, <2>1 DEF TicketRow
<1>5. CASE ~(tickets[p].misses + 1 < MaxMisses)
  <2>1. Missed(p)[p] = [tickets[p] EXCEPT !.misses = tickets[p].misses + 1, !.live = FALSE]
    BY <1>3, <1>5
  <2> QED
    <3>1. tickets[p].misses + 1 >= MaxMisses
      BY <1>1, <1>5, OnboardingAssumption
    <3> QED
      BY <1>1, <1>2, <2>1, <3>1 DEF TicketRow
<1> QED
  BY <1>4, <1>5

LEMMA InitType == Init => TypeInv
<1> SUFFICES ASSUME Init PROVE TypeInv
  OBVIOUS
<1>1. now \in Time /\ logins \in 0..MaxLogins
  BY Constants DEF Init, Time
<1>2. wrong \in [Ticket -> 0..MaxMisses] /\ sessions \in [Ticket -> Nat]
  BY Constants DEF Init
<1>3. HandlersOK
  BY Constants DEF Init, HandlersOK
<1>4. tickets \in [Ticket -> TicketRow] /\ SpareOK
  BY Constants DEF Init, SpareOK, NoTicket
<1> QED
  BY <1>1, <1>2, <1>3, <1>4 DEF Init, TypeInv, TypeOK, HandlersOK, SpareOK

LEMMA NextType == TypeInv /\ [Next]_vars => TypeInv'
<1> SUFFICES ASSUME TypeInv, [Next]_vars PROVE TypeInv'
  OBVIOUS
<1>1. TypeOK /\ HandlersOK /\ SpareOK /\ \A r \in Request : req[r] \in Handler /\ HandlerOK(req[r])
  BY DEF TypeInv, HandlersOK
<1>2. CASE SetNewDeviceAccess \/ Tick
  <2>1. now' \in Time
    BY <1>1, <1>2, Constants DEF SetNewDeviceAccess, Tick, TypeOK, Time
  <2>2. gate' \in BOOLEAN /\ opened' \in BOOLEAN
    BY <1>1, <1>2 DEF SetNewDeviceAccess, Tick, TypeOK
  <2>3. UNCHANGED <<tickets, req, logins, sessions, wrong, issued>>
    BY <1>2 DEF SetNewDeviceAccess, Tick
  <2> QED
    BY <1>1, <2>1, <2>2, <2>3 DEF TypeInv, TypeOK, HandlersOK, SpareOK
<1>3. CASE ServerRestart
  <2>1. tickets' \in [Ticket -> TicketRow] /\ SpareOK'
    BY <1>1, <1>3 DEF ServerRestart, TypeOK, TicketRow, SpareOK
  <2>2. HandlersOK'
    BY <1>1, <1>3, Constants DEF ServerRestart, HandlersOK
  <2> QED
    BY <1>1, <1>3, <2>1, <2>2 DEF ServerRestart, GateAtStart, TypeInv, TypeOK, HandlersOK, SpareOK
<1>4. ASSUME NEW r \in Request, StartLogin(r) PROVE TypeInv'
  <2> PICK op \in {"login", "issue"} :
        req' = [req EXCEPT ![r] = Running(op, "password", None, 0, FALSE)]
    BY <1>4 DEF StartLogin
  <2>1. Running(op, "password", None, 0, FALSE) \in Handler
    BY Constants DEF Running, Handler, Op, Pc, Time
  <2>2. HandlerOK(Running(op, "password", None, 0, FALSE))
    BY Constants DEF Running, HandlerOK
  <2>3. HandlersOK'
    BY <1>1, <2>1, <2>2, SetHandler
  <2> QED
    BY <1>1, <1>4, <2>3 DEF StartLogin, TypeInv, TypeOK, HandlersOK, SpareOK
<1>5. ASSUME NEW r \in Request, StartPairing(r) \/ StartClaim(r) PROVE TypeInv'
  <2> PICK p \in Ticket, right \in BOOLEAN, k \in {<<"start", "save">>, <<"claim", "take">>} :
        req' = [req EXCEPT ![r] = Running(k[1], k[2], p, now, right)]
    <3>1. CASE StartPairing(r)
      BY <3>1 DEF StartPairing
    <3>2. CASE StartClaim(r)
      BY <1>1, <3>2 DEF StartClaim, TypeOK
    <3> QED
      BY <1>5, <3>1, <3>2
  <2>1. Running(k[1], k[2], p, now, right) \in Handler
    BY <1>1 DEF Running, Handler, Op, Pc, TypeOK
  <2>2. HandlerOK(Running(k[1], k[2], p, now, right))
    BY DEF Running, HandlerOK
  <2>3. HandlersOK'
    BY <1>1, <2>1, <2>2, SetHandler
  <2> QED
    BY <1>1, <1>5, <2>3 DEF StartPairing, StartClaim, TypeInv, TypeOK, HandlersOK, SpareOK
<1>6. ASSUME NEW r \in Request, CheckRequest(r) PROVE TypeInv'
  <2>1. HandlersOK'
    <3>1. CASE Step(r, "create")
      <4>1. HandlerOK([req[r] EXCEPT !.pc = "create"])
        BY <1>1, <1>6 DEF CheckRequest, HandlerOK, Handler
      <4> QED
        BY <1>1, <3>1, <4>1, StepHandler DEF Pc
    <3> QED
      BY <1>1, <1>6, <3>1, EndHandler DEF CheckRequest
  <2> QED
    BY <1>1, <1>6, <2>1 DEF CheckRequest, TypeInv, TypeOK, HandlersOK, SpareOK
<1>7. ASSUME NEW r \in Request, CreateAppLoginSession(r) PROVE TypeInv'
  <2>1. HandlersOK'
    BY <1>1, <1>7, EndHandler DEF CreateAppLoginSession
  <2>2. logins' \in 0..MaxLogins /\ sessions' \in [Ticket -> Nat]
    BY <1>1, <1>7, Constants DEF CreateAppLoginSession, TypeOK
  <2> QED
    BY <1>1, <1>7, <2>1, <2>2 DEF CreateAppLoginSession, TypeInv, TypeOK, HandlersOK, SpareOK
<1>8. ASSUME NEW r \in Request, SaveTicket(r) PROVE TypeInv'
  <2>1. HandlersOK'
    BY <1>1, <1>8, EndHandler DEF SaveTicket
  <2>2. req[r].at + TicketTTL \in 0..(MaxTime + TicketTTL) /\ req[r].ticket \in Ticket
    <3>1. req[r].at \in Time /\ HandlerOK(req[r]) /\ req[r].pc = "save"
      BY <1>1, <1>8 DEF SaveTicket, At, Handler
    <3>2. req[r].ticket \in Ticket
      BY <3>1 DEF HandlerOK
    <3> QED
      BY <3>1, <3>2, Constants DEF Time
  <2>3. tickets' \in [Ticket -> TicketRow] /\ SpareOK'
    <3>1. ASSUME NEW p \in Ticket
          PROVE  tickets'[p] \in TicketRow /\ (tickets'[p].live => tickets'[p].misses < MaxMisses)
      <4>1. CASE p = req[r].ticket
        <5>1. tickets'[p] = [live |-> TRUE, expiresAt |-> req[r].at + TicketTTL, misses |-> 0]
          BY <1>8, <4>1 DEF SaveTicket
        <5> QED
          BY <2>2, <5>1, Constants DEF TicketRow
      <4>2. CASE p # req[r].ticket
        <5>1. tickets'[p] = tickets[p] \/ tickets'[p] = [tickets[p] EXCEPT !.live = FALSE]
          BY <1>8, <4>2 DEF SaveTicket
        <5> QED
          BY <1>1, <5>1 DEF TypeOK, TicketRow, SpareOK
      <4> QED
        BY <4>1, <4>2
    <3>2. tickets' = [p \in Ticket |-> tickets'[p]]
      BY <1>8 DEF SaveTicket
    <3> QED
      BY <3>1, <3>2 DEF SpareOK
  <2> QED
    BY <1>1, <1>8, <2>1, <2>2, <2>3 DEF SaveTicket, TypeInv, TypeOK, HandlersOK, SpareOK
<1>9. ASSUME NEW r \in Request, ClaimTicket(r) PROVE TypeInv'
  <2> PICK p \in Ticket : p = req[r].ticket
    BY <1>1, <1>9 DEF ClaimTicket, At, HandlerOK
  <2>1. HandlersOK'
    <3>1. CASE Step(r, "ttl")
      <4>1. HandlerOK([req[r] EXCEPT !.pc = "ttl"])
        BY <1>1, <1>9 DEF ClaimTicket, At, HandlerOK, Handler
      <4> QED
        BY <1>1, <3>1, <4>1, StepHandler DEF Pc
    <3> QED
      BY <1>1, <1>9, <3>1, EndHandler DEF ClaimTicket
  <2>2. wrong' \in [Ticket -> 0..MaxMisses]
    BY <1>1, <1>9, Constants DEF ClaimTicket, TypeOK
  <2>3. tickets' \in [Ticket -> TicketRow] /\ SpareOK'
    <3>1. CASE tickets' = tickets \/ tickets' = [tickets EXCEPT ![p].live = FALSE]
      BY <1>1, <3>1 DEF TypeOK, TicketRow, SpareOK
    <3>2. CASE tickets[p].live /\ tickets' = Missed(p)
      <4>1. tickets[p].misses + 1 \in 0..MaxMisses
        BY <1>1, <3>2, Constants DEF SpareOK, TypeOK, TicketRow
      <4> QED
        <5>1. /\ tickets'[p].live => tickets[p].misses + 1 < MaxMisses
              /\ tickets'[p].misses = tickets[p].misses + 1
              /\ tickets'[p] \in TicketRow
              /\ \A q \in Ticket \ {p} : tickets'[q] = tickets[q]
          BY <1>1, <3>2, <4>1, MissedRow DEF TypeOK
        <5>2. tickets' = [q \in Ticket |-> tickets'[q]]
          BY <1>1, <3>2 DEF Missed, TypeOK
        <5> QED
          BY <1>1, <5>1, <5>2 DEF TypeOK, SpareOK
    <3> QED
      BY <1>9, <3>1, <3>2 DEF ClaimTicket, Taken
  <2> QED
    BY <1>1, <1>9, <2>1, <2>2, <2>3 DEF ClaimTicket, TypeInv, TypeOK, HandlersOK, SpareOK
<1>10. CASE UNCHANGED vars
  BY <1>1, <1>10 DEF vars, TypeInv, TypeOK, HandlersOK, SpareOK
<1> QED
  BY <1>2, <1>3, <1>4, <1>5, <1>6, <1>7, <1>8, <1>9, <1>10 DEF Next, Progress

\* Every variable keeps its type in every behaviour.
THEOREM TypeCorrect == Spec => []TypeOK
<1>1. TypeInv => TypeOK
  BY DEF TypeInv
<1> QED
  BY <1>1, InitType, NextType, PTL DEF Spec

-----------------------------------------------------------------------------
(***************************************************************************)
(* The gate.                                                               *)
(***************************************************************************)
GateInv ==
    /\ gate => opened
    /\ \A r \in Request : req[r].op = "login" => opened

\* Only a login that found the gate open is one.
LEMMA NoNewLogin ==
    ASSUME TypeInv, GateInv, NEW r \in Request, NEW h, h.op # "login",
           req' = [req EXCEPT ![r] = h], UNCHANGED <<gate, opened>>
    PROVE  GateInv'
BY DEF TypeInv, HandlersOK, GateInv

LEMMA NextGate == TypeInv /\ GateInv /\ [Next]_vars => GateInv'
<1> SUFFICES ASSUME TypeInv, GateInv, [Next]_vars PROVE GateInv'
  OBVIOUS
<1>1. req \in [Request -> Handler]
  BY DEF TypeInv, HandlersOK
<1>2. CASE SetNewDeviceAccess \/ Tick \/ UNCHANGED vars
  <2>1. req' = req
    BY <1>2 DEF SetNewDeviceAccess, Tick, vars
  <2>2. ASSUME opened PROVE opened'
    BY <1>2, <2>2 DEF SetNewDeviceAccess, Tick, vars
  <2>3. ASSUME gate' PROVE opened'
    BY <1>2, <2>3 DEF SetNewDeviceAccess, Tick, vars, GateInv
  <2>4. ASSUME NEW r \in Request, req'[r].op = "login" PROVE opened'
    <3>1. opened
      BY <2>1, <2>4 DEF GateInv
    <3> QED
      BY <2>2, <3>1
  <2> QED
    BY <2>3, <2>4 DEF GateInv
<1>3. CASE ServerRestart
  BY <1>3 DEF ServerRestart, GateAtStart, GateInv, Idle
<1>4. ASSUME NEW r \in Request, StartLogin(r) PROVE GateInv'
  <2>1. UNCHANGED <<gate, opened>> /\ (opened \/ req'[r].op # "login")
    BY <1>1, <1>4 DEF StartLogin, GateInv, Running
  <2>2. \A q \in Request \ {r} : req'[q] = req[q]
    BY <1>1, <1>4 DEF StartLogin
  <2> QED
    BY <2>1, <2>2 DEF GateInv
<1>5. ASSUME NEW r \in Request, StartPairing(r) PROVE GateInv'
  BY <1>5, NoNewLogin DEF StartPairing, Running
<1>6. ASSUME NEW r \in Request, StartClaim(r) PROVE GateInv'
  BY <1>6, NoNewLogin DEF StartClaim, Running
<1>7. ASSUME NEW r \in Request, Progress(r) PROVE GateInv'
  <2>1. UNCHANGED <<gate, opened>>
    BY <1>7 DEF Progress, CheckRequest, CreateAppLoginSession, SaveTicket, ClaimTicket
  <2>2. CASE End(r)
    BY <2>1, <2>2, NoNewLogin DEF End, Idle
  <2>3. ASSUME NEW pc, Step(r, pc) PROVE GateInv'
    <3>1. \A q \in Request : req'[q].op = req[q].op
      BY <1>1, <2>3 DEF Step, Handler
    <3> QED
      BY <2>1, <3>1 DEF GateInv
  <2> QED
    BY <1>7, <2>2, <2>3
       DEF Progress, CheckRequest, CreateAppLoginSession, SaveTicket, ClaimTicket
<1> QED
  BY <1>2, <1>3, <1>4, <1>5, <1>6, <1>7 DEF Next

\* No device comes of /auth/login unless an administrator opened the gate since the
\* server started, wherever a restart or a closing of the gate meets the login.
THEOREM LoginsWereLetIn == Spec => LoginNeedsOpenedGate
<1>1. Init => GateInv
  BY DEF Init, GateInv, Idle
<1>2. TypeInv /\ GateInv /\ [Next]_vars => (logins' # logins => opened)
  <2> SUFFICES ASSUME GateInv, [Next]_vars, logins' # logins PROVE opened
    OBVIOUS
  <2>1. \E r \in Request : CreateAppLoginSession(r) /\ req[r].op = "login"
    BY DEF Next, Progress, vars, StartLogin, StartPairing, StartClaim, CheckRequest,
           CreateAppLoginSession, SaveTicket, ClaimTicket, SetNewDeviceAccess, ServerRestart, Tick
  <2> QED
    BY <2>1 DEF GateInv
<1> QED
  BY <1>1, <1>2, InitType, NextType, NextGate, PTL DEF Spec, LoginNeedsOpenedGate

-----------------------------------------------------------------------------
(***************************************************************************)
(* The tickets.  Between the claim and the session the only trace of a     *)
(* ticket is in the handler that took it, so the invariant speaks of both: *)
(* a live ticket is in nobody's hands and has no session, and a taken one  *)
(* is in the hands of one handler, which came before it expired.           *)
(***************************************************************************)
Holds(r, p) == req[r].ticket = p /\ req[r].pc \in {"ttl", "create"}

TicketOK(p) ==
    /\ tickets[p].live =>
        /\ p \in issued
        /\ sessions[p] = 0
        /\ wrong[p] = tickets[p].misses
    /\ p \notin issued => sessions[p] = 0 /\ wrong[p] = 0

\* A ticket about to be saved is in nobody else's hands.
SaveOK(r) ==
    At(r, "save") =>
        /\ req[r].ticket \notin issued
        /\ \A x \in Request \ {r} : req[x].ticket # req[r].ticket

ClaimOK(r) ==
    /\ req[r].at <= now
    /\ req[r].op = "claim" => req[r].ticket \in issued
    /\ \A p \in Ticket :
        Holds(r, p) =>
            /\ ~tickets[p].live
            /\ sessions[p] = 0
            /\ req[r].at < tickets[p].expiresAt
            /\ \A x \in Request : Holds(x, p) => x = r

TicketInv ==
    /\ \A p \in Ticket : TicketOK(p)
    /\ \A r \in Request : SaveOK(r) /\ ClaimOK(r)

LEMMA InitTicket == Init => TicketInv
BY Constants DEF Init, TicketInv, TicketOK, SaveOK, ClaimOK, Holds, At, Idle, NoTicket

\* A handler that ends, or is cut off, frees what it held and disturbs nobody, though it
\* may have spent a ticket.
LEMMA HandlersEnd ==
    ASSUME TypeInv, TicketInv, NEW R \in SUBSET Request,
           req' = [r \in Request |-> IF r \in R THEN Idle ELSE req[r]],
           UNCHANGED <<now, sessions, issued>>,
           \A p \in Ticket : TicketOK(p)',
           \A p \in Ticket : /\ tickets'[p].live => tickets[p].live
                            /\ tickets'[p].expiresAt = tickets[p].expiresAt
    PROVE  TicketInv'
<1>1. \A p \in Ticket : TicketOK(p)'
  OBVIOUS
<1>2. \A r \in Request : req'[r] = IF r \in R THEN Idle ELSE req[r]
  OBVIOUS
<1>3. \A r \in Request, p \in Ticket : Holds(r, p)' => Holds(r, p) /\ r \notin R
  BY <1>2 DEF Holds, Idle
<1>4. now \in Nat
  BY Constants DEF TypeInv, TypeOK, Time
<1>5. ASSUME NEW r \in Request PROVE SaveOK(r)'
  <2>1. CASE r \in R
    BY <1>2, <2>1 DEF SaveOK, At, Idle
  <2>2. CASE r \notin R
    <3> SUFFICES ASSUME At(r, "save") PROVE SaveOK(r)'
      BY <1>2, <2>2 DEF SaveOK, At
    <3>1. req[r].ticket \in Ticket
      BY DEF TypeInv, HandlersOK, HandlerOK, At
    <3>2. \A x \in Request \ {r} : req[x].ticket # req[r].ticket
      BY DEF TicketInv, SaveOK
    <3>3. \A x \in Request : req'[x].ticket \in {None, req[x].ticket}
      BY <1>2 DEF Idle
    <3>4. \A x \in Request \ {r} : req'[x].ticket # req[r].ticket
      BY <3>1, <3>2, <3>3, Constants
    <3> QED
      BY <1>2, <2>2, <3>4 DEF TicketInv, SaveOK, At
  <2> QED
    BY <2>1, <2>2
<1>6. ASSUME NEW r \in Request PROVE ClaimOK(r)'
  <2>1. req'[r].at <= now
    BY <1>2, <1>4 DEF Idle, TicketInv, ClaimOK
  <2>2. req'[r].op = "claim" => req'[r].ticket \in issued
    BY <1>2 DEF Idle, TicketInv, ClaimOK
  <2>3. \A p \in Ticket : Holds(r, p)' => Holds(r, p) /\ req'[r] = req[r]
    BY <1>2, <1>3
  <2> QED
    BY <1>3, <2>1, <2>2, <2>3 DEF TicketInv, ClaimOK
<1> QED
  BY <1>1, <1>5, <1>6 DEF TicketInv

LEMMA NextTicket == TypeInv /\ TicketInv /\ [Next]_vars => TicketInv'
<1> SUFFICES ASSUME TypeInv, TicketInv, [Next]_vars PROVE TicketInv'
  OBVIOUS
<1>1. TypeOK /\ HandlersOK /\ SpareOK /\ \A r \in Request : req[r] \in Handler /\ HandlerOK(req[r])
  BY DEF TypeInv, HandlersOK
<1>2. \A p \in Ticket : TicketOK(p)
  BY DEF TicketInv
<1>3. \A r \in Request : SaveOK(r) /\ ClaimOK(r)
  BY DEF TicketInv
<1>4. now \in Nat /\ \A r \in Request : req[r].at \in Nat
  BY <1>1, Constants DEF TypeOK, Handler, Time
<1>5. CASE SetNewDeviceAccess \/ Tick \/ UNCHANGED vars
  <2>1. now <= now' /\ UNCHANGED <<tickets, req, sessions, wrong, issued>>
    BY <1>4, <1>5 DEF SetNewDeviceAccess, Tick, vars
  <2>2. now' \in Nat
    BY <1>4, <1>5 DEF SetNewDeviceAccess, Tick, vars
  <2>3. \A p \in Ticket : TicketOK(p)'
    BY <1>2, <2>1 DEF TicketOK
  <2>4. \A r \in Request : SaveOK(r)'
    BY <1>3, <2>1 DEF SaveOK, At
  <2>5. \A r \in Request : req'[r].at <= now'
    BY <1>3, <1>4, <2>1, <2>2 DEF ClaimOK
  <2>6. \A r \in Request : ClaimOK(r)'
    BY <1>3, <2>1, <2>5 DEF ClaimOK, Holds
  <2> QED
    BY <2>3, <2>4, <2>6 DEF TicketInv
<1>6. CASE ServerRestart
  <2>1. /\ UNCHANGED <<now, sessions, wrong, issued>>
        /\ \A r \in Request : req'[r] = Idle
        /\ \A p \in Ticket : ~tickets'[p].live
    BY <1>1, <1>6 DEF ServerRestart, TypeOK, TicketRow
  <2>2. \A p \in Ticket : TicketOK(p)'
    BY <1>2, <2>1 DEF TicketOK
  <2>3. \A r \in Request : SaveOK(r)' /\ ClaimOK(r)'
    BY <1>4, <2>1 DEF SaveOK, ClaimOK, At, Holds, Idle
  <2> QED
    BY <2>2, <2>3 DEF TicketInv
\* A handler takes up a request: what it has in hand it holds no ticket with.
<1> DEFINE Opens(r, h) == /\ req' = [req EXCEPT ![r] = h]
                          /\ UNCHANGED <<now, tickets, sessions, wrong, issued>>
                          /\ h.pc \notin {"ttl", "create"}
                          /\ h.at <= now
                          /\ h.op = "claim" => h.ticket \in issued
                          /\ h.pc = "save" =>
                               h.ticket \notin issued /\ \A x \in Request : req[x].ticket # h.ticket
                          /\ h.ticket \in issued \cup {None} \/ h.pc = "save"
<1>7. ASSUME NEW r \in Request, NEW h, Opens(r, h) PROVE TicketInv'
  <2>1. req'[r] = h /\ \A x \in Request \ {r} : req'[x] = req[x]
    BY <1>1, <1>7 DEF HandlersOK
  <2>2. \A p \in Ticket : TicketOK(p)'
    BY <1>2, <1>7 DEF TicketOK
  <2>3. \A x \in Request, p \in Ticket : Holds(x, p)' => Holds(x, p) /\ x # r
    BY <1>7, <2>1 DEF Holds
  <2>4. SaveOK(r)'
    BY <1>7, <2>1 DEF SaveOK, At
  <2>5. ASSUME NEW x \in Request \ {r} PROVE SaveOK(x)'
    <3> SUFFICES ASSUME At(x, "save") PROVE SaveOK(x)'
      BY <2>1 DEF SaveOK, At
    <3>1. req[x].ticket \in Ticket /\ req[x].ticket \notin issued
      BY <1>1, <1>3 DEF HandlerOK, At, SaveOK
    <3>2. h.ticket # req[x].ticket
      BY <1>7, <3>1, Constants
    <3> QED
      BY <1>3, <1>7, <2>1, <3>2 DEF SaveOK, At
  <2>6. \A x \in Request : ClaimOK(x)'
    BY <1>3, <1>7, <2>1, <2>3 DEF ClaimOK
  <2> QED
    BY <2>2, <2>4, <2>5, <2>6 DEF TicketInv
<1>8. ASSUME NEW r \in Request, StartLogin(r) PROVE TicketInv'
  <2> PICK op \in {"login", "issue"} :
        req' = [req EXCEPT ![r] = Running(op, "password", None, 0, FALSE)]
    BY <1>8 DEF StartLogin
  <2>1. Opens(r, Running(op, "password", None, 0, FALSE))
    BY <1>4, <1>8 DEF StartLogin, Running
  <2> QED
    BY <1>7, <2>1
<1>9. ASSUME NEW r \in Request, StartPairing(r) PROVE TicketInv'
  <2> PICK p \in Ticket \ issued :
        /\ \A x \in Request : req[x].ticket # p
        /\ req' = [req EXCEPT ![r] = Running("start", "save", p, now, FALSE)]
    BY <1>9 DEF StartPairing
  <2>1. Opens(r, Running("start", "save", p, now, FALSE))
    BY <1>4, <1>9 DEF StartPairing, Running
  <2> QED
    BY <1>7, <2>1
<1>10. ASSUME NEW r \in Request, StartClaim(r) PROVE TicketInv'
  <2> PICK p \in issued, right \in BOOLEAN :
        req' = [req EXCEPT ![r] = Running("claim", "take", p, now, right)]
    BY <1>10 DEF StartClaim
  <2>1. Opens(r, Running("claim", "take", p, now, right))
    BY <1>4, <1>10 DEF StartClaim, Running
  <2> QED
    BY <1>7, <2>1
\* A handler ends: nobody else is disturbed.
<1>11. ASSUME NEW r \in Request, End(r), UNCHANGED <<now, tickets, sessions, wrong, issued>>
       PROVE  TicketInv'
  <2>1. req' = [x \in Request |-> IF x \in {r} THEN Idle ELSE req[x]]
    BY <1>1, <1>11 DEF End, HandlersOK
  <2>2. \A p \in Ticket : TicketOK(p)'
    BY <1>2, <1>11 DEF TicketOK
  <2> QED
    BY <1>11, <2>1, <2>2, HandlersEnd
\* Whoever holds a ticket came with a claim.
<1>12. \A x \in Request, q \in Ticket : Holds(x, q) => q \in issued /\ ~At(x, "save")
  BY <1>1, <1>3 DEF Holds, At, HandlerOK, ClaimOK
<1>13. ASSUME NEW r \in Request, CheckRequest(r) PROVE TicketInv'
  <2>1. UNCHANGED <<now, tickets, sessions, wrong, issued>>
    BY <1>13 DEF CheckRequest
  <2>2. CASE Step(r, "create")
    <3>1. /\ req'[r].pc = "create" /\ req'[r].ticket = req[r].ticket
          /\ req'[r].op = req[r].op /\ req'[r].at = req[r].at
          /\ \A x \in Request \ {r} : req'[x] = req[x]
      BY <1>1, <2>2 DEF Step, HandlersOK, Handler
    <3>2. ASSUME NEW p \in Ticket PROVE Holds(r, p)' => Holds(r, p)
      BY <1>1, <1>13, <3>1 DEF CheckRequest, HandlerOK, Holds
    <3>3. \A x \in Request, p \in Ticket : Holds(x, p)' => Holds(x, p)
      BY <3>1, <3>2 DEF Holds
    <3>4. \A x \in Request : SaveOK(x)'
      BY <1>3, <2>1, <3>1 DEF SaveOK, At
    <3>5. \A x \in Request : ClaimOK(x)'
      BY <1>3, <2>1, <3>1, <3>3 DEF ClaimOK
    <3> QED
      BY <1>2, <2>1, <3>4, <3>5 DEF TicketInv, TicketOK
  <2> QED
    BY <1>11, <1>13, <2>1, <2>2 DEF CheckRequest
<1>14. ASSUME NEW r \in Request, CreateAppLoginSession(r) PROVE TicketInv'
  <2>1. UNCHANGED <<now, tickets, wrong, issued>> /\ End(r)
    BY <1>14 DEF CreateAppLoginSession
  <2>2. CASE UNCHANGED sessions
    BY <1>11, <2>1, <2>2
  <2>3. CASE req[r].op = "claim" /\ sessions' = [sessions EXCEPT ![req[r].ticket] = @ + 1]
    <3> PICK p \in Ticket : p = req[r].ticket
      BY <1>1, <2>3 DEF HandlerOK
    <3>1. Holds(r, p)
      BY <1>14 DEF CreateAppLoginSession, At, Holds
    <3>2. \A q \in Ticket \ {p} : sessions'[q] = sessions[q]
      BY <1>1, <2>3 DEF TypeOK
    <3>3. req'[r] = Idle /\ \A x \in Request \ {r} : req'[x] = req[x]
      BY <1>1, <2>1 DEF End, HandlersOK
    <3>4. ASSUME NEW q \in Ticket PROVE TicketOK(q)'
      <4>1. CASE q = p
        BY <1>3, <1>12, <2>1, <3>1, <4>1 DEF TicketOK, ClaimOK
      <4>2. CASE q # p
        BY <1>2, <2>1, <3>2, <4>2 DEF TicketOK
      <4> QED
        BY <4>1, <4>2
    <3>5. ASSUME NEW x \in Request PROVE SaveOK(x)'
      <4>1. CASE x = r
        BY <3>3, <4>1 DEF SaveOK, At, Idle
      <4>2. CASE x # r
        <5> SUFFICES ASSUME At(x, "save") PROVE SaveOK(x)'
          BY <3>3, <4>2 DEF SaveOK, At
        <5>1. req[x].ticket \in Ticket
          BY <1>1 DEF HandlerOK, At
        <5> QED
          BY <1>3, <2>1, <3>3, <4>2, <5>1, Constants DEF SaveOK, At, Idle
      <4> QED
        BY <4>1, <4>2
    <3>6. \A x \in Request, q \in Ticket : Holds(x, q)' => Holds(x, q) /\ x # r /\ q # p
      <4>1. \A x \in Request, q \in Ticket : Holds(x, q)' => Holds(x, q) /\ x # r
        BY <3>3 DEF Holds, Idle
      <4> QED
        BY <1>3, <3>1, <4>1 DEF ClaimOK
    <3>7. ASSUME NEW x \in Request PROVE ClaimOK(x)'
      <4>1. req'[x].at <= now /\ (req'[x].op = "claim" => req'[x].ticket \in issued)
        BY <1>3, <1>4, <3>3 DEF ClaimOK, Idle
      <4>2. ASSUME NEW q \in Ticket, Holds(x, q)'
            PROVE  /\ ~tickets[q].live
                   /\ sessions'[q] = 0
                   /\ req'[x].at < tickets[q].expiresAt
                   /\ \A y \in Request : Holds(y, q)' => y = x
        BY <1>3, <3>2, <3>3, <3>6, <4>2 DEF ClaimOK
      <4> QED
        BY <2>1, <4>1, <4>2 DEF ClaimOK
    <3> QED
      BY <3>4, <3>5, <3>7 DEF TicketInv
  <2> QED
    BY <1>14, <2>2, <2>3 DEF CreateAppLoginSession
<1>15. ASSUME NEW r \in Request, SaveTicket(r) PROVE TicketInv'
  <2> PICK p \in Ticket : p = req[r].ticket
    BY <1>1, <1>15 DEF SaveTicket, At, HandlerOK
  <2>1. UNCHANGED <<now, sessions, wrong>> /\ End(r) /\ issued' = issued \cup {p}
    BY <1>15 DEF SaveTicket
  <2>2. req'[r] = Idle /\ \A x \in Request \ {r} : req'[x] = req[x]
    BY <1>1, <2>1 DEF End, HandlersOK
  <2>3. p \notin issued /\ \A x \in Request \ {r} : req[x].ticket # p
    BY <1>3, <1>15 DEF SaveTicket, SaveOK
  <2>4. tickets'[p].misses = 0
    BY <1>15 DEF SaveTicket
  <2>5. \A q \in Ticket \ {p} :
          /\ tickets'[q].live => tickets[q].live
          /\ tickets'[q].misses = tickets[q].misses
          /\ tickets'[q].expiresAt = tickets[q].expiresAt
    BY <1>1, <1>15 DEF SaveTicket, TypeOK, TicketRow
  <2>6. ASSUME NEW q \in Ticket PROVE TicketOK(q)'
    BY <1>2, <2>1, <2>3, <2>4, <2>5 DEF TicketOK
  <2>7. ASSUME NEW x \in Request PROVE SaveOK(x)'
    <3>1. CASE x = r
      BY <2>2, <3>1 DEF SaveOK, At, Idle
    <3>2. CASE x # r
      <4> SUFFICES ASSUME At(x, "save") PROVE SaveOK(x)'
        BY <2>2, <3>2 DEF SaveOK, At
      <4>1. req[x].ticket \in Ticket /\ req[x].ticket # p
        BY <1>1, <2>3, <3>2 DEF HandlerOK, At
      <4> QED
        BY <1>3, <2>1, <2>2, <3>2, <4>1, Constants DEF SaveOK, At, Idle
    <3> QED
      BY <3>1, <3>2
  <2>8. \A x \in Request, q \in Ticket : Holds(x, q)' => Holds(x, q) /\ x # r /\ q # p
    BY <1>12, <2>2, <2>3 DEF Holds, Idle
  <2>9. ASSUME NEW x \in Request PROVE ClaimOK(x)'
    <3>1. req'[x].at <= now /\ (req'[x].op = "claim" => req'[x].ticket \in issued')
      BY <1>3, <1>4, <2>1, <2>2 DEF ClaimOK, Idle
    <3>2. ASSUME NEW q \in Ticket, Holds(x, q)'
          PROVE  /\ ~tickets'[q].live
                 /\ sessions[q] = 0
                 /\ req'[x].at < tickets'[q].expiresAt
                 /\ \A y \in Request : Holds(y, q)' => y = x
      BY <1>3, <2>2, <2>5, <2>8, <3>2 DEF ClaimOK
    <3> QED
      BY <2>1, <3>1, <3>2 DEF ClaimOK
  <2> QED
    BY <2>6, <2>7, <2>9 DEF TicketInv
<1>16. ASSUME NEW r \in Request, ClaimTicket(r) PROVE TicketInv'
  <2> PICK p \in Ticket : p = req[r].ticket
    BY <1>1, <1>16 DEF ClaimTicket, At, HandlerOK
  <2>1. UNCHANGED <<now, sessions, issued>>
    BY <1>16 DEF ClaimTicket
  <2>2. req' = [x \in Request |-> IF x \in {r} THEN Idle ELSE req[x]] <=> End(r)
    BY <1>1 DEF End, HandlersOK
  <2>3. CASE End(r) /\ UNCHANGED <<tickets, wrong>>
    BY <1>11, <2>1, <2>3
  <2>4. CASE End(r) /\ UNCHANGED wrong /\ tickets' = [tickets EXCEPT ![p].live = FALSE]
    <3>1. /\ ~tickets'[p].live /\ tickets'[p].expiresAt = tickets[p].expiresAt
          /\ \A q \in Ticket \ {p} : tickets'[q] = tickets[q]
      BY <1>1, <2>4 DEF TypeOK, TicketRow
    <3>2. \A q \in Ticket : TicketOK(q)'
      BY <1>2, <2>1, <2>4, <3>1 DEF TicketOK
    <3> QED
      BY <2>1, <2>2, <2>4, <3>1, <3>2, HandlersEnd
  <2>5. CASE /\ End(r) /\ tickets[p].live /\ tickets' = Missed(p)
             /\ wrong' = [wrong EXCEPT ![p] = IF @ < MaxMisses THEN @ + 1 ELSE @]
    <3>1. tickets[p].misses + 1 \in 0..MaxMisses
      BY <1>1, <2>5, Constants DEF SpareOK, TypeOK, TicketRow
    <3>2. /\ tickets'[p].misses = tickets[p].misses + 1
          /\ tickets'[p].expiresAt = tickets[p].expiresAt
          /\ \A q \in Ticket \ {p} : tickets'[q] = tickets[q]
      BY <1>1, <2>5, <3>1, MissedRow DEF TypeOK
    <3>3. wrong[p] = tickets[p].misses /\ p \in issued /\ tickets[p].misses < MaxMisses
      BY <1>1, <1>2, <2>5 DEF TicketOK, SpareOK
    <3>4. wrong'[p] = tickets[p].misses + 1 /\ \A q \in Ticket \ {p} : wrong'[q] = wrong[q]
      BY <1>1, <2>5, <3>3 DEF TypeOK
    <3>5. ASSUME NEW q \in Ticket PROVE TicketOK(q)'
      <4>1. CASE q = p
        BY <1>2, <2>1, <2>5, <3>2, <3>3, <3>4, <4>1 DEF TicketOK
      <4>2. CASE q # p
        BY <1>2, <2>1, <3>2, <3>4, <4>2 DEF TicketOK
      <4> QED
        BY <4>1, <4>2
    <3> QED
      BY <2>1, <2>2, <2>5, <3>2, <3>5, HandlersEnd
  <2>6. CASE /\ Step(r, "ttl") /\ UNCHANGED wrong /\ tickets' = Taken(p)
             /\ tickets[p].live /\ ~Expired(p, req[r].at)
    <3>1. /\ ~tickets'[p].live /\ tickets'[p].expiresAt = tickets[p].expiresAt
          /\ \A q \in Ticket \ {p} : tickets'[q] = tickets[q]
      BY <1>1, <2>6 DEF Taken, TypeOK, TicketRow
    <3>2. \A q \in Ticket : TicketOK(q)'
      BY <1>2, <2>1, <2>6, <3>1 DEF TicketOK
    <3>3. /\ req'[r].pc = "ttl" /\ req'[r].ticket = p /\ req'[r].at = req[r].at
          /\ \A x \in Request \ {r} : req'[x] = req[x]
      BY <1>1, <2>6 DEF Step, HandlersOK, Handler
    <3>4. tickets[p].expiresAt \in Nat
      BY <1>1, Constants DEF TypeOK, TicketRow
    <3>5. req[r].at < tickets[p].expiresAt
      BY <1>4, <2>6, <3>4 DEF Expired
    <3>6. p \in issued /\ sessions[p] = 0
      BY <1>2, <2>6 DEF TicketOK
    <3>7. \A x \in Request, q \in Ticket :
            Holds(x, q)' => (x = r /\ q = p) \/ (x # r /\ q # p /\ Holds(x, q))
      BY <1>3, <2>6, <3>3 DEF Holds, ClaimOK
    <3>8. ASSUME NEW x \in Request PROVE SaveOK(x)'
      BY <1>3, <2>1, <3>3 DEF SaveOK, At
    <3>9. ASSUME NEW x \in Request PROVE ClaimOK(x)'
      <4>1. req'[x].at <= now /\ (req'[x].op = "claim" => req'[x].ticket \in issued)
        BY <1>3, <3>3, <3>6 DEF ClaimOK
      <4>2. ASSUME NEW q \in Ticket, Holds(x, q)'
            PROVE  /\ ~tickets'[q].live
                   /\ sessions[q] = 0
                   /\ req'[x].at < tickets'[q].expiresAt
                   /\ \A y \in Request : Holds(y, q)' => y = x
        <5>1. CASE x = r /\ q = p
          BY <3>1, <3>3, <3>5, <3>6, <3>7, <5>1
        <5>2. CASE x # r /\ q # p /\ Holds(x, q)
          BY <1>3, <3>1, <3>3, <3>7, <5>2 DEF ClaimOK
        <5> QED
          BY <3>7, <4>2, <5>1, <5>2
      <4> QED
        BY <2>1, <4>1, <4>2 DEF ClaimOK
    <3> QED
      BY <3>2, <3>8, <3>9 DEF TicketInv
  <2> QED
    BY <1>16, <2>3, <2>4, <2>5, <2>6 DEF ClaimTicket
<1> QED
  BY <1>5, <1>6, <1>8, <1>9, <1>10, <1>13, <1>14, <1>15, <1>16 DEF Next, Progress

\* After the last wrong secret allowed, the right one no longer helps, however many
\* handlers guess and claim at once.
THEOREM MissesSpend == Spec => []MissesSpendTheTicket
<1>1. TypeInv /\ TicketInv => MissesSpendTheTicket
  <2> SUFFICES ASSUME TypeInv, TicketInv, NEW p \in Ticket, tickets[p].live
               PROVE  ~(wrong[p] >= MaxMisses)
    BY DEF MissesSpendTheTicket
  <2>1. wrong[p] = tickets[p].misses /\ tickets[p].misses < MaxMisses
    BY DEF TypeInv, SpareOK, TicketInv, TicketOK
  <2>2. wrong[p] \in Nat
    BY Constants DEF TypeInv, TypeOK
  <2> QED
    BY <2>1, <2>2, Constants
<1> QED
  BY <1>1, InitType, NextType, InitTicket, NextTicket, PTL DEF Spec

\* A session is made by a handler that holds the ticket, or for no ticket at all.
LEMMA SessionStep ==
    ASSUME TypeInv, [Next]_vars, NEW p \in Ticket, sessions'[p] # sessions[p]
    PROVE  \E r \in Request : CreateAppLoginSession(r) /\ Holds(r, p)
<1>1. PICK r \in Request : CreateAppLoginSession(r) /\ sessions' # sessions
  BY DEF Next, Progress, vars, StartLogin, StartPairing, StartClaim, CheckRequest,
         CreateAppLoginSession, SaveTicket, ClaimTicket, SetNewDeviceAccess, ServerRestart, Tick
<1>2. sessions' = [sessions EXCEPT ![req[r].ticket] = @ + 1] /\ At(r, "create")
  BY <1>1 DEF CreateAppLoginSession
<1>3. req[r].ticket = p
  BY <1>2 DEF TypeInv, TypeOK
<1> QED
  BY <1>1, <1>2, <1>3 DEF Holds, At

\* A claim received at or after the ticket's expiry gets no session, whoever gets the
\* lock when.
THEOREM NoLateSession == Spec => NoSessionAfterExpiry
<1>1. TypeInv /\ TicketInv /\ [Next]_vars =>
        \A p \in Ticket :
            sessions'[p] # sessions[p] =>
                \E r \in Request : req[r].ticket = p /\ req[r].at < tickets[p].expiresAt
  <2> SUFFICES ASSUME TypeInv, TicketInv, [Next]_vars, NEW p \in Ticket,
                      sessions'[p] # sessions[p]
               PROVE  \E r \in Request : req[r].ticket = p /\ req[r].at < tickets[p].expiresAt
    OBVIOUS
  <2> PICK r \in Request : Holds(r, p)
    BY SessionStep
  <2> QED
    BY DEF TicketInv, ClaimOK, Holds
<1> QED
  BY <1>1, InitType, NextType, InitTicket, NextTicket, PTL DEF Spec, NoSessionAfterExpiry

\* A ticket goes because it expired, was guessed at too often, was claimed with its
\* secret, or was lost with the server: never because another ticket was saved.
LEMMA DeathStep ==
    ASSUME TypeInv, TicketInv, [Next]_vars, NEW p \in Ticket,
           tickets[p].live, ~tickets'[p].live
    PROVE  \/ tickets[p].expiresAt <= now
           \/ wrong'[p] = MaxMisses
           \/ \E r \in Request : req[r].ticket = p /\ req[r].right /\ At(r, "take")
           \/ ServerRestart
<1>1. tickets \in [Ticket -> TicketRow] /\ tickets[p].expiresAt \in Nat /\ now \in Nat
  BY Constants DEF TypeInv, TypeOK, TicketRow, Time
<1>2. \A r \in Request : req[r].at \in Nat /\ req[r].at <= now
  BY Constants DEF TypeInv, HandlersOK, Handler, Time, TicketInv, ClaimOK
<1>3. \A r \in Request : Expired(p, req[r].at) => tickets[p].expiresAt <= now
  BY <1>1, <1>2 DEF Expired
<1>4. CASE ServerRestart
  BY <1>4
<1>5. ASSUME NEW r \in Request, SaveTicket(r) PROVE tickets[p].expiresAt <= now
  BY <1>1, <1>3, <1>5 DEF SaveTicket
<1>6. ASSUME NEW r \in Request, ClaimTicket(r)
      PROVE  \/ tickets[p].expiresAt <= now
             \/ wrong'[p] = MaxMisses
             \/ req[r].ticket = p /\ req[r].right /\ At(r, "take")
  <2> PICK q \in Ticket : q = req[r].ticket
    BY <1>6 DEF ClaimTicket, TypeInv, HandlersOK, HandlerOK, At
  <2>1. CASE UNCHANGED tickets
    BY <2>1
  <2>2. CASE tickets' = [tickets EXCEPT ![q].live = FALSE] /\ Expired(q, req[r].at)
    <3>1. q = p
      BY <1>1, <2>2
    <3> QED
      BY <1>3, <2>2, <3>1
  <2>3. CASE /\ tickets[q].live /\ tickets' = Missed(q)
             /\ wrong' = [wrong EXCEPT ![q] = IF @ < MaxMisses THEN @ + 1 ELSE @]
    <3>1. tickets[q].misses + 1 \in 0..MaxMisses /\ tickets[q].misses < MaxMisses
      BY <2>3, Constants DEF TypeInv, SpareOK, TypeOK, TicketRow
    <3>2. q = p
      BY <1>1, <2>3, <3>1, MissedRow
    <3>3. tickets[p].misses + 1 >= MaxMisses
      BY <1>1, <2>3, <3>1, <3>2, MissedRow
    <3>4. wrong[p] = tickets[p].misses /\ wrong \in [Ticket -> 0..MaxMisses]
      BY DEF TicketInv, TicketOK, TypeInv, TypeOK
    <3>5. wrong'[p] = tickets[p].misses + 1
      BY <2>3, <3>1, <3>2, <3>4
    <3>6. tickets[p].misses + 1 = MaxMisses
      BY <3>1, <3>2, <3>3, Constants
    <3> QED
      BY <3>5, <3>6
  <2>4. CASE tickets' = Taken(q) /\ req[r].right
    <3>1. q = p
      BY <1>1, <2>4 DEF Taken
    <3> QED
      BY <1>6, <2>4, <3>1 DEF ClaimTicket
  <2> QED
    BY <1>6, <2>1, <2>2, <2>3, <2>4 DEF ClaimTicket
<1>7. CASE UNCHANGED tickets
  BY <1>7
<1> QED
  BY <1>4, <1>5, <1>6, <1>7
     DEF Next, Progress, vars, StartLogin, StartPairing, StartClaim, CheckRequest,
         CreateAppLoginSession, SetNewDeviceAccess, Tick

\* A ticket nobody claimed and nobody guessed at works until it expires, unless the
\* server restarts, whatever other tickets are saved and claimed meanwhile.
THEOREM DeathHasAReason == Spec => TicketDiesForAReason
<1>1. TypeInv /\ TicketInv /\ [Next]_vars =>
        \A p \in Ticket :
            tickets[p].live /\ ~tickets'[p].live =>
                \/ tickets[p].expiresAt <= now
                \/ wrong'[p] = MaxMisses
                \/ \E r \in Request : req[r].ticket = p /\ req[r].right /\ At(r, "take")
                \/ ServerRestart
  BY DeathStep
<1> QED
  BY <1>1, InitType, NextType, InitTicket, NextTicket, PTL DEF Spec, TicketDiesForAReason

-----------------------------------------------------------------------------
(***************************************************************************)
(* The tickets implement OneTimeTicket: every step of the handlers is one  *)
(* of its steps or leaves its state alone.                                 *)
(***************************************************************************)
ticketStates == [p \in Ticket |-> TicketState(p)]

\* Steps of OneTimeTicket, ticket by ticket.
LEMMA LoseStep ==
    ASSUME NEW P \in SUBSET Ticket,
           \A p \in P : TicketState(p) \in {"open", "taken"} /\ TicketState(p)' = "dead",
           \A p \in Ticket \ P : TicketState(p)' = TicketState(p)
    PROVE  Abstract!Next
<1>1. Abstract!Lose
  BY DEF Abstract!Lose, Abstract!Die, Abstract!After
<1> QED
  BY <1>1 DEF Abstract!Next

LEMMA IssueStep ==
    ASSUME NEW p \in Ticket, TicketState(p) = "unissued", TicketState(p)' = "open",
           NEW P \in SUBSET (Ticket \ {p}),
           \A q \in P : TicketState(q) \in {"open", "taken"} /\ TicketState(q)' = "dead",
           \A q \in Ticket \ (P \cup {p}) : TicketState(q)' = TicketState(q)
    PROVE  Abstract!Next
<1>1. Abstract!Issue(p)
  BY DEF Abstract!Issue, Abstract!Die, Abstract!After
<1> QED
  BY <1>1 DEF Abstract!Next

LEMMA TakeStep ==
    ASSUME NEW p \in Ticket, TicketState(p) = "open", TicketState(p)' = "taken",
           \A q \in Ticket \ {p} : TicketState(q)' = TicketState(q)
    PROVE  Abstract!Next
<1>1. Abstract!Take(p)
  BY DEF Abstract!Take
<1> QED
  BY <1>1 DEF Abstract!Next

LEMMA UseStep ==
    ASSUME NEW p \in Ticket, TicketState(p) = "taken", TicketState(p)' = "used",
           \A q \in Ticket \ {p} : TicketState(q)' = TicketState(q)
    PROVE  Abstract!Next
<1>1. Abstract!Use(p)
  BY DEF Abstract!Use
<1> QED
  BY <1>1 DEF Abstract!Next

\* What a ticket's state depends on.
Held(p) == \E r \in Request : Holds(r, p)

LEMMA StateOf ==
    \A p \in Ticket :
        TicketState(p) = IF tickets[p].live THEN "open"
                         ELSE IF p \notin issued THEN "unissued"
                         ELSE IF Held(p) THEN "taken"
                         ELSE IF sessions[p] = 0 THEN "dead"
                         ELSE "used"
BY DEF TicketState, Held, Holds

LEMMA SameState ==
    ASSUME NEW p \in Ticket, tickets'[p].live <=> tickets[p].live,
           p \in issued' <=> p \in issued, sessions'[p] = sessions[p],
           Held(p)' <=> Held(p)
    PROVE  TicketState(p)' = TicketState(p)
BY StateOf DEF TicketState, Held, Holds

LEMMA InitAbstract == Init => Abstract!Init
BY DEF Init, Abstract!Init, TicketState, NoTicket

LEMMA NextAbstract ==
    ASSUME TypeInv, TicketInv, [Next]_vars
    PROVE  Abstract!Next \/ UNCHANGED ticketStates
<1>1. TypeOK /\ HandlersOK /\ \A r \in Request : req[r] \in Handler /\ HandlerOK(req[r])
  BY DEF TypeInv, HandlersOK
<1>2. \A p \in Ticket : TicketOK(p)
  BY DEF TicketInv
<1>3. \A r \in Request : SaveOK(r) /\ ClaimOK(r)
  BY DEF TicketInv
\* Steps that leave alone what the tickets' states depend on.
<1>4. (\A p \in Ticket : TicketState(p)' = TicketState(p)) => UNCHANGED ticketStates
  BY DEF ticketStates
<1>5. ASSUME UNCHANGED <<tickets, sessions, issued>>,
             \A r \in Request, p \in Ticket : Holds(r, p)' <=> Holds(r, p)
      PROVE  UNCHANGED ticketStates
  <2>1. \A p \in Ticket : Held(p)' <=> Held(p)
    BY <1>5 DEF Held
  <2>2. \A p \in Ticket : TicketState(p)' = TicketState(p)
    BY <1>5, <2>1, SameState
  <2> QED
    BY <1>4, <2>2
\* A handler that holds a ticket gives it up without a session.
<1>6. ASSUME NEW r \in Request, End(r), UNCHANGED <<tickets, sessions, issued>>
      PROVE  Abstract!Next \/ UNCHANGED ticketStates
  <2>1. req'[r] = Idle /\ \A x \in Request \ {r} : req'[x] = req[x]
    BY <1>1, <1>6 DEF End, HandlersOK
  <2>2. \A x \in Request, p \in Ticket : Holds(x, p)' <=> Holds(x, p) /\ x # r
    BY <2>1 DEF Holds, Idle
  <2>3. CASE \A p \in Ticket : ~Holds(r, p)
    BY <1>5, <1>6, <2>2, <2>3
  <2>4. ASSUME NEW p \in Ticket, Holds(r, p) PROVE Abstract!Next
    <3>1. /\ ~tickets[p].live /\ sessions[p] = 0 /\ p \in issued
          /\ \A x \in Request : Holds(x, p) => x = r
      BY <1>1, <1>2, <1>3, <2>4 DEF ClaimOK, Holds, HandlerOK
    <3>2. TicketState(p) = "taken"
      BY <2>4, <3>1, StateOf DEF Held
    <3>3. ~Held(p)'
      BY <2>2, <3>1 DEF Held
    <3>4. TicketState(p)' = "dead"
      BY <1>6, <3>1, <3>3 DEF TicketState, Held, Holds
    <3>5. ASSUME NEW q \in Ticket \ {p} PROVE TicketState(q)' = TicketState(q)
      <4>1. Held(q)' <=> Held(q)
        BY <2>2, <2>4 DEF Held, Holds
      <4> QED
        BY <1>6, <4>1, SameState
    <3> QED
      BY <3>2, <3>4, <3>5, LoseStep
  <2> QED
    BY <2>3, <2>4
<1>7. CASE SetNewDeviceAccess \/ Tick \/ UNCHANGED vars
  BY <1>5, <1>7 DEF SetNewDeviceAccess, Tick, vars, Holds
<1>8. CASE ServerRestart
  <2>1. /\ UNCHANGED <<sessions, issued>>
        /\ \A p \in Ticket : ~tickets'[p].live
        /\ \A x \in Request, p \in Ticket : ~Holds(x, p)'
    BY <1>1, <1>8 DEF ServerRestart, TypeOK, TicketRow, Holds, Idle
  <2> DEFINE P == {p \in Ticket : tickets[p].live \/ Held(p)}
  <2>2. ASSUME NEW p \in P PROVE TicketState(p) \in {"open", "taken"} /\ TicketState(p)' = "dead"
    <3>1. p \in issued /\ sessions[p] = 0
      BY <1>1, <1>2, <1>3 DEF TicketOK, ClaimOK, Held, Holds, HandlerOK
    <3>2. TicketState(p) \in {"open", "taken"}
      BY <3>1, StateOf
    <3> QED
      BY <2>1, <3>1, <3>2 DEF TicketState, Held, Holds
  <2>3. ASSUME NEW p \in Ticket \ P PROVE TicketState(p)' = TicketState(p)
    <3>1. ~Held(p) /\ ~Held(p)' /\ ~tickets[p].live
      BY <2>1 DEF Held
    <3> QED
      BY <2>1, <3>1, SameState
  <2> QED
    BY <2>2, <2>3, LoseStep
<1>9. ASSUME NEW r \in Request, StartLogin(r) \/ StartPairing(r) \/ StartClaim(r)
      PROVE  UNCHANGED ticketStates
  <2>1. /\ UNCHANGED <<tickets, sessions, issued>>
        /\ req[r].pc = "idle" /\ req'[r].pc \in {"password", "save", "take"}
        /\ \A x \in Request \ {r} : req'[x] = req[x]
    BY <1>1, <1>9 DEF StartLogin, StartPairing, StartClaim, Running, At, HandlersOK
  <2>2. \A x \in Request, p \in Ticket : Holds(x, p)' <=> Holds(x, p)
    BY <2>1 DEF Holds
  <2> QED
    BY <1>5, <2>1, <2>2
<1>10. ASSUME NEW r \in Request, CheckRequest(r) PROVE Abstract!Next \/ UNCHANGED ticketStates
  <2>1. UNCHANGED <<tickets, sessions, issued>>
    BY <1>10 DEF CheckRequest
  <2>2. CASE Step(r, "create")
    <3>1. /\ req'[r].pc = "create" /\ req'[r].ticket = req[r].ticket
          /\ \A x \in Request \ {r} : req'[x] = req[x]
      BY <1>1, <2>2 DEF Step, HandlersOK, Handler
    <3>2. ASSUME NEW p \in Ticket PROVE Holds(r, p)' <=> Holds(r, p)
      BY <1>1, <1>10, <3>1 DEF CheckRequest, HandlerOK, Holds
    <3>3. \A x \in Request, p \in Ticket : Holds(x, p)' <=> Holds(x, p)
      BY <3>1, <3>2 DEF Holds
    <3> QED
      BY <1>5, <2>1, <3>3
  <2> QED
    BY <1>6, <1>10, <2>1, <2>2 DEF CheckRequest
<1>11. ASSUME NEW r \in Request, CreateAppLoginSession(r)
       PROVE  Abstract!Next \/ UNCHANGED ticketStates
  <2>1. UNCHANGED <<tickets, issued>> /\ End(r) /\ At(r, "create")
    BY <1>11 DEF CreateAppLoginSession
  <2>2. CASE UNCHANGED sessions
    BY <1>6, <2>1, <2>2
  <2>3. CASE req[r].op = "claim" /\ sessions' = [sessions EXCEPT ![req[r].ticket] = @ + 1]
    <3> PICK p \in Ticket : p = req[r].ticket
      BY <1>1, <2>3 DEF HandlerOK
    <3>1. Holds(r, p)
      BY <2>1 DEF At, Holds
    <3>2. /\ ~tickets[p].live /\ sessions[p] = 0 /\ p \in issued
          /\ \A x \in Request : Holds(x, p) => x = r
      BY <1>3, <2>3, <3>1 DEF ClaimOK
    <3>3. sessions'[p] = 1 /\ \A q \in Ticket \ {p} : sessions'[q] = sessions[q]
      BY <1>1, <2>3, <3>2 DEF TypeOK
    <3>4. req'[r] = Idle /\ \A x \in Request \ {r} : req'[x] = req[x]
      BY <1>1, <2>1 DEF End, HandlersOK
    <3>5. \A x \in Request, q \in Ticket : Holds(x, q)' <=> Holds(x, q) /\ x # r
      BY <3>4 DEF Holds, Idle
    <3>6. TicketState(p) = "taken"
      BY <3>1, <3>2, StateOf DEF Held
    <3>7. ~Held(p)'
      BY <3>2, <3>5 DEF Held
    <3>8. TicketState(p)' = "used"
      BY <2>1, <3>2, <3>3, <3>7 DEF TicketState, Held, Holds
    <3>9. ASSUME NEW q \in Ticket \ {p} PROVE TicketState(q)' = TicketState(q)
      <4>1. Held(q)' <=> Held(q)
        BY <3>1, <3>5 DEF Held, Holds
      <4> QED
        BY <2>1, <3>3, <4>1, SameState
    <3> QED
      BY <3>6, <3>8, <3>9, UseStep
  <2> QED
    BY <1>11, <2>2, <2>3 DEF CreateAppLoginSession
<1>12. ASSUME NEW r \in Request, SaveTicket(r) PROVE Abstract!Next
  <2> PICK p \in Ticket : p = req[r].ticket
    BY <1>1, <1>12 DEF SaveTicket, At, HandlerOK
  <2>1. /\ UNCHANGED sessions /\ End(r) /\ issued' = issued \cup {p} /\ req[r].pc = "save"
        /\ p \notin issued
    BY <1>3, <1>12 DEF SaveTicket, At, SaveOK
  <2>2. req'[r] = Idle /\ \A x \in Request \ {r} : req'[x] = req[x]
    BY <1>1, <2>1 DEF End, HandlersOK
  <2>3. \A x \in Request, q \in Ticket : Holds(x, q)' <=> Holds(x, q)
    BY <2>1, <2>2 DEF Holds, Idle
  <2>4. \A q \in Ticket : Held(q)' <=> Held(q)
    BY <2>3 DEF Held
  <2>5. tickets'[p].live /\ \A q \in Ticket \ {p} : tickets'[q].live => tickets[q].live
    BY <1>1, <1>12 DEF SaveTicket, TypeOK, TicketRow
  <2> DEFINE P == {q \in Ticket \ {p} : tickets[q].live /\ ~tickets'[q].live}
  <2>6. TicketState(p) = "unissued"
    BY <1>2, <2>1, StateOf DEF TicketOK
  <2>7. TicketState(p)' = "open"
    BY <2>5 DEF TicketState
  <2>8. ASSUME NEW q \in P PROVE TicketState(q) \in {"open", "taken"} /\ TicketState(q)' = "dead"
    <3>1. q \in issued /\ sessions[q] = 0 /\ ~Held(q)
      BY <1>2, <1>3 DEF TicketOK, ClaimOK, Held
    <3>2. ~Held(q)'
      BY <2>4, <3>1
    <3>3. TicketState(q)' = "dead"
      BY <2>1, <3>1, <3>2 DEF TicketState, Held, Holds
    <3> QED
      BY <3>3, StateOf
  <2>9. ASSUME NEW q \in Ticket \ (P \cup {p}) PROVE TicketState(q)' = TicketState(q)
    BY <2>1, <2>4, <2>5, SameState
  <2>10. P \in SUBSET (Ticket \ {p})
    OBVIOUS
  <2> HIDE DEF P
  <2> QED
    BY <2>6, <2>7, <2>8, <2>9, <2>10, IssueStep
<1>13. ASSUME NEW r \in Request, ClaimTicket(r)
       PROVE  Abstract!Next \/ UNCHANGED ticketStates
  <2> PICK p \in Ticket : p = req[r].ticket
    BY <1>1, <1>13 DEF ClaimTicket, At, HandlerOK
  <2>1. UNCHANGED <<sessions, issued>> /\ req[r].pc = "take"
    BY <1>13 DEF ClaimTicket, At
  <2>2. CASE End(r) /\ UNCHANGED tickets
    BY <1>6, <2>1, <2>2
  <2>3. CASE End(r) /\ tickets[p].live /\ ~UNCHANGED tickets
    <3>1. req'[r] = Idle /\ \A x \in Request \ {r} : req'[x] = req[x]
      BY <1>1, <2>3 DEF End, HandlersOK
    <3>2. \A q \in Ticket : Held(q)' <=> Held(q)
      BY <2>1, <3>1 DEF Held, Holds, Idle
    <3>3. \A q \in Ticket \ {p} : tickets'[q].live <=> tickets[q].live
      <4>1. CASE tickets' = [tickets EXCEPT ![p].live = FALSE]
        BY <1>1, <4>1 DEF TypeOK
      <4>2. CASE tickets' = Missed(p)
        BY <1>1, <4>2 DEF Missed, TypeOK
      <4> QED
        BY <1>13, <2>3, <4>1, <4>2 DEF ClaimTicket, Step, Taken
    <3>4. \A q \in Ticket \ {p} : TicketState(q)' = TicketState(q)
      BY <2>1, <3>2, <3>3, SameState
    <3>5. CASE tickets'[p].live
      <4>1. TicketState(p)' = TicketState(p)
        BY <2>1, <2>3, <3>2, <3>5, SameState
      <4> QED
        BY <1>4, <3>4, <4>1
    <3>6. CASE ~tickets'[p].live
      <4>1. p \in issued /\ sessions[p] = 0 /\ ~Held(p)
        BY <1>2, <1>3, <2>3 DEF TicketOK, ClaimOK, Held
      <4>2. ~Held(p)'
        BY <3>2, <4>1
      <4>3. TicketState(p)' = "dead"
        BY <2>1, <3>6, <4>1, <4>2 DEF TicketState, Held, Holds
      <4>4. TicketState(p) = "open"
        BY <2>3, StateOf
      <4> DEFINE P == {p}
      <4>5. P \in SUBSET Ticket /\ \A q \in P : q = p
        OBVIOUS
      <4>6. \A q \in Ticket \ P : TicketState(q)' = TicketState(q)
        BY <3>4
      <4> HIDE DEF P
      <4>7. \A q \in P : TicketState(q) \in {"open", "taken"} /\ TicketState(q)' = "dead"
        BY <4>3, <4>4, <4>5
      <4> QED
        BY <4>5, <4>6, <4>7, LoseStep
    <3> QED
      BY <3>5, <3>6
  <2>4. CASE Step(r, "ttl") /\ tickets[p].live /\ tickets' = Taken(p)
    <3>1. /\ ~tickets'[p].live
          /\ \A q \in Ticket \ {p} : tickets'[q] = tickets[q]
      BY <1>1, <2>4 DEF Taken, TypeOK, TicketRow
    <3>2. /\ req'[r].pc = "ttl" /\ req'[r].ticket = p
          /\ \A x \in Request \ {r} : req'[x] = req[x]
      BY <1>1, <2>4 DEF Step, HandlersOK, Handler
    <3>3. \A q \in Ticket \ {p} : Held(q)' <=> Held(q)
      BY <2>1, <3>2 DEF Held, Holds
    <3>4. \A q \in Ticket \ {p} : TicketState(q)' = TicketState(q)
      BY <2>1, <3>1, <3>3, SameState
    <3>5. TicketState(p) = "open"
      BY <2>4, StateOf
    <3>6. p \in issued /\ Holds(r, p)'
      BY <1>2, <2>4, <3>2 DEF TicketOK, Holds
    <3>7. TicketState(p)' = "taken"
      BY <2>1, <3>1, <3>6 DEF TicketState, Holds
    <3> QED
      BY <3>4, <3>5, <3>7, TakeStep
  <2> QED
    BY <1>13, <2>2, <2>3, <2>4 DEF ClaimTicket
<1> QED
  BY <1>7, <1>8, <1>9, <1>10, <1>11, <1>12, <1>13 DEF Next, Progress

\* Racing claims, misses, purges and restarts keep the promise of OneTimeTicket: a ticket
\* is issued once, taken once, and makes one session or none.
THEOREM ImplementsOneTimeTicket == Spec => Abstract!Init /\ [][Abstract!Next]_ticketStates
<1>1. TypeInv /\ TicketInv /\ [Next]_vars => [Abstract!Next]_ticketStates
  BY NextAbstract
<1> QED
  BY <1>1, InitType, NextType, InitTicket, NextTicket, InitAbstract, PTL DEF Spec

-----------------------------------------------------------------------------
(***************************************************************************)
(* What a desktop that shows a ticket may rely on.                         *)
(***************************************************************************)
OneSession == \A p \in Ticket : sessions[p] <= 1

LEMMA NextOneSession == TypeInv /\ TicketInv /\ OneSession /\ [Next]_vars => OneSession'
<1> SUFFICES ASSUME TypeInv, TicketInv, OneSession, [Next]_vars, NEW p \in Ticket,
                    sessions'[p] # sessions[p]
             PROVE  sessions'[p] <= 1
  BY DEF OneSession
<1> PICK r \in Request : CreateAppLoginSession(r) /\ Holds(r, p)
  BY SessionStep
<1>1. sessions[p] = 0
  BY DEF TicketInv, ClaimOK
<1>2. sessions' = sessions \/ sessions' = [sessions EXCEPT ![p] = sessions[p] + 1]
  BY DEF CreateAppLoginSession, Holds
<1> QED
  BY <1>1, <1>2 DEF TypeInv, TypeOK

\* Steps of OneTimeTicket leave what is spent alone.
LEMMA SpentStep ==
    ASSUME Abstract!Next, NEW p \in Ticket, TicketState(p) \in {"used", "dead"}
    PROVE  TicketState(p)' = TicketState(p)
<1> DEFINE was == [q \in Ticket |-> TicketState(q)]
<1>1. was[p] \in {"used", "dead"}
  OBVIOUS
<1>2. was'[p] = was[p]
  <2>1. CASE \E P \in SUBSET Ticket : Abstract!Die(P) /\ was' = Abstract!After(P, {})
    BY <1>1, <2>1 DEF Abstract!Die, Abstract!After
  <2>2. CASE \E q \in Ticket : Abstract!Issue(q)
    BY <1>1, <2>2 DEF Abstract!Issue, Abstract!Die, Abstract!After
  <2>3. CASE \E q \in Ticket : Abstract!Take(q) \/ Abstract!Use(q)
    BY <1>1, <2>3 DEF Abstract!Take, Abstract!Use
  <2> QED
    BY <2>1, <2>2, <2>3 DEF Abstract!Next, Abstract!Lose
<1> QED
  BY <1>2

\* A ticket makes one session at most, however many claims of it race; once it has made
\* one, or died of misses, expiry or a restart, it never opens again.
THEOREM OneSessionThenNothing == Spec => []OneSession /\ Abstract!SpentStaysSpent
<1>1. Init => OneSession
  <2> SUFFICES ASSUME Init, NEW p \in Ticket PROVE sessions[p] <= 1
    BY DEF OneSession
  <2>1. sessions[p] = 0
    BY DEF Init
  <2> QED
    BY <2>1
<1>2. [Abstract!Next]_ticketStates =>
        [\A p \in Ticket : TicketState(p) \in {"used", "dead"} =>
                            TicketState(p)' = TicketState(p)]_ticketStates
  BY SpentStep
<1>3. (\A p \in Ticket : TicketState(p) \in {"used", "dead"} => TicketState(p)' = TicketState(p))
        => \A p \in Ticket : ticketStates[p] \in {"used", "dead"} => ticketStates'[p] = ticketStates[p]
  BY DEF ticketStates
<1> QED
  BY <1>1, <1>2, <1>3, InitType, NextType, InitTicket, NextTicket, NextOneSession,
     ImplementsOneTimeTicket, PTL DEF Spec, Abstract!SpentStaysSpent, ticketStates
=============================================================================
