----------------------------- MODULE Onboarding -----------------------------
(***************************************************************************)
(* How a new app device gets its session: /auth/login behind the           *)
(* new-device gate, the admin console's issue form, and pairing tickets.   *)
(* Gate and tickets live in the server's memory; the map of tickets is     *)
(* guarded by pairingTicketsMu, so that saving and claiming are one step   *)
(* each.  The clock is read before the lock is taken: a handler works with *)
(* the time it read, however late it gets the lock.  What follows the      *)
(* creation of the session is the subject of DeviceTokens.                 *)
(***************************************************************************)
EXTENDS Naturals

CONSTANTS
    Ticket,         \* pairing ids, each with a secret of its own
    Request,        \* goroutines that may run at once
    TicketTTL,      \* appPairingTicketTTL, five minutes
    MaxMisses,      \* appPairingMaxSecretMisses, five
    MaxTime,        \* bound: the clock stops here
    MaxLogins,      \* bound: sessions made at /auth/login
    None            \* no ticket

ASSUME OnboardingAssumption ==
    /\ {TicketTTL, MaxMisses, MaxTime, MaxLogins} \subseteq Nat \ {0}
    /\ None \notin Ticket

VARIABLES
    now,        \* wall clock
    gate,       \* allowNewDeviceLogin
    tickets,    \* pairingTickets; live says whether the map has the key
    req,        \* what each running handler has in its local variables
    logins,     \* history: sessions made at /auth/login
    sessions,   \* history: sessions made with each ticket
    wrong,      \* history: "invalid pairing secret" answers for each ticket
    issued,     \* history: pairing ids saved (uuid never repeats)
    opened      \* history: an administrator opened the gate since the server started

vars == <<now, gate, tickets, req, logins, sessions, wrong, issued, opened>>

Time == 0..MaxTime
TicketRow == [live : BOOLEAN, expiresAt : 0..(MaxTime + TicketTTL), misses : 0..MaxMisses]
NoTicket == [live |-> FALSE, expiresAt |-> 0, misses |-> 0]

Op == {"none", "login", "issue", "start", "claim"}
Pc == {"idle", "password", "save", "take", "ttl", "create"}
Handler == [op : Op, pc : Pc, ticket : Ticket \cup {None}, at : Time, right : BOOLEAN]
Idle == [op |-> "none", pc |-> "idle", ticket |-> None, at |-> 0, right |-> FALSE]
Running(op, pc, p, at, right) ==
    [op |-> op, pc |-> pc, ticket |-> p, at |-> at, right |-> right]

At(r, pc) == req[r].pc = pc
Step(r, pc) == req' = [req EXCEPT ![r].pc = pc]
End(r) == req' = [req EXCEPT ![r] = Idle]

TypeOK ==
    /\ now \in Time
    /\ gate \in BOOLEAN
    /\ tickets \in [Ticket -> TicketRow]
    /\ req \in [Request -> Handler]
    /\ logins \in 0..MaxLogins
    /\ sessions \in [Ticket -> Nat]
    /\ wrong \in [Ticket -> 0..MaxMisses]
    /\ issued \subseteq Ticket
    /\ opened \in BOOLEAN

Init ==
    /\ now = 0
    /\ gate = FALSE
    /\ tickets = [p \in Ticket |-> NoTicket]
    /\ req = [r \in Request |-> Idle]
    /\ logins = 0
    /\ sessions = [p \in Ticket |-> 0]
    /\ wrong = [p \in Ticket |-> 0]
    /\ issued = {}
    /\ opened = FALSE

-----------------------------------------------------------------------------
\* handleAdminSetNewDeviceAccess.
SetNewDeviceAccess ==
    /\ gate' = ~gate
    /\ opened' = (opened \/ gate')
    /\ UNCHANGED <<now, tickets, req, logins, sessions, wrong, issued>>

\* loginApp: the gate is read before the master password is compared.
StartLogin(r) ==
    /\ At(r, "idle")
    /\ \/ gate /\ logins < MaxLogins
          /\ req' = [req EXCEPT ![r] = Running("login", "password", None, 0, FALSE)]
       \/ req' = [req EXCEPT ![r] = Running("issue", "password", None, 0, FALSE)]
    /\ UNCHANGED <<now, gate, tickets, logins, sessions, wrong, issued, opened>>

\* bcrypt and resolveAccessTTL, after a claim the latter alone; a ticket is spent by then.
CheckRequest(r) ==
    /\ req[r].pc \in {"password", "ttl"}
    /\ Step(r, "create") \/ End(r)
    /\ UNCHANGED <<now, gate, tickets, logins, sessions, wrong, issued, opened>>

\* createAppLoginSession, up to the row of the device; the database may fail.  The
\* sessions of the admin's issue form are not counted.
CreateAppLoginSession(r) ==
    /\ At(r, "create")
    /\ \/ /\ req[r].op = "login"
          /\ logins < MaxLogins
          /\ logins' = logins + 1
          /\ UNCHANGED sessions
       \/ /\ req[r].op = "claim"
          /\ sessions' = [sessions EXCEPT ![req[r].ticket] = @ + 1]
          /\ UNCHANGED logins
       \/ UNCHANGED <<logins, sessions>>
    /\ End(r)
    /\ UNCHANGED <<now, gate, tickets, wrong, issued, opened>>

-----------------------------------------------------------------------------
\* handleAppPairingStart, for a desktop with an accepted app token.
StartPairing(r) ==
    /\ At(r, "idle")
    /\ \E p \in Ticket \ issued :
        /\ \A x \in Request : req[x].ticket # p
        /\ req' = [req EXCEPT ![r] = Running("start", "save", p, now, FALSE)]
    /\ UNCHANGED <<now, gate, tickets, logins, sessions, wrong, issued, opened>>

\* !ExpiresAt.After(now).
\* Mutants: the negation is lost; the last moment counts as valid.
NotYetExpired(p, at) == tickets[p].expiresAt > at
ExpiredAfter(p, at) == tickets[p].expiresAt < at
Expired(p, at) == tickets[p].expiresAt <= at

\* saveAppPairingTicket, which first drops the tickets that have expired.
SaveTicket(r) ==
    /\ At(r, "save")
    /\ tickets' = [p \in Ticket |->
                    IF p = req[r].ticket
                    THEN [live |-> TRUE, expiresAt |-> req[r].at + TicketTTL, misses |-> 0]
                    ELSE IF tickets[p].live /\ Expired(p, req[r].at)
                    THEN [tickets[p] EXCEPT !.live = FALSE]
                    ELSE tickets[p]]
    /\ issued' = issued \cup {req[r].ticket}
    /\ End(r)
    /\ UNCHANGED <<now, gate, logins, sessions, wrong, opened>>

\* handleAppPairingClaim, with the ticket's secret or a wrong one.
StartClaim(r) ==
    /\ At(r, "idle")
    /\ \E p \in issued, right \in BOOLEAN :
        req' = [req EXCEPT ![r] = Running("claim", "take", p, now, right)]
    /\ UNCHANGED <<now, gate, tickets, logins, sessions, wrong, issued, opened>>

\* What a wrong secret leaves in the map; the struct in the map is written back.
\* Mutants: only the copy is counted up; one guess too many is let through.
MissedCopy(p) == tickets
MissedTooMany(p) ==
    [tickets EXCEPT ![p].misses = @ + 1, ![p].live = @ /\ tickets[p].misses < MaxMisses]
Missed(p) ==
    [tickets EXCEPT ![p].misses = @ + 1, ![p].live = @ /\ tickets[p].misses + 1 < MaxMisses]

\* Mutant: a claimed ticket stays in the map.
TakenStays(p) == tickets
Taken(p) == [tickets EXCEPT ![p].live = FALSE]

\* claimAppPairingTicket.
ClaimTicket(r) ==
    LET p == req[r].ticket
    IN /\ At(r, "take")
       /\ \/ /\ ~tickets[p].live
             /\ End(r)
             /\ UNCHANGED <<tickets, wrong>>
          \/ /\ tickets[p].live
             /\ Expired(p, req[r].at)
             /\ tickets' = [tickets EXCEPT ![p].live = FALSE]
             /\ End(r)
             /\ UNCHANGED wrong
          \/ /\ tickets[p].live
             /\ ~Expired(p, req[r].at)
             /\ ~req[r].right
             /\ tickets' = Missed(p)
             /\ wrong' = [wrong EXCEPT ![p] = IF @ < MaxMisses THEN @ + 1 ELSE @]
             /\ End(r)
          \/ /\ tickets[p].live
             /\ ~Expired(p, req[r].at)
             /\ req[r].right
             /\ tickets' = Taken(p)
             /\ Step(r, "ttl")
             /\ UNCHANGED wrong
       /\ UNCHANGED <<now, gate, logins, sessions, issued, opened>>

-----------------------------------------------------------------------------
\* New after a restart: the gate is closed and no ticket is known.
\* Mutant: the gate outlives the process.
GateKept == gate
GateAtStart == FALSE
ServerRestart ==
    /\ gate' = GateAtStart
    /\ opened' = FALSE
    /\ tickets' = [p \in Ticket |-> [tickets[p] EXCEPT !.live = FALSE]]
    /\ req' = [r \in Request |-> Idle]
    /\ UNCHANGED <<now, logins, sessions, wrong, issued>>

Tick ==
    /\ now < MaxTime
    /\ now' = now + 1
    /\ UNCHANGED <<gate, tickets, req, logins, sessions, wrong, issued, opened>>

\* The steps a running goroutine takes by itself.
Progress(r) ==
    CheckRequest(r) \/ CreateAppLoginSession(r) \/ SaveTicket(r) \/ ClaimTicket(r)

Next ==
    \/ \E r \in Request : StartLogin(r) \/ StartPairing(r) \/ StartClaim(r) \/ Progress(r)
    \/ SetNewDeviceAccess
    \/ ServerRestart
    \/ Tick

\* A goroutine that can run does: no handler waits for anything but a mutex held for a
\* few instructions and the database.
Spec == Init /\ [][Next]_vars /\ \A r \in Request : WF_vars(Progress(r))

-----------------------------------------------------------------------------
\* The tickets as OneTimeTicket sees them.
TicketState(p) ==
    IF tickets[p].live THEN "open"
    ELSE IF p \notin issued THEN "unissued"
    ELSE IF \E r \in Request : req[r].ticket = p /\ req[r].pc \in {"ttl", "create"} THEN "taken"
    ELSE IF sessions[p] = 0 THEN "dead"
    ELSE "used"

Abstract == INSTANCE OneTimeTicket WITH state <- [p \in Ticket |-> TicketState(p)]

\* Racing claims, misses, purges and restarts keep the promise of OneTimeTicket.
TicketsAreOneTime == Abstract!Spec

\* After the last wrong secret allowed, the right one no longer helps, however the
\* guesses and the claim interleave.
MissesSpendTheTicket == \A p \in Ticket : wrong[p] >= MaxMisses => ~tickets[p].live

\* A claim received at or after the ticket's expiry gets no session.
NoSessionAfterExpiry ==
    [][\A p \in Ticket :
        sessions'[p] # sessions[p] =>
            \E r \in Request : req[r].ticket = p /\ req[r].at < tickets[p].expiresAt]_vars

\* A ticket nobody claimed and nobody guessed at works until it expires, unless the
\* server restarts: saving another ticket drops the expired ones only.
TicketDiesForAReason ==
    [][\A p \in Ticket :
        tickets[p].live /\ ~tickets'[p].live =>
            \/ tickets[p].expiresAt <= now
            \/ wrong'[p] = MaxMisses
            \/ \E r \in Request : req[r].ticket = p /\ req[r].right /\ At(r, "take")
            \/ ServerRestart]_vars

\* No device comes of /auth/login unless an administrator opened the gate since the
\* server started: a restart closes it, for logins that follow and logins in flight.
LoginNeedsOpenedGate == [][logins' # logins => opened]_vars
=============================================================================
