\* Two tickets, two handlers, guesses, expiry, restarts: the tickets implement OneTimeTicket.
CONSTANTS
    p1 = p1
    p2 = p2
    r1 = r1
    r2 = r2
    None = None
    Ticket = {p1, p2}
    Request = {r1, r2}
    TicketTTL = 1
    MaxMisses = 2
    MaxTime = 2
    MaxLogins = 1
SPECIFICATION Spec
INVARIANTS
    TypeOK
    MissesSpendTheTicket
PROPERTIES
    TicketsAreOneTime
    NoSessionAfterExpiry
    TicketDiesForAReason
    LoginNeedsOpenedGate
CHECK_DEADLOCK FALSE
