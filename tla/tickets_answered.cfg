\* Three requests share two connections; two insert the same tickets after a promotion.
CONSTANTS
    a = a
    b = b
    t1 = t1
    t2 = t2
    t3 = t3
    x = x
    y = y
    z = z
    r1 = r1
    User = {a, b}
    Showing = {s}
    Request = {p, q, r}
    Ticket = {t1, t2}
    TicketsOf <- SharedLinks
    ScreenOf <- OneScreen
    Sent <- OneEach
    Connections = 2
    Change = {"promote"}
    BarcodeFails = FALSE
    NoTicket = NoTicket
    NoLock = NoLock
    NoScreen = NoScreen
SPECIFICATION FairSpec
INVARIANTS
    NobodyStuck
PROPERTIES
    EveryRequestAnswered
    AllOrNothing
