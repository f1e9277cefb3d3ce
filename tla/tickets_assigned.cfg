\* Two requests for the tickets of one showing; attendees come and go.
CONSTANTS
    a = a
    b = b
    t1 = t1
    t2 = t2
    t3 = t3
    x = x
    y = y
    z = z
    r1 = r1
    User = {a, b}
    Showing = {s}
    Request = {p, q}
    Ticket = {t1, t2, t3}
    TicketsOf <- Links
    ScreenOf <- OneScreen
    Sent <- UpToTwo
    Connections = 3
    Change = {"attend", "unattend"}
    BarcodeFails = TRUE
    NoTicket = NoTicket
    NoLock = NoLock
    NoScreen = NoScreen
SPECIFICATION Spec
SYMMETRY Symmetry
INVARIANTS
    IInv
    TransactionsEnd
    OneTicketEach
PROPERTIES
    AllOrNothing
