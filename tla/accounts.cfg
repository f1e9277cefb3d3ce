\* Two requests of any kind, one restart; a request is made once and then over.
CONSTANTS
    a = a
    b = b
    sessionA = sessionA
    sessionB = sessionB
    next = next
    n1 = n1
    n2 = n2
    Session = {sessionA, sessionB, next}
    User = {a, b}
    Number = {n1, n2}
    Today = today
    NextYear = nextYear
    Date = {today, nextYear}
    Request = {p, q}
    List <- Lists
    SignedIn <- Sessions
    MaxRestarts = 1
    NoUser = NoUser
    NoCert = NoCert
    NoCookie = NoCookie
    NoDate = NoDate
SPECIFICATION FairSpec
INVARIANTS
    NobodyStuck
    IInv
PROPERTIES
    ImplementsAccountBook
    EveryRequestAnswered
CHECK_DEADLOCK FALSE
