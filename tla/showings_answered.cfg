\* Three requests that lock the same rows and screens in different orders.
CONSTANTS
    User = {a}
    Showing = {s1, s2}
    Request = {p, q, r}
    Price = {0}
    Op <- OneEach
    Screen = {x}
    Absent = Absent
    NoLock = NoLock
    NoRequest = NoRequest
SPECIFICATION FairSpec
INVARIANTS
    IInv
    NobodyStuck
PROPERTIES
    EveryRequestAnswered
