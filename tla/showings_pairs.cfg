\* Everything a user and an admin do to a showing, two requests at a time.
CONSTANTS
    User = {a, b}
    Showing = {s1}
    Request = {p, q}
    Price = {0, 1}
    Op <- Everything
    Screen = {}
    Absent = Absent
    NoLock = NoLock
    NoRequest = NoRequest
SPECIFICATION Spec
SYMMETRY Symmetry
INVARIANTS
    NoOrphans
    IInv
    PurchaseInv
PROPERTIES
    BoughtForGood
    DeletedOnce
    PaidNotCharged
    ImplementsBook
