\* Two MarkAsBought at a time.
CONSTANTS
    User = {a, b}
    Showing = {s1}
    Request = {p, q}
    Price = {0, 1}
    Op <- Buy
    Screen = {}
    Absent = Absent
    NoLock = NoLock
    NoRequest = NoRequest
SPECIFICATION Spec
SYMMETRY Symmetry
PROPERTY
    MarkedIsBought
