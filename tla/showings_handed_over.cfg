\* Two mutations of an admin, one of which hands the showing over.
CONSTANTS
    User = {a, b}
    Showing = {s1}
    Request = {p, q}
    Price = {0, 1}
    Op <- HandOverAndDelete
    Screen = {}
    Absent = Absent
    NoLock = NoLock
    NoRequest = NoRequest
SPECIFICATION Spec
SYMMETRY Symmetry
PROPERTY
    OnlyAdminChanges
