SPECIFICATION Spec
CONSTANTS
    Users = {u1, u2}
    Names = {n1, n2}
    box = box
    tagged = tagged
    Addresses <- MCAddresses
    Plain <- MCPlain
    Passwords = {p1, p2}
    Handlers = {h1, h2}
    Doors = {"eas", "web"}
    PerHost = {"web"}
    None = None
    Max = 2
    Window = 1
    Lockout = 1
    MaxTime = 2
    MaxOps = 5
    MaxChanges = 3
SYMMETRY Symmetric
INVARIANTS
    TypeOK
    ResetAtOnce
    GuessesBounded
PROPERTY
    PrimaryKept
CHECK_DEADLOCK FALSE
