SPECIFICATION Spec
CONSTANTS
    Handlers = {h1, h2}
    Occurrences = {o1}
    Rules = {weekly}
    NoRule = NoRule
    Parts = {"ACCEPTED", "OTHER"}
    Responses = {2, 4}
    Carried = {5}
    MaxOps = 3
    MaxReads = 2
    MaxFaults = 1
SYMMETRY Symmetric
INVARIANTS
    TypeOK
    FeedFresh
    DeviceTold
PROPERTY
    Keeps
CHECK_DEADLOCK FALSE
