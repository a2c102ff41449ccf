CONSTANTS
    Slot = {s1, s2}
    Name = {n1, n2}
    Concurrency = 1
    Settings = {"new"}
    Address = {a1, a2}
    Server = {d1, d2}
    CidrV4 = {c4}
    CidrV6 = {c6}
    Table = {t1}
    MaxOps = 2
    MaxFaults = 1
SPECIFICATION Spec
SYMMETRY Symmetry
INVARIANTS SuccessMeansDone
PROPERTY ForeignStays
CHECK_DEADLOCK FALSE
