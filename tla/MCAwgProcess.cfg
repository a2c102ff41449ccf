CONSTANTS
    Iface = {wg0}
    Proc = {p1, p2}
    Caller = {c1, c2}
    None = None
SPECIFICATION Spec
INVARIANTS
    TypeOK
    SingleProcess
    TrackedUntilReaped
    StopKeepsSlot
PROPERTIES
    CallsReturn
    SlotSpec
