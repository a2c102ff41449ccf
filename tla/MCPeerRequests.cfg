SPECIFICATION Spec
CONSTANTS
    User = {u1, u2}
    Allowed = {u1, u2}
    Key = {k1, k2, k3}
    Slot = {r1, r2}
    SelfProvisioning = TRUE
    EditableKeys = TRUE
    Limit = 1
    LastAddress = 4
    MaxRequests = 2
    MaxFaults = 1
SYMMETRY Alike
INVARIANTS OneDefaultPeer RequestsComplete
PROPERTIES AddressesUnique OwnersOnly
CHECK_DEADLOCK FALSE
