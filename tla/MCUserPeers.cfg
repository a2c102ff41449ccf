CONSTANTS
    Peer = {p1, p2}
    None = None
    Expiring = {p1}
    InitialOff = {"no", "admin"}
    Awg = FALSE
    ReEnable = TRUE
    DeletePeers = FALSE
    SelfProvisioning = TRUE
    Paced = TRUE
    MaxChange = 2
    MaxEdit = 1
    MaxFault = 1
    MaxCrash = 1
SPECIFICATION Spec
INVARIANTS
    DevicePeersEnabled
    PeersFollowUser
PROPERTIES
    AdminDisableSticks
    ExpiryEnds
    DisabledUserLosesPeers
CHECK_DEADLOCK FALSE
