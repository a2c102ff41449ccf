CONSTANTS
    Peer = {p1}
    None = None
    Expiring = {p1}
    InitialOff = {"no"}
    Awg = TRUE
    ReEnable = TRUE
    DeletePeers = FALSE
    SelfProvisioning = FALSE
    Paced = TRUE
    MaxChange = 2
    MaxEdit = 1
    MaxFault = 0
    MaxCrash = 0
SPECIFICATION Spec
INVARIANT DisabledPeersNotServed
CHECK_DEADLOCK FALSE
