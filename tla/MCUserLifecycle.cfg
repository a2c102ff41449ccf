CONSTANTS
    Peer = {p1}
    None = None
    Expiring = {p1}
    InitialOff = {"no"}
    Awg = FALSE
    ReEnable = TRUE
    DeletePeers = FALSE
    SelfProvisioning = TRUE
    Paced = TRUE
    MaxChange = 2
    MaxEdit = 0
    MaxFault = 0
    MaxCrash = 1
    User = {u1}
    Owner = u1
    Profile = {"p1"}
    Password = {"strong"}
    WeakPassword = {}
    ApiAdminOnly = FALSE
    Slot = {r1}
    AutoReEnable = TRUE
    DisableMissing = TRUE
    InitialRow <- MCInitialRow
    MaxRequests = 2
    MaxFaults = 0
SPECIFICATION Lifecycle
INVARIANT PeersFollowRow
PROPERTY FollowsUserPeers
CHECK_DEADLOCK FALSE
