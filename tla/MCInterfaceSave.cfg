CONSTANTS
    Peer = {p1, p2}
    None = None
    MaxFault = 1
    MaxCrash = 1
SPECIFICATION Spec
SYMMETRY Symmetric
VIEW Live
CONSTRAINT Interesting
INVARIANTS
    TypeOK
    DeviceMatchesRow
    DriverMatchesRow
    PeersMatchRows
    PeerParamsMatchRow
    HooksMatchRow
PROPERTY RestoreHeals
