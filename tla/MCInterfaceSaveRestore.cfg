CONSTANTS
    Peer = {p1}
    None = None
    MaxFault = 0
    MaxCrash = 1
SPECIFICATION Spec
PROPERTY RestoredDriverMatchesRow
