CONSTANTS
    Peer = {p1}
    None = None
    MaxFault = 0
    MaxCrash = 0
SPECIFICATION Spec
PROPERTY PropagationChangesParamsOnly
