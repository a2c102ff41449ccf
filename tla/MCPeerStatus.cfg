SPECIFICATION Spec
CONSTANTS
    Peer = {p1}
    Worker = {w1}
    ReKeyTimeoutInterval = 0
    MessageBuffer = 1
    MaxClock = 2
    MaxBytes = 1
    MaxChanges = 2
INVARIANTS SessionHasHandshake ReceiverKnows
CHECK_DEADLOCK FALSE
