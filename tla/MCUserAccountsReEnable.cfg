CONSTANTS
    User = {u1}
    Profile = {"p1"}
    Password = {"strong"}
    WeakPassword = {}
    ApiAdminOnly = FALSE
    Slot = {r1}
    AutoReEnable = TRUE
    DisableMissing = TRUE
    InitialRow <- MCMissingRow
    MaxRequests = 3
    MaxFaults = 0
SPECIFICATION Accounts
PROPERTY ManuallyDisabledStay
CHECK_DEADLOCK FALSE
