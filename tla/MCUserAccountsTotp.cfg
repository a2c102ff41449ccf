CONSTANTS
    User = {u1}
    Profile = {"p1"}
    Password = {"strong"}
    WeakPassword = {}
    ApiAdminOnly = FALSE
    Slot = {r1}
    AutoReEnable = TRUE
    DisableMissing = TRUE
    InitialRow <- MCProtectedRow
    MaxRequests = 2
    MaxFaults = 0
SPECIFICATION Accounts
PROPERTY SecondFactorStays
CHECK_DEADLOCK FALSE
