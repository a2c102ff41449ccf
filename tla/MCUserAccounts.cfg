CONSTANTS
    User = {u1}
    Profile = {"p1", "p2"}
    Password = {"weak", "strong", "other"}
    WeakPassword = {"weak"}
    ApiAdminOnly = FALSE
    Slot = {r1}
    AutoReEnable = TRUE
    DisableMissing = TRUE
    InitialRow <- MCInitialRow
    MaxRequests = 2
    MaxFaults = 1
SPECIFICATION Accounts
INVARIANTS EventsMatchRow PasswordNeedsDatabaseSource
PROPERTY LdapConverges
CHECK_DEADLOCK FALSE
