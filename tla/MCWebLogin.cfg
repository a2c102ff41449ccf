CONSTANTS
    User = {u1}
    Profile = {"p"}
    Password = {"w"}
    WeakPassword = {}
    ApiAdminOnly = FALSE
    Browser = {b1}
    Slot = {r1, r2}
    Known = {u1}
    Registration = TRUE
    MaxAttempts = 2
    Window = 2
    InitialRow <- MCInitialRow
    MaxClock = 4
    MaxSecret = 2
    MaxEvents = 4
SPECIFICATION Spec
INVARIANTS SecondFactorKept AttemptsBounded
PROPERTIES CodesUsedOnce
CHECK_DEADLOCK FALSE
