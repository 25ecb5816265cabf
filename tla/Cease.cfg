CONSTANTS
    Terminals = {t1, t2}
    Staff <- OneOfEach
    MaxAccounts = 2
    MaxAge = 0
    IdleTimeout = 0
    MaxAttempts = 1
    Lockout = 1
    MaxLogins = 2
    MaxRequests = 4
    MaxClock = 1
    MaxEvents = 2
SPECIFICATION CeaseSpec
INVARIANT CeaseTypeOK
INVARIANT OneCeasePerWorkspace
PROPERTY RaiserIsKept
PROPERTY ScreensFollow
CHECK_DEADLOCK FALSE
