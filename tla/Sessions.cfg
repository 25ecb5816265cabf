CONSTANTS
    Terminals = {t1, t2}
    Staff <- TwoAdministrators
    MaxAccounts = 2
    MaxAge = 1
    IdleTimeout = 0
    MaxAttempts = 2
    Lockout = 2
    MaxLogins = 3
    MaxRequests = 4
    MaxClock = 2
SPECIFICATION Spec
INVARIANT TypeOK
INVARIANT AnAdministratorRemains
INVARIANT OldSessionsStayOut
INVARIANT ThrottleHolds
PROPERTY KeptUnlessEnded
SYMMETRY TerminalSymmetry
CHECK_DEADLOCK FALSE
