CONSTANTS
    Terminals = {t1, t2}
    Staff <- TwoAdministrators
    MaxAccounts = 2
    MaxAge = 1
    IdleTimeout = 0
    MaxAttempts = 2
    Lockout = 1
    MaxLogins = 3
    MaxRequests = 4
    MaxClock = 2
SPECIFICATION Spec
INVARIANT OlderSessionInvalidated
SYMMETRY TerminalSymmetry
CHECK_DEADLOCK FALSE
