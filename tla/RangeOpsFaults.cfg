\* Both signals of the group, modems that fail, commits within one second, the
\* dashboard's sync button beside the automatic sync.
CONSTANTS
    a = a
    b = b
    Signals <- BothSignals
    Package <- BothSignals
    Group <- BothSignals
    Mapped <- OneSignal
    MaxSerials = 1
    MaxEdits = 1
    MaxUpdates = 2
    MaxChanges = 0
    MaxFlips = 0
    MaxRows = 3
    Syncs = {"auto", "button"}
    CoarseClock = TRUE
    NoisyModems = TRUE
    SandboxPaused = FALSE
    Running = 1
    Begun = {"Planned", "Up"}
SPECIFICATION Spec
INVARIANT TypeOK
INVARIANT ReadingRulesAgree
PROPERTY DashboardUpIsExclusive
\* The bounds on operator actions, changes and rows stop every behaviour.
CHECK_DEADLOCK FALSE
