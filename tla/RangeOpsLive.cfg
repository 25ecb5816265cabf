\* One signal, the automatic sync under weak fairness, a paused sandbox.
CONSTANTS
    a = a
    b = b
    Signals <- OneSignal
    Package <- OneSignal
    Group <- OneSignal
    Mapped <- OneSignal
    MaxSerials = 2
    MaxEdits = 2
    MaxUpdates = 1
    MaxChanges = 2
    MaxFlips = 1
    MaxRows = 50
    Syncs = {"auto"}
    CoarseClock = FALSE
    NoisyModems = FALSE
    SandboxPaused = TRUE
    Running = 1
    Begun = {"Planned"}
SPECIFICATION FairSpec
PROPERTY SyncConverges
\* The bounds on operator actions, changes and rows stop every behaviour.
CHECK_DEADLOCK FALSE
