\* One signal, three operator actions, one sync: serials, logs and archives.
CONSTANTS
    a = a
    b = b
    Signals <- OneSignal
    Package <- OneSignal
    Group <- OneSignal
    Mapped <- OneSignal
    MaxSerials = 2
    MaxEdits = 3
    MaxUpdates = 1
    MaxChanges = 1
    MaxFlips = 1
    MaxRows = 4
    Syncs = {"auto"}
    CoarseClock = FALSE
    NoisyModems = FALSE
    SandboxPaused = FALSE
    Running = 1
    Begun = {"Planned"}
SPECIFICATION Spec
INVARIANT FiledInOwnWorkspace
INVARIANT ArchiveKeepsHandlerRows
PROPERTY WorkspaceIsolation
PROPERTY EndSilences
\* The bounds on operator actions, changes and rows stop every behaviour.
CHECK_DEADLOCK FALSE
