\* The event loop, both background threads, retention of the newest two rows.
CONSTANTS
    Threads = {"cbm", "snmp"}
    Keep = 2
    MaxClock = 5
SPECIFICATION Spec
INVARIANT TypeOK
INVARIANT VerifiesUnlessRaced
INVARIANT LinksToCommitted
INVARIANT NothingLost
PROPERTY RetentionKeepsVerifying
\* The bound on signed rows stops every behaviour.
CHECK_DEADLOCK FALSE
