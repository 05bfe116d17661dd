\* Every request of at most one basic and one custom test.
CONSTANTS
    RawRequests <- AllRequests
SPECIFICATION RequestSpec
\* A request ends.
CHECK_DEADLOCK FALSE
INVARIANTS
    RequestTypeOK
    NoParameterLost
    RecordTellsTheRun
    RevalidationAgrees
    RefusedLeavesNothing
    RefusedForCause
