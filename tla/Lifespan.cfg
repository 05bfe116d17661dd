\* Both processes with every kind of settings; releases that fail, clients
\* and runs that hang.
CONSTANTS
    MaxUsers = 2
    Threads = 2
SPECIFICATION FairLifespanSpec
\* A process that has exited stays so.
CHECK_DEADLOCK FALSE
INVARIANTS
    LifespanTypeOK
    UsersFindItOpen
    OnlyHalfOpenLeaks
PROPERTIES
    ShutdownEnds
