\* Three jobs on two slots and two threads, one run hangs.
CONSTANTS
    Jobs = {j1, j2, j3}
    Slots = 2
    Threads = 2
    MaxHung = 1
SPECIFICATION FairPoolSpec
\* All jobs have ended.
CHECK_DEADLOCK FALSE
INVARIANTS
    DeadCallsNeverStart
    WaitsBehindOrphans
    NoStrayTempFile
    ArchivedBeforeRemoval
PROPERTIES
    EveryJobEnds
