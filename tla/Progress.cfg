\* Runs may hang, a worker may stop, the record and the payload may expire.
CONSTANTS
    Jobs = {j1}
    Workers = {w1, w2}
    NoJob = NoJob
    NoInfo = NoInfo
    Backend = "s3"
    MaxStops = 1
    Faults <- StopsAndExpiries
SPECIFICATION FairSpec
\* A drained pipeline, or one whose workers are all stopped, does nothing more.
CHECK_DEADLOCK FALSE
INVARIANTS
    RecordConsistent
PROPERTIES
    TerminalIsFinal
    AcceptedCompletes
    QueueDrains
