\* Two jobs on two slots, while records are kept and no reply is lost.
CONSTANTS
    Jobs = {j1, j2}
    Workers = {w1, w2}
    NoJob = NoJob
    NoInfo = NoInfo
    Backend = "s3"
    MaxStops = 1
    Faults <- KeptRecords
SPECIFICATION Spec
\* A drained pipeline, or one whose workers are all stopped, does nothing more.
CHECK_DEADLOCK FALSE
INVARIANTS
    RecordConsistent
    QueuedIsTracked
PROPERTIES
    TerminalIsFinal
    ImplementsLifecycle
SYMMETRY JobAndSlotSymmetry
