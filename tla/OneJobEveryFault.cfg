\* One job on two slots, under every fault.
CONSTANTS
    Jobs = {j1}
    Workers = {w1, w2}
    NoJob = NoJob
    NoInfo = NoInfo
    Backend = "s3"
    MaxStops = 2
    Faults <- EveryFault
SPECIFICATION Spec
\* A drained pipeline, or one whose workers are all stopped, does nothing more.
CHECK_DEADLOCK FALSE
INVARIANTS
    AtMostOneExecution
    ArchiveNeverTorn
    NoArtifactLoss
SYMMETRY SlotSymmetry
