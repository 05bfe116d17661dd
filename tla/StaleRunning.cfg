\* A job that timed out, against the documented meaning of RUNNING.
CONSTANTS
    Jobs = {j1, j2}
    Workers = {w1}
    NoJob = NoJob
    NoInfo = NoInfo
    Backend = "s3"
    MaxStops = 0
    Faults <- TimeoutOnly
SPECIFICATION Spec
\* A drained pipeline, or one whose workers are all stopped, does nothing more.
CHECK_DEADLOCK FALSE
INVARIANTS
    RunningMeansExecuting
