\* A lost reply to set_result, against the documented shape of a record.
CONSTANTS
    Jobs = {j1, j2}
    Workers = {w1}
    NoJob = NoJob
    NoInfo = NoInfo
    Backend = "s3"
    MaxStops = 0
    Faults <- LostReplyOnly
SPECIFICATION Spec
\* A drained pipeline, or one whose workers are all stopped, does nothing more.
CHECK_DEADLOCK FALSE
INVARIANTS
    ResultOrError
