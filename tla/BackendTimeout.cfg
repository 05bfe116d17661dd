\* A read timeout of S3, against the documented answers.
CONSTANTS
    Requests = {r1}
    Keys <- NestedKeys
    MaxKeys = 2
    MaxRemovals = 1
    Failures <- AllFailures
SPECIFICATION ArtifactsSpec
\* All requests are answered.
CHECK_DEADLOCK FALSE
INVARIANTS
    FailuresAsDocumented
