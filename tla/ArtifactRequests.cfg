\* One request to either backend, pages of two keys, while keys come and one goes.
CONSTANTS
    Requests = {r1}
    Keys <- NestedKeys
    MaxKeys = 2
    MaxRemovals = 1
    Failures <- AllFailures
SPECIFICATION ArtifactsSpec
\* All requests are answered.
CHECK_DEADLOCK FALSE
INVARIANTS
    ArtifactsTypeOK
    ListingIsComplete
    RedirectIsExact
PROPERTIES
    ListingMovesOn
