\* Two calls of the MCP tools on one job.
CONSTANTS
    Jobs = {j1}
    Calls = {c1, c2}
    RunTimeout = 4
    PollInterval = 3
    MaxDelay = 1
    LastStart = 1
    MaxTime = 11
SPECIFICATION FairMcpSpec
\* The clock stops at MaxTime.
CHECK_DEADLOCK FALSE
INVARIANTS
    NoFalseTimeout
    WaitIsBounded
    AnswerIsFinal
    LinkIsFinal
PROPERTIES
    EveryCallAnswers
