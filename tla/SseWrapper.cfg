\* Every response of up to three body messages, whole or broken off.
CONSTANTS
    MaxBody = 4
    Lines = {"doc1", "open", "close", "blank"}
    MaxChunk = 2
    MaxMessages = 4
SPECIFICATION SseSpec
\* A request ends.
CHECK_DEADLOCK FALSE
INVARIANTS
    SseTypeOK
    OneResponse
    WholeResponse
    BoundedBuffer
    CleanFailure
