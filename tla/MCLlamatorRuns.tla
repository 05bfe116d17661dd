--------------------------- MODULE MCLlamatorRuns ---------------------------
(* Values of the constants of LlamatorRuns for TLC.                        *)
EXTENDS LlamatorRuns, TLC

EveryFault == AllFaults
KeptRecords == AllFaults \ {"redis_lost_reply", "record_ttl"}
StopsAndExpiries == {"timeout", "crash", "shutdown", "record_ttl", "payload_ttl"}
TimeoutOnly == {"timeout"}
LostReplyOnly == {"redis_lost_reply"}

SlotSymmetry == Permutations(Workers)
JobAndSlotSymmetry == Permutations(Jobs) \cup Permutations(Workers)
=============================================================================
