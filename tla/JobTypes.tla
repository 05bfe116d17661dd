------------------------------ MODULE JobTypes ------------------------------
(***************************************************************************)
(* The parameters shared by every module of the job pipeline: the jobs,    *)
(* the worker slots, and which faults of the environment a run admits.     *)
(* A fault is a thing that Redis, ARQ, the orchestrator or the clock may   *)
(* do to the code; the code's own reactions are never optional.            *)
(***************************************************************************)
EXTENDS Naturals, FiniteSets

CONSTANTS
    Jobs,       \* job identifiers (uuid4().hex, never reused)
    Workers,    \* ARQ job slots, each seen as a worker process of its own
    NoJob,      \* "this slot runs nothing"
    NoInfo,     \* "the key llamator:job:<id> does not exist"
    Faults,     \* the faults of the environment this instance admits
    Backend,    \* the resolved artifacts backend, "local" or "s3"
    MaxStops    \* bound on the crashes and shutdowns of workers

AllFaults ==
    {"redis_error",       \* a Redis call fails and was not applied
     "redis_lost_reply",  \* a Redis write fails but was applied
     "timeout",           \* ARQ cancels a job after job_timeout
     "crash",             \* a worker process dies
     "shutdown",          \* a worker process is asked to stop
     "api_crash",         \* the API dies between its two writes
     "record_ttl",        \* a job record outlives job_ttl_seconds
     "payload_ttl",       \* a queued payload outlives ARQ's one day
     "bad_payload"}       \* the payload does not validate in the worker

ASSUME ConstantsAssumption ==
    /\ NoJob \notin Jobs
    /\ Faults \subseteq AllFaults
    /\ Backend \in {"local", "s3"}
    /\ MaxStops \in Nat

(* What a Redis write can do to the caller: it returns, it raises without  *)
(* having been applied, or it raises although it was applied.              *)
WriteOutcomes ==
    {"ok"} \cup (IF "redis_error" \in Faults THEN {"refused"} ELSE {})
           \cup (IF "redis_lost_reply" \in Faults THEN {"lost"} ELSE {})

Applied(outcome) == outcome \in {"ok", "lost"}
=============================================================================
