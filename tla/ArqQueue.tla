------------------------------ MODULE ArqQueue ------------------------------
(***************************************************************************)
(* The ARQ queue, a library, as the code under src/ uses it:               *)
(* enqueue_job(..., _job_id=job_id) on the API side and                    *)
(* WorkerSettings(functions, job_timeout, max_tries) on the worker side.   *)
(* Four families of Redis keys, one variable each.                         *)
(***************************************************************************)
EXTENDS JobTypes

VARIABLES
    queue,       \* the sorted set of queued job ids
    payload,     \* the jobs whose arq:job:<id> key (the arguments) exists
    inProgress,  \* the jobs whose arq:in-progress:<id> key exists
    tries        \* [Jobs -> Nat], the arq:retry:<id> counters

arqVars == <<queue, payload, inProgress, tries>>

QueueTypeOK ==
    /\ queue \subseteq Jobs
    /\ payload \subseteq Jobs
    /\ inProgress \subseteq Jobs
    /\ tries \in [Jobs -> Nat]

QueueInit ==
    /\ queue = {}
    /\ payload = {}
    /\ inProgress = {}
    /\ tries = [j \in Jobs |-> 0]

(* The arguments and the queue entry are written in one MULTI.             *)
ArqEnqueue(j, outcome) ==
    /\ queue' = IF Applied(outcome) THEN queue \cup {j} ELSE queue
    /\ payload' = IF Applied(outcome) THEN payload \cup {j} ELSE payload
    /\ UNCHANGED <<inProgress, tries>>

(* A worker claims a queued job nobody holds the in-progress key of.       *)
ArqClaim(j) ==
    /\ j \in queue
    /\ j \notin inProgress
    /\ inProgress' = inProgress \cup {j}
    /\ UNCHANGED <<queue, payload, tries>>

(* run_job reads the arguments and counts the attempt.                     *)
ArqAttempt(j) ==
    /\ tries' = [tries EXCEPT ![j] = @ + 1]
    /\ UNCHANGED <<queue, payload, inProgress>>

(* finish_job / finish_failed_job: the job is forgotten.                   *)
ArqForget(j) ==
    /\ queue' = queue \ {j}
    /\ payload' = payload \ {j}
    /\ inProgress' = inProgress \ {j}
    /\ tries' = [tries EXCEPT ![j] = 0]

(* A job cancelled by a shutdown stays queued, with its attempt counted.   *)
ArqRelease(j) ==
    /\ inProgress' = inProgress \ {j}
    /\ UNCHANGED <<queue, payload, tries>>

ArqPayloadExpire(j) ==
    /\ "payload_ttl" \in Faults
    /\ j \in payload
    /\ payload' = payload \ {j}
    /\ UNCHANGED <<queue, inProgress, tries>>
=============================================================================
