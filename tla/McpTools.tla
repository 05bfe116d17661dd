------------------------------ MODULE McpTools ------------------------------
(***************************************************************************)
(* api/mcp_server.py: the two MCP tools.  create_llamator_run submits a    *)
(* job and polls its record until it is terminal or the deadline passed;   *)
(* get_llamator_run reads it once.  Both then look for the archive.        *)
(*                                                                         *)
(* The pipeline behind the tools is JobLifecycle, which LlamatorRuns is    *)
(* shown to implement while no reply of Redis to a worker is lost and no   *)
(* record expires; a job whose enqueue_job failed is one that stays        *)
(* queued.  Time is discrete: the event loop, Redis and S3 take any time   *)
(* up to MaxDelay per await.                                               *)
(*                                                                         *)
(*   idle -> create -> enqueue -> poll -> reply -> resolve -> done         *)
(*                                  \-- sleep --/                          *)
(***************************************************************************)
EXTENDS JobLifecycle, Naturals

CONSTANTS
    Calls,          \* the tool calls
    RunTimeout,     \* settings.run_timeout_seconds
    PollInterval,   \* poll_interval_s
    MaxDelay,       \* an await ends at most this late
    LastStart,      \* bound: no call starts later
    MaxTime         \* bound: the clock stops here

ASSUME McpAssumption ==
    /\ RunTimeout \in Nat \ {0}
    /\ PollInterval \in Nat \ {0}
    /\ MaxDelay \in Nat \ {0}
    /\ LastStart \in Nat
    /\ MaxTime \in Nat
    /\ MaxTime >= LastStart + RunTimeout + 6 * MaxDelay

VARIABLES
    now,        \* loop.time()
    phase,      \* [Calls -> Phase], the await a call stands at
    call,       \* [Calls -> [tool, job, deadline]], what it was called with
    seen,       \* [Calls -> RecordState], the record it read last
    wake, due,  \* when its sleep is over; the latest time of its next step
    answer,     \* what it returned or raised
    url,        \* artifacts_download_url
    settledAt   \* history: when a record became terminal, Never before

callVars == <<phase, call, seen, wake, due, answer, url>>
mcpVars == <<lifecycleVars, now, settledAt, callVars>>

Phase == {"idle", "create", "enqueue", "poll", "reply", "sleep", "resolve", "done"}
Answer == {"none", "aggregated", "empty", "timeout", "key_error", "not_finished",
           "submit_error", "redis_error", "storage_error"}
Times == 0 .. MaxTime
Never == MaxTime + 1
Sums == 0 .. (MaxTime + RunTimeout + PollInterval + MaxDelay)

McpTypeOK ==
    /\ LifecycleTypeOK
    /\ now \in Times
    /\ phase \in [Calls -> Phase]
    /\ call \in [Calls -> [tool : {"create", "get"}, job : Jobs, deadline : Sums]]
    /\ seen \in [Calls -> RecordState]
    /\ wake \in [Calls -> Sums]
    /\ due \in [Calls -> Sums]
    /\ answer \in [Calls -> Answer]
    /\ url \in [Calls -> {"none", "given", "unavailable"}]
    /\ settledAt \in [Jobs -> Times \cup {Never}]

McpInit ==
    /\ LifecycleInit
    /\ now = 0
    /\ phase = [c \in Calls |-> "idle"]
    /\ call \in [Calls -> {[tool |-> "get", job |-> j, deadline |-> 0] : j \in Jobs}]
    /\ seen = [c \in Calls |-> "absent"]
    /\ wake = [c \in Calls |-> 0]
    /\ due = [c \in Calls |-> 0]
    /\ answer = [c \in Calls |-> "none"]
    /\ url = [c \in Calls |-> "none"]
    /\ settledAt = [j \in Jobs |-> Never]

-----------------------------------------------------------------------------
Active(c) == phase[c] \notin {"idle", "done"}
JobOf(c) == call[c].job

(* Mutant: any status other than queued counts as terminal.                *)
IsStarted(status) == status \in {"running", "succeeded", "failed"}

(* _is_terminal_status                                                     *)
IsTerminal(status) == status \in {"succeeded", "failed"}

(* Mutant: the last sleep is not cut at the deadline.                      *)
SleepUncut(c) == PollInterval

SleepFor(c) ==
    IF PollInterval < call[c].deadline - now THEN PollInterval ELSE call[c].deadline - now

Enter(c, p) ==
    /\ phase' = [phase EXCEPT ![c] = p]
    /\ due' = [due EXCEPT ![c] = now + MaxDelay]

(* The call returns or raises.                                             *)
Ends(c, result) ==
    /\ phase' = [phase EXCEPT ![c] = "done"]
    /\ answer' = [answer EXCEPT ![c] = result]
    /\ due' = [due EXCEPT ![c] = 0]
    /\ wake' = [wake EXCEPT ![c] = 0]

-----------------------------------------------------------------------------
(* create_llamator_run, as far as store.create in submit, which writes the *)
(* record of a new job; or a request that is invalid, or a Redis that      *)
(* fails, before anything is written.                                      *)
CallCreate(c, j) ==
    /\ phase[c] = "idle" /\ now <= LastStart
    /\ call' = [call EXCEPT ![c] = [tool |-> "create", job |-> j, deadline |-> 0]]
    /\ \/ Create(j) /\ Enter(c, "create") /\ UNCHANGED <<answer, wake>>
       \/ record[j] = "absent" /\ Ends(c, "submit_error") /\ UNCHANGED lifecycleVars
    /\ UNCHANGED <<now, settledAt, seen, url>>

(* The reply to the SET is there; enqueue_job is next.                     *)
Created(c) ==
    /\ phase[c] = "create"
    /\ \/ Enter(c, "enqueue") /\ UNCHANGED <<answer, wake>>
       \/ Ends(c, "submit_error")
    /\ UNCHANGED <<lifecycleVars, now, settledAt, call, seen, url>>

(* _await_job_completion begins when submit is through: its deadline is    *)
(* counted from here, however long the job will wait in the queue.         *)
Enqueued(c) ==
    /\ phase[c] = "enqueue"
    /\ \/ /\ Enter(c, "poll")
          /\ call' = [call EXCEPT ![c].deadline = now + RunTimeout]
          /\ UNCHANGED <<answer, wake>>
       \/ Ends(c, "submit_error") /\ UNCHANGED call
    /\ UNCHANGED <<lifecycleVars, now, settledAt, seen, url>>

CallGet(c, j) ==
    /\ phase[c] = "idle" /\ now <= LastStart
    /\ call' = [call EXCEPT ![c] = [tool |-> "get", job |-> j, deadline |-> now]]
    /\ Enter(c, "poll")
    /\ UNCHANGED <<lifecycleVars, now, settledAt, seen, wake, answer, url>>

(* Redis answers the GET with the record as it is now ...                  *)
Poll(c) ==
    /\ phase[c] = "poll"
    /\ seen' = [seen EXCEPT ![c] = record[JobOf(c)]]
    /\ Enter(c, "reply")
    /\ UNCHANGED <<lifecycleVars, now, settledAt, call, wake, answer, url>>

(* Mutant: no deadline, the call polls until the record is terminal.       *)
ReplyWithoutDeadline(c) ==
    /\ phase[c] = "reply"
    /\ \/ Ends(c, "redis_error")
       \/ seen[c] = "absent" /\ Ends(c, "key_error")
       \/ IsTerminal(seen[c]) /\ Enter(c, "resolve") /\ UNCHANGED <<answer, wake>>
       \/ /\ seen[c] # "absent" /\ ~IsTerminal(seen[c])
          /\ Enter(c, "poll")
          /\ UNCHANGED <<answer, wake>>
    /\ UNCHANGED <<lifecycleVars, now, settledAt, call, seen, url>>

(* ... and the call goes on with that answer, some time later; or without, *)
(* when the GET raised.                                                    *)
Reply(c) ==
    /\ phase[c] = "reply"
    /\ \/ Ends(c, "redis_error")
       \/ seen[c] = "absent" /\ Ends(c, "key_error")
       \/ IsTerminal(seen[c]) /\ Enter(c, "resolve") /\ UNCHANGED <<answer, wake>>
       \/ /\ seen[c] # "absent" /\ ~IsTerminal(seen[c])
          /\ \/ call[c].tool = "get" /\ Ends(c, "not_finished")
             \/ /\ call[c].tool = "create" /\ now >= call[c].deadline
                /\ Ends(c, "timeout")
             \/ /\ call[c].tool = "create" /\ now < call[c].deadline
                /\ phase' = [phase EXCEPT ![c] = "sleep"]
                /\ wake' = [wake EXCEPT ![c] = now + SleepFor(c)]
                /\ due' = [due EXCEPT ![c] = now + SleepFor(c) + MaxDelay]
                /\ UNCHANGED answer
    /\ UNCHANGED <<lifecycleVars, now, settledAt, call, seen, url>>

(* Mutant: the deadline is looked at after the sleep, before another read. *)
WakeAndGiveUp(c) ==
    /\ phase[c] = "sleep" /\ now >= wake[c]
    /\ IF now >= call[c].deadline THEN Ends(c, "timeout")
       ELSE Enter(c, "poll") /\ wake' = [wake EXCEPT ![c] = 0] /\ UNCHANGED answer
    /\ UNCHANGED <<lifecycleVars, now, settledAt, call, seen, url>>

Wake(c) ==
    /\ phase[c] = "sleep" /\ now >= wake[c]
    /\ Enter(c, "poll")
    /\ wake' = [wake EXCEPT ![c] = 0]
    /\ UNCHANGED <<lifecycleVars, now, settledAt, call, seen, answer, url>>

(* _extract_aggregated_or_empty and _try_get_artifacts_download_url: the   *)
(* link is left out when there is no archive or the backend fails in one   *)
(* of the ways that are caught; any other failure ends the call.           *)
Resolve(c) ==
    /\ phase[c] = "resolve"
    /\ \/ /\ Ends(c, IF seen[c] = "succeeded" THEN "aggregated" ELSE "empty")
          /\ \E reachable \in BOOLEAN :
              url' = [url EXCEPT ![c] = IF ~reachable THEN "unavailable"
                                        ELSE IF archived[JobOf(c)] THEN "given" ELSE "none"]
       \/ Ends(c, "storage_error") /\ UNCHANGED url
    /\ UNCHANGED <<lifecycleVars, now, settledAt, call, seen>>

CallStep(c) ==
    Created(c) \/ Enqueued(c) \/ Poll(c) \/ Reply(c) \/ Wake(c) \/ Resolve(c)

(* The pipeline, and jobs submitted over HTTP.                             *)
PipelineStep ==
    /\ LifecycleNext
    /\ settledAt' = [j \in Jobs |-> IF record[j] \notin Settled /\ record'[j] \in Settled
                                     THEN now ELSE settledAt[j]]
    /\ UNCHANGED <<now, callVars>>

Tick ==
    /\ now < MaxTime
    /\ \A c \in Calls : Active(c) => now < due[c]
    /\ now' = now + 1
    /\ UNCHANGED <<lifecycleVars, settledAt, callVars>>

McpNext ==
    \/ \E c \in Calls, j \in Jobs : CallCreate(c, j) \/ CallGet(c, j)
    \/ \E c \in Calls : CallStep(c)
    \/ PipelineStep
    \/ Tick

McpSpec == McpInit /\ [][McpNext]_mcpVars

(* The event loop runs and time passes; of the pipeline nothing is assumed.*)
FairMcpSpec ==
    McpSpec /\ WF_mcpVars(Tick) /\ \A c \in Calls : WF_mcpVars(CallStep(c))

-----------------------------------------------------------------------------
(* Properties.                                                             *)

(* A job that settled more than one Redis answer before the deadline is    *)
(* never reported as timed out: after the last sleep the record is read    *)
(* once more before the clock is compared with the deadline.               *)
NoFalseTimeout ==
    \A c \in Calls : answer[c] = "timeout" =>
        settledAt[JobOf(c)] + MaxDelay >= call[c].deadline

(* A call waits no longer than its timeout and three awaits, whatever the  *)
(* poll interval: the last sleep is cut at the deadline.                   *)
WaitIsBounded ==
    \A c \in Calls :
        call[c].tool = "create" /\ phase[c] \in {"poll", "reply", "sleep"}
            => now <= call[c].deadline + 3 * MaxDelay

(* What a call answered stays true of the record: results come with        *)
(* success, the empty answer with failure.  This rests on JobLifecycle: a  *)
(* set_result whose reply is lost, or a record that expires, breaks it.    *)
AnswerIsFinal ==
    \A c \in Calls :
        /\ answer[c] = "aggregated" => record[JobOf(c)] = "succeeded"
        /\ answer[c] = "empty" => record[JobOf(c)] = "failed"

(* And so does the link: it was given exactly when there is an archive,    *)
(* none appears after a caller was told that there is none.  It rests on   *)
(* JobLifecycle, too.                                                      *)
LinkIsFinal ==
    \A c \in Calls :
        /\ url[c] = "given" => archived[JobOf(c)]
        /\ answer[c] \in {"aggregated", "empty"} /\ url[c] = "none" => ~archived[JobOf(c)]

(* Every call is answered, although the job may never be.                  *)
EveryCallAnswers == \A c \in Calls : Active(c) ~> phase[c] = "done"

-----------------------------------------------------------------------------
(* The inductive strengthening of the four safety properties.              *)

(* A terminal record a call has read is still the record.                  *)
SeenInv ==
    \A c \in Calls :
        /\ phase[c] \in {"reply", "resolve"} /\ IsTerminal(seen[c])
             => record[JobOf(c)] = seen[c]
        /\ phase[c] = "resolve" => IsTerminal(seen[c])
        /\ answer[c] # "none" => phase[c] = "done"
        /\ url[c] # "none" => answer[c] \in {"aggregated", "empty"}

(* When the next step of a call is due, counted from its deadline.         *)
DueInv ==
    \A c \in Calls :
        /\ Active(c) => now <= due[c]
        /\ phase[c] \in Phase \ {"idle", "sleep", "done"} => due[c] <= now + MaxDelay
        /\ answer[c] = "timeout" => now >= call[c].deadline
        /\ call[c].tool = "create" =>
             /\ phase[c] = "sleep" => wake[c] <= call[c].deadline
                                      /\ due[c] = wake[c] + MaxDelay
             /\ phase[c] = "poll" => due[c] <= call[c].deadline + 2 * MaxDelay
             /\ phase[c] = "reply" => due[c] <= call[c].deadline + 3 * MaxDelay
        /\ phase[c] = "sleep" => call[c].tool = "create"

(* A record read as unsettled had not settled when the read was answered.  *)
UnsettledInv ==
    /\ \A j \in Jobs : record[j] \notin Settled => settledAt[j] = Never
    /\ \A c \in Calls : phase[c] = "reply" /\ ~IsTerminal(seen[c])
                          => settledAt[JobOf(c)] + MaxDelay >= due[c]

McpInv ==
    /\ McpTypeOK /\ SeenInv /\ DueInv /\ UnsettledInv
    /\ NoFalseTimeout /\ AnswerIsFinal /\ LinkIsFinal
=============================================================================
