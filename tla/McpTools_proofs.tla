-------------------------- MODULE McpTools_proofs --------------------------
(***************************************************************************)
(* Proofs about the MCP tools, for every number of calls and jobs and every*)
(* timeout, poll interval and delay.                                       *)
(***************************************************************************)
EXTENDS McpTools, TLAPS

(* The invariant holds before any call.                                    *)
LEMMA InitMcp == McpInit => McpInv
  BY McpAssumption
  DEF McpInit, LifecycleInit, McpInv, McpTypeOK, LifecycleTypeOK, SeenInv, DueInv,
      UnsettledInv, NoFalseTimeout, AnswerIsFinal, LinkIsFinal, RecordState, Settled,
      Phase, Answer, Times, Never, Sums, Active, IsTerminal, JobOf

(* No step of a call, of the pipeline or of the clock disturbs it.         *)
LEMMA McpStep == McpInv /\ [McpNext]_mcpVars => McpInv'
<1> SUFFICES ASSUME McpInv, [McpNext]_mcpVars PROVE McpInv'
  OBVIOUS
<1> USE McpAssumption
<1> USE DEF McpInv, McpTypeOK, LifecycleTypeOK, SeenInv, DueInv,
      UnsettledInv, NoFalseTimeout, AnswerIsFinal, LinkIsFinal, RecordState, Settled,
      Phase, Answer, Times, Never, Sums, Active, IsTerminal, JobOf, callVars, lifecycleVars, Enter, Ends
<1>1. ASSUME NEW c \in Calls, NEW j \in Jobs, CallCreate(c, j) PROVE McpInv'
  <2>0. /\ UNCHANGED <<now, settledAt, seen, url>> /\ phase[c] = "idle" /\ record[j] = "absent"
        /\ call' = [call EXCEPT ![c] = [tool |-> "create", job |-> j, deadline |-> 0]]
    BY <1>1 DEF CallCreate, Create, Moves
  <2>1. CASE Create(j) /\ Enter(c, "create") /\ UNCHANGED <<answer, wake>>
    BY <2>0, <2>1 DEF Create, Moves
  <2>2. CASE Ends(c, "submit_error") /\ UNCHANGED lifecycleVars
    BY <2>0, <2>2
  <2> QED
    BY <1>1, <2>1, <2>2 DEF CallCreate
<1>10. ASSUME NEW c \in Calls, Created(c) PROVE McpInv'
  <2>0. UNCHANGED <<lifecycleVars, now, settledAt, call, seen, url>> /\ phase[c] = "create"
    BY <1>10 DEF Created
  <2>1. CASE Enter(c, "enqueue") /\ UNCHANGED <<answer, wake>>
    BY <2>0, <2>1
  <2>2. CASE Ends(c, "submit_error")
    BY <2>0, <2>2
  <2> QED
    BY <1>10, <2>1, <2>2 DEF Created
<1>11. ASSUME NEW c \in Calls, Enqueued(c) PROVE McpInv'
  <2>0. UNCHANGED <<lifecycleVars, now, settledAt, seen, url>> /\ phase[c] = "enqueue"
    BY <1>11 DEF Enqueued
  <2>1. CASE /\ Enter(c, "poll") /\ UNCHANGED <<answer, wake>>
             /\ call' = [call EXCEPT ![c].deadline = now + RunTimeout]
    <3>1. now + RunTimeout \in Sums
      OBVIOUS
    <3>2. /\ call'[c].tool = call[c].tool /\ call'[c].job = call[c].job
          /\ call'[c].deadline = now + RunTimeout
          /\ \A d \in Calls : d # c => call'[d] = call[d]
          /\ call' \in [Calls -> [tool : {"create", "get"}, job : Jobs, deadline : Sums]]
      BY <2>1, <3>1
    <3> QED
      BY <2>0, <2>1, <3>2
  <2>2. CASE Ends(c, "submit_error") /\ UNCHANGED call
    BY <2>0, <2>2
  <2> QED
    BY <1>11, <2>1, <2>2 DEF Enqueued
<1>2. ASSUME NEW c \in Calls, NEW j \in Jobs, CallGet(c, j) PROVE McpInv'
  BY <1>2 DEF CallGet
<1>3. ASSUME NEW c \in Calls, Poll(c) PROVE McpInv'
  BY <1>3 DEF Poll
<1>4. ASSUME NEW c \in Calls, Reply(c) PROVE McpInv'
  <2>0. UNCHANGED <<lifecycleVars, now, settledAt, call, seen, url>> /\ phase[c] = "reply"
    BY <1>4 DEF Reply
  <2>1. CASE \E error \in {"redis_error", "key_error", "not_finished"} : Ends(c, error)
    BY <2>0, <2>1
  <2>2. CASE /\ IsTerminal(seen[c]) /\ Enter(c, "resolve")
             /\ UNCHANGED <<answer, wake>>
    BY <2>0, <2>2
  <2>3. CASE /\ ~IsTerminal(seen[c]) /\ now >= call[c].deadline
             /\ Ends(c, "timeout")
    <3>1. settledAt[JobOf(c)] + MaxDelay >= call[c].deadline
      BY <2>0, <2>3
    <3> QED
      BY <2>0, <2>3, <3>1
  <2>4. CASE /\ call[c].tool = "create" /\ now < call[c].deadline
             /\ phase' = [phase EXCEPT ![c] = "sleep"]
             /\ wake' = [wake EXCEPT ![c] = now + SleepFor(c)]
             /\ due' = [due EXCEPT ![c] = now + SleepFor(c) + MaxDelay]
             /\ UNCHANGED answer
    <3>1. /\ SleepFor(c) \in Nat
          /\ SleepFor(c) <= PollInterval
          /\ now + SleepFor(c) <= call[c].deadline
      BY <2>4 DEF SleepFor
    <3>2. now + SleepFor(c) \in Sums /\ now + SleepFor(c) + MaxDelay \in Sums
      BY <3>1
    <3>3. McpTypeOK'
      BY <2>0, <2>4, <3>2
    <3>4. DueInv'
      BY <2>0, <2>4, <3>1, <3>2
    <3>5. SeenInv' /\ UnsettledInv'
      BY <2>0, <2>4
    <3>6. NoFalseTimeout' /\ AnswerIsFinal' /\ LinkIsFinal'
      BY <2>0, <2>4
    <3> QED
      BY <3>3, <3>4, <3>5, <3>6
  <2> QED
    BY <1>4, <2>1, <2>2, <2>3, <2>4 DEF Reply
<1>5. ASSUME NEW c \in Calls, Wake(c) PROVE McpInv'
  BY <1>5 DEF Wake
<1>6. ASSUME NEW c \in Calls, Resolve(c) PROVE McpInv'
  <2>0. UNCHANGED <<lifecycleVars, now, settledAt, call, seen>> /\ phase[c] = "resolve"
    BY <1>6 DEF Resolve
  <2>1. CASE Ends(c, "storage_error") /\ UNCHANGED url
    BY <2>0, <2>1
  <2>2. CASE ~(Ends(c, "storage_error") /\ UNCHANGED url)
    <3>1. PICK reachable \in BOOLEAN :
            url' = [url EXCEPT ![c] = IF ~reachable THEN "unavailable"
                                      ELSE IF archived[JobOf(c)] THEN "given" ELSE "none"]
      BY <1>6, <2>2 DEF Resolve
    <3>2. Ends(c, IF seen[c] = "succeeded" THEN "aggregated" ELSE "empty")
      BY <1>6, <2>2 DEF Resolve
    <3>3. McpTypeOK'
      BY <2>0, <3>1, <3>2
    <3>4. SeenInv' /\ DueInv' /\ UnsettledInv' /\ NoFalseTimeout'
      BY <2>0, <3>1, <3>2
    <3>5. AnswerIsFinal'
      BY <2>0, <3>2
    <3>6. LinkIsFinal'
      BY <2>0, <3>1, <3>2
    <3> QED
      BY <3>3, <3>4, <3>5, <3>6
  <2> QED
    BY <2>1, <2>2
<1>7. ASSUME PipelineStep PROVE McpInv'
  <2>0. UNCHANGED <<now, callVars>>
    BY <1>7 DEF PipelineStep
  <2>1. /\ LifecycleTypeOK'
        /\ \A j \in Jobs : record[j] \in Settled
             => record'[j] = record[j] /\ archived'[j] = archived[j]
        /\ \A j \in Jobs : archived[j] => archived'[j]
    <3>1. PICK j \in Jobs : Create(j) \/ Start(j) \/ Succeed(j) \/ Fail(j) \/ Publish(j)
      BY <1>7 DEF PipelineStep, LifecycleNext
    <3>2. CASE Publish(j)
      <4>1. record' = record /\ record[j] = "running"
        BY <3>2 DEF Publish
      <4>2. archived' = [archived EXCEPT ![j] = TRUE]
        BY <3>2 DEF Publish
      <4>3. /\ archived' \in [Jobs -> BOOLEAN]
            /\ \A k \in Jobs : k # j => archived'[k] = archived[k]
        BY <4>2
      <4>4. archived'[j]
        BY <4>2
      <4>5. \A k \in Jobs : record[k] \in Settled => k # j
        BY <4>1
      <4>6. \A k \in Jobs : archived[k] => archived'[k]
        BY <4>3, <4>4
      <4> QED
        BY <4>1, <4>3, <4>5, <4>6
    <3>3. ASSUME NEW from \in {"absent", "queued", "running"}, NEW to \in RecordState,
                 Moves(j, from, to)
          PROVE  <2>1!1 /\ <2>1!2 /\ <2>1!3
      BY <3>3 DEF Moves
    <3> QED
      BY <3>1, <3>2, <3>3 DEF Create, Start, Succeed, Fail
  <2>2. /\ settledAt' \in [Jobs -> Times \cup {Never}]
        /\ \A j \in Jobs : \/ settledAt'[j] = settledAt[j]
                          \/ (settledAt[j] = Never /\ settledAt'[j] = now)
        /\ \A j \in Jobs : record'[j] \notin Settled => settledAt'[j] = Never
    <3>1. settledAt' = [j \in Jobs |-> IF record[j] \notin Settled /\ record'[j] \in Settled
                                       THEN now ELSE settledAt[j]]
      BY <1>7 DEF PipelineStep
    <3>2. now \in Times
      OBVIOUS
    <3>3. settledAt' \in [Jobs -> Times \cup {Never}]
      BY <3>1, <3>2
    <3>4. ASSUME NEW j \in Jobs
          PROVE  /\ \/ settledAt'[j] = settledAt[j]
                    \/ (settledAt[j] = Never /\ settledAt'[j] = now)
                 /\ record'[j] \notin Settled => settledAt'[j] = Never
      <4>1. settledAt'[j] = IF record[j] \notin Settled /\ record'[j] \in Settled
                            THEN now ELSE settledAt[j]
        BY <3>1
      <4>2. record[j] \notin Settled => settledAt[j] = Never
        OBVIOUS
      <4>3. record'[j] \notin Settled => record[j] \notin Settled
        BY <2>1
      <4> QED
        BY <3>3, <4>1, <4>2, <4>3
    <3> QED
      BY <3>3, <3>4
  <2>3. McpTypeOK' /\ SeenInv' /\ DueInv'
    BY <2>0, <2>1, <2>2
  <2>4. UnsettledInv'
    BY <2>0, <2>1, <2>2
  <2>5. NoFalseTimeout'
    BY <2>0, <2>2
  <2>6. AnswerIsFinal' /\ LinkIsFinal'
    BY <2>0, <2>1
  <2> QED
    BY <2>3, <2>4, <2>5, <2>6
<1>8. ASSUME Tick PROVE McpInv'
  BY <1>8 DEF Tick
<1>9. ASSUME UNCHANGED mcpVars PROVE McpInv'
  BY <1>9 DEF mcpVars
<1> HIDE DEF McpInv
<1> QED
  BY <1>1, <1>2, <1>3, <1>4, <1>5, <1>6, <1>7, <1>8, <1>9, <1>10, <1>11 DEF McpNext, CallStep

(* The invariant of the calls holds in every reachable state.              *)
LEMMA McpHolds == McpSpec => []McpInv
  BY InitMcp, McpStep, PTL DEF McpSpec

(* A job that settled in time is never reported as timed out.              *)
THEOREM TimeoutsAreTrue == McpSpec => []NoFalseTimeout
<1>1. McpInv => NoFalseTimeout
  BY DEF McpInv
<1> QED
  BY McpHolds, <1>1, PTL

(* A waiting call is past its deadline by three awaits at most.            *)
THEOREM WaitsAreBounded == McpSpec => []WaitIsBounded
<1>1. McpInv => WaitIsBounded
  BY McpAssumption
  DEF McpInv, McpTypeOK, DueInv, WaitIsBounded, Active, Times, Sums
<1> QED
  BY McpHolds, <1>1, PTL

(* What a call answered agrees with the record of the job for ever.        *)
THEOREM AnswersAreFinal == McpSpec => []AnswerIsFinal
<1>1. McpInv => AnswerIsFinal
  BY DEF McpInv
<1> QED
  BY McpHolds, <1>1, PTL

(* A link was given exactly when there is an archive, and whoever was told *)
(* that there is none is not refuted by one that appears later.            *)
THEOREM LinksAreFinal == McpSpec => []LinkIsFinal
<1>1. McpInv => LinkIsFinal
  BY DEF McpInv
<1> QED
  BY McpHolds, <1>1, PTL
=============================================================================
