------------------------ MODULE LlamatorRuns_proofs ------------------------
(***************************************************************************)
(* Proofs of the safety of the job pipeline, for any set of jobs and slots,*)
(* any bound on stops, either backend and any set of faults.               *)
(***************************************************************************)
EXTENDS LlamatorRuns, TLAPS

USE DEF JobStatus, TerminalStatus

(* Every record the handlers build from a record is a record.              *)
LEMMA RecordTyping ==
    ASSUME NEW info \in Info, NEW status \in JobStatus,
           NEW error \in {"none", "empty", "exception"}
    PROVE  /\ WithStatus(info, status) \in Info
           /\ WithResult(info) \in Info
           /\ WithError(info, error) \in Info
  BY DEF Info, WithStatus, WithResult, WithError

(* The record that create writes is a record.                             *)
LEMMA NewInfoTyping == NewInfo \in Info
  BY DEF Info, NewInfo

(* An outcome written on top of a record is a record.                      *)
LEMMA OutcomeTyping ==
    ASSUME NEW w \in Workers, snap[w] \in Info
    PROVE  OutcomeInfo(w) \in Info
  BY RecordTyping DEF OutcomeInfo

(* Init establishes the types.                                             *)
LEMMA InitTyping == Init => TypeOK
  BY DEF Init, StoreInit, QueueInit, WorkerInit, TypeOK, StoreTypeOK, QueueTypeOK,
         WorkerTypeOK, ApiTypeOK, Pcs, ExecutePcs, ArqPcs

(* Init establishes the base invariant.                                    *)
LEMMA InitBase == Init => BaseInv
  BY InitTyping DEF BaseInv, SlotInv, SnapInv, Init, WorkerInit

(* Every action keeps the types, the slots and the copies read from Redis.  *)
LEMMA BaseStep == BaseInv /\ [Next]_vars => BaseInv'
<1> SUFFICES ASSUME BaseInv, [Next]_vars PROVE BaseInv'
  OBVIOUS
<1> USE ConstantsAssumption
<1> USE DEF BaseInv, SlotInv, SnapInv, TypeOK, StoreTypeOK, QueueTypeOK,
            WorkerTypeOK, ApiTypeOK, Pcs, ExecutePcs, ArqPcs,
            localVars, fileVars, workerVars, arqVars, GoTo
<1>1. ASSUME NEW j \in Jobs, CreateRecord(j) PROVE BaseInv'
  BY <1>1, NewInfoTyping DEF CreateRecord, SetInfo
<1>2. ASSUME NEW j \in Jobs, EnqueueJob(j) PROVE BaseInv'
  BY <1>2 DEF EnqueueJob, ArqEnqueue
<1>3. ASSUME NEW j \in Jobs, ApiCrash(j) PROVE BaseInv'
  BY <1>3 DEF ApiCrash
<1>4. ASSUME NEW w \in Workers, NEW j \in Jobs, Poll(w, j), UNCHANGED api PROVE BaseInv'
  BY <1>4 DEF Poll, ArqClaim
<1>5. ASSUME NEW w \in Workers, RunJob(w), UNCHANGED api PROVE BaseInv'
  BY <1>5 DEF RunJob, ArqAttempt
<1>6. ASSUME NEW w \in Workers, FinishJob(w), UNCHANGED api PROVE BaseInv'
  BY <1>6 DEF FinishJob, ArqForget, LeaveJob
<1>7. ASSUME NEW w \in Workers, Requeue(w), UNCHANGED api PROVE BaseInv'
  BY <1>7 DEF Requeue, ArqRelease, LeaveJob
<1>8. ASSUME NEW w \in Workers, UpdateStatusGet(w), UNCHANGED api PROVE BaseInv'
  BY <1>8 DEF UpdateStatusGet, GetReturns, Present
<1>9. ASSUME NEW w \in Workers, UpdateStatusSet(w), UNCHANGED api PROVE BaseInv'
  BY <1>9, RecordTyping DEF UpdateStatusSet, SetInfo
<1>10. ASSUME NEW w \in Workers, ThreadStart(w), UNCHANGED api PROVE BaseInv'
  BY <1>10 DEF ThreadStart, Raise
<1>11. ASSUME NEW w \in Workers, RunReturns(w), UNCHANGED api PROVE BaseInv'
  BY <1>11 DEF RunReturns
<1>12. ASSUME NEW w \in Workers, Upload(w), UNCHANGED api PROVE BaseInv'
  BY <1>12 DEF Upload, Stored, ZipOf
<1>13. ASSUME NEW w \in Workers, OutcomeGet(w), UNCHANGED api PROVE BaseInv'
  BY <1>13 DEF OutcomeGet, GetReturns, Present, Raise
<1>14. ASSUME NEW w \in Workers, OutcomeSet(w), UNCHANGED api PROVE BaseInv'
  BY <1>14, OutcomeTyping DEF OutcomeSet, SetInfo, Raise
<1>15. ASSUME NEW w \in Workers, CleanupLocal(w), UNCHANGED api PROVE BaseInv'
  BY <1>15 DEF CleanupLocal, Cleaned, ExitOf
<1>16. ASSUME NEW w \in Workers, NEW why \in {"timeout", "shutdown"},
              CancelBeforeTry(w, why), UNCHANGED api PROVE BaseInv'
  BY <1>16, RecordTyping DEF CancelBeforeTry, CancelledFrom, SetInfo, ExitOf
<1>17. ASSUME NEW w \in Workers, NEW why \in {"timeout", "shutdown"},
              CancelInTry(w, why), UNCHANGED api PROVE BaseInv'
  BY <1>17, OutcomeTyping DEF CancelInTry, CancelledFrom, SetInfo, Stored, ZipOf
<1>18. ASSUME NEW w \in Workers, NEW why \in {"timeout", "shutdown"},
              CancelInFinally(w, why), UNCHANGED api PROVE BaseInv'
  BY <1>18 DEF CancelInFinally, CancelledFrom, Cleaned, ExitOf
<1>19. ASSUME NEW w \in Workers, NEW j \in Jobs, OrphanEnds(w, j), UNCHANGED api
       PROVE BaseInv'
  BY <1>19 DEF OrphanEnds
<1>20. ASSUME NEW w \in Workers, Crash(w), UNCHANGED api PROVE BaseInv'
  BY <1>20 DEF Crash, LeaveJob
<1>21. ASSUME NEW w \in Workers, Restart(w), UNCHANGED api PROVE BaseInv'
  BY <1>21 DEF Restart
<1>22. ASSUME EnvironmentNext, UNCHANGED api PROVE BaseInv'
  BY <1>22 DEF EnvironmentNext, LockExpires, ArqPayloadExpire, StoreExpire
<1>23. ASSUME UNCHANGED vars PROVE BaseInv'
  BY <1>23 DEF vars
<1> QED
  BY <1>1, <1>2, <1>3, <1>4, <1>5, <1>6, <1>7, <1>8, <1>9, <1>10, <1>11, <1>12,
     <1>13, <1>14, <1>15, <1>16, <1>17, <1>18, <1>19, <1>20, <1>21, <1>22, <1>23, SMTT(30)
  DEF Next, Submit, WorkerNext, ArqStep, ExecuteStep, Cancel

(* Every record, key and slot keeps its type, under every fault.           *)
THEOREM TypeCorrect == Spec => []TypeOK
<1>1. BaseInv => TypeOK
  BY DEF BaseInv
<1> QED
  BY InitBase, BaseStep, <1>1, PTL DEF Spec

(* What the fetched job's payload and counter say to the slot that fetched *)
(* it: under max_tries = 1 nobody has run the job and nobody is running it.*)
LEMMA FirstAttempt ==
    ASSUME SafetyInv, NEW w \in Workers, pc[w] = "fetch",
           job[w] \in payload, tries[job[w]] + 1 <= MaxTries
    PROVE  /\ job[w] \in Jobs
           /\ tries[job[w]] = 0
           /\ starts[job[w]] = 0
           /\ \A v \in Workers : job[v] = job[w] => ~Executing(v)
<1>1. job[w] \in Jobs /\ tries[job[w]] \in Nat
  BY DEF SafetyInv, BaseInv, SlotInv, TypeOK, WorkerTypeOK, QueueTypeOK
<1>2. tries[job[w]] = 0
  BY <1>1 DEF MaxTries
<1> QED
  BY <1>1, <1>2 DEF SafetyInv, AttemptInv

(* No action disturbs the safety invariant.  Per action, the definitions   *)
(* it unfolds to and what of the invariant it can touch.                   *)
LEMMA SafetyStep == SafetyInv /\ [Next]_vars => SafetyInv'
<1> SUFFICES ASSUME SafetyInv, [Next]_vars PROVE SafetyInv'
  OBVIOUS
<1> USE ConstantsAssumption
<1> USE DEF SafetyInv, BaseInv, SlotInv, TypeOK, StoreTypeOK, QueueTypeOK,
            WorkerTypeOK, ApiTypeOK, Pcs, ExecutePcs, ArqPcs,
            SubmitInv, AttemptInv, ExclusiveInv, StartInv, AtMostOneExecution,
            ThreadInv, ArchiveInv, ArchiveNeverTorn, NoArtifactLoss,
            Executing, BeforeRun, AfterRun, HasUpload,
            localVars, fileVars, workerVars, arqVars, GoTo
<1>0. BaseInv'
  BY BaseStep
<1>1. ASSUME NEW j \in Jobs, CreateRecord(j)
      PROVE  SafetyInv'
  BY <1>0, <1>1 DEF CreateRecord
<1>2. ASSUME NEW j \in Jobs, EnqueueJob(j)
      PROVE  SafetyInv'
  BY <1>0, <1>2 DEF EnqueueJob, ArqEnqueue
<1>3. ASSUME NEW j \in Jobs, ApiCrash(j)
      PROVE  SafetyInv'
  BY <1>0, <1>3 DEF ApiCrash
<1>4. ASSUME NEW w \in Workers, NEW j \in Jobs, Poll(w, j), UNCHANGED api
      PROVE  SafetyInv'
  BY <1>0, <1>4 DEF Poll, ArqClaim
<1>5. ASSUME NEW w \in Workers, RunJob(w), UNCHANGED api
      PROVE  SafetyInv'
  <2>1. CASE job[w] \in payload /\ tries[job[w]] + 1 <= MaxTries
    <3>1. /\ job[w] \in Jobs
          /\ tries[job[w]] = 0
          /\ starts[job[w]] = 0
          /\ \A v \in Workers : job[v] = job[w] => ~Executing(v)
      BY <1>5, <2>1, FirstAttempt DEF RunJob
    <3>2. pc' = [pc EXCEPT ![w] = "upd_get"] /\ tries' = [tries EXCEPT ![job[w]] = 1]
      BY <1>5, <2>1, <3>1 DEF RunJob, ArqAttempt
    <3>3. AttemptInv'
      BY <1>5, <3>1, <3>2 DEF RunJob, ArqAttempt
    <3>4. ExclusiveInv' /\ StartInv'
      BY <1>5, <3>1, <3>2 DEF RunJob, ArqAttempt
    <3>5. ThreadInv' /\ ArchiveInv'
      BY <1>0, <1>5, <3>1, <3>2 DEF RunJob, ArqAttempt
    <3>6. SubmitInv' /\ ArchiveNeverTorn' /\ NoArtifactLoss'
      BY <1>5, <3>1, <3>2 DEF RunJob, ArqAttempt
    <3> QED
      BY <1>0, <3>3, <3>4, <3>5, <3>6
  <2>2. CASE ~(job[w] \in payload /\ tries[job[w]] + 1 <= MaxTries)
    <3>1. pc' = [pc EXCEPT ![w] = "finish"]
      BY <1>5, <2>2 DEF RunJob
    <3>2. \A k \in Jobs : tries[k] # 0 => tries'[k] # 0
      BY <1>5, <3>1 DEF RunJob, ArqAttempt
    <3>3. AttemptInv'
      BY <1>5, <3>1, <3>2 DEF RunJob, ArqAttempt
    <3> QED
      BY <1>0, <1>5, <3>1, <3>3 DEF RunJob, ArqAttempt
  <2> QED
    BY <2>1, <2>2
<1>6. ASSUME NEW w \in Workers, FinishJob(w), UNCHANGED api
      PROVE  SafetyInv'
  BY <1>0, <1>6 DEF FinishJob, ArqForget, LeaveJob
<1>7. ASSUME NEW w \in Workers, Requeue(w), UNCHANGED api
      PROVE  SafetyInv'
  BY <1>0, <1>7 DEF Requeue, ArqRelease, LeaveJob
<1>8. ASSUME NEW w \in Workers, UpdateStatusGet(w), UNCHANGED api
      PROVE  SafetyInv'
  BY <1>0, <1>8 DEF UpdateStatusGet, GetReturns, Present
<1>9. ASSUME NEW w \in Workers, UpdateStatusSet(w), UNCHANGED api
      PROVE  SafetyInv'
  BY <1>0, <1>9 DEF UpdateStatusSet
<1>10. ASSUME NEW w \in Workers, ThreadStart(w), UNCHANGED api
      PROVE  SafetyInv'
  <2>1. job[w] \in Jobs /\ Executing(w) /\ starts[job[w]] = 0
    BY <1>10 DEF ThreadStart
  <2>2. /\ starts' = [starts EXCEPT ![job[w]] = 1]
        /\ UNCHANGED <<arqVars, job, uploaded, archive>>
        /\ \A v \in Workers : v # w => pc'[v] = pc[v]
    BY <1>10, <2>1 DEF ThreadStart, Raise
  <2>3. threads[job[w]] = {} /\ disk[job[w]] = "none" /\ ~uploaded[w]
    BY <1>10, <2>1 DEF ThreadStart
  <2>4. \A v \in Workers : Executing(v) /\ job[v] = job[w] => v = w
    BY <2>1
  <2>5. SubmitInv' /\ AttemptInv' /\ ExclusiveInv'
    BY <1>10, <2>1, <2>2 DEF ThreadStart, Raise
  <2>6. StartInv'
    BY <1>0, <1>10, <2>1, <2>2, <2>3, <2>4 DEF ThreadStart, Raise
  <2>7. ThreadInv'
    BY <1>0, <1>10, <2>1, <2>2, <2>3, <2>4 DEF ThreadStart, Raise
  <2>8. ArchiveInv' /\ ArchiveNeverTorn' /\ NoArtifactLoss'
    BY <1>0, <1>10, <2>1, <2>2, <2>3, <2>4 DEF ThreadStart, Raise
  <2> QED
    BY <1>0, <2>5, <2>6, <2>7, <2>8
<1>11. ASSUME NEW w \in Workers, RunReturns(w), UNCHANGED api
      PROVE  SafetyInv'
  BY <1>0, <1>11 DEF RunReturns
<1>12. ASSUME NEW w \in Workers, Upload(w), UNCHANGED api
      PROVE  SafetyInv'
  BY <1>0, <1>12 DEF Upload, Stored, ZipOf
<1>13. ASSUME NEW w \in Workers, OutcomeGet(w), UNCHANGED api
      PROVE  SafetyInv'
  BY <1>0, <1>13, SMTT(30) DEF OutcomeGet, GetReturns, Present, Raise
<1>14. ASSUME NEW w \in Workers, OutcomeSet(w), UNCHANGED api
      PROVE  SafetyInv'
  BY <1>0, <1>14 DEF OutcomeSet, Raise
<1>15. ASSUME NEW w \in Workers, CleanupLocal(w), UNCHANGED api
      PROVE  SafetyInv'
  BY <1>0, <1>15 DEF CleanupLocal, Cleaned, ExitOf, MayClean
<1>16. ASSUME NEW w \in Workers, NEW why \in {"timeout", "shutdown"},
              CancelBeforeTry(w, why), UNCHANGED api PROVE SafetyInv'
  BY <1>0, <1>16 DEF CancelBeforeTry, CancelledFrom, ExitOf
<1>17. ASSUME NEW w \in Workers, NEW why \in {"timeout", "shutdown"},
              CancelInTry(w, why), UNCHANGED api PROVE SafetyInv'
  BY <1>0, <1>17 DEF CancelInTry, CancelledFrom, Stored, ZipOf
<1>18. ASSUME NEW w \in Workers, NEW why \in {"timeout", "shutdown"},
              CancelInFinally(w, why), UNCHANGED api PROVE SafetyInv'
  BY <1>0, <1>18 DEF CancelInFinally, CancelledFrom, Cleaned, ExitOf, MayClean
<1>19. ASSUME NEW w \in Workers, NEW j \in Jobs, OrphanEnds(w, j), UNCHANGED api
      PROVE  SafetyInv'
  BY <1>0, <1>19 DEF OrphanEnds
<1>20. ASSUME NEW w \in Workers, Crash(w), UNCHANGED api
      PROVE  SafetyInv'
  BY <1>0, <1>20, SMTT(30) DEF Crash, LeaveJob
<1>21. ASSUME NEW w \in Workers, Restart(w), UNCHANGED api
      PROVE  SafetyInv'
  BY <1>0, <1>21 DEF Restart
<1>22. ASSUME EnvironmentNext, UNCHANGED api
       PROVE  SafetyInv'
  BY <1>0, <1>22 DEF EnvironmentNext, LockExpires, ArqPayloadExpire, StoreExpire
<1>23. ASSUME UNCHANGED vars
       PROVE  SafetyInv'
  BY <1>0, <1>23 DEF vars
<1> HIDE DEF SafetyInv
<1> QED
  BY <1>1, <1>2, <1>3, <1>4, <1>5, <1>6, <1>7, <1>8, <1>9, <1>10, <1>11, <1>12,
     <1>13, <1>14, <1>15, <1>16, <1>17, <1>18, <1>19, <1>20, <1>21, <1>22, <1>23
  DEF Next, Submit, WorkerNext, ArqStep, ExecuteStep, Cancel

(* Nothing has run and nothing is stored at the beginning.                 *)
LEMMA InitSafety == Init => SafetyInv
  BY InitBase, ConstantsAssumption DEF SafetyInv, Init, QueueInit, WorkerInit, SubmitInv, AttemptInv,
     ExclusiveInv, StartInv, AtMostOneExecution, ThreadInv, ArchiveInv,
     ArchiveNeverTorn, NoArtifactLoss, Executing, ExecutePcs, BeforeRun, AfterRun

(* The safety invariant holds in every reachable state.                    *)
LEMMA SafetyHolds == Spec => []SafetyInv
  BY InitSafety, SafetyStep, PTL DEF Spec

(* LLAMATOR is entered at most once per job under every fault.             *)
THEOREM NeverRunTwice == Spec => []AtMostOneExecution
<1>1. SafetyInv => AtMostOneExecution
  BY DEF SafetyInv, StartInv
<1> QED
  BY SafetyHolds, <1>1, PTL

(* No archive is zipped under a live LLAMATOR thread, under every fault.   *)
THEOREM NeverTorn == Spec => []ArchiveNeverTorn
<1>1. SafetyInv => ArchiveNeverTorn
  BY DEF SafetyInv
<1> QED
  BY SafetyHolds, <1>1, PTL

(* Local artifacts go only after a whole archive came, under every fault.  *)
THEOREM ArtifactsAreKept == Spec => []NoArtifactLoss
<1>1. SafetyInv => NoArtifactLoss
  BY DEF SafetyInv
<1> QED
  BY SafetyHolds, <1>1, PTL

(***************************************************************************)
(* Proofs about the records: that a slot always works on the record as the *)
(* slot itself left it, hence that records are consistent, terminal ones   *)
(* final, and that the pipeline implements JobLifecycle.  Assumed: Redis   *)
(* applies no write that it reports as failed.                             *)
(***************************************************************************)


(* A record is its three fields.                                           *)
LEMMA Fields ==
    ASSUME NEW info \in Info
    PROVE  info = [status |-> info.status, result |-> info.result, error |-> info.error]
  BY DEF Info

(* What the two terminal writes make of any record, field by field.        *)
LEMMA WrittenFields ==
    ASSUME NEW info \in Info, NEW error \in {"none", "empty", "exception"}
    PROVE  /\ WithResult(info).status = "succeeded"
           /\ WithResult(info).result = "aggregated"
           /\ WithResult(info).error = "none"
           /\ WithError(info, error).status = "failed"
           /\ WithError(info, error).result = info.result
           /\ WithError(info, error).error = error
  BY DEF Info, WithResult, WithError

(* The four kinds of record the pipeline writes, told apart.               *)
LEMMA RecordForms ==
    ASSUME NEW error \in {"none", "empty", "exception"}
    PROVE  /\ NewInfo = [status |-> "queued", result |-> "none", error |-> "none"]
           /\ RunningInfo = [status |-> "running", result |-> "none", error |-> "none"]
           /\ WithResult(RunningInfo)
                = [status |-> "succeeded", result |-> "aggregated", error |-> "none"]
           /\ WithError(RunningInfo, error)
                = [status |-> "failed", result |-> "none", error |-> error]
<1>1. NewInfo = [status |-> "queued", result |-> "none", error |-> "none"]
  BY DEF NewInfo
<1>2. RunningInfo = [status |-> "running", result |-> "none", error |-> "none"]
  BY <1>1 DEF RunningInfo, WithStatus
<1>3. RunningInfo \in Info
  BY <1>2 DEF Info, JobStatus
<1>4. WithResult(RunningInfo) \in Info /\ WithError(RunningInfo, error) \in Info
  <2>1. "queued" \in JobStatus
    BY DEF JobStatus
  <2> QED
    BY <1>3, <2>1, RecordTyping
<1>5. WithResult(RunningInfo)
        = [status |-> "succeeded", result |-> "aggregated", error |-> "none"]
  BY <1>3, <1>4, Fields, WrittenFields
<1>6. WithError(RunningInfo, error)
        = [status |-> "failed", result |-> "none", error |-> error]
  <2>1. WithError(RunningInfo, error).result = "none"
    BY <1>2, <1>3, WrittenFields
  <2> QED
    BY <2>1, <1>3, <1>4, Fields, WrittenFields
<1> QED
  BY <1>1, <1>2, <1>5, <1>6

(* What OutcomeSet writes on top of a running record.                      *)
LEMMA OutcomeForms ==
    ASSUME NEW w \in Workers, snap[w] = RunningInfo
    PROVE  OutcomeInfo(w) \in
             {[status |-> "succeeded", result |-> "aggregated", error |-> "none"],
              [status |-> "failed", result |-> "none", error |-> "empty"],
              [status |-> "failed", result |-> "none", error |-> "exception"]}
  BY RecordForms DEF OutcomeInfo

(* No action disturbs the agreement of records with the awaits of the slots. *)
LEMMA RecordStep ==
    ASSUME "redis_lost_reply" \notin Faults
    PROVE  RecordInv /\ [Next]_vars => RecordInv'
<1> SUFFICES ASSUME RecordInv, [Next]_vars PROVE RecordInv'
  OBVIOUS
<1>0. SafetyInv'
  BY SafetyStep DEF RecordInv
<1> USE NoInfoAssumption, ConstantsAssumption
<1> USE DEF RecordInv, SafetyInv, BaseInv, SlotInv, TypeOK, StoreTypeOK, QueueTypeOK,
            WorkerTypeOK, ApiTypeOK, Pcs, ExecutePcs, ArqPcs,
            SubmitInv, AttemptInv, ExclusiveInv, Executing,
            UnstartedInv, PhaseInv, RecordConsistent, 
            localVars, fileVars, workerVars, arqVars, GoTo
<1>1. ASSUME NEW j \in Jobs, CreateRecord(j)
      PROVE  RecordInv'
  <2>1. RecordConsistent'
    BY <1>1, RecordForms, OutcomeForms DEF CreateRecord, SetInfo, WriteOutcomes, Applied, Present
  <2>2. UnstartedInv'
    BY <1>1, RecordForms, OutcomeForms DEF CreateRecord, SetInfo, WriteOutcomes, Applied
  <2>3. PhaseInv'
    BY <1>1, RecordForms, OutcomeForms DEF CreateRecord, SetInfo, WriteOutcomes, Applied, RunningInfo
  <2> QED
    BY <1>0, <2>1, <2>2, <2>3
<1>2. ASSUME NEW j \in Jobs, EnqueueJob(j)
      PROVE  RecordInv'
  BY <1>0, <1>2 DEF EnqueueJob, ArqEnqueue, WriteOutcomes, Applied, Present
<1>3. ASSUME NEW j \in Jobs, ApiCrash(j)
      PROVE  RecordInv'
  BY <1>0, <1>3 DEF ApiCrash, Present
<1>4. ASSUME NEW w \in Workers, NEW j \in Jobs, Poll(w, j), UNCHANGED api
      PROVE  RecordInv'
  BY <1>0, <1>4 DEF Poll, ArqClaim, Present
<1>5. ASSUME NEW w \in Workers, RunJob(w), UNCHANGED api
      PROVE  RecordInv'
  BY <1>0, <1>5 DEF RunJob, ArqAttempt, MaxTries, Present
<1>6. ASSUME NEW w \in Workers, FinishJob(w), UNCHANGED api
      PROVE  RecordInv'
  BY <1>0, <1>6 DEF FinishJob, ArqForget, LeaveJob, Present
<1>7. ASSUME NEW w \in Workers, Requeue(w), UNCHANGED api
      PROVE  RecordInv'
  BY <1>0, <1>7 DEF Requeue, ArqRelease, LeaveJob, Present
<1>8. ASSUME NEW w \in Workers, UpdateStatusGet(w), UNCHANGED api
      PROVE  RecordInv'
  BY <1>0, <1>8 DEF UpdateStatusGet, GetReturns, Present
<1>9. ASSUME NEW w \in Workers, UpdateStatusSet(w), UNCHANGED api
      PROVE  RecordInv'
  <2>1. RecordConsistent'
    BY <1>9, RecordForms, OutcomeForms DEF UpdateStatusSet, SetInfo, WriteOutcomes, Applied, Present, RunningInfo
  <2>2. UnstartedInv'
    BY <1>9, RecordForms, OutcomeForms DEF UpdateStatusSet, SetInfo, WriteOutcomes, Applied
  <2>3. PhaseInv'
    BY <1>9, RecordForms, OutcomeForms DEF UpdateStatusSet, SetInfo, WriteOutcomes, Applied, RunningInfo
  <2> QED
    BY <1>0, <2>1, <2>2, <2>3
<1>10. ASSUME NEW w \in Workers, ThreadStart(w), UNCHANGED api
      PROVE  RecordInv'
  BY <1>0, <1>10 DEF ThreadStart, Raise, Present
<1>11. ASSUME NEW w \in Workers, RunReturns(w), UNCHANGED api
      PROVE  RecordInv'
  BY <1>0, <1>11 DEF RunReturns, Present
<1>12. ASSUME NEW w \in Workers, Upload(w), UNCHANGED api
      PROVE  RecordInv'
  BY <1>0, <1>12 DEF Upload, Present
<1>13. ASSUME NEW w \in Workers, OutcomeGet(w), UNCHANGED api
      PROVE  RecordInv'
  BY <1>0, <1>13 DEF OutcomeGet, GetReturns, Present, Raise, Present
<1>14. ASSUME NEW w \in Workers, OutcomeSet(w), UNCHANGED api
      PROVE  RecordInv'
  <2>1. RecordConsistent'
    BY <1>14, RecordForms, OutcomeForms DEF OutcomeSet, Raise, SetInfo, WriteOutcomes, Applied, Present
  <2>2. UnstartedInv'
    BY <1>14, RecordForms, OutcomeForms DEF OutcomeSet, Raise, SetInfo, WriteOutcomes, Applied
  <2>3. PhaseInv'
    BY <1>14, RecordForms, OutcomeForms DEF OutcomeSet, Raise, SetInfo, WriteOutcomes, Applied, RunningInfo
  <2> QED
    BY <1>0, <2>1, <2>2, <2>3
<1>15. ASSUME NEW w \in Workers, CleanupLocal(w), UNCHANGED api
      PROVE  RecordInv'
  BY <1>0, <1>15 DEF CleanupLocal, ExitOf, Present
<1>16. ASSUME NEW w \in Workers, NEW why \in {"timeout", "shutdown"}, CancelBeforeTry(w, why), UNCHANGED api
      PROVE  RecordInv'
  <2>1. RecordConsistent'
    BY <1>16, RecordForms, OutcomeForms DEF CancelBeforeTry, CancelledFrom, ExitOf, SetInfo, Applied, Present, RunningInfo
  <2>2. UnstartedInv'
    BY <1>16, RecordForms, OutcomeForms DEF CancelBeforeTry, CancelledFrom, ExitOf, SetInfo, Applied
  <2>3. PhaseInv'
    BY <1>16, RecordForms, OutcomeForms, SMTT(30) DEF CancelBeforeTry, CancelledFrom, ExitOf, SetInfo, Applied, RunningInfo
  <2> QED
    BY <1>0, <2>1, <2>2, <2>3
<1>17. ASSUME NEW w \in Workers, NEW why \in {"timeout", "shutdown"}, CancelInTry(w, why), UNCHANGED api
      PROVE  RecordInv'
  <2>1. RecordConsistent'
    <3>1. CASE UNCHANGED store
      BY <1>17, <3>1 DEF Present
    <3>2. CASE pc[w] = "set" /\ SetInfo(job[w], OutcomeInfo(w), "ok")
      <4>1. snap[w] = RunningInfo /\ job[w] \in Jobs
        BY <3>2
      <4>2. store' = [store EXCEPT ![job[w]] = OutcomeInfo(w)]
        BY <3>2 DEF SetInfo, Applied
      <4> QED
        BY <4>1, <4>2, OutcomeForms DEF Present
    <3> QED
      BY <1>17, <3>1, <3>2 DEF CancelInTry
  <2>2. UnstartedInv'
    BY <1>17, RecordForms, OutcomeForms DEF CancelInTry, CancelledFrom, SetInfo, Applied
  <2>3. PhaseInv'
    BY <1>17, RecordForms, OutcomeForms DEF CancelInTry, CancelledFrom, SetInfo, Applied, RunningInfo
  <2> QED
    BY <1>0, <2>1, <2>2, <2>3
<1>18. ASSUME NEW w \in Workers, NEW why \in {"timeout", "shutdown"}, CancelInFinally(w, why), UNCHANGED api
      PROVE  RecordInv'
  BY <1>0, <1>18 DEF CancelInFinally, CancelledFrom, ExitOf, Present
<1>19. ASSUME NEW w \in Workers, NEW j \in Jobs, OrphanEnds(w, j), UNCHANGED api
      PROVE  RecordInv'
  BY <1>0, <1>19 DEF OrphanEnds, Present
<1>20. ASSUME NEW w \in Workers, Crash(w), UNCHANGED api
      PROVE  RecordInv'
  BY <1>0, <1>20 DEF Crash, LeaveJob, Present
<1>21. ASSUME NEW w \in Workers, Restart(w), UNCHANGED api
      PROVE  RecordInv'
  BY <1>0, <1>21 DEF Restart, Present
<1>22. ASSUME EnvironmentNext, UNCHANGED api
       PROVE  RecordInv'
  BY <1>0, <1>22, SMTT(30) DEF EnvironmentNext, LockExpires, ArqPayloadExpire, StoreExpire, Present
<1>23. ASSUME UNCHANGED vars
       PROVE  RecordInv'
  BY <1>0, <1>23 DEF vars, Present
<1> HIDE DEF RecordInv
<1> QED
  BY <1>1, <1>2, <1>3, <1>4, <1>5, <1>6, <1>7, <1>8, <1>9, <1>10, <1>11, <1>12,
     <1>13, <1>14, <1>15, <1>16, <1>17, <1>18, <1>19, <1>20, <1>21, <1>22, <1>23
  DEF Next, Submit, WorkerNext, ArqStep, ExecuteStep, Cancel

(* There are no records at the beginning.                                  *)
LEMMA InitRecord == Init => RecordInv
  BY InitSafety, NoInfoAssumption
  DEF RecordInv, RecordConsistent, UnstartedInv, PhaseInv, Present, Init,
      StoreInit, QueueInit, WorkerInit

(* When no failed write was applied, result and error agree with the       *)
(* status of every record at all times.                                    *)
THEOREM RecordsAreConsistent ==
    ASSUME "redis_lost_reply" \notin Faults
    PROVE  Spec => []RecordConsistent
<1>1. RecordInv => RecordConsistent
  BY DEF RecordInv
<1> QED
  BY InitRecord, RecordStep, <1>1, PTL DEF Spec

(* A step never rewrites a terminal record, nor the archive behind it.     *)
LEMMA FinalStep ==
    ASSUME "redis_lost_reply" \notin Faults, RecordInv, [Next]_vars,
           NEW j \in Jobs, Terminal(j)
    PROVE  store'[j] \in {store[j], NoInfo} /\ archive'[j] = archive[j]
<1> USE NoInfoAssumption
<1> USE DEF RecordInv, SafetyInv, BaseInv, TypeOK, StoreTypeOK, WorkerTypeOK, SlotInv,
            UnstartedInv, PhaseInv, Terminal, TerminalStatus, Present,
            localVars, fileVars, workerVars, SetInfo
<1>1. ASSUME NEW k \in Jobs, Submit(k)
      PROVE  store'[j] = store[j] /\ archive'[j] = archive[j]
  BY <1>1, RecordForms DEF Submit, CreateRecord, EnqueueJob, ApiCrash
<1>2. ASSUME NEW w \in Workers, UpdateStatusSet(w) \/ OutcomeSet(w)
      PROVE  store'[j] = store[j] /\ archive'[j] = archive[j]
  BY <1>2, RecordForms DEF UpdateStatusSet, OutcomeSet
<1>3. ASSUME NEW w \in Workers, NEW why \in {"timeout", "shutdown"}, Cancel(w, why)
      PROVE  store'[j] = store[j] /\ archive'[j] = archive[j]
  BY <1>3, RecordForms
  DEF Cancel, CancelBeforeTry, CancelInTry, CancelInFinally, CancelledFrom, Stored
<1>4. ASSUME NEW w \in Workers, Upload(w)
      PROVE  store'[j] = store[j] /\ archive'[j] = archive[j]
  BY <1>4, RecordForms DEF Upload, Stored
<1>5. ASSUME NEW w \in Workers,
             \/ ArqStep(w) \/ UpdateStatusGet(w) \/ ThreadStart(w) \/ RunReturns(w)
             \/ OutcomeGet(w) \/ CleanupLocal(w) \/ Crash(w) \/ Restart(w)
             \/ \E k \in Jobs : OrphanEnds(w, k)
      PROVE  store'[j] = store[j] /\ archive'[j] = archive[j]
  BY <1>5
  DEF ArqStep, Poll, RunJob, FinishJob, Requeue, UpdateStatusGet, ThreadStart,
      RunReturns, OutcomeGet, CleanupLocal, Crash, Restart, OrphanEnds
<1>6. ASSUME EnvironmentNext
      PROVE  store'[j] \in {store[j], NoInfo} /\ archive'[j] = archive[j]
  BY <1>6 DEF EnvironmentNext, LockExpires, StoreExpire
<1>7. ASSUME UNCHANGED vars
      PROVE  store'[j] = store[j] /\ archive'[j] = archive[j]
  BY <1>7 DEF vars
<1> QED
  BY <1>1, <1>2, <1>3, <1>4, <1>5, <1>6, <1>7 DEF Next, WorkerNext, ExecuteStep

(* What a poller saw succeed or fail stays so, archive included, until the *)
(* record expires.                                                         *)
THEOREM TerminalRecordsAreFinal ==
    ASSUME "redis_lost_reply" \notin Faults
    PROVE  Spec => TerminalIsFinal
<1>1. RecordInv /\ [Next]_vars
      => [\A j \in Jobs : Terminal(j) => /\ store'[j] \in {store[j], NoInfo}
                                       /\ archive'[j] = archive[j]]_vars
  BY FinalStep
<1> QED
  BY InitRecord, RecordStep, <1>1, PTL DEF Spec, TerminalIsFinal

-----------------------------------------------------------------------------
(* The refinement.  Without record_ttl no record goes missing.             *)

(* A record is told apart from a missing one.                              *)
LEMMA RecordsDiffer == NewInfo # NoInfo /\ RunningInfo # NoInfo
  BY NoInfoAssumption, NewInfoTyping, RecordForms DEF Info, JobStatus

(* Without expiry, a record stays where the code will read it.             *)
LEMMA PresentStep ==
    ASSUME "redis_lost_reply" \notin Faults, "record_ttl" \notin Faults
    PROVE  RecordInv /\ PresentInv /\ [Next]_vars => PresentInv'
<1> SUFFICES ASSUME RecordInv, PresentInv, [Next]_vars PROVE PresentInv'
  OBVIOUS
<1> USE NoInfoAssumption, ConstantsAssumption, RecordsDiffer
<1> USE DEF RecordInv, SafetyInv, BaseInv, TypeOK, StoreTypeOK, QueueTypeOK,
            WorkerTypeOK, ApiTypeOK, SlotInv, SubmitInv, PhaseInv, PresentInv, Present,
            localVars, fileVars, workerVars, arqVars, SetInfo, GoTo
<1>1. ASSUME NEW j \in Jobs, Submit(j) PROVE PresentInv'
  BY <1>1 DEF Submit, CreateRecord, EnqueueJob, ApiCrash, ArqEnqueue,
     WriteOutcomes, Applied
<1>2. ASSUME NEW w \in Workers, ArqStep(w), UNCHANGED api PROVE PresentInv'
  BY <1>2 DEF ArqStep, Poll, RunJob, FinishJob, Requeue, ArqClaim, ArqAttempt,
     ArqForget, ArqRelease, LeaveJob
<1>3. ASSUME NEW w \in Workers, UpdateStatusSet(w), UNCHANGED api PROVE PresentInv'
  BY <1>3 DEF UpdateStatusSet, RunningInfo, WriteOutcomes, Applied
<1>4. ASSUME NEW w \in Workers, OutcomeSet(w), UNCHANGED api PROVE PresentInv'
  BY <1>4, OutcomeTyping, RecordForms DEF OutcomeSet, WriteOutcomes, Applied, SnapInv
<1>5. ASSUME NEW w \in Workers, NEW why \in {"timeout", "shutdown"},
             Cancel(w, why), UNCHANGED api PROVE PresentInv'
  BY <1>5, OutcomeTyping
  DEF Cancel, CancelBeforeTry, CancelInTry, CancelInFinally, CancelledFrom,
      RunningInfo, SnapInv, Applied
<1>6. ASSUME NEW w \in Workers, UNCHANGED api,
             \/ UpdateStatusGet(w) \/ ThreadStart(w) \/ RunReturns(w) \/ Upload(w)
             \/ OutcomeGet(w) \/ CleanupLocal(w) \/ Crash(w) \/ Restart(w)
             \/ \E k \in Jobs : OrphanEnds(w, k)
      PROVE  PresentInv'
  BY <1>6
  DEF UpdateStatusGet, ThreadStart, RunReturns, Upload, OutcomeGet, CleanupLocal,
      Crash, Restart, OrphanEnds, LeaveJob
<1>7. ASSUME EnvironmentNext, UNCHANGED api PROVE PresentInv'
  BY <1>7 DEF EnvironmentNext, LockExpires, ArqPayloadExpire, StoreExpire
<1>8. ASSUME UNCHANGED vars PROVE PresentInv'
  BY <1>8 DEF vars
<1> HIDE DEF PresentInv
<1> QED
  BY <1>1, <1>2, <1>3, <1>4, <1>5, <1>6, <1>7, <1>8 DEF Next, WorkerNext, ExecuteStep

(* The state of JobLifecycle that a state of the pipeline stands for.      *)
MappedRecord == [j \in Jobs |-> IF Present(j) THEN store[j].status ELSE "absent"]
MappedArchive == [j \in Jobs |-> archive[j] # "none"]

(* Initial states map to the initial state of JobLifecycle.                *)
LEMMA InitMaps == Init => Lifecycle!LifecycleInit
<1> SUFFICES ASSUME Init PROVE Lifecycle!LifecycleInit
  OBVIOUS
<1>1. MappedRecord = [j \in Jobs |-> "absent"]
  BY DEF Init, StoreInit, Present, MappedRecord
<1>2. \A j \in Jobs : (archive[j] # "none") = FALSE
  BY DEF Init, WorkerInit
<1>3. MappedArchive = [j \in Jobs |-> FALSE]
  BY <1>2, Zenon DEF MappedArchive
<1> QED
  BY <1>1, <1>3 DEF Lifecycle!LifecycleInit, MappedRecord, MappedArchive

(* A SET that moves a record moves the mapped record alone.                *)
LEMMA SetMaps ==
    ASSUME TypeOK, NEW j \in Jobs, NEW info \in Info,
           store' = [store EXCEPT ![j] = info]
    PROVE  MappedRecord' = [MappedRecord EXCEPT ![j] = info.status]
  BY NoInfoAssumption DEF TypeOK, StoreTypeOK, MappedRecord, Present

(* A step that leaves records and archives alone is a stutter.             *)
LEMMA StutterMaps ==
    ASSUME UNCHANGED <<store, archive>>
    PROVE  UNCHANGED <<MappedRecord, MappedArchive>>
  BY DEF MappedRecord, MappedArchive, Present

(* One SET that moves a record along maps to the abstract move.            *)
LEMMA MoveMaps ==
    ASSUME TypeOK, NEW j \in Jobs, NEW info \in Info,
           store' = [store EXCEPT ![j] = info], archive' = archive
    PROVE  /\ store[j] = NoInfo /\ info.status = "queued" => Lifecycle!Create(j)
           /\ store[j] = NewInfo /\ info.status = "running" => Lifecycle!Start(j)
           /\ store[j] = RunningInfo /\ info.status = "succeeded" => Lifecycle!Succeed(j)
           /\ store[j] = RunningInfo /\ info.status = "failed" => Lifecycle!Fail(j)
<1>1. MappedRecord' = [MappedRecord EXCEPT ![j] = info.status]
  BY SetMaps
<1>2. MappedArchive' = MappedArchive
  BY DEF MappedArchive
<1>3. /\ store[j] = NoInfo => MappedRecord[j] = "absent"
      /\ store[j] = NewInfo => MappedRecord[j] = "queued"
      /\ store[j] = RunningInfo => MappedRecord[j] = "running"
  BY RecordsDiffer, RecordForms DEF MappedRecord, Present
<1> QED
  BY <1>1, <1>2, <1>3
  DEF Lifecycle!Create, Lifecycle!Start, Lifecycle!Succeed, Lifecycle!Fail,
      Lifecycle!Moves, MappedRecord, MappedArchive

(* An upload maps to a publication while the record says running.          *)
LEMMA PublishMaps ==
    ASSUME TypeOK, NEW j \in Jobs, store[j] = RunningInfo, store' = store,
           NEW stored \in BOOLEAN, Stored(j, stored)
    PROVE  Lifecycle!Publish(j) \/ UNCHANGED <<MappedRecord, MappedArchive>>
<1>1. CASE archive' = archive
  BY <1>1, StutterMaps
<1>2. CASE archive' = [archive EXCEPT ![j] = ZipOf(j)]
  <2>1. MappedRecord[j] = "running" /\ MappedRecord' = MappedRecord
    BY RecordsDiffer, RecordForms DEF MappedRecord, Present
  <2>2. ZipOf(j) # "none"
    BY DEF ZipOf
  <2>3. MappedArchive' = [MappedArchive EXCEPT ![j] = TRUE]
    <3>1. \A k \in Jobs : (archive'[k] # "none") = IF k = j THEN TRUE ELSE (archive[k] # "none")
      BY <1>2, <2>2 DEF TypeOK, WorkerTypeOK
    <3> QED
      BY <3>1, Zenon DEF MappedArchive
  <2> QED
    BY <2>1, <2>3 DEF Lifecycle!Publish, MappedRecord, MappedArchive
<1> QED
  BY <1>1, <1>2 DEF Stored

(* Every step of the pipeline is a step of JobLifecycle or a stutter.      *)
LEMMA NextMaps ==
    ASSUME "redis_lost_reply" \notin Faults, "record_ttl" \notin Faults,
           RecordInv, PresentInv, [Next]_vars
    PROVE  [Lifecycle!LifecycleNext]_<<MappedRecord, MappedArchive>>
<1> DEFINE Mapped == [Lifecycle!LifecycleNext]_<<MappedRecord, MappedArchive>>
<1> USE DEF RecordInv, SafetyInv, BaseInv, SlotInv, PhaseInv, PresentInv, Present,
            Lifecycle!LifecycleNext
<1>0. /\ TypeOK
      /\ \A w \in Workers : job[w] \in Jobs \cup {NoJob}
      /\ \A w \in Workers : pc[w] \in ExecutePcs => job[w] \in Jobs
  BY DEF TypeOK, WorkerTypeOK, ExecutePcs
<1>1. ASSUME UNCHANGED <<store, archive>> PROVE Mapped
  BY <1>1, StutterMaps
<1>2. ASSUME NEW j \in Jobs, CreateRecord(j) PROVE Mapped
  <2>1. store[j] = NoInfo /\ archive' = archive
    BY <1>2 DEF CreateRecord, UnstartedInv, workerVars, fileVars
  <2>2. store' = store \/ store' = [store EXCEPT ![j] = NewInfo]
    BY <1>2 DEF CreateRecord, SetInfo
  <2>3. NewInfo.status = "queued"
    BY DEF NewInfo
  <2> QED
    BY <1>0, <1>1, <2>1, <2>2, <2>3, MoveMaps, NewInfoTyping
<1>3. ASSUME NEW w \in Workers, pc[w] = "upd_set", archive' = archive,
             \/ store' = store
             \/ store' = [store EXCEPT ![job[w]] = WithStatus(snap[w], "running")]
      PROVE  Mapped
  <2>1. job[w] \in Jobs /\ snap[w] = NewInfo /\ store[job[w]] = NewInfo
    BY <1>0, <1>3, RecordsDiffer DEF ExecutePcs
  <2>2. WithStatus(snap[w], "running") = RunningInfo /\ RunningInfo \in Info
    BY <2>1, RecordForms DEF RunningInfo, Info, JobStatus
  <2>3. RunningInfo.status = "running"
    BY RecordForms
  <2> QED
    BY <1>0, <1>1, <1>3, <2>1, <2>2, <2>3, MoveMaps
<1>4. ASSUME NEW w \in Workers, pc[w] = "set", archive' = archive,
             store' = store \/ store' = [store EXCEPT ![job[w]] = OutcomeInfo(w)]
      PROVE  Mapped
  <2>1. job[w] \in Jobs /\ snap[w] = RunningInfo /\ store[job[w]] = RunningInfo
    BY <1>0, <1>4, RecordsDiffer DEF ExecutePcs
  <2>2. OutcomeInfo(w) \in Info /\ OutcomeInfo(w).status \in {"succeeded", "failed"}
    BY <2>1, OutcomeForms DEF Info, JobStatus
  <2> QED
    BY <1>0, <1>1, <1>4, <2>1, <2>2, MoveMaps
<1>5. ASSUME NEW w \in Workers, pc[w] = "upload", store' = store,
             NEW stored \in BOOLEAN, Stored(job[w], stored)
      PROVE  Mapped
  <2>1. job[w] \in Jobs /\ store[job[w]] = RunningInfo
    BY <1>0, <1>5, RecordsDiffer DEF ExecutePcs
  <2> QED
    BY <1>0, <1>5, <2>1, PublishMaps
<1>6. ASSUME NEW w \in Workers, UpdateStatusSet(w) PROVE Mapped
  BY <1>3, <1>6 DEF UpdateStatusSet, SetInfo, fileVars
<1>7. ASSUME NEW w \in Workers, OutcomeSet(w) PROVE Mapped
  BY <1>4, <1>7 DEF OutcomeSet, SetInfo, fileVars
<1>8. ASSUME NEW w \in Workers, Upload(w) PROVE Mapped
  BY <1>5, <1>8 DEF Upload
<1>9. ASSUME NEW w \in Workers, NEW why \in {"timeout", "shutdown"}, CancelBeforeTry(w, why)
      PROVE  Mapped
  BY <1>1, <1>3, <1>9 DEF CancelBeforeTry, SetInfo, Applied, fileVars
<1>10. ASSUME NEW w \in Workers, NEW why \in {"timeout", "shutdown"}, CancelInTry(w, why)
       PROVE  Mapped
  <2>1. PICK stored \in BOOLEAN : (stored => pc[w] = "upload") /\ Stored(job[w], stored)
    BY <1>10 DEF CancelInTry
  <2>2. CASE pc[w] = "upload"
    BY <1>5, <1>10, <2>1, <2>2 DEF CancelInTry
  <2>3. CASE pc[w] # "upload"
    <3>1. archive' = archive
      BY <2>1, <2>3 DEF Stored
    <3> QED
      BY <1>1, <1>4, <1>10, <3>1 DEF CancelInTry, SetInfo, Applied
  <2> QED
    BY <2>2, <2>3
<1>11. ASSUME NEW w \in Workers,
              \/ ArqStep(w) \/ UpdateStatusGet(w) \/ ThreadStart(w) \/ RunReturns(w)
              \/ OutcomeGet(w) \/ CleanupLocal(w) \/ Crash(w) \/ Restart(w)
              \/ \E why \in {"timeout", "shutdown"} : CancelInFinally(w, why)
              \/ \E k \in Jobs : OrphanEnds(w, k)
       PROVE  UNCHANGED <<store, archive>>
  BY <1>11
  DEF ArqStep, Poll, RunJob, FinishJob, Requeue, UpdateStatusGet, ThreadStart,
      RunReturns, OutcomeGet, CleanupLocal, CancelInFinally, Crash, Restart,
      OrphanEnds, fileVars
<1>12. ASSUME NEW j \in Jobs, EnqueueJob(j) \/ ApiCrash(j)
       PROVE  UNCHANGED <<store, archive>>
  BY <1>12 DEF EnqueueJob, ApiCrash, workerVars, fileVars
<1>13. ASSUME EnvironmentNext
       PROVE  UNCHANGED <<store, archive>>
  BY <1>13 DEF EnvironmentNext, LockExpires, StoreExpire, workerVars, fileVars
<1>14. ASSUME UNCHANGED vars PROVE UNCHANGED <<store, archive>>
  BY <1>14 DEF vars, workerVars, fileVars
<1> HIDE DEF Mapped
<1> QED
  <2>1. Mapped
    BY <1>1, <1>2, <1>6, <1>7, <1>8, <1>9, <1>10, <1>11, <1>12, <1>13, <1>14
    DEF Next, Submit, WorkerNext, ExecuteStep, Cancel
  <2> QED
    BY <2>1 DEF Mapped

(* Nothing reads a record at the beginning.                                *)
LEMMA InitPresent == Init => PresentInv
  BY DEF Init, QueueInit, WorkerInit, PresentInv

(* QueuedIsTracked: no worker finds a job in the queue whose record is not *)
(* there, when Redis loses neither replies nor records.                    *)
THEOREM QueuedJobsAreTracked ==
    ASSUME "redis_lost_reply" \notin Faults, "record_ttl" \notin Faults
    PROVE  Spec => []QueuedIsTracked
<1>1. Spec => [](RecordInv /\ PresentInv)
  BY InitRecord, RecordStep, InitPresent, PresentStep, PTL DEF Spec
<1>2. RecordInv /\ PresentInv => QueuedIsTracked
  BY DEF RecordInv, SafetyInv, BaseInv, TypeOK, QueueTypeOK, PresentInv, QueuedIsTracked
<1> QED
  BY <1>1, <1>2, PTL

(* The pipeline implements JobLifecycle when Redis loses neither replies   *)
(* nor records: queued, running, then succeeded or failed, and final.      *)
THEOREM PipelineImplementsLifecycle ==
    ASSUME "redis_lost_reply" \notin Faults, "record_ttl" \notin Faults
    PROVE  Spec => ImplementsLifecycle
<1>1. Spec => [](RecordInv /\ PresentInv)
  BY InitRecord, RecordStep, InitPresent, PresentStep, PTL DEF Spec
<1>2. RecordInv /\ PresentInv /\ [Next]_vars
      => [Lifecycle!LifecycleNext]_(Lifecycle!lifecycleVars)
  BY NextMaps DEF Lifecycle!lifecycleVars, MappedRecord, MappedArchive
<1> QED
  BY InitMaps, <1>1, <1>2, PTL DEF Spec, ImplementsLifecycle, Lifecycle!LifecycleSpec
=============================================================================
