---------------------------- MODULE LlamatorRuns ----------------------------
(***************************************************************************)
(* The job pipeline: TestRunService.submit in the API, the record store,   *)
(* the ARQ queue and the worker slots.  A job is submitted once; submit    *)
(* writes the record, then enqueues, and the API may die in between.       *)
(***************************************************************************)
EXTENDS JobExecutor

VARIABLE api    \* [Jobs -> {"idle", "enqueueing", "accepted", "failed"}]

vars == <<store, arqVars, workerVars, api>>

ApiTypeOK == api \in [Jobs -> {"idle", "enqueueing", "accepted", "failed"}]

TypeOK == StoreTypeOK /\ QueueTypeOK /\ WorkerTypeOK /\ ApiTypeOK

Init ==
    /\ StoreInit
    /\ QueueInit
    /\ WorkerInit
    /\ api = [j \in Jobs |-> "idle"]

-----------------------------------------------------------------------------
(* submit: store.create; the client gets an error when it raises.          *)
CreateRecord(j) ==
    /\ api[j] = "idle"
    /\ \E outcome \in WriteOutcomes :
        /\ SetInfo(j, NewInfo, outcome)
        /\ api' = [api EXCEPT ![j] = IF outcome = "ok" THEN "enqueueing" ELSE "failed"]
    /\ UNCHANGED <<arqVars, workerVars>>

(* submit: enqueue_job, then the answer 200 with status QUEUED.            *)
EnqueueJob(j) ==
    /\ api[j] = "enqueueing"
    /\ \E outcome \in WriteOutcomes :
        /\ ArqEnqueue(j, outcome)
        /\ api' = [api EXCEPT ![j] = IF outcome = "ok" THEN "accepted" ELSE "failed"]
    /\ UNCHANGED <<store, workerVars>>

ApiCrash(j) ==
    /\ "api_crash" \in Faults
    /\ api[j] = "enqueueing"
    /\ api' = [api EXCEPT ![j] = "failed"]
    /\ UNCHANGED <<store, arqVars, workerVars>>

(* Mutant: submit enqueues first and creates the record afterwards.        *)
SubmitEnqueueFirst(j) ==
    /\ \/ /\ api[j] = "idle"
          /\ ArqEnqueue(j, "ok")
          /\ api' = [api EXCEPT ![j] = "enqueueing"]
          /\ UNCHANGED store
       \/ /\ api[j] = "enqueueing"
          /\ SetInfo(j, NewInfo, "ok")
          /\ api' = [api EXCEPT ![j] = "accepted"]
          /\ UNCHANGED arqVars
    /\ UNCHANGED workerVars

Submit(j) == CreateRecord(j) \/ EnqueueJob(j) \/ ApiCrash(j)

Next ==
    \/ \E j \in Jobs : Submit(j)
    \/ \E w \in Workers : WorkerNext(w) /\ UNCHANGED api
    \/ EnvironmentNext /\ UNCHANGED api

Spec == Init /\ [][Next]_vars

(* Fairness: the slots' event loops run, and a claimed key's TTL runs out. *)
(* Nothing is assumed of the environment that might never come: neither a  *)
(* restart of a stopped worker (docker-compose.yml names no restart        *)
(* policy) nor the end of a LLAMATOR run.                                  *)
Fairness ==
    /\ \A w \in Workers : WF_vars(ArqStep(w) /\ UNCHANGED api)
    /\ \A w \in Workers : WF_vars(ExecuteStep(w) /\ UNCHANGED api)
    /\ \A j \in Jobs : WF_vars(LockExpires(j) /\ UNCHANGED api)

(* ARQ's wait_for cancels an execution that outlives job_timeout.          *)
TimeoutFairness ==
    \A w \in Workers : WF_vars(Cancel(w, "timeout") /\ UNCHANGED api)

FairSpec == Spec /\ Fairness /\ TimeoutFairness

-----------------------------------------------------------------------------
(* Properties.                                                             *)

(* LLAMATOR is entered at most once per submitted job, whatever crashes,   *)
(* shutdowns, timeouts, lost replies and expiries happen (max_tries = 1):  *)
(* a run costs real requests to the tested model.                          *)
AtMostOneExecution == \A j \in Jobs : starts[j] <= 1

(* The S3 archive of a job is never zipped while a LLAMATOR thread is      *)
(* still writing into the directory, orphans of cancelled runs included.   *)
ArchiveNeverTorn == \A j \in Jobs : archive[j] # "torn"

(* Local artifacts are removed only once a complete archive of them is in  *)
(* S3, and nobody writes there afterwards (execute's finally, the flag     *)
(* uploaded against the second upload of the except handler).              *)
NoArtifactLoss ==
    \A j \in Jobs : disk[j] = "removed" => archive[j] = "whole" /\ threads[j] = {}

(* A queued job always has its record, so no worker meets a KeyError:      *)
(* submit creates the record before it enqueues.  (Without record_ttl.)    *)
QueuedIsTracked == \A j \in queue : Present(j)

(* The fields of a record agree: a result exactly when it succeeded, an    *)
(* error exactly when it failed, although set_error keeps what it finds in *)
(* result and update_status keeps both.  (Without redis_lost_reply.)       *)
RecordConsistent ==
    \A j \in Jobs : Present(j) =>
        /\ store[j].result = "aggregated" <=> store[j].status = "succeeded"
        /\ store[j].error # "none" <=> store[j].status = "failed"

(* A poller may stop at a terminal record: it never changes again, it can  *)
(* only expire, and nor does the archive it points to, for every upload of *)
(* execute precedes the terminal write.  (Without redis_lost_reply.)       *)
TerminalIsFinal ==
    [][\A j \in Jobs : Terminal(j) => /\ store'[j] \in {store[j], NoInfo}
                                     /\ archive'[j] = archive[j]]_vars

(* The pipeline implements the abstract life of a job: no status is        *)
(* skipped, repeated or revised, and archives appear only while it runs.   *)
(* (Without redis_lost_reply and record_ttl.)                              *)
Lifecycle ==
    INSTANCE JobLifecycle WITH
        record   <- [j \in Jobs |-> IF Present(j) THEN store[j].status ELSE "absent"],
        archived <- [j \in Jobs |-> archive[j] # "none"]

ImplementsLifecycle == Lifecycle!LifecycleSpec

(* As long as no worker stops, no run is cancelled, the record is kept,    *)
(* and the payload until it is read, a job that was accepted ends          *)
(* succeeded or failed, whatever LLAMATOR and S3 return.  (Without Redis   *)
(* faults.)                                                                *)
Undisturbed(j) ==
    /\ stops = 0 /\ \A w \in Workers : cancel[w] = "no"
    /\ api[j] = "accepted" => Present(j)
    /\ j \in queue /\ tries[j] = 0 => j \in payload

AcceptedCompletes ==
    \A j \in Jobs : []Undisturbed(j) => (api[j] = "accepted" ~> Terminal(j))

(* Though LLAMATOR may hang, a worker may die and the payload may expire   *)
(* before it is read, every queued job leaves the queue while one worker   *)
(* lives: job_timeout, the TTL of the in-progress key and max_tries clear  *)
(* it.                                                                     *)
QueueDrains == \A j \in Jobs : j \in queue ~> j \notin queue

-----------------------------------------------------------------------------
(* The inductive strengthening of AtMostOneExecution, ArchiveNeverTorn and *)
(* NoArtifactLoss.  It holds under every fault.                            *)

Executing(w) == pc[w] \in ExecutePcs
BeforeRun(w) == pc[w] \in {"upd_get", "upd_set", "run"}
AfterRun(w) == pc[w] \in {"upload", "get", "set"}

SlotInv == \A w \in Workers : (pc[w] \in {"idle", "stopped"}) <=> (job[w] = NoJob)

(* The copy a SET is built from is a record that a GET returned.           *)
SnapInv == \A w \in Workers : pc[w] \in {"upd_set", "set"} => snap[w] # NoInfo

(* Until submit has tried to enqueue it, a job is nowhere in ARQ.          *)
SubmitInv ==
    \A j \in Jobs : api[j] \in {"idle", "enqueueing"} =>
        /\ j \notin queue
        /\ j \notin payload
        /\ starts[j] = 0
        /\ \A w \in Workers : job[w] # j

(* The retry counter witnesses the attempt as long as the payload, without *)
(* which no further attempt runs, is there.                                *)
AttemptInv ==
    /\ \A w \in Workers : Executing(w) /\ job[w] \in payload => tries[job[w]] # 0
    /\ \A j \in payload : tries[j] = 0 => starts[j] = 0

ExclusiveInv ==
    \A v, w \in Workers : Executing(v) /\ Executing(w) /\ job[v] = job[w] => v = w

StartInv ==
    /\ AtMostOneExecution
    /\ \A w \in Workers : BeforeRun(w) => starts[job[w]] = 0
    /\ \A j \in Jobs : starts[j] = 0 => threads[j] = {} /\ disk[j] = "none"

ThreadInv ==
    \A w \in Workers :
        /\ uploaded[w] => AfterRun(w) \/ pc[w] \in {"cleanup", "finish", "requeue"}
        /\ pc[w] = "running" => threads[job[w]] \subseteq {w}
        /\ AfterRun(w) \/ (pc[w] = "cleanup" /\ uploaded[w]) => threads[job[w]] = {}

ArchiveInv ==
    \A w \in Workers :
        /\ AfterRun(w) \/ pc[w] = "cleanup"
        /\ uploaded[w] /\ HasUpload(job[w])
        => archive[job[w]] = "whole"

BaseInv == TypeOK /\ SlotInv /\ SnapInv

SafetyInv ==
    /\ BaseInv
    /\ SubmitInv /\ AttemptInv /\ ExclusiveInv
    /\ StartInv /\ ThreadInv /\ ArchiveInv
    /\ ArchiveNeverTorn /\ NoArtifactLoss

(* The inductive strengthening of RecordConsistent and TerminalIsFinal:    *)
(* what the record of a job is at every await of the one slot executing    *)
(* it.  NoInfo stands for a record that expired.                           *)

RunningInfo == WithStatus(NewInfo, "running")

UnstartedInv ==
    \A j \in Jobs :
        /\ api[j] = "idle" => store[j] = NoInfo
        /\ api[j] = "enqueueing" \/ (j \in payload /\ tries[j] = 0)
             => store[j] \in {NewInfo, NoInfo}

PhaseInv ==
    \A w \in Workers :
        /\ pc[w] = "upd_get" => store[job[w]] \in {NewInfo, NoInfo}
        /\ pc[w] = "upd_set" => snap[w] = NewInfo /\ store[job[w]] \in {NewInfo, NoInfo}
        /\ pc[w] \in {"run", "running", "upload", "get"}
             => store[job[w]] \in {RunningInfo, NoInfo}
        /\ pc[w] = "set" => snap[w] = RunningInfo /\ store[job[w]] \in {RunningInfo, NoInfo}

RecordInv == SafetyInv /\ RecordConsistent /\ UnstartedInv /\ PhaseInv

(* Without record_ttl, no record is missing where the code reads it.       *)
PresentInv ==
    /\ \A j \in Jobs : api[j] = "enqueueing" \/ j \in queue \cup payload => Present(j)
    /\ \A w \in Workers : job[w] # NoJob => Present(job[w])

-----------------------------------------------------------------------------
(* What the documentation says of a record, contradicted by the code.      *)

(* domain/models.py:21, RUNNING: the job is being executed by a worker.    *)
RunningMeansExecuting ==
    \A j \in Jobs : Present(j) /\ store[j].status = "running" =>
        \E w \in Workers : job[w] = j

(* README.md:242, a record has an optional result or error, never both.    *)
ResultOrError ==
    \A j \in Jobs : Present(j) =>
        ~(store[j].result # "none" /\ store[j].error # "none")
=============================================================================
