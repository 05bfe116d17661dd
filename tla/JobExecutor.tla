---------------------------- MODULE JobExecutor ----------------------------
(***************************************************************************)
(* worker_settings.py: one ARQ job slot running run_llamator_job.  The     *)
(* control state pc is the await at which the coroutine _JobExecutor       *)
(* .execute stands; everything between two awaits is one step.             *)
(*                                                                         *)
(*   idle                       the slot polls the queue                   *)
(*   fetch                      ARQ reads the arguments                    *)
(*   upd_get, upd_set           store.update_status(RUNNING), before try   *)
(*   run, running               asyncio.to_thread(runner.run): submitted,  *)
(*                              executing                                  *)
(*   upload                     lifecycle.upload                           *)
(*   get, set                   store.set_result / store.set_error         *)
(*   cleanup                    finally: lifecycle.cleanup_local           *)
(*   finish, requeue            ARQ's bookkeeping after the coroutine      *)
(*   stopped                    the worker process is down                 *)
(*                                                                         *)
(* path says how execute came to its outcome: "success" and "empty" are    *)
(* inside the try, "error" and "invalid" inside "except Exception";        *)
(* "invalid" is a payload refused before a lifecycle object exists.        *)
(***************************************************************************)
EXTENDS JobStore, ArqQueue

VARIABLES
    pc, job, path, snap, uploaded, cancel,  \* per worker slot
    threads,   \* [Jobs -> SUBSET Workers]: live runner.run threads of a job
    disk,      \* [Jobs -> {"none", "some", "removed"}]: the local directory
    archive,   \* [Jobs -> {"none", "torn", "whole"}]: the object in S3
    starts,    \* [Jobs -> Nat], history: how often runner.run was entered
    stops      \* crashes and shutdowns so far, bounded by MaxStops

localVars == <<pc, job, path, snap, uploaded, cancel>>
fileVars  == <<threads, disk, archive, starts>>
workerVars == <<localVars, fileVars, stops>>

ExecutePcs == {"upd_get", "upd_set", "run", "running",
               "upload", "get", "set", "cleanup"}
ArqPcs == {"fetch", "finish", "requeue"}
Pcs == ExecutePcs \cup ArqPcs \cup {"idle", "stopped"}

WorkerTypeOK ==
    /\ pc \in [Workers -> Pcs]
    /\ job \in [Workers -> Jobs \cup {NoJob}]
    /\ path \in [Workers -> {"none", "success", "empty", "error", "invalid"}]
    /\ snap \in [Workers -> Info \cup {NoInfo}]
    /\ uploaded \in [Workers -> BOOLEAN]
    /\ cancel \in [Workers -> {"no", "timeout", "shutdown"}]
    /\ threads \in [Jobs -> SUBSET Workers]
    /\ disk \in [Jobs -> {"none", "some", "removed"}]
    /\ archive \in [Jobs -> {"none", "torn", "whole"}]
    /\ starts \in [Jobs -> Nat]
    /\ stops \in Nat

WorkerInit ==
    /\ pc = [w \in Workers |-> "idle"]
    /\ job = [w \in Workers |-> NoJob]
    /\ path = [w \in Workers |-> "none"]
    /\ snap = [w \in Workers |-> NoInfo]
    /\ uploaded = [w \in Workers |-> FALSE]
    /\ cancel = [w \in Workers |-> "no"]
    /\ threads = [j \in Jobs |-> {}]
    /\ disk = [j \in Jobs |-> "none"]
    /\ archive = [j \in Jobs |-> "none"]
    /\ starts = [j \in Jobs |-> 0]
    /\ stops = 0

-----------------------------------------------------------------------------
(* Small pieces of the handlers.                                           *)

(* Mutant: a second attempt is allowed.                                    *)
MaxTriesTwo == 2

(* WorkerSettings.max_tries                                                *)
MaxTries == 1

GoTo(w, l) == pc' = [pc EXCEPT ![w] = l]

(* The slot drops what the finished coroutine held.                        *)
LeaveJob(w, l) ==
    /\ GoTo(w, l)
    /\ job' = [job EXCEPT ![w] = NoJob]
    /\ path' = [path EXCEPT ![w] = "none"]
    /\ snap' = [snap EXCEPT ![w] = NoInfo]
    /\ uploaded' = [uploaded EXCEPT ![w] = FALSE]
    /\ cancel' = [cancel EXCEPT ![w] = "no"]

InExceptHandler(w) == path[w] \in {"error", "invalid"}

(* Mutant: the handler is missing, every exception goes to the finally.    *)
RaiseUnhandled(w) ==
    /\ GoTo(w, "cleanup")
    /\ path' = [path EXCEPT ![w] = "error"]

(* An exception at an await of execute after the try was entered: from the *)
(* try block it enters the handler, which uploads once more; from the      *)
(* handler it goes on to the finally block.                                *)
Raise(w) ==
    IF InExceptHandler(w)
    THEN /\ GoTo(w, "cleanup")
         /\ UNCHANGED path
    ELSE /\ GoTo(w, "upload")
         /\ path' = [path EXCEPT ![w] = "error"]

(* Where the coroutine's end leaves ARQ: a shutdown keeps the job queued.  *)
ExitOf(why) == IF why = "shutdown" THEN "requeue" ELSE "finish"

(* The GET of a read-modify-write returns a record ...                     *)
GetReturns(w, l) ==
    /\ Present(job[w])
    /\ snap' = [snap EXCEPT ![w] = store[job[w]]]
    /\ GoTo(w, l)

(* ... or raises: KeyError, or the connection failed.                      *)
GetRaises(w) == ~Present(job[w]) \/ "redis_error" \in Faults

(* The record a terminal write is about to SET.                            *)
OutcomeInfo(w) ==
    CASE path[w] = "success" -> WithResult(snap[w])
      [] path[w] = "empty"   -> WithError(snap[w], "empty")
      [] OTHER               -> WithError(snap[w], "exception")

(* What a zip of the directory holds: a thread still writing tears it.     *)
ZipOf(j) == IF threads[j] = {} THEN "whole" ELSE "torn"

(* upload_job_artifacts has something to send.                             *)
HasUpload(j) == Backend = "s3" /\ disk[j] = "some"

Stored(j, applied) ==
    archive' = IF applied /\ HasUpload(j) THEN [archive EXCEPT ![j] = ZipOf(j)]
               ELSE archive

(* Mutant: the finally removes the directory whether or not the upload     *)
(* succeeded.                                                              *)
MayCleanAlways(w) == Backend = "s3" /\ path[w] # "invalid"

(* The early returns of cleanup_local, and "lifecycle is not None".        *)
MayClean(w) == Backend = "s3" /\ uploaded[w] /\ path[w] # "invalid"

(* rmtree succeeded, or failed (a failure is logged and swallowed).        *)
Cleaned(w, done) ==
    disk' = IF done /\ MayClean(w) /\ disk[job[w]] = "some"
            THEN [disk EXCEPT ![job[w]] = "removed"] ELSE disk

-----------------------------------------------------------------------------
(* ARQ around the coroutine.                                               *)

Poll(w, j) ==
    /\ pc[w] = "idle"
    /\ ArqClaim(j)
    /\ GoTo(w, "fetch")
    /\ job' = [job EXCEPT ![w] = j]
    /\ UNCHANGED <<store, path, snap, uploaded, cancel, fileVars, stops>>

(* A job whose payload expired, or tried too often, is finished unrun.     *)
RunJob(w) ==
    /\ pc[w] = "fetch"
    /\ ArqAttempt(job[w])
    /\ GoTo(w, IF job[w] \in payload /\ tries[job[w]] + 1 <= MaxTries
               THEN "upd_get" ELSE "finish")
    /\ UNCHANGED <<store, job, path, snap, uploaded, cancel, fileVars, stops>>

FinishJob(w) ==
    /\ pc[w] = "finish"
    /\ ArqForget(job[w])
    /\ LeaveJob(w, "idle")
    /\ UNCHANGED <<store, fileVars, stops>>

Requeue(w) ==
    /\ pc[w] = "requeue"
    /\ ArqRelease(job[w])
    /\ LeaveJob(w, "stopped")
    /\ UNCHANGED <<store, fileVars, stops>>

-----------------------------------------------------------------------------
(* _JobExecutor.execute, await by await.                                   *)

UpdateStatusGet(w) ==
    /\ pc[w] = "upd_get"
    /\ \/ GetReturns(w, "upd_set")
       \/ GetRaises(w) /\ GoTo(w, "finish") /\ UNCHANGED snap
    /\ UNCHANGED <<store, arqVars, job, path, uploaded, cancel, fileVars, stops>>

UpdateStatusSet(w) ==
    /\ pc[w] = "upd_set"
    /\ \E outcome \in WriteOutcomes, valid \in BOOLEAN :
        /\ ~valid => "bad_payload" \in Faults
        /\ SetInfo(job[w], WithStatus(snap[w], "running"), outcome)
        /\ CASE outcome # "ok" -> GoTo(w, "finish") /\ UNCHANGED path
             [] outcome = "ok" /\ valid -> GoTo(w, "run") /\ UNCHANGED path
             [] OTHER -> /\ GoTo(w, "get")
                         /\ path' = [path EXCEPT ![w] = "invalid"]
    /\ UNCHANGED <<arqVars, job, snap, uploaded, cancel, fileVars, stops>>

(* An executor thread takes the submitted call; run() creates the          *)
(* directory first, and has failed at once when it cannot.                 *)
ThreadStart(w) ==
    /\ pc[w] = "run"
    /\ starts' = [starts EXCEPT ![job[w]] = @ + 1]
    /\ \/ /\ GoTo(w, "running")
          /\ threads' = [threads EXCEPT ![job[w]] = @ \cup {w}]
          /\ disk' = [disk EXCEPT ![job[w]] = "some"]
          /\ UNCHANGED path
       \/ /\ Raise(w)
          /\ UNCHANGED <<threads, disk>>
    /\ UNCHANGED <<store, arqVars, job, snap, uploaded, cancel, archive, stops>>

RunReturns(w) ==
    /\ pc[w] = "running"
    /\ threads' = [threads EXCEPT ![job[w]] = @ \ {w}]
    /\ GoTo(w, "upload")
    /\ \E p \in {"success", "empty", "error"} : path' = [path EXCEPT ![w] = p]
    /\ UNCHANGED <<store, arqVars, job, snap, uploaded, cancel,
                   disk, archive, starts, stops>>

(* upload() swallows every failure; a failed PUT may have been stored.     *)
Upload(w) ==
    /\ pc[w] = "upload"
    /\ \E ok, stored \in BOOLEAN :
        /\ ok => stored
        /\ ~ok => HasUpload(job[w])
        /\ Stored(job[w], stored)
        /\ uploaded' = [uploaded EXCEPT ![w] = ok]
    /\ GoTo(w, "get")
    /\ UNCHANGED <<store, arqVars, job, path, snap, cancel,
                   threads, disk, starts, stops>>

OutcomeGet(w) ==
    /\ pc[w] = "get"
    /\ \/ GetReturns(w, "set") /\ UNCHANGED path
       \/ GetRaises(w) /\ Raise(w) /\ UNCHANGED snap
    /\ UNCHANGED <<store, arqVars, job, uploaded, cancel, fileVars, stops>>

(* Mutant: the artifacts are sent once more after the terminal write.      *)
OutcomeSetThenUpload(w) ==
    /\ pc[w] = "set"
    /\ SetInfo(job[w], OutcomeInfo(w), "ok")
    /\ GoTo(w, "upload")
    /\ UNCHANGED <<arqVars, job, path, snap, uploaded, cancel, fileVars, stops>>

OutcomeSet(w) ==
    /\ pc[w] = "set"
    /\ \E outcome \in WriteOutcomes :
        /\ SetInfo(job[w], OutcomeInfo(w), outcome)
        /\ IF outcome = "ok" THEN GoTo(w, "cleanup") /\ UNCHANGED path
           ELSE Raise(w)
    /\ UNCHANGED <<arqVars, job, snap, uploaded, cancel, fileVars, stops>>

CleanupLocal(w) ==
    /\ pc[w] = "cleanup"
    /\ \E done \in BOOLEAN : Cleaned(w, done)
    /\ GoTo(w, ExitOf(cancel[w]))
    /\ UNCHANGED <<store, arqVars, job, path, snap, uploaded, cancel,
                   threads, archive, starts, stops>>

-----------------------------------------------------------------------------
(* Cancellation: job_timeout elapsed, or the worker is shutting down.      *)
(* CancelledError is no Exception: no handler of execute runs, only the    *)
(* finally.  What a thread or Redis already had in hand may still happen:  *)
(* the runner thread goes on, a SET, PUT or rmtree may or may not have its *)
(* effect (given here as of the cancellation).                             *)

(* Mutant: WorkerSettings without a job_timeout.                           *)
CancelledByShutdown(w, why, at) ==
    /\ pc[w] \in at
    /\ cancel[w] = "no"
    /\ why \in {"shutdown"} \cap Faults
    /\ stops < MaxStops
    /\ stops' = stops + 1
    /\ cancel' = [cancel EXCEPT ![w] = why]

CancelledFrom(w, why, at) ==
    /\ pc[w] \in at
    /\ cancel[w] = "no"
    /\ why \in {"timeout", "shutdown"} \cap Faults
    /\ why = "shutdown" => stops < MaxStops
    /\ stops' = IF why = "shutdown" THEN stops + 1 ELSE stops
    /\ cancel' = [cancel EXCEPT ![w] = why]

(* update_status stands before the try: no finally is entered from there.  *)
CancelBeforeTry(w, why) ==
    /\ CancelledFrom(w, why, {"upd_get", "upd_set"})
    /\ \/ pc[w] = "upd_set" /\ SetInfo(job[w], WithStatus(snap[w], "running"), "ok")
       \/ UNCHANGED store
    /\ GoTo(w, ExitOf(why))
    /\ UNCHANGED <<arqVars, job, path, snap, uploaded, fileVars>>

(* Mutant: "except BaseException", the handler runs for a cancellation.    *)
CancelHandled(w, why) ==
    /\ CancelledFrom(w, why, {"run", "running", "upload", "get", "set"})
    /\ GoTo(w, "upload")
    /\ path' = [path EXCEPT ![w] = "error"]
    /\ UNCHANGED <<store, arqVars, job, snap, uploaded, fileVars>>

CancelInTry(w, why) ==
    /\ CancelledFrom(w, why, {"run", "running", "upload", "get", "set"})
    /\ \/ pc[w] = "set" /\ SetInfo(job[w], OutcomeInfo(w), "ok")
       \/ UNCHANGED store
    /\ \E stored \in BOOLEAN :
        /\ stored => pc[w] = "upload"
        /\ Stored(job[w], stored)
    /\ GoTo(w, "cleanup")
    /\ UNCHANGED <<arqVars, job, path, snap, uploaded, threads, disk, starts>>

CancelInFinally(w, why) ==
    /\ CancelledFrom(w, why, {"cleanup"})
    /\ \E done \in BOOLEAN : Cleaned(w, done)
    /\ GoTo(w, ExitOf(why))
    /\ UNCHANGED <<store, arqVars, job, path, snap, uploaded,
                   threads, archive, starts>>

Cancel(w, why) ==
    CancelBeforeTry(w, why) \/ CancelInTry(w, why) \/ CancelInFinally(w, why)

(* A runner thread whose coroutine was cancelled ends at last.             *)
OrphanEnds(w, j) ==
    /\ w \in threads[j]
    /\ ~(pc[w] = "running" /\ job[w] = j)
    /\ threads' = [threads EXCEPT ![j] = @ \ {w}]
    /\ UNCHANGED <<store, arqVars, localVars, disk, archive, starts, stops>>

(* The process dies with its threads; nothing in Redis changes.            *)
Crash(w) ==
    /\ "crash" \in Faults
    /\ pc[w] # "stopped"
    /\ stops < MaxStops
    /\ stops' = stops + 1
    /\ LeaveJob(w, "stopped")
    /\ threads' = [j \in Jobs |-> threads[j] \ {w}]
    /\ UNCHANGED <<store, arqVars, disk, archive, starts>>

(* A new process in the place of the old one, whose threads are gone.      *)
Restart(w) ==
    /\ pc[w] = "stopped"
    /\ GoTo(w, "idle")
    /\ threads' = [j \in Jobs |-> threads[j] \ {w}]
    /\ UNCHANGED <<store, arqVars, job, path, snap, uploaded, cancel,
                   disk, archive, starts, stops>>

(* The in-progress key lives job_timeout + 10 s: longer than any coroutine *)
(* that was not cancelled.                                                 *)
LockExpires(j) ==
    /\ j \in inProgress
    /\ \A w \in Workers : job[w] = j => cancel[w] # "no" \/ pc[w] = "finish"
    /\ inProgress' = inProgress \ {j}
    /\ UNCHANGED <<store, queue, payload, tries, workerVars>>

-----------------------------------------------------------------------------
(* What one slot does by itself, and what is done to it.                   *)

ExecuteStep(w) ==
    \/ UpdateStatusGet(w) \/ UpdateStatusSet(w) \/ ThreadStart(w)
    \/ Upload(w) \/ OutcomeGet(w) \/ OutcomeSet(w) \/ CleanupLocal(w)

ArqStep(w) ==
    \/ \E j \in Jobs : Poll(w, j)
    \/ RunJob(w) \/ FinishJob(w) \/ Requeue(w)

WorkerNext(w) ==
    \/ ArqStep(w) \/ ExecuteStep(w) \/ RunReturns(w)
    \/ \E why \in {"timeout", "shutdown"} : Cancel(w, why)
    \/ \E j \in Jobs : OrphanEnds(w, j)
    \/ Crash(w) \/ Restart(w)

EnvironmentNext ==
    \/ \E j \in Jobs : LockExpires(j)
    \/ \E j \in Jobs : ArqPayloadExpire(j) /\ UNCHANGED <<store, workerVars>>
    \/ \E j \in Jobs : StoreExpire(j) /\ UNCHANGED <<arqVars, workerVars>>
=============================================================================
