----------------------------- MODULE WorkerPool -----------------------------
(***************************************************************************)
(* One worker process with several ARQ slots.  Whatever execute gives to   *)
(* asyncio.to_thread (runner.run, the zip, the PUT, rmtree) goes through   *)
(* one FIFO queue to the threads of the event loop's default executor,     *)
(* which are as good as gone while a LLAMATOR run hangs in them.           *)
(*                                                                         *)
(* A job stands in phase                                                   *)
(*   queued, start      in Redis; in update_status                         *)
(*   run, zip, put, rmtree   awaiting the call of that name                *)
(*   record             in set_result or set_error                         *)
(*   ended              execute has returned or raised                     *)
(*                                                                         *)
(* JobExecutor has the records, the restarts and every other fault; here a *)
(* call takes its time, in the queue and in its thread.  S3 backend: with  *)
(* the local one, runner.run is the only call.                             *)
(***************************************************************************)
EXTENDS Naturals, Sequences, FiniteSets

CONSTANTS
    Jobs,
    Slots,      \* Worker.max_jobs
    Threads,    \* max_workers of the default executor
    MaxHung     \* bound: LLAMATOR runs that never return

(* With as many hung runs as threads no call is ever executed again.       *)
ASSUME PoolAssumption ==
    /\ Slots \in Nat \ {0}
    /\ Threads \in Nat \ {0}
    /\ MaxHung \in Nat /\ MaxHung < Threads

VARIABLES
    phase,
    waiting,    \* the calls no thread has taken yet, in order
    executing,  \* the calls that occupy a thread
    handler,    \* jobs inside "except Exception"
    uploaded,   \* jobs whose flag of that name is set, up to the finally
    cancelled,  \* jobs whose job_timeout has fired
    hung,       \* jobs whose run never returns
    dirs,       \* jobs with a local directory
    temps,      \* jobs with a temporary file
    opened,     \* jobs whose zip thread has opened the temporary file
    zip,        \* [Jobs -> {"none", "whole", "torn"}]: what was zipped last
    archive     \* the same of the object in S3

jobVars == <<handler, uploaded, cancelled, hung>>
fileVars == <<dirs, temps, opened, zip, archive>>
poolVars == <<phase, waiting, executing, jobVars, fileVars>>

Ops == {"run", "zip", "put", "rmtree"}
Calls == Jobs \X Ops
Contents == {"none", "whole", "torn"}

PoolTypeOK ==
    /\ phase \in [Jobs -> Ops \cup {"queued", "start", "record", "ended"}]
    /\ waiting \in Seq(Calls)
    /\ executing \subseteq Calls
    /\ \A s \in {handler, uploaded, cancelled, hung, dirs, temps, opened} : s \subseteq Jobs
    /\ zip \in [Jobs -> Contents]
    /\ archive \in [Jobs -> Contents]

PoolInit ==
    /\ phase = [j \in Jobs |-> "queued"]
    /\ waiting = <<>>
    /\ executing = {}
    /\ handler = {} /\ uploaded = {} /\ cancelled = {} /\ hung = {}
    /\ dirs = {} /\ temps = {} /\ opened = {}
    /\ zip = [j \in Jobs |-> "none"]
    /\ archive = [j \in Jobs |-> "none"]

-----------------------------------------------------------------------------
Active(j) == phase[j] \notin {"queued", "ended"}
Awaited(call) == phase[call[1]] = call[2]
Frees(call) == executing' = executing \ {call}

(* The coroutine goes to its next await; rest is the queue without what it *)
(* gave up.                                                                *)
GoTo(j, next, rest) ==
    /\ phase' = [phase EXCEPT ![j] = next]
    /\ waiting' = IF next \in Ops THEN Append(rest, <<j, next>>) ELSE rest

(* Mutant: the removal is started, and not awaited.                        *)
FinallyUnawaited(j, sent, rest) ==
    /\ phase' = [phase EXCEPT ![j] = "ended"]
    /\ waiting' = IF j \in sent THEN Append(rest, <<j, "rmtree">>) ELSE rest
    /\ handler' = handler \ {j}
    /\ uploaded' = uploaded \ {j}

(* The finally block: cleanup_local removes what was uploaded.  The flags  *)
(* of the coroutine are not read again.                                    *)
Finally(j, sent, rest) ==
    /\ GoTo(j, IF j \in sent THEN "rmtree" ELSE "ended", rest)
    /\ handler' = handler \ {j}
    /\ uploaded' = uploaded \ {j}

(* lifecycle.upload: without a directory there is nothing to send, and     *)
(* that counts as a success.                                               *)
StartUpload(j) ==
    IF j \in dirs
    THEN /\ temps' = temps \cup {j}
         /\ GoTo(j, "zip", waiting)
         /\ UNCHANGED uploaded
    ELSE /\ uploaded' = uploaded \cup {j}
         /\ GoTo(j, "record", waiting)
         /\ UNCHANGED temps

(* Mutant: the temporary file is removed only after a success.             *)
EndUploadKept(j, ok) ==
    /\ uploaded' = IF ok THEN uploaded \cup {j} ELSE uploaded \ {j}
    /\ temps' = IF ok THEN temps \ {j} ELSE temps
    /\ GoTo(j, "record", waiting)

(* upload_job_artifacts has removed the temporary file, whatever happened. *)
EndUpload(j, ok) ==
    /\ uploaded' = IF ok THEN uploaded \cup {j} ELSE uploaded \ {j}
    /\ temps' = temps \ {j}
    /\ GoTo(j, "record", waiting)

-----------------------------------------------------------------------------
(* The slots.                                                              *)

Claim(j) ==
    /\ phase[j] = "queued"
    /\ Cardinality({i \in Jobs : Active(i)}) < Slots
    /\ phase' = [phase EXCEPT ![j] = "start"]
    /\ UNCHANGED <<waiting, executing, jobVars, fileVars>>

(* update_status returns and the payload is valid; it raises; the payload  *)
(* is refused, and the handler has no lifecycle object to upload with.     *)
Begin(j) ==
    /\ phase[j] = "start"
    /\ \/ GoTo(j, "run", waiting) /\ UNCHANGED handler
       \/ GoTo(j, "ended", waiting) /\ UNCHANGED handler
       \/ GoTo(j, "record", waiting) /\ handler' = handler \cup {j}
    /\ UNCHANGED <<executing, uploaded, cancelled, hung, fileVars>>

(* set_result or set_error returns, or raises: out of the try block into   *)
(* the handler, which uploads once more; out of the handler.               *)
RecordEnds(j) ==
    /\ phase[j] = "record"
    /\ \/ /\ Finally(j, uploaded, waiting)
          /\ UNCHANGED temps
       \/ /\ j \notin handler
          /\ handler' = handler \cup {j}
          /\ StartUpload(j)
    /\ UNCHANGED <<executing, cancelled, hung, dirs, opened, zip, archive>>

-----------------------------------------------------------------------------
(* The threads.                                                            *)

Take(call) ==
    /\ waiting # <<>> /\ call = Head(waiting)
    /\ Cardinality(executing) < Threads
    /\ waiting' = Tail(waiting)
    /\ executing' = executing \cup {call}

(* LlamatorRunner.run begins by making the directory; the run may hang.    *)
TakeRun(j) ==
    /\ Take(<<j, "run">>)
    /\ dirs' \in {dirs, dirs \cup {j}}
    /\ hung' \in {hung, hung \cup {j}} /\ Cardinality(hung') <= MaxHung
    /\ UNCHANGED <<phase, handler, uploaded, cancelled, temps, opened, zip, archive>>

TakeZip(j) ==
    /\ Take(<<j, "zip">>)
    /\ zip' = [zip EXCEPT ![j] = IF {<<j, "run">>, <<j, "rmtree">>} \cap executing = {}
                                 THEN "whole" ELSE "torn"]
    /\ UNCHANGED <<phase, jobVars, dirs, temps, opened, archive>>

TakePut(j) ==
    /\ Take(<<j, "put">>)
    /\ UNCHANGED <<phase, jobVars, fileVars>>

TakeRmtree(j) ==
    /\ Take(<<j, "rmtree">>)
    /\ zip' = IF <<j, "zip">> \in executing THEN [zip EXCEPT ![j] = "torn"] ELSE zip
    /\ UNCHANGED <<phase, jobVars, dirs, temps, opened, archive>>

TakeCall == \E j \in Jobs : TakeRun(j) \/ TakeZip(j) \/ TakePut(j) \/ TakeRmtree(j)

RunEnds(j) ==
    /\ <<j, "run">> \in executing \ (hung \X Ops)
    /\ Frees(<<j, "run">>)
    /\ IF Awaited(<<j, "run">>)
       THEN /\ handler' \in {handler, handler \cup {j}}
            /\ j \notin dirs => j \in handler'
            /\ StartUpload(j)
       ELSE UNCHANGED <<phase, waiting, handler, uploaded, temps>>
    /\ UNCHANGED <<cancelled, hung, dirs, opened, zip, archive>>

(* The files are collected, then ZipFile opens the temporary file, which   *)
(* it creates again if it is gone.                                         *)
ZipOpens(j) ==
    /\ <<j, "zip">> \in executing
    /\ j \notin opened
    /\ opened' = opened \cup {j}
    /\ temps' = temps \cup {j}
    /\ UNCHANGED <<phase, waiting, executing, jobVars, dirs, zip, archive>>

ZipEnds(j) ==
    /\ <<j, "zip">> \in executing
    /\ Frees(<<j, "zip">>)
    /\ opened' = opened \ {j}
    /\ \/ /\ Awaited(<<j, "zip">>) /\ j \in opened
          /\ GoTo(j, "put", waiting)
          /\ UNCHANGED <<uploaded, temps>>
       \/ /\ Awaited(<<j, "zip">>)
          /\ EndUpload(j, FALSE)
       \/ /\ ~Awaited(<<j, "zip">>)
          /\ UNCHANGED <<phase, waiting, uploaded, temps>>
    /\ UNCHANGED <<handler, cancelled, hung, dirs, zip, archive>>

(* A PUT that failed may have been stored, and so may one nobody awaits.   *)
PutEnds(j) ==
    /\ <<j, "put">> \in executing
    /\ Frees(<<j, "put">>)
    /\ archive' \in {archive, [archive EXCEPT ![j] = zip[j]]}
    /\ IF Awaited(<<j, "put">>)
       THEN \E ok \in BOOLEAN : /\ ok => archive'[j] = zip[j]
                                /\ EndUpload(j, ok)
       ELSE UNCHANGED <<phase, waiting, uploaded, temps>>
    /\ UNCHANGED <<handler, cancelled, hung, dirs, opened, zip>>

(* A failed removal is logged and swallowed.                               *)
RmtreeEnds(j) ==
    /\ <<j, "rmtree">> \in executing
    /\ Frees(<<j, "rmtree">>)
    /\ dirs' \in {dirs, dirs \ {j}}
    /\ IF Awaited(<<j, "rmtree">>) THEN GoTo(j, "ended", waiting)
       ELSE UNCHANGED <<phase, waiting>>
    /\ UNCHANGED <<jobVars, temps, opened, zip, archive>>

-----------------------------------------------------------------------------
(* job_timeout, once per execution.  A call no thread has taken is taken   *)
(* out of the queue; one that is executed goes on as an orphan.  The       *)
(* coroutine leaves through the finally blocks, which no timeout bounds.   *)

Without(s, i) == [k \in 1 .. Len(s) - 1 |-> IF k < i THEN s[k] ELSE s[k + 1]]
Places(j) == {i \in DOMAIN waiting : waiting[i][1] = j}
GivenUp(j) == IF Places(j) = {} THEN waiting
              ELSE Without(waiting, CHOOSE i \in Places(j) : TRUE)

(* Mutant: the handler runs for a cancellation, too.                       *)
TimeoutHandled(j) ==
    /\ Active(j) /\ j \notin cancelled
    /\ cancelled' = cancelled \cup {j}
    /\ IF phase[j] = "run" /\ j \in dirs
       THEN /\ GoTo(j, "zip", GivenUp(j))
            /\ temps' = temps \cup {j}
            /\ handler' = handler \cup {j}
            /\ UNCHANGED uploaded
       ELSE /\ Finally(j, uploaded, GivenUp(j))
            /\ temps' = temps \ {j}
    /\ UNCHANGED <<executing, hung, dirs, opened, zip, archive>>

(* Mutant: asyncio.shield around the calls, a pending one stays in line.   *)
TimeoutShielded(j) ==
    /\ Active(j) /\ j \notin cancelled
    /\ cancelled' = cancelled \cup {j}
    /\ Finally(j, uploaded, waiting)
    /\ temps' = temps \ {j}
    /\ UNCHANGED <<executing, hung, dirs, opened, zip, archive>>

(* Mutant: the time is compared between the calls, none is given up.       *)
TimeoutBetween(j) ==
    /\ Active(j) /\ j \notin cancelled
    /\ phase[j] \notin Ops
    /\ cancelled' = cancelled \cup {j}
    /\ Finally(j, uploaded, waiting)
    /\ UNCHANGED <<executing, hung, dirs, temps, opened, zip, archive>>

Timeout(j) ==
    /\ Active(j) /\ j \notin cancelled
    /\ cancelled' = cancelled \cup {j}
    /\ Finally(j, uploaded, GivenUp(j))
    /\ temps' = temps \ {j}
    /\ UNCHANGED <<executing, hung, dirs, opened, zip, archive>>

-----------------------------------------------------------------------------
ThreadStep(j) == RunEnds(j) \/ ZipOpens(j) \/ ZipEnds(j) \/ PutEnds(j) \/ RmtreeEnds(j)
SlotStep(j) == Begin(j) \/ RecordEnds(j)

PoolNext ==
    \/ \E j \in Jobs : Claim(j) \/ SlotStep(j) \/ ThreadStep(j) \/ Timeout(j)
    \/ TakeCall

PoolSpec == PoolInit /\ [][PoolNext]_poolVars

(* Threads and coroutines run, a call but a hung run ends (files are       *)
(* finite, the sockets have timeouts), ARQ polls, job_timeout fires.       *)
FairPoolSpec ==
    /\ PoolSpec
    /\ WF_poolVars(TakeCall)
    /\ \A j \in Jobs :
        /\ WF_poolVars(ThreadStep(j))
        /\ WF_poolVars(SlotStep(j))
        /\ WF_poolVars(Claim(j))
        /\ WF_poolVars(Timeout(j))

-----------------------------------------------------------------------------
(* Properties.                                                             *)

(* No thread ever begins what nobody waits for: a run cancelled while it   *)
(* waited for a thread is not started afterwards, unrecorded, against the  *)
(* tested model.                                                           *)
DeadCallsNeverStart == \A i \in DOMAIN waiting : Awaited(waiting[i])

Orphans == {call \in executing : ~Awaited(call)}

(* What a full pool may be blamed on: each call that waits with no thread  *)
(* free and no more slots than threads waits behind the thread of a        *)
(* cancelled execution, for a slot never occupies two threads.             *)
WaitsBehindOrphans ==
    Cardinality(executing) = Threads =>
        Cardinality(Orphans) + Slots >= Threads + Len(waiting)

(* A temporary archive outlives its upload only where a timeout cut the    *)
(* upload short (a zip thread that opens the file after it was removed     *)
(* creates it once more, artifacts_storage.py:104), never by a failure.    *)
NoStrayTempFile == \A j \in temps : phase[j] \in {"zip", "put"} \/ j \in cancelled

(* The directory is removed only when a whole archive of it is in S3: no   *)
(* run or removal overlaps a zip that is sent, orphans included.           *)
ArchivedBeforeRemoval ==
    \A j \in Jobs :
        /\ archive[j] # "torn"
        /\ j \in dirs /\ phase[j] = "rmtree" => archive[j] = "whole"

(* As long as one thread is left, hung runs stop neither the jobs beside   *)
(* them nor those behind them: every job is taken and its slot is free     *)
(* again at last.                                                          *)
EveryJobEnds == \A j \in Jobs : <>(phase[j] = "ended")

-----------------------------------------------------------------------------
(* The inductive strengthening of the safety properties.                   *)

(* A coroutine waits for one call: what is in the queue has a place of its *)
(* own and is not executed already.                                        *)
QueueInv ==
    /\ \A i, k \in DOMAIN waiting : i # k => waiting[i][1] # waiting[k][1]
    /\ \A i \in DOMAIN waiting : waiting[i] \notin executing

(* A cancelled coroutine is past everything but the removal, and only its  *)
(* calls are executed for nobody.                                          *)
CancelInv ==
    /\ \A j \in cancelled : phase[j] \in {"rmtree", "ended"}
    /\ \A call \in executing : Awaited(call) \/ call[1] \in cancelled
    /\ \A j \in Jobs : <<j, "rmtree">> \in executing => phase[j] \in {"rmtree", "ended"}
    /\ \A j \in Jobs : phase[j] \in {"rmtree", "ended"} => j \notin uploaded

(* What is put is whole and no longer zipped; what counts as uploaded is   *)
(* in S3, or there was nothing.                                            *)
ArchiveInv ==
    /\ \A j \in Jobs : phase[j] = "put" \/ <<j, "put">> \in executing =>
            zip[j] = "whole" /\ <<j, "zip">> \notin executing
    /\ \A j \in Jobs : phase[j] = "zip" /\ <<j, "zip">> \in executing => zip[j] = "whole"
    /\ \A j \in uploaded : j \notin dirs \/ archive[j] = "whole"
    /\ \A j \in uploaded : phase[j] \notin {"queued", "start", "run"}

PoolInv ==
    /\ PoolTypeOK
    /\ DeadCallsNeverStart /\ QueueInv /\ CancelInv /\ ArchiveInv
    /\ NoStrayTempFile /\ ArchivedBeforeRemoval

(* Every slot has one job, every thread one call.                          *)
SlotsInv ==
    /\ IsFiniteSet({j \in Jobs : Active(j)}) /\ IsFiniteSet(executing)
    /\ Cardinality({j \in Jobs : Active(j)}) <= Slots
    /\ Cardinality(executing) <= Threads
=============================================================================
