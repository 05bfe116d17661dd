------------------------------ MODULE JobStore ------------------------------
(***************************************************************************)
(* infra/job_store.py: the job records kept in Redis under                 *)
(* llamator:job:<id>.  Every change of a record is a GET of the whole      *)
(* record, a change of the copy and a SET of the whole copy, two awaits    *)
(* apart: GET and SET are separate steps of the modules that call them,    *)
(* and the copy read by the GET is kept by the caller in between.          *)
(***************************************************************************)
EXTENDS JobTypes

VARIABLE store      \* [Jobs -> Info \cup {NoInfo}]

JobStatus == {"queued", "running", "succeeded", "failed"}

(* Payload fields are reduced to what tells outcomes apart: the aggregated *)
(* metrics are there or not, the error names the empty run or an exception.*)
Info == [status : JobStatus,
         result : {"none", "aggregated"},
         error  : {"none", "empty", "exception"}]

ASSUME NoInfoAssumption == NoInfo \notin Info

TerminalStatus == {"succeeded", "failed"}

NewInfo == [status |-> "queued", result |-> "none", error |-> "none"]

WithStatus(info, status) == [info EXCEPT !.status = status]

(* set_result erases the error ...                                         *)
WithResult(info) ==
    [info EXCEPT !.status = "succeeded", !.result = "aggregated", !.error = "none"]

(* Mutant: the error message lands in the result field.                    *)
WithErrorAsResult(info, error) ==
    [info EXCEPT !.status = "failed", !.result = error]

(* ... but set_error leaves an earlier result in the record.               *)
WithError(info, error) ==
    [info EXCEPT !.status = "failed", !.error = error]

StoreTypeOK == store \in [Jobs -> Info \cup {NoInfo}]

StoreInit == store = [j \in Jobs |-> NoInfo]

Present(j) == store[j] # NoInfo

(* JobStore._set: one SET with a fresh TTL, whatever was there before.     *)
SetInfo(j, info, outcome) ==
    store' = IF Applied(outcome) THEN [store EXCEPT ![j] = info] ELSE store

(* The TTL given to SET ran out.                                           *)
StoreExpire(j) ==
    /\ "record_ttl" \in Faults
    /\ Present(j)
    /\ store' = [store EXCEPT ![j] = NoInfo]

Terminal(j) == Present(j) /\ store[j].status \in TerminalStatus
=============================================================================
