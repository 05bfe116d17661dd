---------------------------- MODULE JobLifecycle ----------------------------
(***************************************************************************)
(* What the pipeline promises those who poll a job: its record goes        *)
(* queued -> running -> succeeded or failed, one write after the other and *)
(* never back, and the archive of its artifacts is published while the job *)
(* is running and is settled once the record is terminal.                  *)
(***************************************************************************)
CONSTANT Jobs

VARIABLES
    record,     \* [Jobs -> RecordState]
    archived    \* [Jobs -> BOOLEAN]: an archive can be downloaded

lifecycleVars == <<record, archived>>

RecordState == {"absent", "queued", "running", "succeeded", "failed"}
Settled == {"succeeded", "failed"}

LifecycleTypeOK ==
    /\ record \in [Jobs -> RecordState]
    /\ archived \in [Jobs -> BOOLEAN]

LifecycleInit ==
    /\ record = [j \in Jobs |-> "absent"]
    /\ archived = [j \in Jobs |-> FALSE]

Moves(j, from, to) ==
    /\ record[j] = from
    /\ record' = [record EXCEPT ![j] = to]
    /\ UNCHANGED archived

Create(j)  == Moves(j, "absent", "queued")
Start(j)   == Moves(j, "queued", "running")
Succeed(j) == Moves(j, "running", "succeeded")
Fail(j)    == Moves(j, "running", "failed")

(* Mutant: an archive may still be published once the record is terminal.  *)
PublishLate(j) ==
    /\ record[j] \in {"running", "succeeded", "failed"}
    /\ archived' = [archived EXCEPT ![j] = TRUE]
    /\ UNCHANGED record

Publish(j) ==
    /\ record[j] = "running"
    /\ archived' = [archived EXCEPT ![j] = TRUE]
    /\ UNCHANGED record

LifecycleNext ==
    \E j \in Jobs : Create(j) \/ Start(j) \/ Succeed(j) \/ Fail(j) \/ Publish(j)

LifecycleSpec == LifecycleInit /\ [][LifecycleNext]_lifecycleVars
=============================================================================
