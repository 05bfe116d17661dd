------------------------------ MODULE Lifespan ------------------------------
(***************************************************************************)
(* Start-up and shutdown of the two processes: the lifespan of create_app  *)
(* (app_factory.py) under uvicorn, worker_startup and worker_shutdown      *)
(* (worker_settings.py) under ARQ.  Each acquires resources step by step   *)
(* and registers the release of each; what it does in which order is the   *)
(* constant Program.                                                       *)
(*                                                                         *)
(*   starting -> serving -> draining -> releasing -> exited                *)
(*          \----------(a step raised)-----^                               *)
(*                                                                         *)
(* The users of the resources are HTTP requests, MCP calls among them, and *)
(* jobs.  uvicorn and ARQ wait for them before they release anything, and  *)
(* neither is given a timeout: a client that does not take its answer, or  *)
(* a LLAMATOR run that hangs, holds the process back.                      *)
(***************************************************************************)
EXTENDS Naturals, Sequences, SequencesExt

CONSTANTS
    MaxUsers,   \* bound: requests or jobs at a time
    Threads     \* of the executor of the worker's event loop

ASSUME LifespanAssumption == MaxUsers \in Nat \ {0} /\ Threads \in Nat \ {0}

VARIABLES
    settings,
    phase, step,    \* per process; step counts in Program
    open,           \* [Processes -> SUBSET Resources]
    registered,     \* [Processes -> Seq(Resources)], the exit stack
    raised,         \* history: the resources whose release raised
    served,         \* history: whether the process has served
    users,          \* [Processes -> 0 .. MaxUsers]
    orphans,        \* threads of the worker whose job is over
    hung            \* per process, how many of them never end: in the API
                    \* users, in the worker orphans

lifespanVars ==
    <<settings, phase, step, open, registered, raised, served, users, orphans, hung>>

Processes == {"api", "worker"}
Resources == {"redis", "arq", "sessions"}

(* What start-up makes of the environment.  A "loose" DSN is one that      *)
(* redis.from_url accepts and parse_redis_settings refuses.                *)
Settings ==
    [dsn : {"valid", "loose", "invalid"}, backend : {"local", "s3", "auto"},
     s3 : {"missing", "configured", "no_url"}]

Open(r) == [do |-> "open", what |-> r]
Register(r) == [do |-> "register", what |-> r]
Ping == [do |-> "ping", what |-> "redis"]
CreateStorage == [do |-> "storage", what |-> "artifacts"]

(* Mutant: the storage is registered for closing, too.                     *)
ProgramClosesStorage ==
    [api |-> << Open("redis"), Ping, Register("redis"), Open("arq"), Register("arq"),
                CreateStorage, Register("artifacts"), Open("sessions"), Register("sessions") >>,
     worker |-> << Open("arq"), Register("arq"),
                   Open("redis"), Ping, CreateStorage, Register("redis") >>]

(* Mutant: the pool is registered after the storage was created.           *)
ProgramLateRegister ==
    [api |-> << Open("redis"), Ping, Register("redis"), Open("arq"), CreateStorage,
                Register("arq"), Open("sessions"), Register("sessions") >>,
     worker |-> << Open("arq"), Register("arq"),
                   Open("redis"), Ping, CreateStorage, Register("redis") >>]

(* ARQ itself opens its pool before worker_startup and closes it after     *)
(* worker_shutdown.                                                        *)
Program ==
    [api |-> << Open("redis"), Ping, Register("redis"), Open("arq"), Register("arq"),
                CreateStorage, Open("sessions"), Register("sessions") >>,
     worker |-> << Open("arq"), Register("arq"),
                   Open("redis"), Ping, CreateStorage, Register("redis") >>]

Needs == [api |-> Resources, worker |-> {"redis", "arq"}]

LifespanTypeOK ==
    /\ settings \in Settings
    /\ phase \in [Processes -> {"starting", "serving", "draining", "releasing", "exited"}]
    /\ \A p \in Processes : step[p] \in 1 .. Len(Program[p]) + 1
    /\ open \in [Processes -> SUBSET Resources]
    /\ \A p \in Processes : Range(registered[p]) \subseteq Resources
    /\ raised \in [Processes -> SUBSET Resources]
    /\ served \in [Processes -> BOOLEAN]
    /\ users \in [Processes -> 0 .. MaxUsers]
    /\ orphans \in 0 .. Threads
    /\ hung["api"] \in 0 .. users["api"] /\ hung["worker"] \in 0 .. orphans

(* WorkerSettings parses the DSN when the module is imported: without a    *)
(* valid one there is no worker.                                           *)
LifespanInit ==
    /\ settings \in Settings
    /\ phase = [api |-> "starting",
                worker |-> IF settings.dsn = "valid" THEN "starting" ELSE "exited"]
    /\ step = [p \in Processes |-> 1]
    /\ open = [p \in Processes |-> {}]
    /\ registered = [p \in Processes |-> <<>>]
    /\ raised = [p \in Processes |-> {}]
    /\ served = [p \in Processes |-> FALSE]
    /\ users = [p \in Processes |-> 0]
    /\ orphans = 0
    /\ hung = [p \in Processes |-> 0]

-----------------------------------------------------------------------------
(* create_artifacts_storage: the backend, or "error" for a ValueError.     *)
Storage ==
    CASE settings.backend = "local" -> "local"
      [] settings.backend = "auto" /\ settings.s3 = "missing" -> "local"
      [] settings.backend = "s3" /\ settings.s3 = "missing" -> "error"
      [] OTHER -> IF settings.s3 = "no_url" THEN "error" ELSE "s3"

(* Whether a step may come to its end, with Redis in reach.                *)
MaySucceed(s) ==
    CASE s = Open("redis") -> settings.dsn # "invalid"
      [] s = Open("arq")   -> settings.dsn = "valid"
      [] s = CreateStorage -> Storage # "error"
      [] OTHER             -> TRUE

(* create_pool and the ping also raise when Redis is out of reach.         *)
MayRaise(s) == s \in {Open("arq"), Ping} \/ ~MaySucceed(s)

GoTo(p, ph) == phase' = [phase EXCEPT ![p] = ph]

StepSucceeds(p) ==
    LET s == Program[p][step[p]]
    IN  /\ phase[p] = "starting"
        /\ MaySucceed(s)
        /\ step' = [step EXCEPT ![p] = @ + 1]
        /\ open' = IF s.do = "open" THEN [open EXCEPT ![p] = @ \cup {s.what}] ELSE open
        /\ registered' = IF s.do = "register"
                         THEN [registered EXCEPT ![p] = Append(@, s.what)] ELSE registered
        /\ IF step[p] = Len(Program[p])
           THEN GoTo(p, "serving") /\ served' = [served EXCEPT ![p] = TRUE]
           ELSE UNCHANGED <<phase, served>>
        /\ UNCHANGED <<settings, raised, users, orphans, hung>>

(* Mutant: a start-up that raises ends the process as it is.               *)
StepRaisesUnhandled(p) ==
    /\ phase[p] = "starting"
    /\ MayRaise(Program[p][step[p]])
    /\ GoTo(p, "exited")
    /\ UNCHANGED <<settings, step, open, registered, raised, served, users, orphans, hung>>

(* The exception leaves through the AsyncExitStack, or ARQ's run, whose    *)
(* finally calls worker_shutdown with the ctx as far as it was filled.     *)
StepRaises(p) ==
    /\ phase[p] = "starting"
    /\ MayRaise(Program[p][step[p]])
    /\ GoTo(p, "releasing")
    /\ UNCHANGED <<settings, step, open, registered, raised, served, users, orphans, hung>>

UserBegins(p) ==
    /\ phase[p] = "serving"
    /\ users[p] < MaxUsers
    /\ users' = [users EXCEPT ![p] = @ + 1]
    /\ UNCHANGED <<settings, phase, step, open, registered, raised, served, orphans, hung>>

(* A request is answered, or a job ends with its run.                      *)
UserEnds(p) ==
    /\ users[p] > 0
    /\ p = "api" => users[p] > hung[p]
    /\ users' = [users EXCEPT ![p] = @ - 1]
    /\ UNCHANGED <<settings, phase, step, open, registered, raised, served, orphans, hung>>

(* A job ends before its run, which cannot be stopped: by job_timeout, or  *)
(* because the worker was told to stop.                                    *)
JobLeavesThread ==
    /\ users["worker"] > 0
    /\ orphans < Threads
    /\ users' = [users EXCEPT !["worker"] = @ - 1]
    /\ orphans' = orphans + 1
    /\ UNCHANGED <<settings, phase, step, open, registered, raised, served, hung>>

OrphanEnds ==
    /\ orphans > hung["worker"]
    /\ orphans' = orphans - 1
    /\ UNCHANGED <<settings, phase, step, open, registered, raised, served, users, hung>>

(* A client stays connected for good without taking its answer; a run that *)
(* has lost its job does not return.                                       *)
Hang(p) ==
    /\ hung[p] < IF p = "api" THEN users[p] ELSE orphans
    /\ hung' = [hung EXCEPT ![p] = @ + 1]
    /\ UNCHANGED <<settings, phase, step, open, registered, raised, served, users, orphans>>

Stop(p) ==
    /\ phase[p] = "serving"
    /\ GoTo(p, "draining")
    /\ UNCHANGED <<settings, step, open, registered, raised, served, users, orphans, hung>>

(* Mutant: the server is given a graceful timeout.                         *)
DrainedInTime(p) ==
    /\ phase[p] = "draining"
    /\ GoTo(p, "releasing")
    /\ UNCHANGED <<settings, step, open, registered, raised, served, users, orphans, hung>>

(* uvicorn awaits the requests in progress, ARQ the jobs it has cancelled; *)
(* neither is given a timeout.                                             *)
Drained(p) ==
    /\ phase[p] = "draining"
    /\ users[p] = 0
    /\ GoTo(p, "releasing")
    /\ UNCHANGED <<settings, step, open, registered, raised, served, users, orphans, hung>>

(* Mutant: a release that raised is tried once more.                       *)
ReleaseRetried(p) ==
    /\ phase[p] = "releasing" /\ registered[p] # <<>>
    /\ LET r == Last(registered[p])
       IN  \/ /\ open' = [open EXCEPT ![p] = @ \ {r}]
              /\ registered' = [registered EXCEPT ![p] = Front(@)]
              /\ raised' = [raised EXCEPT ![p] = @ \ {r}]
           \/ /\ raised' = [raised EXCEPT ![p] = IF r \in @ THEN @ \ {r} ELSE @ \cup {r}]
              /\ UNCHANGED <<open, registered>>
    /\ UNCHANGED <<settings, phase, step, served, users, orphans, hung>>

(* The last resource registered is released, or its release raises: an     *)
(* AsyncExitStack goes on with the others, ARQ's close does not.           *)
Release(p) ==
    /\ phase[p] = "releasing" /\ registered[p] # <<>>
    /\ LET r == Last(registered[p])
       IN  \/ /\ open' = [open EXCEPT ![p] = @ \ {r}]
              /\ registered' = [registered EXCEPT ![p] = Front(@)]
              /\ UNCHANGED raised
           \/ /\ raised' = [raised EXCEPT ![p] = @ \cup {r}]
              /\ registered' = [registered EXCEPT ![p] = IF p = "api" THEN Front(@) ELSE <<>>]
              /\ UNCHANGED open
    /\ UNCHANGED <<settings, phase, step, served, users, orphans, hung>>

(* main returns.  The interpreter then joins the threads of the executor.  *)
Exit(p) ==
    /\ phase[p] = "releasing" /\ registered[p] = <<>>
    /\ p = "worker" => orphans = 0
    /\ GoTo(p, "exited")
    /\ UNCHANGED <<settings, step, open, registered, raised, served, users, orphans, hung>>

Starting(p) == StepSucceeds(p) \/ StepRaises(p)
Stopping(p) == Drained(p) \/ Release(p) \/ Exit(p)

LifespanNext ==
    \/ \E p \in Processes :
          Starting(p) \/ UserBegins(p) \/ UserEnds(p) \/ Hang(p) \/ Stop(p) \/ Stopping(p)
    \/ JobLeavesThread \/ OrphanEnds

LifespanSpec == LifespanInit /\ [][LifespanNext]_lifespanVars

(* What no user and no thread can get by: the connection of a client that  *)
(* stays, or every thread of the executor.  A job may need one to end, for *)
(* the rmtree of its finally.                                              *)
Blocked(p) == IF p = "api" THEN hung[p] > 0 ELSE hung[p] = Threads

(* Both event loops run, Redis answers or refuses.  Of the users all but   *)
(* the hung end, an MCP call by its deadline and a job by its timeout (see *)
(* EveryJobEnds of WorkerPool) unless it waits for a thread in vain; and   *)
(* of the orphans all but the hung.                                        *)
FairLifespanSpec ==
    /\ LifespanSpec
    /\ \A p \in Processes : /\ WF_lifespanVars(Starting(p))
                            /\ WF_lifespanVars(Stopping(p))
    /\ WF_lifespanVars(UserEnds("api"))
    /\ WF_lifespanVars(~Blocked("worker") /\ (UserEnds("worker") \/ JobLeavesThread))
    /\ WF_lifespanVars(OrphanEnds)

-----------------------------------------------------------------------------
(* Properties.                                                             *)

(* What a request or a job works with is open as long as it runs: nothing  *)
(* is served before start-up is through, nothing is closed under a user.   *)
UsersFindItOpen == \A p \in Processes : users[p] > 0 => Needs[p] \subseteq open[p]

(* What a process that has exited leaves open: only what failed to close   *)
(* itself, the Redis client when start-up was broken off (it is opened     *)
(* before what is to close it is registered, app_factory.py:46-48), and in *)
(* the worker ARQ's pool when worker_shutdown raised, as ARQ does not go   *)
(* on to close it.                                                         *)
OnlyHalfOpenLeaks ==
    \A p \in Processes : phase[p] = "exited" =>
        open[p] \subseteq
            raised[p] \cup (IF served[p] THEN {} ELSE {"redis"})
                \cup (IF p = "worker" /\ "redis" \in raised[p] THEN {"arq"} ELSE {})

(* A process that is told to stop, or whose start-up breaks off, gets its  *)
(* resources released unless hung clients or hung runs block its users,    *)
(* and exits unless one hangs at all: for the worker, one LLAMATOR run     *)
(* that does not return is enough (worker.py:14), though all is released.  *)
ShutdownEnds ==
    \A p \in Processes :
        LET stopping == phase[p] \in {"draining", "releasing"}
            released == phase[p] # "draining" /\ registered[p] = <<>>
        IN  /\ stopping ~> released \/ Blocked(p)
            /\ stopping ~> phase[p] = "exited" \/ hung[p] > 0
=============================================================================
