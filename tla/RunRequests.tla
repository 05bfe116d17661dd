----------------------------- MODULE RunRequests -----------------------------
(***************************************************************************)
(* One run request on its way from the API to LLAMATOR: domain/models.py   *)
(* validates it, domain/services.py redacts it into the record and dumps   *)
(* it into the payload, and in the worker process worker_settings.py       *)
(* validates the payload again and infra/llamator_runner.py makes the      *)
(* arguments of llamator.start_testing from it.                            *)
(*                                                                         *)
(*   idle -> validate -> check -> submit -> enqueue -> revalidate          *)
(*        -> resolve -> handed, or refused by the API, or failed           *)
(*                                                                         *)
(* A text is one of Texts; an optional value is a sequence of at most one. *)
(* The value of a parameter is its place in the list of parameters.        *)
(***************************************************************************)
EXTENDS Naturals, Sequences, SequencesExt, Lists

CONSTANTS
    RawRequests     \* the requests that are sent

Texts == {"x", " x", "y", " ", ""}
Paths == {"llamator.x", "llamator.unknown", "llamator.", "os.x"}

Optional(S) == {s \in Seq(S) : Len(s) <= 1}

(* The requests a JSON body can be parsed into.                            *)
Requests ==
    [preset  : Optional(Texts),
     threads : Optional(Nat),
     basic   : Optional(Seq([name : Texts, params : Seq(Texts)])),
     custom  : Optional(Seq([name : Paths, params : Seq(Texts)])),
     prompts : Optional(Seq(Texts)),
     path    : Optional({"d", ".."})]

ASSUME RequestAssumption == RawRequests \subseteq Requests

VARIABLES
    stage,
    urlsValid,  \* whether the settings' base URLs of the own models are URLs
    request,    \* as it was sent; <<>> before
    model,      \* LlamatorTestRunRequest, the validated copy in the API
    record,     \* the plan in the field "request" of the job record
    payload,    \* what enqueue_job was given
    inputs,     \* _RunInputs, the validated copy in the worker
    arguments,  \* what start_testing is called with
    answer,     \* the status the API answered with, 0 for none yet
    redisRaised \* whether a write of submit raised; read by no action

requestVars ==
    <<stage, urlsValid, request, model, record, payload, inputs, arguments, answer, redisRaised>>
copies == <<model, record, payload, inputs, arguments>>

Stages == {"idle", "validate", "check", "submit", "enqueue", "revalidate",
           "resolve", "handed", "refused", "failed"}

RequestInit ==
    /\ stage = "idle"
    /\ urlsValid \in BOOLEAN
    /\ request = <<>>
    /\ model = <<>> /\ record = <<>> /\ payload = <<>>
    /\ inputs = <<>> /\ arguments = <<>>
    /\ answer = 0
    /\ redisRaised = FALSE

-----------------------------------------------------------------------------
(* The validators of domain/models.py.                                     *)

Strip(text) == CASE text = " x" -> "x"
                 [] text = " "  -> ""
                 [] OTHER       -> text

Each(Op(_), s) == [i \in DOMAIN s |-> Op(s[i])]

(* TestParameter, BasicTestSpec and CustomTestSpec: a test has a name (its *)
(* code_name or import_path) and the names of its parameters.              *)
NamesValid(test) ==
    /\ Strip(test.name) # ""
    /\ \A i \in DOMAIN test.params : Strip(test.params[i]) # ""

(* Mutant: the parameters keep the names they were sent with.              *)
StrippedName(test) == [test EXCEPT !.name = Strip(@)]

Stripped(test) == [name |-> Strip(test.name), params |-> Each(Strip, test.params)]

(* CustomTestSpec._validate_import_path                                    *)
AllowedPath(path) == path \in Paths \ {"os.x"}

(* LlamatorRunConfig._validate_artifacts_path                              *)
SafePath(path) == path # ".."

TestsOf(req) == OrEmpty(req.basic) \o OrEmpty(req.custom)

Valid(req) ==
    /\ \A test \in Range(TestsOf(req)) : NamesValid(test)
    /\ \A test \in Range(OrEmpty(req.custom)) : AllowedPath(test.name)
    /\ \A name \in Range(req.preset) : Strip(name) # ""
    /\ \A n \in Range(req.threads) : n >= 1
    /\ \A path \in Range(req.path) : SafePath(path)

(* Mutant: only empty prompts are dropped, before they are stripped.       *)
CleanPromptsEmpty(prompts) ==
    LET cleaned == Each(Strip, Kept(prompts, Texts \ {""}))
    IN  IF cleaned = <<>> THEN <<>> ELSE <<cleaned>>

(* OpenAIClientConfig._validate_system_prompts: blank prompts are dropped, *)
(* and a list of nothing else is None.                                     *)
CleanPrompts(prompts) ==
    LET cleaned == Kept(Each(Strip, prompts), Texts \ {""})
    IN  IF cleaned = <<>> THEN <<>> ELSE <<cleaned>>

(* What the validators make of a valid request.  TestPlan does not strip   *)
(* preset_name.                                                            *)
Validated(req) ==
    LET tests(ts) == Each(Stripped, ts)
    IN  [req EXCEPT !.basic = Each(tests, @),
                    !.custom = Each(tests, @),
                    !.prompts = IF @ = <<>> THEN <<>> ELSE CleanPrompts(@[1])]

-----------------------------------------------------------------------------
(* domain/services.py                                                      *)

(* Mutant: the set of names seen so far is shared by the tests.            *)
UniqueParamNamesOfAll(req) ==
    IsInjective(FlattenSeq([i \in DOMAIN TestsOf(req) |-> TestsOf(req)[i].params]))

(* validate_test_specs: names are unique in each test.                     *)
UniqueParamNames(req) ==
    \A i \in DOMAIN TestsOf(req) : IsInjective(TestsOf(req)[i].params)

(* _build_attack_client, _build_judge_client: Settings takes any text for  *)
(* a base URL, and it is parsed only here.                                 *)
ClientsValid == urlsValid

(* _resolve_artifacts_dir, below artifacts_root: the directory of the job, *)
(* or one inside it (a path that SafePath let pass cannot escape it).      *)
ArtifactsDir(req) == <<"job">> \o req.path

(* Mutant: the tests beside a preset are not told.                         *)
RedactPreset(req) ==
    [preset |-> req.preset, threads |-> req.threads,
     basic |-> IF req.preset = <<>> THEN OrEmpty(req.basic) ELSE <<>>,
     custom |-> OrEmpty(req.custom)]

(* _redact_request, the plan                                               *)
Redact(req) ==
    [preset |-> req.preset, threads |-> req.threads,
     basic |-> OrEmpty(req.basic), custom |-> OrEmpty(req.custom)]

Payload(req) ==
    [plan |-> [preset |-> req.preset, threads |-> req.threads,
               basic |-> req.basic, custom |-> req.custom,
               prompts |-> req.prompts, path |-> <<>>],
     dir |-> ArtifactsDir(req)]

-----------------------------------------------------------------------------
(* infra/llamator_runner.py                                                *)

(* _params_to_dict: of equal names the last one wins.                      *)
ParamsToDict(params) ==
    [name \in Range(params) |->
        CHOOSE i \in DOMAIN params :
            params[i] = name /\ \A h \in DOMAIN params : params[h] = name => h <= i]

ResolvedTest(test) == [name |-> test.name, params |-> ParamsToDict(test.params)]

(* The presets of LLAMATOR and the classes that can be imported.           *)
Presets == [x |-> << [name |-> "preset", params |-> <<>>] >>]
Importable == {"llamator.x"}

(* _resolve_basic_tests, _resolve_custom_tests: no tests are None.         *)
ResolveTests(plan) ==
    LET preset == IF plan.preset = <<>> THEN <<>> ELSE Presets[Strip(plan.preset[1])]
        orNone(tests) == IF tests = <<>> THEN <<>> ELSE <<tests>>
    IN  [basic  |-> orNone(preset \o Each(ResolvedTest, OrEmpty(plan.basic))),
         custom |-> orNone(Each(ResolvedTest, OrEmpty(plan.custom)))]

Resolvable(plan) ==
    /\ \A i \in DOMAIN plan.preset : Strip(plan.preset[i]) \in DOMAIN Presets
    /\ LET tests == OrEmpty(plan.custom)
       IN  \A i \in DOMAIN tests : tests[i].name \in Importable

-----------------------------------------------------------------------------
GoOn(from, to) == stage = from /\ stage' = to

Receive ==
    /\ GoOn("idle", "validate")
    /\ request' \in RawRequests
    /\ UNCHANGED <<urlsValid, copies, answer, redisRaised>>

Refuse(status) ==
    /\ stage' = "refused"
    /\ answer' = status
    /\ UNCHANGED <<urlsValid, request, copies, redisRaised>>

(* FastAPI parses the body into LlamatorTestRunRequest.                    *)
Validate ==
    /\ stage = "validate"
    /\ \/ ~Valid(request) /\ Refuse(422)
       \/ /\ Valid(request)
          /\ stage' = "check"
          /\ model' = Validated(request)
          /\ UNCHANGED <<urlsValid, request, record, payload, inputs, arguments, answer,
                         redisRaised>>

(* Mutant: the names are compared as they were sent.                       *)
CheckRaw ==
    /\ stage = "check"
    /\ \/ ~UniqueParamNames(request) /\ Refuse(400)
       \/ /\ UniqueParamNames(request)
          /\ stage' = "submit"
          /\ UNCHANGED <<urlsValid, request, copies, answer, redisRaised>>

(* create_run                                                              *)
Check ==
    /\ stage = "check"
    /\ \/ ~UniqueParamNames(model) /\ Refuse(400)
       \/ /\ UniqueParamNames(model)
          /\ stage' = "submit"
          /\ UNCHANGED <<urlsValid, request, copies, answer, redisRaised>>

(* Mutant: the record is created before the models are configured.         *)
SubmitCreateFirst ==
    /\ stage = "submit"
    /\ record' = Redact(model)
    /\ stage' = IF ClientsValid THEN "enqueue" ELSE "refused"
    /\ answer' = IF ClientsValid THEN 0 ELSE 500
    /\ UNCHANGED <<urlsValid, request, model, payload, inputs, arguments, redisRaised>>

(* submit up to store.create, which may raise though the record is stored; *)
(* create_run has no handler for what submit raises.                       *)
Submit ==
    /\ stage = "submit"
    /\ \/ ~ClientsValid /\ Refuse(500)
       \/ /\ ClientsValid
          /\ \/ /\ stage' = "enqueue"
                /\ record' = Redact(model)
                /\ UNCHANGED <<answer, redisRaised>>
             \/ /\ stage' = "refused"
                /\ record' \in {record, Redact(model)}
                /\ answer' = 500
                /\ redisRaised' = TRUE
          /\ UNCHANGED <<urlsValid, request, model, payload, inputs, arguments>>

(* enqueue_job may raise, too, and the job be in the queue all the same.   *)
Enqueue ==
    /\ stage = "enqueue"
    /\ \/ stage' = "revalidate" /\ payload' = Payload(model)
       \/ stage' = "refused" /\ UNCHANGED payload
    /\ \/ stage' = "revalidate" /\ answer' = 200 /\ UNCHANGED redisRaised
       \/ answer' = 500 /\ redisRaised' = TRUE
    /\ UNCHANGED <<urlsValid, request, model, record, inputs, arguments>>

(* _RunInputs.from_payload, in the worker                                  *)
FromPayload ==
    /\ stage = "revalidate"
    /\ \/ ~Valid(payload.plan) /\ stage' = "failed" /\ UNCHANGED inputs
       \/ /\ Valid(payload.plan)
          /\ inputs' = [payload EXCEPT !.plan = Validated(@)]
          /\ stage' = "resolve"
    /\ UNCHANGED <<urlsValid, request, model, record, payload, arguments, answer, redisRaised>>

(* LlamatorRunner.run up to start_testing                                  *)
Run ==
    /\ stage = "resolve"
    /\ \/ ~Resolvable(inputs.plan) /\ stage' = "failed" /\ UNCHANGED arguments
       \/ /\ Resolvable(inputs.plan)
          /\ arguments' = ResolveTests(inputs.plan)
          /\ stage' = "handed"
    /\ UNCHANGED <<urlsValid, request, model, record, payload, inputs, answer, redisRaised>>

RequestNext ==
    Receive \/ Validate \/ Check \/ Submit \/ Enqueue \/ FromPayload \/ Run

RequestSpec == RequestInit /\ [][RequestNext]_requestVars

-----------------------------------------------------------------------------
(* Properties.                                                             *)

(* Types: a copy exists from the stage on that makes it, and the tests in  *)
(* it have stripped names.                                                 *)
RequestTypeOK ==
    /\ stage \in Stages
    /\ urlsValid \in BOOLEAN
    /\ request \in RawRequests \cup {<<>>}
    /\ answer \in {0, 200, 400, 422, 500}
    /\ redisRaised \in BOOLEAN
    /\ model # <<>> => \A test \in Range(TestsOf(model)) :
                          Range(test.params) \subseteq {"x", "y"}
    /\ (payload # <<>>) = (stage \in {"revalidate", "resolve", "handed", "failed"})
    /\ (arguments # <<>>) = (stage = "handed")

(* Every parameter of a request reaches LLAMATOR with its own value: the   *)
(* lists become dicts (llamator_runner.py:38) only after no two names are  *)
(* the same, and stripping a name in the worker cannot make them the same. *)
NoParameterLost ==
    stage = "handed" =>
        LET handed == OrEmpty(arguments.basic)
            own(tests, of) ==
                \A i \in DOMAIN of : \A n \in DOMAIN of[i].params :
                    tests[Len(tests) - Len(of) + i].params[Strip(of[i].params[n])] = n
        IN  /\ own(handed, OrEmpty(request.basic))
            /\ own(OrEmpty(arguments.custom), OrEmpty(request.custom))

(* The plan that the record shows to whoever asks for the job              *)
(* (services.py:44) is the plan LLAMATOR was given: the same tests in the  *)
(* same order after those of the preset.                                   *)
RecordTellsTheRun ==
    stage = "handed" =>
        LET shown(tests) == [i \in DOMAIN tests |-> ResolvedTest(tests[i])]
            preset == IF record.preset = <<>> THEN <<>>
                      ELSE Presets[Strip(record.preset[1])]
        IN  /\ OrEmpty(arguments.basic) = preset \o shown(record.basic)
            /\ OrEmpty(arguments.custom) = shown(record.custom)

(* The worker's second validation of what the API has validated neither    *)
(* refuses nor changes anything (worker_settings.py:95): the two processes *)
(* mean the same run.                                                      *)
RevalidationAgrees ==
    stage \in {"resolve", "handed", "failed"} =>
        inputs # <<>> /\ inputs = Payload(model)

(* submit does all that may be refused before it writes, and the record    *)
(* before the job (services.py:206-225): while Redis does not fail it, a   *)
(* refused request has left neither, and a job never lacks its record,     *)
(* whatever was answered.  Of a failing Redis a client that is told 500    *)
(* may still find a record, or a record and a job.                         *)
RefusedLeavesNothing ==
    /\ answer \in {400, 422, 500} /\ ~redisRaised => record = <<>> /\ payload = <<>>
    /\ payload # <<>> => record = Redact(model)

(* The rules of README.md:363-382 that the validators of models.py check,  *)
(* and that no test has two parameters of one name (services.py:230).      *)
(* Every answer has its cause: 422 is for a request that breaks a rule,    *)
(* 400 for one that is well-formed and repeats a name, and 500 is left to  *)
(* wrong settings and to a Redis that failed submit.  README.md:230 speaks *)
(* of 400 for both kinds; FastAPI answers 422 to the first.                *)
RefusedForCause ==
    LET blank(test) == \E text \in {test.name} \cup Range(test.params) : Strip(text) = ""
        malformed ==
            \/ \E test \in Range(TestsOf(request)) : blank(test)
            \/ \E test \in Range(OrEmpty(request.custom)) : test.name = "os.x"
            \/ \E name \in Range(request.preset) : Strip(name) = ""
            \/ request.threads = <<0>> \/ request.path = <<"..">>
        repeats ==
            \E test \in Range(TestsOf(request)) : \E m, n \in DOMAIN test.params :
                m # n /\ Strip(test.params[m]) = Strip(test.params[n])
    IN  answer # 0 =>
            /\ answer = 422 <=> malformed
            /\ answer = 400 <=> ~malformed /\ repeats
            /\ answer = 500 <=> ~malformed /\ ~repeats /\ (~urlsValid \/ redisRaised)
=============================================================================
