-------------------------- MODULE WorkerPool_proofs --------------------------
(***************************************************************************)
(* The safety of WorkerPool, for any number of jobs, slots, threads and    *)
(* hung runs: PoolInv is inductive.                                        *)
(***************************************************************************)
EXTENDS WorkerPool, FiniteSetTheorems, TLAPS

Phases == Ops \cup {"queued", "start", "record", "ended"}

Distinct(q) == \A i, k \in DOMAIN q : i # k => q[i][1] # q[k][1]

(* A queue to which the next call of job j may be appended.                *)
Fit(q, j) ==
    /\ q \in Seq(Calls)
    /\ Distinct(q)
    /\ \A i \in DOMAIN q : q[i][1] # j /\ Awaited(q[i]) /\ q[i] \notin executing

LEMMA CallParts == \A call \in Calls : call = <<call[1], call[2]>> /\ call[1] \in Jobs /\ call[2] \in Ops
  BY DEF Calls

LEMMA WithoutFacts ==
    ASSUME NEW s \in Seq(Calls), NEW i \in DOMAIN s
    PROVE  /\ Without(s, i) \in Seq(Calls)
           /\ DOMAIN Without(s, i) = 1 .. Len(s) - 1
           /\ \A k \in 1 .. Len(s) - 1 :
                Without(s, i)[k] = IF k < i THEN s[k] ELSE s[k + 1]
<1>1. Len(s) \in Nat /\ DOMAIN s = 1 .. Len(s) /\ i \in 1 .. Len(s)
  OBVIOUS
<1>2. Len(s) - 1 \in Nat
  BY <1>1
<1>3. \A k \in 1 .. Len(s) - 1 : k \in DOMAIN s /\ k + 1 \in DOMAIN s
  BY <1>1
<1>4. \A k \in 1 .. Len(s) - 1 : s[k] \in Calls /\ s[k + 1] \in Calls
  BY <1>3
<1>5. Without(s, i) \in [1 .. Len(s) - 1 -> Calls]
  BY <1>4 DEF Without
<1> QED
  BY <1>2, <1>5 DEF Without

(* A coroutine that waits for no thread has no place in the queue.         *)
LEMMA NoPlace ==
    ASSUME PoolInv, NEW j \in Jobs,
           phase[j] \notin Ops \/ <<j, phase[j]>> \in executing
    PROVE  Fit(waiting, j)
<1> USE DEF PoolInv
<1>1. waiting \in Seq(Calls) /\ Distinct(waiting)
  BY DEF PoolTypeOK, QueueInv, Distinct
<1>2. ASSUME NEW i \in DOMAIN waiting PROVE waiting[i][1] # j
  <2>1. waiting[i] \in Calls
    BY <1>1
  <2>2. phase[waiting[i][1]] = waiting[i][2] /\ waiting[i] \notin executing
    BY DEF DeadCallsNeverStart, Awaited, QueueInv
  <2> QED
    BY <2>1, <2>2, CallParts
<1> QED
  BY <1>1, <1>2 DEF Fit, DeadCallsNeverStart, QueueInv

LEMMA GivenUpFits ==
    ASSUME PoolInv, NEW j \in Jobs
    PROVE  Fit(GivenUp(j), j)
<1> USE DEF PoolInv
<1>1. waiting \in Seq(Calls) /\ Distinct(waiting)
  BY DEF PoolTypeOK, QueueInv, Distinct
<1>2. \A i \in DOMAIN waiting : Awaited(waiting[i]) /\ waiting[i] \notin executing
  BY DEF DeadCallsNeverStart, QueueInv
<1>3. CASE Places(j) = {}
  BY <1>1, <1>2, <1>3 DEF Fit, GivenUp, Places
<1>4. CASE Places(j) # {}
  <2>1. PICK i \in Places(j) : GivenUp(j) = Without(waiting, i)
    BY <1>4 DEF GivenUp
  <2>2. i \in DOMAIN waiting /\ waiting[i][1] = j
    BY DEF Places
  <2> DEFINE q == Without(waiting, i)
             At(k) == IF k < i THEN k ELSE k + 1
  <2>3. /\ q \in Seq(Calls) /\ DOMAIN q = 1 .. Len(waiting) - 1
        /\ \A k \in DOMAIN q : q[k] = IF k < i THEN waiting[k] ELSE waiting[k + 1]
    BY <1>1, <2>2, WithoutFacts
  <2>4. \A k \in DOMAIN q : At(k) \in DOMAIN waiting /\ At(k) # i /\ q[k] = waiting[At(k)]
    BY <1>1, <2>2, <2>3
  <2>5. \A k, l \in DOMAIN q : k # l => At(k) # At(l)
    BY <1>1, <2>2, <2>3
  <2> HIDE DEF q, At
  <2>6. \A k \in DOMAIN q : q[k][1] # j /\ Awaited(q[k]) /\ q[k] \notin executing
    BY <1>1, <1>2, <2>2, <2>4 DEF Distinct
  <2>7. Distinct(q)
    BY <1>1, <2>4, <2>5 DEF Distinct
  <2> QED
    BY <2>1, <2>3, <2>6, <2>7 DEF Fit, q
<1> QED
  BY <1>3, <1>4

(* What a coroutine does to the queue when it goes to its next await.      *)
LEMMA GoToFits ==
    ASSUME PoolTypeOK, NEW j \in Jobs, NEW next \in Phases, NEW rest, Fit(rest, j),
           GoTo(j, next, rest), executing' \subseteq executing,
           next \in Ops => <<j, next>> \notin executing
    PROVE  /\ phase' \in [Jobs -> Phases] /\ waiting' \in Seq(Calls)
           /\ DeadCallsNeverStart' /\ QueueInv'
<1>1. phase' = [phase EXCEPT ![j] = next] /\ phase' \in [Jobs -> Phases]
  BY DEF GoTo, PoolTypeOK, Phases
<1>2. \A i \in DOMAIN rest : rest[i] \in Calls /\ rest[i][1] \in Jobs /\ phase'[rest[i][1]] = rest[i][2]
  BY <1>1, CallParts DEF Fit, Awaited, PoolTypeOK
<1>3. CASE next \notin Ops
  BY <1>1, <1>2, <1>3 DEF GoTo, Fit, Distinct, DeadCallsNeverStart, QueueInv, Awaited
<1>4. CASE next \in Ops
  <2> DEFINE call == <<j, next>>
  <2>1. call \in Calls /\ call[1] = j /\ call[2] = next
    BY <1>4 DEF Calls
  <2>2. waiting' = Append(rest, call) /\ rest \in Seq(Calls)
    BY <1>4 DEF GoTo, Fit
  <2>3. /\ waiting' \in Seq(Calls)
        /\ DOMAIN waiting' = DOMAIN rest \cup {Len(rest) + 1}
        /\ Len(rest) + 1 \notin DOMAIN rest
        /\ waiting'[Len(rest) + 1] = call
        /\ \A i \in DOMAIN rest : waiting'[i] = rest[i]
    BY <2>1, <2>2
  <2> HIDE DEF call
  <2>4. phase'[j] = next
    BY <1>1 DEF PoolTypeOK
  <2>5. DeadCallsNeverStart'
    BY <1>2, <2>1, <2>3, <2>4 DEF DeadCallsNeverStart, Awaited
  <2>6. QueueInv'
    BY <1>2, <1>4, <2>1, <2>3 DEF QueueInv, Fit, Distinct, call
  <2> QED
    BY <1>1, <2>3, <2>5, <2>6
<1> QED
  BY <1>3, <1>4

(* A job that was not cancelled occupies a thread with the call it awaits. *)
LEMMA OnlyAwaited ==
    ASSUME PoolInv, NEW j \in Jobs, j \notin cancelled, NEW op \in Ops, <<j, op>> \in executing
    PROVE  phase[j] = op
  BY DEF PoolInv, CancelInv, Awaited

LEMMA InitPool == PoolInit => PoolInv
  BY DEF PoolInit, PoolInv, PoolTypeOK, DeadCallsNeverStart, QueueInv, CancelInv,
     ArchiveInv, NoStrayTempFile, ArchivedBeforeRemoval, Contents, Calls

(* The part of the invariant that is the same for every step by which a    *)
(* coroutine goes to its next await.                                       *)
LEMMA Goes ==
    ASSUME PoolInv, NEW j \in Jobs, NEW next \in Phases, NEW rest, Fit(rest, j),
           GoTo(j, next, rest),
           executing' \subseteq executing,
           cancelled' \in {cancelled, cancelled \cup {j}},
           \A i \in Jobs \ {j} : i \in uploaded' => i \in uploaded,
           next \in Ops => <<j, next>> \notin executing,
           \A op \in Ops : <<j, op>> \in executing' => j \in cancelled',
           j \in cancelled' => next \in {"rmtree", "ended"},
           <<j, "rmtree">> \in executing' => next \in {"rmtree", "ended"},
           next \in {"rmtree", "ended"} => j \notin uploaded'
    PROVE  /\ phase' \in [Jobs -> Phases] /\ waiting' \in Seq(Calls)
           /\ phase'[j] = next /\ \A i \in Jobs \ {j} : phase'[i] = phase[i]
           /\ DeadCallsNeverStart' /\ QueueInv' /\ CancelInv'
<1>1. /\ phase' \in [Jobs -> Phases] /\ waiting' \in Seq(Calls)
      /\ DeadCallsNeverStart' /\ QueueInv'
  BY GoToFits DEF PoolInv
<1>2. phase'[j] = next /\ \A i \in Jobs \ {j} : phase'[i] = phase[i]
  BY DEF GoTo, PoolInv, PoolTypeOK
<1>3. CancelInv'
  <2>1. \A i \in cancelled' : phase'[i] \in {"rmtree", "ended"}
    BY <1>2 DEF PoolInv, PoolTypeOK, CancelInv
  <2>2. ASSUME NEW call \in executing' PROVE Awaited(call)' \/ call[1] \in cancelled'
    <3>1. call = <<call[1], call[2]>> /\ call[1] \in Jobs /\ call[2] \in Ops
      BY <2>2, CallParts DEF PoolInv, PoolTypeOK
    <3>2. CASE call[1] = j
      BY <3>1, <3>2, <2>2
    <3>3. CASE call[1] # j
      BY <3>1, <3>3, <2>2, <1>2 DEF PoolInv, CancelInv, Awaited
    <3> QED
      BY <3>2, <3>3
  <2>3. \A i \in Jobs : <<i, "rmtree">> \in executing' => phase'[i] \in {"rmtree", "ended"}
    BY <1>2 DEF PoolInv, PoolTypeOK, CancelInv
  <2>4. \A i \in Jobs : phase'[i] \in {"rmtree", "ended"} => i \notin uploaded'
    BY <1>2 DEF PoolInv, PoolTypeOK, CancelInv
  <2> QED
    BY <2>1, <2>2, <2>3, <2>4 DEF CancelInv, Awaited
<1> QED
  BY <1>1, <1>2, <1>3

-----------------------------------------------------------------------------
(* The slots.                                                              *)

(* A job that awaits no thread has none.                                   *)
LEMMA NoThread ==
    ASSUME PoolInv, NEW j \in Jobs, phase[j] \in {"queued", "start", "record"}
    PROVE  /\ Fit(waiting, j) /\ j \notin cancelled
           /\ \A op \in Ops : <<j, op>> \notin executing
<1>1. j \notin cancelled
  BY DEF PoolInv, CancelInv
<1>2. \A op \in Ops : <<j, op>> \notin executing
  BY <1>1, OnlyAwaited DEF Ops
<1>3. phase[j] \notin Ops
  BY DEF Ops
<1> QED
  BY <1>1, <1>2, <1>3, NoPlace

LEMMA ClaimStep == ASSUME PoolInv, NEW j \in Jobs, Claim(j) PROVE PoolInv'
<1>1. phase[j] = "queued" /\ GoTo(j, "start", waiting)
  BY DEF Claim, GoTo, Ops
<1>2. UNCHANGED <<executing, handler, uploaded, cancelled, hung, dirs, temps, opened, zip, archive>>
  BY DEF Claim, jobVars, fileVars
<1>3. /\ phase' \in [Jobs -> Phases] /\ waiting' \in Seq(Calls)
      /\ phase'[j] = "start" /\ \A i \in Jobs \ {j} : phase'[i] = phase[i]
      /\ DeadCallsNeverStart' /\ QueueInv' /\ CancelInv'
  BY <1>1, <1>2, NoThread, Goes DEF Phases, Ops
<1>4. ArchiveInv'
  BY <1>1, <1>2, <1>3 DEF PoolInv, PoolTypeOK, ArchiveInv
<1>5. NoStrayTempFile' /\ ArchivedBeforeRemoval'
  BY <1>1, <1>2, <1>3 DEF PoolInv, PoolTypeOK, NoStrayTempFile, ArchivedBeforeRemoval
<1> QED
  BY <1>2, <1>3, <1>4, <1>5 DEF PoolInv, PoolTypeOK, Phases

LEMMA BeginStep == ASSUME PoolInv, NEW j \in Jobs, Begin(j) PROVE PoolInv'
<1>1. PICK next \in {"run", "ended", "record"} : GoTo(j, next, waiting)
  BY DEF Begin
<1>2. UNCHANGED <<executing, uploaded, cancelled, hung, dirs, temps, opened, zip, archive>>
      /\ phase[j] = "start" /\ handler' \subseteq handler \cup {j}
  BY DEF Begin, fileVars
<1>3. j \notin uploaded
  BY <1>2 DEF PoolInv, ArchiveInv
<1>4. /\ phase' \in [Jobs -> Phases] /\ waiting' \in Seq(Calls)
      /\ phase'[j] = next /\ \A i \in Jobs \ {j} : phase'[i] = phase[i]
      /\ DeadCallsNeverStart' /\ QueueInv' /\ CancelInv'
  BY <1>1, <1>2, <1>3, NoThread, Goes DEF Phases, Ops
<1>5. ArchiveInv'
  BY <1>1, <1>2, <1>3, <1>4 DEF PoolInv, PoolTypeOK, ArchiveInv
<1>6. NoStrayTempFile' /\ ArchivedBeforeRemoval'
  BY <1>1, <1>2, <1>4 DEF PoolInv, PoolTypeOK, NoStrayTempFile, ArchivedBeforeRemoval
<1> QED
  BY <1>2, <1>4, <1>5, <1>6 DEF PoolInv, PoolTypeOK, Phases

(* RecordEnds, when the outcome is written or the handler gives up.        *)
LEMMA RecordedStep ==
    ASSUME PoolInv, NEW j \in Jobs, RecordEnds(j), Finally(j, uploaded, waiting), UNCHANGED temps
    PROVE  PoolInv'
<1>1. PICK next \in {"rmtree", "ended"} :
        GoTo(j, next, waiting) /\ (next = "rmtree" <=> j \in uploaded)
  BY DEF Finally
<1>2. /\ UNCHANGED <<executing, cancelled, hung, dirs, temps, opened, zip, archive>>
      /\ phase[j] = "record" /\ handler' = handler \ {j} /\ uploaded' = uploaded \ {j}
  BY DEF RecordEnds, Finally
<1>3. /\ phase' \in [Jobs -> Phases] /\ waiting' \in Seq(Calls)
      /\ phase'[j] = next /\ \A i \in Jobs \ {j} : phase'[i] = phase[i]
      /\ DeadCallsNeverStart' /\ QueueInv' /\ CancelInv'
  BY <1>1, <1>2, NoThread, Goes DEF Phases, Ops
<1>4. ArchiveInv'
  BY <1>1, <1>2, <1>3 DEF PoolInv, PoolTypeOK, ArchiveInv
<1>5. NoStrayTempFile' /\ ArchivedBeforeRemoval'
  BY <1>1, <1>2, <1>3 DEF PoolInv, PoolTypeOK, NoStrayTempFile, ArchivedBeforeRemoval, ArchiveInv
<1> QED
  BY <1>2, <1>3, <1>4, <1>5 DEF PoolInv, PoolTypeOK, Phases

(* A coroutine that holds no call and was not cancelled starts an upload.  *)
LEMMA StartUploadStep ==
    ASSUME PoolInv, NEW j \in Jobs, StartUpload(j), Fit(waiting, j), j \notin cancelled,
           executing' \subseteq executing,
           \A op \in Ops : <<j, op>> \notin executing',
           <<j, "zip">> \notin executing,
           handler' \subseteq handler \cup {j},
           phase[j] \in {"run", "record"},
           UNCHANGED <<cancelled, hung, dirs, opened, zip, archive>>
    PROVE  PoolInv'
<1>1. PICK next \in {"zip", "record"} :
        /\ GoTo(j, next, waiting)
        /\ next = "zip" => temps' = temps \cup {j} /\ uploaded' = uploaded
        /\ next = "record" => temps' = temps /\ uploaded' = uploaded \cup {j} /\ j \notin dirs
  BY DEF StartUpload
<1>2. /\ phase' \in [Jobs -> Phases] /\ waiting' \in Seq(Calls)
      /\ phase'[j] = next /\ \A i \in Jobs \ {j} : phase'[i] = phase[i]
      /\ DeadCallsNeverStart' /\ QueueInv' /\ CancelInv'
  BY <1>1, Goes DEF Phases, Ops
<1>3. ArchiveInv'
  BY <1>1, <1>2 DEF PoolInv, PoolTypeOK, ArchiveInv, Ops
<1>4. NoStrayTempFile' /\ ArchivedBeforeRemoval'
  BY <1>1, <1>2 DEF PoolInv, PoolTypeOK, NoStrayTempFile, ArchivedBeforeRemoval
<1> QED
  BY <1>1, <1>2, <1>3, <1>4 DEF PoolInv, PoolTypeOK, Phases

LEMMA RecordEndsStep == ASSUME PoolInv, NEW j \in Jobs, RecordEnds(j) PROVE PoolInv'
<1>1. CASE Finally(j, uploaded, waiting) /\ UNCHANGED temps
  BY <1>1, RecordedStep
<1>2. CASE j \notin handler /\ handler' = handler \cup {j} /\ StartUpload(j)
  <2>1. phase[j] = "record" /\ UNCHANGED <<executing, cancelled, hung, dirs, opened, zip, archive>>
    BY DEF RecordEnds
  <2>2. /\ Fit(waiting, j) /\ j \notin cancelled
        /\ \A op \in Ops : <<j, op>> \notin executing
    BY <2>1, NoThread
  <2> QED
    BY <1>2, <2>1, <2>2, StartUploadStep DEF Ops
<1> QED
  BY <1>1, <1>2 DEF RecordEnds

-----------------------------------------------------------------------------
(* Threads take calls.                                                     *)

LEMMA TakeFacts ==
    ASSUME PoolInv, NEW call, Take(call), UNCHANGED phase
    PROVE  /\ call \in Calls /\ Awaited(call) /\ call \notin executing
           /\ executing' = executing \cup {call}
           /\ waiting' \in Seq(Calls) /\ DeadCallsNeverStart' /\ QueueInv'
<1>1. /\ waiting \in Seq(Calls) /\ waiting # <<>> /\ call = waiting[1]
      /\ waiting' = Tail(waiting) /\ executing' = executing \cup {call}
  BY DEF PoolInv, PoolTypeOK, Take
<1>2. 1 \in DOMAIN waiting /\ call \in Calls
  BY <1>1
<1>3. Awaited(call) /\ call \notin executing
  BY <1>1, <1>2 DEF PoolInv, DeadCallsNeverStart, QueueInv
<1>4. /\ waiting' \in Seq(Calls)
      /\ \A i \in DOMAIN waiting' : /\ i + 1 \in DOMAIN waiting /\ i + 1 # 1
                                    /\ waiting'[i] = waiting[i + 1]
  BY <1>1
<1>5. \A i, k \in DOMAIN waiting' : i # k => i + 1 # k + 1
  BY <1>4
<1>6. DeadCallsNeverStart'
  BY <1>4 DEF PoolInv, DeadCallsNeverStart, Awaited
<1>7. \A i, k \in DOMAIN waiting' : i # k => waiting'[i][1] # waiting'[k][1]
  BY <1>4, <1>5 DEF PoolInv, QueueInv
<1>8. \A i \in DOMAIN waiting' : waiting'[i][1] # call[1] /\ waiting'[i] \notin executing
  BY <1>1, <1>2, <1>4 DEF PoolInv, QueueInv
<1> QED
  BY <1>1, <1>2, <1>3, <1>4, <1>6, <1>7, <1>8 DEF QueueInv

LEMMA TakeCancel ==
    ASSUME PoolInv, NEW call, Take(call), UNCHANGED <<phase, uploaded, cancelled>>
    PROVE  CancelInv'
<1>1. Awaited(call) /\ executing' = executing \cup {call}
  BY TakeFacts
<1> QED
  BY <1>1 DEF PoolInv, CancelInv, Awaited

LEMMA Taken ==
    ASSUME PoolInv, NEW j \in Jobs, NEW op \in Ops, Take(<<j, op>>), UNCHANGED phase
    PROVE  /\ phase[j] = op /\ executing' = executing \cup {<<j, op>>} /\ executing' \subseteq Calls
           /\ waiting' \in Seq(Calls) /\ DeadCallsNeverStart' /\ QueueInv'
<1> DEFINE call == <<j, op>>
<1>1. call[1] = j /\ call[2] = op /\ executing \subseteq Calls
  BY DEF PoolInv, PoolTypeOK
<1>2. Take(call)
  OBVIOUS
<1> HIDE DEF call
<1>3. /\ call \in Calls /\ Awaited(call)
      /\ executing' = executing \cup {call}
      /\ waiting' \in Seq(Calls) /\ DeadCallsNeverStart' /\ QueueInv'
  BY <1>2, TakeFacts
<1>4. phase[j] = op
  BY <1>1, <1>3 DEF Awaited
<1> QED
  BY <1>1, <1>3, <1>4 DEF call

LEMMA TakeStep == ASSUME PoolInv, TakeCall PROVE PoolInv'
<1> USE DEF PoolInv, PoolTypeOK, Phases, Ops, Contents
<1>1. ASSUME NEW j \in Jobs, TakeRun(j) PROVE PoolInv'
  <2>1. /\ Take(<<j, "run">>) /\ dirs \subseteq dirs' /\ dirs' \subseteq dirs \cup {j}
        /\ hung' \subseteq hung \cup {j}
        /\ UNCHANGED <<phase, handler, uploaded, cancelled, temps, opened, zip, archive>>
    BY <1>1 DEF TakeRun
  <2>2. CancelInv'
    BY <2>1, TakeCancel
  <2>3. /\ phase[j] = "run" /\ executing' = executing \cup {<<j, "run">>} /\ executing' \subseteq Calls
        /\ waiting' \in Seq(Calls) /\ DeadCallsNeverStart' /\ QueueInv'
    BY <2>1, Taken
  <2>4. ArchiveInv' /\ NoStrayTempFile' /\ ArchivedBeforeRemoval'
    BY <2>1, <2>3 DEF ArchiveInv, NoStrayTempFile, ArchivedBeforeRemoval
  <2> QED
    BY <2>1, <2>2, <2>3, <2>4
<1>2. ASSUME NEW j \in Jobs, TakeZip(j) PROVE PoolInv'
  <2>1. Take(<<j, "zip">>) /\ UNCHANGED <<phase, handler, uploaded, cancelled, hung, dirs, temps, opened, archive>>
    BY <1>2 DEF TakeZip, jobVars
  <2>2. CancelInv'
    BY <2>1, TakeCancel
  <2>3. /\ phase[j] = "zip" /\ executing' = executing \cup {<<j, "zip">>} /\ executing' \subseteq Calls
        /\ waiting' \in Seq(Calls) /\ DeadCallsNeverStart' /\ QueueInv'
    BY <2>1, Taken
  <2>4. j \notin cancelled
    BY <2>3 DEF CancelInv
  <2>5. \A op \in Ops \ {"zip"} : <<j, op>> \notin executing
    BY <2>3, <2>4, OnlyAwaited
  <2>6. zip' = [zip EXCEPT ![j] = "whole"]
    BY <1>2, <2>5 DEF TakeZip
  <2>7. ArchiveInv' /\ NoStrayTempFile' /\ ArchivedBeforeRemoval'
    BY <2>1, <2>3, <2>5, <2>6 DEF ArchiveInv, NoStrayTempFile, ArchivedBeforeRemoval
  <2> QED
    BY <2>1, <2>2, <2>3, <2>6, <2>7
<1>3. ASSUME NEW j \in Jobs, TakePut(j) PROVE PoolInv'
  <2>1. /\ Take(<<j, "put">>)
        /\ UNCHANGED <<phase, handler, uploaded, cancelled, hung, dirs, temps, opened, zip, archive>>
    BY <1>3 DEF TakePut, jobVars, fileVars
  <2>2. CancelInv'
    BY <2>1, TakeCancel
  <2>3. /\ phase[j] = "put" /\ executing' = executing \cup {<<j, "put">>} /\ executing' \subseteq Calls
        /\ waiting' \in Seq(Calls) /\ DeadCallsNeverStart' /\ QueueInv'
    BY <2>1, Taken
  <2>4. ArchiveInv' /\ NoStrayTempFile' /\ ArchivedBeforeRemoval'
    BY <2>1, <2>3 DEF ArchiveInv, NoStrayTempFile, ArchivedBeforeRemoval
  <2> QED
    BY <2>1, <2>2, <2>3, <2>4
<1>4. ASSUME NEW j \in Jobs, TakeRmtree(j) PROVE PoolInv'
  <2>1. /\ Take(<<j, "rmtree">>) /\ zip' \in [Jobs -> Contents]
        /\ \A i \in Jobs : zip'[i] = zip[i] \/ (i = j /\ <<j, "zip">> \in executing)
        /\ UNCHANGED <<phase, handler, uploaded, cancelled, hung, dirs, temps, opened, archive>>
    BY <1>4 DEF TakeRmtree, jobVars
  <2>2. CancelInv'
    BY <2>1, TakeCancel
  <2>3. /\ phase[j] = "rmtree" /\ executing' = executing \cup {<<j, "rmtree">>} /\ executing' \subseteq Calls
        /\ waiting' \in Seq(Calls) /\ DeadCallsNeverStart' /\ QueueInv'
    BY <2>1, Taken
  <2>4. ArchiveInv' /\ NoStrayTempFile' /\ ArchivedBeforeRemoval'
    BY <2>1, <2>3 DEF ArchiveInv, NoStrayTempFile, ArchivedBeforeRemoval
  <2> QED
    BY <2>1, <2>2, <2>3, <2>4
<1> QED
  BY <1>1, <1>2, <1>3, <1>4 DEF TakeCall

-----------------------------------------------------------------------------
(* Calls return.                                                           *)

(* A call that returns to nobody: its job was cancelled.                   *)
LEMMA OrphanEnds ==
    ASSUME PoolInv, NEW call \in executing, Frees(call),
           UNCHANGED <<phase, waiting, uploaded, cancelled>>
    PROVE  /\ DeadCallsNeverStart' /\ QueueInv' /\ CancelInv'
           /\ executing' \subseteq executing
<1>1. executing' \subseteq executing
  BY DEF Frees
<1> QED
  BY <1>1 DEF PoolInv, DeadCallsNeverStart, QueueInv, CancelInv, Awaited

(* A call that returns to its coroutine leaves the job no thread, and the  *)
(* queue no place.                                                         *)
LEMMA Returned ==
    ASSUME PoolInv, NEW j \in Jobs, NEW op \in Ops \ {"rmtree"}, <<j, op>> \in executing,
           Awaited(<<j, op>>), Frees(<<j, op>>)
    PROVE  /\ phase[j] = op /\ Fit(waiting, j) /\ j \notin cancelled
           /\ executing' \subseteq executing
           /\ \A o \in Ops : <<j, o>> \notin executing'
           /\ \A o \in Ops \ {op} : <<j, o>> \notin executing
<1>1. phase[j] = op
  BY DEF Awaited
<1>2. Fit(waiting, j)
  BY <1>1, NoPlace
<1>3. j \notin cancelled
  BY <1>1 DEF PoolInv, CancelInv, Ops
<1>4. \A o \in Ops \ {op} : <<j, o>> \notin executing
  BY <1>1, <1>3, OnlyAwaited
<1> QED
  BY <1>1, <1>2, <1>3, <1>4 DEF Frees

LEMMA RunEndsStep == ASSUME PoolInv, NEW j \in Jobs, RunEnds(j) PROVE PoolInv'
<1>1. /\ <<j, "run">> \in executing /\ Frees(<<j, "run">>)
      /\ UNCHANGED <<cancelled, hung, dirs, opened, zip, archive>>
  BY DEF RunEnds
<1>2. CASE Awaited(<<j, "run">>)
  <2>1. handler' \subseteq handler \cup {j} /\ StartUpload(j)
    BY <1>2 DEF RunEnds
  <2>2. /\ phase[j] = "run" /\ Fit(waiting, j) /\ j \notin cancelled
        /\ executing' \subseteq executing
        /\ \A o \in Ops : <<j, o>> \notin executing'
        /\ \A o \in Ops \ {"run"} : <<j, o>> \notin executing
    BY <1>1, <1>2, Returned DEF Ops
  <2>3. <<j, "zip">> \notin executing
    BY <2>2 DEF Ops
  <2> QED
    BY <1>1, <2>1, <2>2, <2>3, StartUploadStep
<1>3. CASE ~Awaited(<<j, "run">>)
  <2>1. UNCHANGED <<phase, waiting, handler, uploaded, temps>>
    BY <1>3 DEF RunEnds
  <2>2. /\ DeadCallsNeverStart' /\ QueueInv' /\ CancelInv'
        /\ executing' \subseteq executing
    BY <1>1, <2>1, OrphanEnds
  <2> QED
    BY <1>1, <2>1, <2>2
    DEF PoolInv, PoolTypeOK, ArchiveInv, NoStrayTempFile, ArchivedBeforeRemoval
<1> QED
  BY <1>2, <1>3

LEMMA ZipOpensStep == ASSUME PoolInv, NEW j \in Jobs, ZipOpens(j) PROVE PoolInv'
<1>1. /\ <<j, "zip">> \in executing /\ opened' = opened \cup {j} /\ temps' = temps \cup {j}
      /\ UNCHANGED <<phase, waiting, executing, handler, uploaded, cancelled, hung, dirs, zip, archive>>
  BY DEF ZipOpens, jobVars
<1>2. phase[j] = "zip" \/ j \in cancelled
  BY <1>1 DEF PoolInv, CancelInv, Awaited
<1>3. NoStrayTempFile'
  BY <1>1, <1>2 DEF PoolInv, NoStrayTempFile
<1>4. DeadCallsNeverStart' /\ QueueInv' /\ CancelInv' /\ ArchiveInv' /\ ArchivedBeforeRemoval'
  BY <1>1 DEF PoolInv, DeadCallsNeverStart, QueueInv, CancelInv, Awaited, ArchiveInv, ArchivedBeforeRemoval
<1> QED
  BY <1>1, <1>3, <1>4 DEF PoolInv, PoolTypeOK

(* A coroutine whose call has returned ends the upload.                    *)
LEMMA EndUploadStep ==
    ASSUME PoolInv, NEW j \in Jobs, NEW ok \in BOOLEAN, EndUpload(j, ok),
           NEW op \in {"zip", "put"}, <<j, op>> \in executing,
           Awaited(<<j, op>>), Frees(<<j, op>>),
           opened' \subseteq Jobs,
           archive' \in {archive, [archive EXCEPT ![j] = "whole"]},
           ok => archive'[j] = "whole",
           UNCHANGED <<handler, cancelled, hung, dirs, zip>>
    PROVE  PoolInv'
<1>1. /\ phase[j] = op /\ Fit(waiting, j) /\ j \notin cancelled
      /\ executing' \subseteq executing
      /\ \A o \in Ops : <<j, o>> \notin executing'
  BY Returned DEF Ops
<1>2. /\ uploaded' = IF ok THEN uploaded \cup {j} ELSE uploaded \ {j}
      /\ temps' = temps \ {j} /\ GoTo(j, "record", waiting)
  BY DEF EndUpload
<1>3. \A i \in Jobs \ {j} : i \in uploaded' <=> i \in uploaded
  BY <1>2
<1>4. /\ phase' \in [Jobs -> Phases] /\ waiting' \in Seq(Calls)
      /\ phase'[j] = "record" /\ \A i \in Jobs \ {j} : phase'[i] = phase[i]
      /\ DeadCallsNeverStart' /\ QueueInv' /\ CancelInv'
  BY <1>1, <1>2, <1>3, Goes DEF Phases, Ops
<1>5. archive' \in [Jobs -> Contents] /\ \A i \in Jobs : archive'[i] = archive[i] \/ archive'[i] = "whole"
  BY DEF PoolInv, PoolTypeOK, Contents
<1>6. uploaded' \subseteq Jobs
  BY <1>2 DEF PoolInv, PoolTypeOK
<1>7. ArchiveInv'
  <2>1. \A i \in Jobs : phase'[i] = "put" \/ <<i, "put">> \in executing' =>
            zip'[i] = "whole" /\ <<i, "zip">> \notin executing'
    BY <1>1, <1>4 DEF PoolInv, ArchiveInv, Ops
  <2>2. \A i \in Jobs : phase'[i] = "zip" /\ <<i, "zip">> \in executing' => zip'[i] = "whole"
    BY <1>1, <1>4 DEF PoolInv, ArchiveInv, Ops
  <2>3. \A i \in uploaded' : i \notin dirs' \/ archive'[i] = "whole"
    BY <1>2, <1>3, <1>5, <1>6 DEF PoolInv, ArchiveInv
  <2>4. \A i \in uploaded' : phase'[i] \notin {"queued", "start", "run"}
    BY <1>3, <1>4, <1>6 DEF PoolInv, ArchiveInv
  <2> QED
    BY <2>1, <2>2, <2>3, <2>4 DEF ArchiveInv
<1>8. NoStrayTempFile'
  BY <1>2, <1>4 DEF PoolInv, PoolTypeOK, NoStrayTempFile
<1>9. ArchivedBeforeRemoval'
  BY <1>4, <1>5 DEF PoolInv, PoolTypeOK, ArchivedBeforeRemoval
<1> QED
  BY <1>1, <1>2, <1>4, <1>5, <1>6, <1>7, <1>8, <1>9 DEF PoolInv, PoolTypeOK, Phases

LEMMA ZipEndsStep == ASSUME PoolInv, NEW j \in Jobs, ZipEnds(j) PROVE PoolInv'
<1>1. /\ <<j, "zip">> \in executing /\ Frees(<<j, "zip">>) /\ opened' = opened \ {j}
      /\ opened' \subseteq Jobs
      /\ UNCHANGED <<handler, cancelled, hung, dirs, zip, archive>>
  BY DEF ZipEnds, PoolInv, PoolTypeOK
<1>2. CASE Awaited(<<j, "zip">>) /\ GoTo(j, "put", waiting) /\ UNCHANGED <<uploaded, temps>>
  <2>1. /\ phase[j] = "zip" /\ Fit(waiting, j) /\ j \notin cancelled
        /\ executing' \subseteq executing
        /\ \A o \in Ops : <<j, o>> \notin executing'
        /\ \A o \in Ops \ {"zip"} : <<j, o>> \notin executing
    BY <1>1, <1>2, Returned DEF Ops
  <2>2. /\ phase' \in [Jobs -> Phases] /\ waiting' \in Seq(Calls)
        /\ phase'[j] = "put" /\ \A i \in Jobs \ {j} : phase'[i] = phase[i]
        /\ DeadCallsNeverStart' /\ QueueInv' /\ CancelInv'
    BY <1>1, <1>2, <2>1, Goes DEF Phases, Ops
  <2>3. ArchiveInv'
    BY <1>1, <1>2, <2>1, <2>2 DEF PoolInv, PoolTypeOK, ArchiveInv, Ops
  <2>4. NoStrayTempFile' /\ ArchivedBeforeRemoval'
    BY <1>1, <1>2, <2>2 DEF PoolInv, PoolTypeOK, NoStrayTempFile, ArchivedBeforeRemoval
  <2> QED
    BY <1>1, <1>2, <2>1, <2>2, <2>3, <2>4 DEF PoolInv, PoolTypeOK, Phases
<1>3. CASE Awaited(<<j, "zip">>) /\ EndUpload(j, FALSE)
  BY <1>1, <1>3, EndUploadStep
<1>4. CASE ~Awaited(<<j, "zip">>) /\ UNCHANGED <<phase, waiting, uploaded, temps>>
  <2>1. /\ DeadCallsNeverStart' /\ QueueInv' /\ CancelInv'
        /\ executing' \subseteq executing
    BY <1>1, <1>4, OrphanEnds
  <2> QED
    BY <1>1, <1>4, <2>1
    DEF PoolInv, PoolTypeOK, ArchiveInv, NoStrayTempFile, ArchivedBeforeRemoval
<1> QED
  BY <1>2, <1>3, <1>4 DEF ZipEnds

LEMMA PutEndsStep == ASSUME PoolInv, NEW j \in Jobs, PutEnds(j) PROVE PoolInv'
<1>1. /\ <<j, "put">> \in executing /\ Frees(<<j, "put">>)
      /\ UNCHANGED <<handler, cancelled, hung, dirs, opened, zip>>
  BY DEF PutEnds
<1>2. zip[j] = "whole"
  BY <1>1 DEF PoolInv, ArchiveInv
<1>3. archive' \in {archive, [archive EXCEPT ![j] = "whole"]}
  BY <1>2 DEF PutEnds
<1>4. opened' \subseteq Jobs
  BY <1>1 DEF PoolInv, PoolTypeOK
<1>5. CASE Awaited(<<j, "put">>)
  <2>1. PICK ok \in BOOLEAN : (ok => archive'[j] = zip[j]) /\ EndUpload(j, ok)
    BY <1>5 DEF PutEnds
  <2> QED
    BY <1>1, <1>2, <1>3, <1>4, <1>5, <2>1, EndUploadStep
<1>6. CASE ~Awaited(<<j, "put">>)
  <2>1. UNCHANGED <<phase, waiting, uploaded, temps>>
    BY <1>6 DEF PutEnds
  <2>2. /\ DeadCallsNeverStart' /\ QueueInv' /\ CancelInv'
        /\ executing' \subseteq executing
    BY <1>1, <2>1, OrphanEnds
  <2>3. archive' \in [Jobs -> Contents] /\ \A i \in Jobs : archive'[i] = archive[i] \/ archive'[i] = "whole"
    BY <1>3 DEF PoolInv, PoolTypeOK, Contents
  <2>4. ArchiveInv' /\ ArchivedBeforeRemoval'
    BY <1>1, <2>1, <2>2, <2>3 DEF PoolInv, PoolTypeOK, ArchiveInv, ArchivedBeforeRemoval
  <2> QED
    BY <1>1, <2>1, <2>2, <2>3, <2>4 DEF PoolInv, PoolTypeOK, NoStrayTempFile
<1> QED
  BY <1>5, <1>6

LEMMA RmtreeEndsStep == ASSUME PoolInv, NEW j \in Jobs, RmtreeEnds(j) PROVE PoolInv'
<1>1. /\ <<j, "rmtree">> \in executing /\ Frees(<<j, "rmtree">>)
      /\ dirs' \subseteq dirs
      /\ UNCHANGED <<handler, uploaded, cancelled, hung, temps, opened, zip, archive>>
  BY DEF RmtreeEnds, jobVars
<1>2. phase[j] \in {"rmtree", "ended"} /\ j \notin uploaded
  BY <1>1 DEF PoolInv, CancelInv
<1>3. CASE Awaited(<<j, "rmtree">>) /\ GoTo(j, "ended", waiting)
  <2>1. phase[j] = "rmtree" /\ executing' \subseteq executing
    BY <1>1, <1>3 DEF Awaited, Frees
  <2>2. Fit(waiting, j)
    BY <1>1, <2>1, NoPlace
  <2>3. \A o \in Ops : <<j, o>> \in executing' => j \in cancelled'
    <3>1. ASSUME NEW o \in Ops, <<j, o>> \in executing', j \notin cancelled PROVE FALSE
      <4>1. <<j, o>> \in executing /\ o # "rmtree"
        BY <3>1 , <1>1 DEF Frees
      <4> QED
        BY <4>1, <3>1, <2>1, OnlyAwaited
    <3> QED
      BY <1>1, <3>1
  <2>4. /\ phase' \in [Jobs -> Phases] /\ waiting' \in Seq(Calls)
        /\ phase'[j] = "ended" /\ \A i \in Jobs \ {j} : phase'[i] = phase[i]
        /\ DeadCallsNeverStart' /\ QueueInv' /\ CancelInv'
    BY <1>1, <1>2, <1>3, <2>1, <2>2, <2>3, Goes DEF Phases, Ops
  <2>5. ArchiveInv'
    BY <1>1, <1>2, <2>1, <2>4 DEF PoolInv, PoolTypeOK, ArchiveInv
  <2>6. NoStrayTempFile' /\ ArchivedBeforeRemoval'
    BY <1>1, <2>1, <2>4 DEF PoolInv, PoolTypeOK, NoStrayTempFile, ArchivedBeforeRemoval
  <2> QED
    BY <1>1, <2>1, <2>4, <2>5, <2>6 DEF PoolInv, PoolTypeOK, Phases
<1>4. CASE ~Awaited(<<j, "rmtree">>) /\ UNCHANGED <<phase, waiting>>
  <2>1. /\ DeadCallsNeverStart' /\ QueueInv' /\ CancelInv'
        /\ executing' \subseteq executing
    BY <1>1, <1>4, OrphanEnds
  <2> QED
    BY <1>1, <1>4, <2>1
    DEF PoolInv, PoolTypeOK, ArchiveInv, NoStrayTempFile, ArchivedBeforeRemoval
<1> QED
  BY <1>3, <1>4 DEF RmtreeEnds

-----------------------------------------------------------------------------
(* job_timeout.                                                            *)

LEMMA TimeoutStep == ASSUME PoolInv, NEW j \in Jobs, Timeout(j) PROVE PoolInv'
<1>1. PICK next \in {"rmtree", "ended"} :
        GoTo(j, next, GivenUp(j)) /\ (next = "rmtree" <=> j \in uploaded)
  BY DEF Timeout, Finally
<1>2. /\ Active(j) /\ cancelled' = cancelled \cup {j} /\ temps' = temps \ {j}
      /\ handler' = handler \ {j} /\ uploaded' = uploaded \ {j} /\ j \notin cancelled
      /\ UNCHANGED <<executing, hung, dirs, opened, zip, archive>>
  BY DEF Timeout, Finally
<1>3. next = "rmtree" => <<j, "rmtree">> \notin executing
  BY <1>1 DEF PoolInv, CancelInv
<1>4. Fit(GivenUp(j), j)
  BY GivenUpFits
<1>5. /\ phase' \in [Jobs -> Phases] /\ waiting' \in Seq(Calls)
      /\ phase'[j] = next /\ \A i \in Jobs \ {j} : phase'[i] = phase[i]
      /\ DeadCallsNeverStart' /\ QueueInv' /\ CancelInv'
  BY <1>1, <1>2, <1>3, <1>4, Goes DEF Phases, Ops
<1>6. ArchiveInv'
  BY <1>1, <1>2, <1>5 DEF PoolInv, PoolTypeOK, ArchiveInv
<1>7. NoStrayTempFile'
  BY <1>2, <1>5 DEF PoolInv, PoolTypeOK, NoStrayTempFile
<1>8. ArchivedBeforeRemoval'
  BY <1>1, <1>2, <1>5 DEF PoolInv, PoolTypeOK, ArchivedBeforeRemoval, ArchiveInv
<1> QED
  BY <1>1, <1>2, <1>5, <1>6, <1>7, <1>8 DEF PoolInv, PoolTypeOK, Phases

-----------------------------------------------------------------------------
(* The theorems.                                                           *)

LEMMA PoolStep == PoolInv /\ [PoolNext]_poolVars => PoolInv'
<1> SUFFICES ASSUME PoolInv, [PoolNext]_poolVars PROVE PoolInv'
  OBVIOUS
<1>1. ASSUME NEW j \in Jobs, Claim(j) \/ SlotStep(j) \/ ThreadStep(j) \/ Timeout(j) PROVE PoolInv'
  BY <1>1, ClaimStep, BeginStep, RecordEndsStep, RunEndsStep, ZipOpensStep, ZipEndsStep,
     PutEndsStep, RmtreeEndsStep, TimeoutStep
  DEF SlotStep, ThreadStep
<1>2. CASE UNCHANGED poolVars
  BY <1>2 DEF poolVars, jobVars, fileVars, PoolInv, PoolTypeOK, DeadCallsNeverStart, QueueInv,
     CancelInv, Awaited, ArchiveInv, NoStrayTempFile, ArchivedBeforeRemoval
<1> QED
  BY <1>1, <1>2, TakeStep DEF PoolNext

LEMMA PoolSafe == PoolSpec => []PoolInv
  BY InitPool, PoolStep, PTL DEF PoolSpec

(* The variables of the pool keep their types, for any number of jobs,     *)
(* slots and threads.                                                      *)
THEOREM PoolTypeCorrect == PoolSpec => []PoolTypeOK
<1>1. PoolInv => PoolTypeOK
  BY DEF PoolInv
<1> QED
  BY <1>1, PoolSafe, PTL

(* What waits for a thread is awaited by its coroutine: a run, zip, PUT or *)
(* removal that job_timeout gave up is never started later.                *)
THEOREM DeadCallsStayDead == PoolSpec => []DeadCallsNeverStart
<1>1. PoolInv => DeadCallsNeverStart
  BY DEF PoolInv
<1> QED
  BY <1>1, PoolSafe, PTL

(* A temporary file that outlives its upload belongs to a job that timed   *)
(* out: no other way out of upload_job_artifacts leaves one behind.        *)
THEOREM TempFilesAreRemoved == PoolSpec => []NoStrayTempFile
<1>1. PoolInv => NoStrayTempFile
  BY DEF PoolInv
<1> QED
  BY <1>1, PoolSafe, PTL

(* No archive in S3 was zipped while the run still wrote or the removal    *)
(* had begun, and a directory that is about to be removed is in S3, in     *)
(* every interleaving of orphans, timeouts and other jobs.                 *)
THEOREM ArchivedThenRemoved == PoolSpec => []ArchivedBeforeRemoval
<1>1. PoolInv => ArchivedBeforeRemoval
  BY DEF PoolInv
<1> QED
  BY <1>1, PoolSafe, PTL

-----------------------------------------------------------------------------
(* Who waits for a thread.                                                 *)

ActiveJobs == {j \in Jobs : Active(j)}

LEMMA InitSlots == PoolInit => SlotsInv
<1> SUFFICES ASSUME PoolInit PROVE SlotsInv
  OBVIOUS
<1>1. ActiveJobs = {} /\ executing = {}
  BY DEF PoolInit, ActiveJobs, Active
<1> QED
  BY <1>1, FS_EmptySet, PoolAssumption DEF SlotsInv, ActiveJobs

(* Only Claim makes a job active, only Take occupies a thread.             *)
LEMMA SlotsStep == PoolInv /\ SlotsInv /\ [PoolNext]_poolVars => SlotsInv'
<1> SUFFICES ASSUME PoolInv, SlotsInv, [PoolNext]_poolVars PROVE SlotsInv'
  OBVIOUS
<1>1. /\ IsFiniteSet(ActiveJobs) /\ IsFiniteSet(executing)
      /\ Cardinality(ActiveJobs) <= Slots /\ Cardinality(executing) <= Threads
      /\ Cardinality(ActiveJobs) \in Nat /\ Cardinality(executing) \in Nat
      /\ Slots \in Nat /\ Threads \in Nat
  BY FS_CardinalityType, PoolAssumption DEF SlotsInv, ActiveJobs
<1> DEFINE Fewer == ActiveJobs' \subseteq ActiveJobs
           Free == executing' \subseteq executing
<1>2. ASSUME Fewer PROVE IsFiniteSet(ActiveJobs') /\ Cardinality(ActiveJobs') <= Slots
  <2>1. IsFiniteSet(ActiveJobs') /\ Cardinality(ActiveJobs') <= Cardinality(ActiveJobs)
    BY <1>1, <1>2, FS_Subset
  <2>2. Cardinality(ActiveJobs') \in Nat
    BY <2>1, FS_CardinalityType
  <2> QED
    BY <1>1, <2>1, <2>2
<1>3. ASSUME Free PROVE IsFiniteSet(executing') /\ Cardinality(executing') <= Threads
  <2>1. IsFiniteSet(executing') /\ Cardinality(executing') <= Cardinality(executing)
    BY <1>1, <1>3, FS_Subset
  <2>2. Cardinality(executing') \in Nat
    BY <2>1, FS_CardinalityType
  <2> QED
    BY <1>1, <2>1, <2>2
<1>4. ASSUME NEW j \in Jobs, Active(j), NEW next, NEW rest, GoTo(j, next, rest) PROVE Fewer
  BY <1>4 DEF GoTo, ActiveJobs, Active, PoolInv, PoolTypeOK
<1>5. ASSUME phase' = phase PROVE Fewer
  BY <1>5 DEF ActiveJobs, Active
<1>6. ASSUME NEW call, Frees(call) PROVE Free
  BY <1>6 DEF Frees
<1> HIDE DEF Fewer, Free
<1>7. ASSUME NEW j \in Jobs, Claim(j) PROVE SlotsInv'
  <2>1. /\ phase' = [phase EXCEPT ![j] = "start"] /\ executing' = executing
        /\ phase[j] = "queued" /\ Cardinality(ActiveJobs) < Slots
    BY <1>7 DEF Claim, ActiveJobs
  <2>2. ActiveJobs' = ActiveJobs \cup {j} /\ j \notin ActiveJobs
    BY <2>1 DEF ActiveJobs, Active, PoolInv, PoolTypeOK
  <2>3. IsFiniteSet(ActiveJobs') /\ Cardinality(ActiveJobs') = Cardinality(ActiveJobs) + 1
    BY <1>1, <2>2, FS_AddElement
  <2> QED
    BY <1>1, <2>1, <2>3 DEF SlotsInv, ActiveJobs
<1>8. ASSUME NEW call, Take(call), UNCHANGED phase PROVE SlotsInv'
  <2>1. executing' = executing \cup {call} /\ Cardinality(executing) < Threads
    BY <1>8 DEF Take
  <2> DEFINE S == executing \cup {call}
  <2>2. /\ IsFiniteSet(S)
        /\ Cardinality(S) \in {Cardinality(executing), Cardinality(executing) + 1}
    BY <1>1, FS_AddElement
  <2> HIDE DEF S
  <2>3. Cardinality(S) <= Threads
    BY <1>1, <2>1, <2>2
  <2> QED
    BY <1>2, <1>5, <1>8, <2>1, <2>2, <2>3 DEF SlotsInv, ActiveJobs, S
<1>9. Fewer /\ Free => SlotsInv'
  BY <1>2, <1>3 DEF SlotsInv, ActiveJobs
<1>10. ASSUME NEW j \in Jobs, Timeout(j) \/ SlotStep(j) PROVE Fewer /\ Free
  <2>1. Active(j) /\ executing' = executing
    BY <1>10 DEF Timeout, SlotStep, Begin, RecordEnds, Active
  <2>2. \E next, rest : GoTo(j, next, rest)
    BY <1>10 DEF Timeout, SlotStep, Begin, RecordEnds, Finally, StartUpload
  <2> QED
    BY <1>4, <2>1, <2>2 DEF Free
<1>11. ASSUME NEW j \in Jobs, ThreadStep(j) PROVE Fewer /\ Free
  <2>1. Free
    BY <1>6, <1>11 DEF ThreadStep, RunEnds, ZipOpens, ZipEnds, PutEnds, RmtreeEnds, Free
  <2>2. phase' = phase \/ \E op \in Ops : Awaited(<<j, op>>) /\ \E next, rest : GoTo(j, next, rest)
    BY <1>11 DEF ThreadStep, RunEnds, ZipOpens, ZipEnds, PutEnds, RmtreeEnds, StartUpload, EndUpload, Ops
  <2>3. \A op \in Ops : Awaited(<<j, op>>) => Active(j)
    BY DEF Awaited, Active, Ops
  <2> QED
    BY <1>4, <1>5, <2>1, <2>2, <2>3
<1>12. CASE UNCHANGED poolVars
  BY <1>5, <1>9, <1>12 DEF poolVars, Free
<1>13. CASE TakeCall
  BY <1>8, <1>13 DEF TakeCall, TakeRun, TakeZip, TakePut, TakeRmtree, jobVars, fileVars
<1> QED
  BY <1>7, <1>9, <1>10, <1>11, <1>12, <1>13 DEF PoolNext

(* Different awaited calls, waiting or executed, belong to different slots.*)
LEMMA Waiting == PoolInv /\ SlotsInv => WaitsBehindOrphans
<1> SUFFICES ASSUME PoolInv, SlotsInv, Cardinality(executing) = Threads
             PROVE  Cardinality(Orphans) + Slots >= Threads + Len(waiting)
  BY DEF WaitsBehindOrphans
<1> DEFINE Awake == {call \in executing : Awaited(call)}
           Holders == {j \in Jobs : \E call \in Awake : call[1] = j}
           Waiters == {j \in Jobs : \E i \in DOMAIN waiting : waiting[i][1] = j}
<1>1. /\ waiting \in Seq(Calls) /\ executing \subseteq Calls
      /\ Len(waiting) \in Nat /\ DOMAIN waiting = 1 .. Len(waiting)
  BY DEF PoolInv, PoolTypeOK
<1>2. /\ IsFiniteSet(ActiveJobs) /\ Cardinality(ActiveJobs) <= Slots
      /\ IsFiniteSet(executing)
  BY DEF SlotsInv, ActiveJobs
<1>3. \A i \in DOMAIN waiting : waiting[i] \in Calls /\ Awaited(waiting[i]) /\ waiting[i] \notin executing
  BY <1>1 DEF PoolInv, DeadCallsNeverStart, QueueInv
<1>4. Waiters \subseteq ActiveJobs /\ Holders \subseteq ActiveJobs
  BY <1>1, <1>3, CallParts DEF ActiveJobs, Active, Awaited, Ops
<1>5. Waiters \cap Holders = {}
  <2>1. ASSUME NEW i \in DOMAIN waiting, NEW call \in Awake, waiting[i][1] = call[1] PROVE FALSE
    <3>1. waiting[i][2] = call[2]
      BY <1>3, <2>1 DEF Awaited
    <3>2. waiting[i] = <<waiting[i][1], waiting[i][2]>> /\ call = <<call[1], call[2]>>
      BY <1>1, <1>3, CallParts
    <3> QED
      BY <1>3, <2>1, <3>1, <3>2
  <2> QED
    BY <2>1
<1>6. Cardinality(Waiters) = Len(waiting)
  <2> DEFINE f == [i \in 1 .. Len(waiting) |-> waiting[i][1]]
  <2>1. f \in [1 .. Len(waiting) -> Waiters]
    BY <1>1, <1>3, CallParts
  <2>2. \A i, k \in 1 .. Len(waiting) : i # k => f[i] # f[k]
    BY <1>1 DEF PoolInv, QueueInv
  <2>3. \A j \in Waiters : \E i \in 1 .. Len(waiting) : f[i] = j
    BY <1>1
  <2>4. f \in Bijection(1 .. Len(waiting), Waiters)
    BY <2>1, <2>2, <2>3 DEF Bijection, Injection, IsInjective, Surjection
  <2> QED
    BY <1>1, <2>4, FS_CountingElements DEF ExistsBijection
<1>7. /\ IsFiniteSet(Awake) /\ Cardinality(Awake) = Cardinality(Holders)
  <2> DEFINE g == [call \in Awake |-> call[1]]
  <2>1. g \in [Awake -> Holders]
    BY <1>1, CallParts
  <2>2. \A a, b \in Awake : g[a] = g[b] => a = b
    <3> SUFFICES ASSUME NEW a \in Awake, NEW b \in Awake, g[a] = g[b] PROVE a = b
      OBVIOUS
    <3>1. a[1] = b[1] /\ a[2] = b[2]
      BY DEF Awaited
    <3>2. a = <<a[1], a[2]>> /\ b = <<b[1], b[2]>>
      BY <1>1, CallParts
    <3> QED
      BY <3>1, <3>2
  <2>3. \A j \in Holders : \E call \in Awake : g[call] = j
    OBVIOUS
  <2>4. g \in Bijection(Awake, Holders)
    BY <2>1, <2>2, <2>3 DEF Bijection, Injection, IsInjective, Surjection
  <2>5. IsFiniteSet(Awake)
    BY <1>2, FS_Subset
  <2> QED
    BY <2>4, <2>5, FS_Bijection DEF ExistsBijection
<1>8. Cardinality(Orphans) = Threads - Cardinality(Awake)
  <2>1. Orphans = executing \ Awake /\ executing \cap Awake = Awake
    BY DEF Orphans
  <2> QED
    BY <1>2, <2>1, FS_Difference
<1> HIDE DEF Waiters, Holders, Awake
<1>9. Cardinality(Waiters) + Cardinality(Holders) <= Slots
  <2>1. IsFiniteSet(Waiters) /\ IsFiniteSet(Holders)
    BY <1>2, <1>4, FS_Subset
  <2>2. Cardinality(Waiters \cup Holders) = Cardinality(Waiters) + Cardinality(Holders)
    <3>1. Cardinality(Waiters \cup Holders)
            = Cardinality(Waiters) + Cardinality(Holders) - Cardinality(Waiters \cap Holders)
      BY <2>1, FS_Union
    <3>2. Cardinality(Waiters \cap Holders) = 0
      BY <1>5, FS_EmptySet
    <3> QED
      BY <2>1, <3>1, <3>2, FS_CardinalityType
  <2>3. Cardinality(Waiters \cup Holders) <= Cardinality(ActiveJobs)
    BY <1>2, <1>4, FS_Subset
  <2>4. Cardinality(Waiters \cup Holders) \in Nat /\ Cardinality(ActiveJobs) \in Nat
    BY <1>2, <2>1, FS_Union, FS_CardinalityType
  <2> QED
    BY <1>2, <2>2, <2>3, <2>4, PoolAssumption
<1>10. Cardinality(Awake) \in Nat /\ Cardinality(Holders) \in Nat
  BY <1>7, FS_CardinalityType
<1> QED
  BY <1>1, <1>6, <1>7, <1>8, <1>9, <1>10, PoolAssumption

(* When every thread is occupied, what waits beyond the slots' fair share  *)
(* waits for calls nobody awaits any more: no slot ever holds two threads. *)
THEOREM OnlyOrphansDelay == PoolSpec => []WaitsBehindOrphans
<1>1. PoolSpec => [](PoolInv /\ SlotsInv)
  BY InitPool, PoolStep, InitSlots, SlotsStep, PTL DEF PoolSpec
<1> QED
  BY <1>1, Waiting, PTL
=============================================================================
