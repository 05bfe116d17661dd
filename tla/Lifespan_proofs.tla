-------------------------- MODULE Lifespan_proofs --------------------------
(***************************************************************************)
(* Proofs about Lifespan.  While a process starts, the step it is at says  *)
(* what it has opened and registered; from then on whatever is open is     *)
(* registered, except for what its release failed to close, what ARQ then  *)
(* leaves and, when the start-up was broken off, the Redis client.         *)
(***************************************************************************)
EXTENDS Lifespan, TLAPS

(* What the steps before step n open and register.                         *)
Acquired(p, n) == {r \in Resources : \E i \in 1 .. n - 1 : Program[p][i] = Open(r)}
Secured(p, n) == {r \in Resources : \E i \in 1 .. n - 1 : Program[p][i] = Register(r)}

HalfOpen(p) == IF served[p] THEN {} ELSE {"redis"}
LeftToArq(p) == IF p = "worker" /\ "redis" \in raised[p] THEN {"arq"} ELSE {}

StartingInv(p) ==
    /\ step[p] \in 1 .. Len(Program[p])
    /\ ~served[p] /\ raised[p] = {} /\ users[p] = 0
    /\ open[p] = Acquired(p, step[p])
    /\ Range(registered[p]) = Secured(p, step[p])

ServingInv(p) ==
    /\ served[p] /\ raised[p] = {}
    /\ Needs[p] \subseteq open[p]
    /\ open[p] \subseteq Range(registered[p])

EndingInv(p) ==
    /\ users[p] = 0
    /\ open[p] \subseteq Range(registered[p]) \cup raised[p] \cup HalfOpen(p) \cup LeftToArq(p)
    /\ phase[p] = "exited" => registered[p] = <<>>

(* In the worker the pool is registered below the Redis client.            *)
OrderInv(p) == p = "worker" => registered[p] \in {<<>>, <<"arq">>, <<"arq", "redis">>}

ProcessInv(p) ==
    /\ OrderInv(p)
    /\ phase[p] = "starting" => StartingInv(p)
    /\ phase[p] \in {"serving", "draining"} => ServingInv(p)
    /\ phase[p] \in {"releasing", "exited"} => EndingInv(p)

LifespanInv ==
    /\ LifespanTypeOK
    /\ step \in [Processes -> Nat] /\ registered \in [Processes -> Seq(Resources)]
    /\ hung \in [Processes -> Nat]
    /\ \A p \in Processes : ProcessInv(p)

-----------------------------------------------------------------------------
(* The two programs, step by step.                                         *)
LEMMA ProgramSteps ==
    /\ \A p \in Processes : Len(Program[p]) \in Nat /\ Len(Program[p]) >= 1
    /\ Len(Program["api"]) = 8
    /\ Program["api"][1] = Open("redis") /\ Program["api"][2] = Ping
    /\ Program["api"][3] = Register("redis") /\ Program["api"][4] = Open("arq")
    /\ Program["api"][5] = Register("arq") /\ Program["api"][6] = CreateStorage
    /\ Program["api"][7] = Open("sessions") /\ Program["api"][8] = Register("sessions")
    /\ Len(Program["worker"]) = 6
    /\ Program["worker"][1] = Open("arq") /\ Program["worker"][2] = Register("arq")
    /\ Program["worker"][3] = Open("redis") /\ Program["worker"][4] = Ping
    /\ Program["worker"][5] = CreateStorage /\ Program["worker"][6] = Register("redis")
BY DEF Program, Processes

(* The fields of a step tell what it does, and with what.                  *)
LEMMA StepFields ==
    /\ \A r : Open(r).do = "open" /\ Open(r).what = r
    /\ \A r : Register(r).do = "register" /\ Register(r).what = r
    /\ Ping.do = "ping" /\ CreateStorage.do = "storage"
BY DEF Open, Register, Ping, CreateStorage

(* What a program has opened before a step that may raise is registered,   *)
(* but for the Redis client; at its end all of it is open and registered.  *)
LEMMA OpenedIsRegistered ==
    ASSUME NEW p \in Processes
    PROVE  /\ Acquired(p, 1) = {} /\ Secured(p, 1) = {}
           /\ \A n \in 1 .. Len(Program[p]) :
                 Program[p][n].do # "register" => Acquired(p, n) \subseteq Secured(p, n) \cup {"redis"}
           /\ Needs[p] \subseteq Acquired(p, Len(Program[p]) + 1)
           /\ Acquired(p, Len(Program[p]) + 1) \subseteq Secured(p, Len(Program[p]) + 1)
<1>1. Acquired(p, 1) = {} /\ Secured(p, 1) = {}
  BY DEF Acquired, Secured
<1>2. CASE p = "api"
  <2>1. \A i \in 1 .. 8 : i \in {1, 2, 3, 4, 5, 6, 7, 8}
    OBVIOUS
  <2>2. \A i \in 1 .. 8, r \in Resources :
           Program[p][i] = Open(r) => \/ i = 1 /\ r = "redis"
                                      \/ i = 4 /\ r = "arq"
                                      \/ i = 7 /\ r = "sessions"
    BY <1>2, <2>1, ProgramSteps, StepFields
  <2>3. \A n \in 1 .. 9, r \in Resources :
           /\ r = "redis" /\ n > 3 => r \in Secured(p, n)
           /\ r = "arq" /\ n > 5 => r \in Secured(p, n)
           /\ r = "sessions" /\ n > 8 => r \in Secured(p, n)
    BY <1>2, ProgramSteps DEF Secured
  <2>4. ASSUME NEW n \in 1 .. 9, n = 9 \/ Program[p][n].do # "register"
        PROVE  Acquired(p, n) \subseteq Secured(p, n) \cup {"redis"}
    <3>1. n # 5 /\ n # 8
      BY <1>2, <2>4, ProgramSteps, StepFields
    <3> SUFFICES ASSUME NEW r \in Acquired(p, n), r # "redis" PROVE r \in Secured(p, n)
      OBVIOUS
    <3>2. PICK i \in 1 .. n - 1 : Program[p][i] = Open(r)
      BY DEF Acquired
    <3>3. i \in 1 .. 8 /\ i < n /\ r \in Resources
      BY DEF Acquired
    <3> QED
      BY <2>2, <2>3, <3>1, <3>2, <3>3
  <2>5. Needs[p] \subseteq Acquired(p, 9)
    <3>1. \A r \in Resources : r \in Acquired(p, 9)
      BY <1>2, ProgramSteps DEF Acquired, Resources
    <3> QED
      BY <1>2, <3>1 DEF Needs
  <2>6. "redis" \in Secured(p, 9)
    BY <2>3 DEF Resources
  <2> QED
    BY <1>1, <1>2, <2>4, <2>5, <2>6, ProgramSteps, SMTT(30)
<1>3. CASE p = "worker"
  <2>1. \A i \in 1 .. 6 : i \in {1, 2, 3, 4, 5, 6}
    OBVIOUS
  <2>2. \A i \in 1 .. 6, r \in Resources :
           Program[p][i] = Open(r) => \/ i = 1 /\ r = "arq"
                                      \/ i = 3 /\ r = "redis"
    BY <1>3, <2>1, ProgramSteps, StepFields
  <2>3. \A n \in 1 .. 7, r \in Resources :
           /\ r = "arq" /\ n > 2 => r \in Secured(p, n)
           /\ r = "redis" /\ n > 6 => r \in Secured(p, n)
    BY <1>3, ProgramSteps DEF Secured
  <2>4. ASSUME NEW n \in 1 .. 7, n = 7 \/ Program[p][n].do # "register"
        PROVE  Acquired(p, n) \subseteq Secured(p, n) \cup {"redis"}
    <3>1. n # 2
      BY <1>3, <2>4, ProgramSteps, StepFields
    <3> SUFFICES ASSUME NEW r \in Acquired(p, n), r # "redis" PROVE r \in Secured(p, n)
      OBVIOUS
    <3>2. PICK i \in 1 .. n - 1 : Program[p][i] = Open(r)
      BY DEF Acquired
    <3>3. i \in 1 .. 6 /\ i < n /\ r \in Resources
      BY DEF Acquired
    <3> QED
      BY <2>2, <2>3, <3>1, <3>2, <3>3
  <2>5. Needs[p] \subseteq Acquired(p, 7)
    <3>1. "redis" \in Acquired(p, 7) /\ "arq" \in Acquired(p, 7)
      BY <1>3, ProgramSteps DEF Acquired, Resources
    <3> QED
      BY <1>3, <3>1 DEF Needs
  <2>6. "redis" \in Secured(p, 7)
    BY <2>3 DEF Resources
  <2> QED
    BY <1>1, <1>3, <2>4, <2>5, <2>6, ProgramSteps
<1> QED
  BY <1>2, <1>3 DEF Processes

-----------------------------------------------------------------------------
TypesInv ==
    /\ settings \in Settings
    /\ phase \in [Processes -> {"starting", "serving", "draining", "releasing", "exited"}]
    /\ step \in [Processes -> Nat]
    /\ \A p \in Processes : step[p] \in 1 .. Len(Program[p]) + 1
    /\ open \in [Processes -> SUBSET Resources]
    /\ registered \in [Processes -> Seq(Resources)]
    /\ raised \in [Processes -> SUBSET Resources]
    /\ served \in [Processes -> BOOLEAN]
    /\ users \in [Processes -> 0 .. MaxUsers]
    /\ orphans \in 0 .. Threads
    /\ hung \in [Processes -> Nat]
    /\ hung["api"] \in 0 .. users["api"] /\ hung["worker"] \in 0 .. orphans

(* What is registered are resources.                                       *)
LEMMA RangeOfRegistered ==
    ASSUME NEW s \in Seq(Resources)
    PROVE  Range(s) \subseteq Resources
BY DEF Range

(* The types by variable are LifespanTypeOK.                               *)
LEMMA TypesAreTypeOK ==
    /\ LifespanInv => TypesInv
    /\ TypesInv => /\ LifespanTypeOK
                   /\ step \in [Processes -> Nat] /\ registered \in [Processes -> Seq(Resources)]
                   /\ hung \in [Processes -> Nat]
<1>1. registered \in [Processes -> Seq(Resources)] =>
         \A p \in Processes : Range(registered[p]) \subseteq Resources
  BY RangeOfRegistered
<1> QED
  BY <1>1 DEF TypesInv, LifespanInv, LifespanTypeOK

(* What a step of one process leaves alone of the other.                   *)
Unmoved(q) ==
    /\ phase'[q] = phase[q] /\ step'[q] = step[q] /\ open'[q] = open[q]
    /\ registered'[q] = registered[q] /\ raised'[q] = raised[q]
    /\ served'[q] = served[q] /\ users'[q] = users[q]

(* A process that takes no step keeps its part of the invariant.           *)
LEMMA UnmovedKeeps ==
    ASSUME NEW q \in Processes, Unmoved(q), ProcessInv(q)
    PROVE  ProcessInv(q)'
BY DEF Unmoved, ProcessInv, OrderInv, StartingInv, ServingInv, EndingInv, HalfOpen, LeftToArq

(* The step of one process has to be looked at for this process only.      *)
LEMMA OneMoves ==
    ASSUME LifespanInv, NEW p \in Processes, TypesInv', ProcessInv(p)',
           \A q \in Processes \ {p} : Unmoved(q)
    PROVE  LifespanInv'
<1>1. \A q \in Processes : ProcessInv(q)'
  BY UnmovedKeeps DEF LifespanInv
<1>2. /\ LifespanTypeOK' /\ step' \in [Processes -> Nat]
      /\ registered' \in [Processes -> Seq(Resources)] /\ hung' \in [Processes -> Nat]
  <2>1. \A q \in Processes : Range(registered'[q]) \subseteq Resources
    BY RangeOfRegistered DEF TypesInv
  <2> QED
    BY <2>1 DEF TypesInv, LifespanTypeOK
<1> QED
  BY <1>1, <1>2 DEF LifespanInv

(* Both processes are at their first step with nothing open.               *)
LEMMA LifespanInvInit == LifespanInit => LifespanInv
<1> SUFFICES ASSUME LifespanInit PROVE LifespanInv
  OBVIOUS
<1>1. TypesInv
  <2>1. 0 \in 0 .. MaxUsers /\ 0 \in 0 .. Threads /\ 0 \in 0 .. 0
    BY LifespanAssumption
  <2>2. \A p \in Processes : 1 \in 1 .. Len(Program[p]) + 1
    BY ProgramSteps
  <2>3. <<>> \in Seq(Resources)
    OBVIOUS
  <2>4. phase \in [Processes -> {"starting", "serving", "draining", "releasing", "exited"}]
    BY DEF LifespanInit, Processes
  <2>5. hung \in [Processes -> Nat] /\ hung["api"] = 0 /\ hung["worker"] = 0 /\ users["api"] = 0
    BY DEF LifespanInit, Processes
  <2> QED
    BY <2>1, <2>2, <2>3, <2>4, <2>5 DEF LifespanInit, TypesInv
<1>2. ASSUME NEW p \in Processes PROVE ProcessInv(p)
  <2>1. /\ step[p] = 1 /\ open[p] = {} /\ registered[p] = <<>> /\ raised[p] = {}
        /\ ~served[p] /\ users[p] = 0
    BY DEF LifespanInit
  <2>2. phase[p] \in {"starting", "exited"}
    BY DEF LifespanInit, Processes
  <2>3. Range(<<>>) = {}
    BY DEF Range
  <2>4. Len(Program[p]) \in Nat /\ Len(Program[p]) >= 1
    BY ProgramSteps
  <2>5. Acquired(p, 1) = {} /\ Secured(p, 1) = {}
    BY OpenedIsRegistered
  <2>6. StartingInv(p)
    <3>1. 1 \in 1 .. Len(Program[p])
      BY <2>4
    <3> QED
      BY <2>1, <2>3, <2>5, <3>1, Zenon DEF StartingInv
  <2>7. EndingInv(p)
    BY <2>1 DEF EndingInv
  <2> QED
    BY <2>1, <2>2, <2>6, <2>7 DEF ProcessInv, OrderInv
<1> QED
  BY <1>1, <1>2, TypesAreTypeOK DEF LifespanInv

(* The last of the registered resources goes.                              *)
LEMMA LastGoes ==
    ASSUME NEW S, NEW s \in Seq(S), s # <<>>
    PROVE  /\ Last(s) \in S /\ Front(s) \in Seq(S)
           /\ Range(s) \subseteq Range(Front(s)) \cup {Last(s)}
<1>1. Len(s) \in Nat /\ Len(s) >= 1
  OBVIOUS
<1>2. Front(s) = [i \in 1 .. Len(s) - 1 |-> s[i]]
  <2>1. Front(s) = SubSeq(s, 1, Len(s) - 1)
    BY DEF Front
  <2> QED
    BY <1>1, <2>1
<1>3. Last(s) = s[Len(s)] /\ Last(s) \in S
  BY <1>1 DEF Last
<1>4. Front(s) \in Seq(S)
  BY <1>1 DEF Front
<1>5. \A i \in 1 .. Len(s) - 1 : Front(s)[i] = s[i] /\ i \in DOMAIN Front(s)
  BY <1>1, <1>2
<1>6. ASSUME NEW i \in DOMAIN s PROVE s[i] \in Range(Front(s)) \cup {Last(s)}
  <2>1. i \in 1 .. Len(s)
    OBVIOUS
  <2>2. CASE i = Len(s)
    BY <1>3, <2>2
  <2>3. CASE i # Len(s)
    <3>1. i \in 1 .. Len(s) - 1
      BY <1>1, <2>1, <2>3
    <3> QED
      BY <1>5, <3>1 DEF Range
  <2> QED
    BY <2>2, <2>3
<1> QED
  BY <1>3, <1>4, <1>6 DEF Range

(* One step more of the start-up.                                          *)
LEMMA StepAcquires ==
    ASSUME NEW p \in Processes, NEW n \in 1 .. Len(Program[p])
    PROVE  /\ Program[p][n].do = "open" =>
                 /\ Program[p][n].what \in Resources
                 /\ Acquired(p, n + 1) = Acquired(p, n) \cup {Program[p][n].what}
           /\ Program[p][n].do # "open" => Acquired(p, n + 1) = Acquired(p, n)
           /\ Program[p][n].do = "register" =>
                 /\ Program[p][n].what \in Resources
                 /\ Secured(p, n + 1) = Secured(p, n) \cup {Program[p][n].what}
           /\ Program[p][n].do # "register" => Secured(p, n + 1) = Secured(p, n)
<1>1. \/ \E r \in Resources : Program[p][n] = Open(r) \/ Program[p][n] = Register(r)
      \/ Program[p][n].do \notin {"open", "register"}
  <2>1. CASE p = "api"
    <3>1. n \in {1, 2, 3, 4, 5, 6, 7, 8}
      BY <2>1, ProgramSteps
    <3> QED
      BY <2>1, <3>1, ProgramSteps, StepFields DEF Resources
  <2>2. CASE p = "worker"
    <3>1. n \in {1, 2, 3, 4, 5, 6}
      BY <2>2, ProgramSteps
    <3> QED
      BY <2>2, <3>1, ProgramSteps, StepFields DEF Resources
  <2> QED
    BY <2>1, <2>2 DEF Processes
<1>2. \A i \in 1 .. (n + 1) - 1 : i \in 1 .. n - 1 \/ i = n
  OBVIOUS
<1>3. n \in 1 .. (n + 1) - 1 /\ \A i \in 1 .. n - 1 : i \in 1 .. (n + 1) - 1
  OBVIOUS
<1>4. \A r \in Resources : r \in Acquired(p, n + 1) <=> r \in Acquired(p, n) \/ Program[p][n] = Open(r)
  BY <1>2, <1>3 DEF Acquired
<1>5. \A r \in Resources : r \in Secured(p, n + 1) <=> r \in Secured(p, n) \/ Program[p][n] = Register(r)
  BY <1>2, <1>3 DEF Secured
<1>6. \A k : Acquired(p, k) \subseteq Resources /\ Secured(p, k) \subseteq Resources
  BY DEF Acquired, Secured
<1>7. CASE \E r \in Resources : Program[p][n] = Open(r)
  <2>1. PICK r \in Resources : Program[p][n] = Open(r)
    BY <1>7
  <2>2. Program[p][n].do = "open" /\ Program[p][n].what = r
    BY <2>1, StepFields
  <2>3. \A q : (Program[p][n] = Open(q) <=> q = r) /\ Program[p][n] # Register(q)
    BY <2>1, <2>2, StepFields
  <2> QED
    BY <1>4, <1>5, <1>6, <2>2, <2>3
<1>8. CASE \E r \in Resources : Program[p][n] = Register(r)
  <2>1. PICK r \in Resources : Program[p][n] = Register(r)
    BY <1>8
  <2>2. Program[p][n].do = "register" /\ Program[p][n].what = r
    BY <2>1, StepFields
  <2>3. \A q : (Program[p][n] = Register(q) <=> q = r) /\ Program[p][n] # Open(q)
    BY <2>1, <2>2, StepFields
  <2> QED
    BY <1>4, <1>5, <1>6, <2>2, <2>3
<1>9. CASE Program[p][n].do \notin {"open", "register"}
  BY <1>4, <1>5, <1>6, <1>9, StepFields
<1> QED
  BY <1>1, <1>7, <1>8, <1>9

(* Registering a release does not raise.                                   *)
LEMMA RaisingStep ==
    ASSUME NEW s, MayRaise(s)
    PROVE  s.do # "register"
BY StepFields DEF MayRaise, MaySucceed

(* One resource more is registered.                                        *)
LEMMA RangeOfAppend ==
    ASSUME NEW S, NEW s \in Seq(S), NEW x \in S
    PROVE  Range(Append(s, x)) = Range(s) \cup {x}
<1>1. /\ Append(s, x) \in Seq(S) /\ Len(Append(s, x)) = Len(s) + 1 /\ Len(s) \in Nat
      /\ Append(s, x)[Len(s) + 1] = x
      /\ \A i \in 1 .. Len(s) : Append(s, x)[i] = s[i]
  OBVIOUS
<1>2. Range(s) = {s[i] : i \in 1 .. Len(s)}
  BY DEF Range
<1>3. Range(Append(s, x)) = {Append(s, x)[i] : i \in 1 .. Len(s) + 1}
  BY <1>1 DEF Range
<1>4. \A i : i \in 1 .. Len(s) + 1 <=> i \in 1 .. Len(s) \/ i = Len(s) + 1
  BY <1>1
<1> QED
  BY <1>1, <1>2, <1>3, <1>4

(* A sequence of one and one more.                                         *)
LEMMA AppendToOne == \A x, y : Append(<<x>>, y) = <<x, y>>
<1> SUFFICES ASSUME NEW x, NEW y PROVE Append(<<x>>, y) = <<x, y>>
  OBVIOUS
<1>1. /\ Append(<<x>>, y) \in Seq({x, y}) /\ <<x, y>> \in Seq({x, y})
      /\ Len(Append(<<x>>, y)) = 2 /\ Len(<<x, y>>) = 2
      /\ Append(<<x>>, y)[1] = x /\ Append(<<x>>, y)[2] = y
      /\ <<x, y>>[1] = x /\ <<x, y>>[2] = y
  OBVIOUS
<1>2. \A i \in 1 .. 2 : i = 1 \/ i = 2
  OBVIOUS
<1>3. \A s, t \in Seq({x, y}) :
         Len(s) = Len(t) /\ (\A i \in 1 .. Len(s) : s[i] = t[i]) => s = t
  OBVIOUS
<1> QED
  BY <1>1, <1>2, <1>3

(* The first of two alone.                                                 *)
LEMMA FirstOfTwo ==
    \A x, y : /\ Len(<<x, y>>) = 2 /\ <<x, y>>[2] = y
              /\ SubSeq(<<x, y>>, 1, 1) = <<x>>
<1> SUFFICES ASSUME NEW x, NEW y
             PROVE  /\ Len(<<x, y>>) = 2 /\ <<x, y>>[2] = y
                    /\ SubSeq(<<x, y>>, 1, 1) = <<x>>
  OBVIOUS
<1>1. <<x, y>> \in Seq({x, y}) /\ Len(<<x, y>>) = 2 /\ <<x, y>>[1] = x /\ <<x, y>>[2] = y
  OBVIOUS
<1>2. ASSUME NEW S, NEW s \in Seq(S), Len(s) = 2
      PROVE  /\ SubSeq(s, 1, 1) \in Seq(S) /\ Len(SubSeq(s, 1, 1)) = 1
             /\ SubSeq(s, 1, 1)[1] = s[1]
  <2>1. SubSeq(s, 1, 1) = [i \in 1 .. 1 |-> s[i]]
    BY <1>2
  <2>2. 1 \in 1 .. Len(s)
    BY <1>2
  <2> QED
    BY <2>1, <2>2
<1>3. /\ SubSeq(<<x, y>>, 1, 1) \in Seq({x, y}) /\ Len(SubSeq(<<x, y>>, 1, 1)) = 1
      /\ SubSeq(<<x, y>>, 1, 1)[1] = x
  BY <1>1, <1>2
<1>4. \A t \in Seq({x, y}) : Len(t) = 1 => t = <<t[1]>>
  OBVIOUS
<1> QED
  BY <1>1, <1>3, <1>4

(* Every step of either process keeps the invariant.                       *)
LEMMA LifespanInvStep == LifespanInv /\ [LifespanNext]_lifespanVars => LifespanInv'
<1> SUFFICES ASSUME LifespanInv, [LifespanNext]_lifespanVars PROVE LifespanInv'
  OBVIOUS
<1>1. TypesInv /\ \A p \in Processes : ProcessInv(p)
  BY TypesAreTypeOK DEF LifespanInv
<1>2. ASSUME NEW p \in Processes, StepSucceeds(p) PROVE LifespanInv'
  <2> DEFINE s == Program[p][step[p]]
             N == Len(Program[p])
  <2>1. /\ phase[p] = "starting" /\ StartingInv(p) /\ N \in Nat /\ step[p] \in 1 .. N
        /\ step[p] \in Nat
    BY <1>1, <1>2, ProgramSteps DEF StepSucceeds, ProcessInv, StartingInv
  <2>2. /\ step' = [step EXCEPT ![p] = @ + 1]
        /\ open' = IF s.do = "open" THEN [open EXCEPT ![p] = @ \cup {s.what}] ELSE open
        /\ registered' = IF s.do = "register"
                         THEN [registered EXCEPT ![p] = Append(@, s.what)] ELSE registered
        /\ IF step[p] = N
           THEN /\ phase' = [phase EXCEPT ![p] = "serving"]
                /\ served' = [served EXCEPT ![p] = TRUE]
           ELSE UNCHANGED <<phase, served>>
        /\ UNCHANGED <<settings, raised, users, orphans, hung>>
    BY <1>2 DEF StepSucceeds, GoTo
  <2>3. /\ s.do = "open" =>
              s.what \in Resources /\ Acquired(p, step[p] + 1) = Acquired(p, step[p]) \cup {s.what}
        /\ s.do # "open" => Acquired(p, step[p] + 1) = Acquired(p, step[p])
        /\ s.do = "register" =>
              s.what \in Resources /\ Secured(p, step[p] + 1) = Secured(p, step[p]) \cup {s.what}
        /\ s.do # "register" => Secured(p, step[p] + 1) = Secured(p, step[p])
    BY <2>1, StepAcquires
  <2> HIDE DEF s, N
  <2>4. registered[p] \in Seq(Resources) /\ open[p] \in SUBSET Resources
    BY <1>1 DEF TypesInv
  <2>5. /\ step'[p] = step[p] + 1 /\ raised'[p] = raised[p] /\ users'[p] = users[p]
        /\ open'[p] = IF s.do = "open" THEN open[p] \cup {s.what} ELSE open[p]
        /\ registered'[p] = IF s.do = "register" THEN Append(registered[p], s.what)
                            ELSE registered[p]
        /\ step[p] = N => phase'[p] = "serving" /\ served'[p]
        /\ step[p] # N => phase'[p] = phase[p] /\ served'[p] = served[p]
    BY <1>1, <2>2 DEF TypesInv
  <2>6. open'[p] = Acquired(p, step[p] + 1)
    BY <2>1, <2>3, <2>5 DEF StartingInv
  <2>7. Range(registered'[p]) = Secured(p, step[p] + 1)
    <3>1. s.do = "register" =>
             Range(Append(registered[p], s.what)) = Range(registered[p]) \cup {s.what}
      BY <2>3, <2>4, RangeOfAppend
    <3> QED
      BY <2>1, <2>3, <2>5, <3>1 DEF StartingInv
  <2>8. \A q \in Processes \ {p} : Unmoved(q)
    BY <1>1, <2>2 DEF TypesInv, Unmoved
  <2>9. TypesInv'
    <3>1. step[p] + 1 \in 1 .. N + 1 /\ step[p] + 1 \in Nat
      BY <2>1
    <3>2. \A q \in Processes : step'[q] \in 1 .. Len(Program[q]) + 1
      BY <1>1, <2>2, <2>5, <3>1 DEF TypesInv, N
    <3>3. step' \in [Processes -> Nat]
      BY <1>1, <2>2, <3>1 DEF TypesInv
    <3>4. registered' \in [Processes -> Seq(Resources)]
      <4>1. s.do = "register" => Append(registered[p], s.what) \in Seq(Resources)
        BY <2>3, <2>4
      <4> QED
        BY <1>1, <2>2, <4>1 DEF TypesInv
    <3>5. open' \in [Processes -> SUBSET Resources]
      <4>1. s.do = "open" => open[p] \cup {s.what} \in SUBSET Resources
        BY <2>3, <2>4
      <4> QED
        BY <1>1, <2>2, <4>1 DEF TypesInv
    <3>6. /\ phase' \in [Processes -> {"starting", "serving", "draining", "releasing", "exited"}]
          /\ served' \in [Processes -> BOOLEAN]
      BY <1>1, <2>2 DEF TypesInv
    <3> QED
      BY <1>1, <2>2, <3>2, <3>3, <3>4, <3>5, <3>6 DEF TypesInv
  <2>12. OrderInv(p)'
    <3> SUFFICES ASSUME p = "worker" PROVE registered'[p] \in {<<>>, <<"arq">>, <<"arq", "redis">>}
      BY DEF OrderInv
    <3>1. registered[p] \in {<<>>, <<"arq">>, <<"arq", "redis">>}
      BY <1>1 DEF ProcessInv, OrderInv
    <3>2. CASE s.do # "register"
      BY <2>5, <3>1, <3>2
    <3>3. CASE s.do = "register"
      <4>1. \/ step[p] = 2 /\ s = Register("arq")
            \/ step[p] = 6 /\ s = Register("redis")
        <5>1. step[p] \in {1, 2, 3, 4, 5, 6}
          BY <2>1, ProgramSteps DEF N
        <5> QED
          BY <3>3, <5>1, ProgramSteps, StepFields DEF s
      <4>2. CASE step[p] = 2 /\ s = Register("arq")
        <5>1. Secured(p, 2) = {}
          <6>1. \A i \in 1 .. 2 - 1 : i = 1
            OBVIOUS
          <6>2. \A r : Program[p][1] # Register(r)
            BY ProgramSteps, StepFields
          <6> QED
            BY <6>1, <6>2 DEF Secured
        <5>2. registered[p] = <<>>
          <6>1. Range(registered[p]) = {}
            BY <2>1, <4>2, <5>1 DEF StartingInv
          <6>2. Range(<<"arq">>) # {} /\ Range(<<"arq", "redis">>) # {}
            BY DEF Range
          <6> QED
            BY <3>1, <6>1, <6>2
        <5>3. registered'[p] = Append(<<>>, "arq")
          BY <2>5, <3>3, <4>2, <5>2, StepFields
        <5> QED
          BY <5>3
      <4>3. CASE step[p] = 6 /\ s = Register("redis")
        <5>1. "arq" \in Secured(p, 6) /\ "redis" \notin Secured(p, 6)
          <6>1. "arq" \in Secured(p, 6)
            BY ProgramSteps DEF Secured, Resources
          <6>2. \A i \in 1 .. 6 - 1 : Program[p][i] # Register("redis")
            <7>1. \A i \in 1 .. 6 - 1 : i \in {1, 2, 3, 4, 5}
              OBVIOUS
            <7> QED
              BY <7>1, ProgramSteps, StepFields
          <6> QED
            BY <6>1, <6>2 DEF Secured
        <5>2. registered[p] = <<"arq">>
          <6>1. Range(registered[p]) = Secured(p, 6)
            BY <2>1, <4>3 DEF StartingInv
          <6>2. Range(<<>>) = {} /\ "redis" \in Range(<<"arq", "redis">>)
            <7>1. <<"arq", "redis">>[2] = "redis" /\ 2 \in DOMAIN <<"arq", "redis">>
              OBVIOUS
            <7> QED
              BY <7>1 DEF Range
          <6> QED
            BY <3>1, <5>1, <6>1, <6>2
        <5>3. registered'[p] = Append(<<"arq">>, "redis")
          BY <2>5, <3>3, <4>3, <5>2, StepFields
        <5>4. Append(<<"arq">>, "redis") = <<"arq", "redis">>
          BY AppendToOne
        <5> QED
          BY <5>3, <5>4
      <4> QED
        BY <4>1, <4>2, <4>3
    <3> QED
      BY <3>2, <3>3
  <2>10. CASE step[p] = N
    <3>1. ServingInv(p)'
      <4>1. /\ Needs[p] \subseteq Acquired(p, N + 1)
            /\ Acquired(p, N + 1) \subseteq Secured(p, N + 1)
        BY OpenedIsRegistered DEF N
      <4>2. raised[p] = {}
        BY <2>1 DEF StartingInv
      <4> QED
        BY <2>5, <2>6, <2>7, <2>10, <4>1, <4>2 DEF ServingInv
    <3>2. ProcessInv(p)'
      BY <2>5, <2>10, <2>12, <3>1 DEF ProcessInv
    <3> QED
      BY <2>8, <2>9, <3>2, OneMoves
  <2>11. CASE step[p] # N
    <3>1. StartingInv(p)'
      <4>1. step'[p] \in 1 .. Len(Program[p])
        BY <2>1, <2>5, <2>11 DEF N
      <4>2. ~served[p] /\ raised[p] = {} /\ users[p] = 0
        BY <2>1 DEF StartingInv
      <4> QED
        BY <2>5, <2>6, <2>7, <2>11, <4>1, <4>2 DEF StartingInv
    <3>2. ProcessInv(p)'
      BY <2>1, <2>5, <2>11, <2>12, <3>1 DEF ProcessInv
    <3> QED
      BY <2>8, <2>9, <3>2, OneMoves
  <2> QED
    BY <2>10, <2>11
<1>3. ASSUME NEW p \in Processes, StepRaises(p) PROVE LifespanInv'
  <2>1. /\ phase[p] = "starting" /\ MayRaise(Program[p][step[p]]) /\ StartingInv(p)
        /\ phase' = [phase EXCEPT ![p] = "releasing"]
        /\ UNCHANGED <<settings, step, open, registered, raised, served, users, orphans, hung>>
    BY <1>1, <1>3 DEF StepRaises, GoTo, ProcessInv
  <2>2. open[p] \subseteq Range(registered[p]) \cup {"redis"}
    <3>1. Program[p][step[p]].do # "register"
      BY <2>1, RaisingStep
    <3> QED
      BY <2>1, <3>1, OpenedIsRegistered DEF StartingInv
  <2>3. TypesInv' /\ phase'[p] = "releasing" /\ \A q \in Processes \ {p} : Unmoved(q)
    BY <1>1, <2>1 DEF TypesInv, Unmoved
  <2>4. ProcessInv(p)'
    <3>1. OrderInv(p)
      BY <1>1 DEF ProcessInv
    <3> QED
      BY <2>1, <2>2, <2>3, <3>1 DEF ProcessInv, OrderInv, StartingInv, EndingInv, HalfOpen
  <2> QED
    BY <2>3, <2>4, OneMoves
<1>4. ASSUME NEW p \in Processes, UserBegins(p) \/ UserEnds(p) \/ (p = "worker" /\ JobLeavesThread)
      PROVE  LifespanInv'
  <2>1. /\ \/ phase[p] = "serving" /\ users[p] < MaxUsers /\ users' = [users EXCEPT ![p] = @ + 1]
           \/ users[p] > 0 /\ users' = [users EXCEPT ![p] = @ - 1]
        /\ p = "api" => users[p] > hung[p] \/ users' = [users EXCEPT ![p] = @ + 1]
        /\ \/ orphans' = orphans
           \/ orphans < Threads /\ orphans' = orphans + 1
        /\ UNCHANGED <<settings, phase, step, open, registered, raised, served, hung>>
    BY <1>4 DEF UserBegins, UserEnds, JobLeavesThread
  <2>2. /\ \A q \in Processes : users[q] \in 0 .. MaxUsers
        /\ MaxUsers \in Nat /\ Threads \in Nat /\ orphans \in 0 .. Threads
        /\ hung["api"] \in 0 .. users["api"] /\ hung["worker"] \in 0 .. orphans
        /\ p \in {"api", "worker"} /\ "api" \in Processes
    BY <1>1, LifespanAssumption DEF TypesInv, Processes
  <2>3. users' \in [Processes -> 0 .. MaxUsers]
    <3>1. users[p] < MaxUsers => users[p] + 1 \in 0 .. MaxUsers
      BY <2>2
    <3>2. users[p] > 0 => users[p] - 1 \in 0 .. MaxUsers
      BY <2>2
    <3> QED
      BY <1>1, <2>1, <3>1, <3>2 DEF TypesInv
  <2>4. /\ orphans' \in 0 .. Threads
        /\ hung'["worker"] \in 0 .. orphans'
    BY <2>1, <2>2
  <2>5. hung'["api"] \in 0 .. users'["api"]
    <3>1. CASE p = "worker"
      <4>1. users'["api"] = users["api"]
        BY <1>1, <2>1, <3>1 DEF TypesInv, Processes
      <4> QED
        BY <2>1, <2>2, <4>1
    <3>2. CASE p = "api"
      <4>1. users'[p] = users[p] + 1 \/ (users'[p] = users[p] - 1 /\ users[p] > hung[p])
        BY <1>1, <2>1, <2>2, <3>2 DEF TypesInv
      <4>2. \A u, h \in Nat : h \in 0 .. u => h \in 0 .. u + 1 /\ (u > h => h \in 0 .. u - 1)
        OBVIOUS
      <4> QED
        BY <2>1, <2>2, <3>2, <4>1, <4>2
    <3> QED
      BY <2>2, <3>1, <3>2
  <2>6. TypesInv' /\ \A q \in Processes \ {p} : Unmoved(q)
    BY <1>1, <2>1, <2>3, <2>4, <2>5 DEF TypesInv, Unmoved
  <2>7. phase[p] \in {"serving", "draining"} /\ ServingInv(p) /\ OrderInv(p)
    <3>1. users[p] > 0 => users[p] # 0
      BY <2>2
    <3> QED
      BY <1>1, <2>1, <3>1 DEF ProcessInv, StartingInv, EndingInv, TypesInv
  <2>8. ProcessInv(p)'
    BY <2>1, <2>7 DEF ProcessInv, ServingInv, OrderInv
  <2> QED
    BY <2>6, <2>8, OneMoves
<1>10. CASE OrphanEnds \/ \E p \in Processes : Hang(p)
  <2>1. /\ \/ orphans > hung["worker"] /\ orphans' = orphans - 1 /\ hung' = hung
           \/ /\ orphans' = orphans
              /\ \/ hung["api"] < users["api"] /\ hung' = [hung EXCEPT !["api"] = @ + 1]
                 \/ hung["worker"] < orphans /\ hung' = [hung EXCEPT !["worker"] = @ + 1]
        /\ UNCHANGED <<settings, phase, step, open, registered, raised, served, users>>
    BY <1>10 DEF OrphanEnds, Hang, Processes
  <2>2. /\ users["api"] \in Nat /\ Threads \in Nat /\ orphans \in 0 .. Threads
        /\ hung["api"] \in 0 .. users["api"] /\ hung["worker"] \in 0 .. orphans
        /\ hung \in [Processes -> Nat] /\ "api" \in Processes /\ "worker" \in Processes
    BY <1>1, LifespanAssumption DEF TypesInv, Processes
  <2>3. hung' \in [Processes -> Nat]
    BY <2>1, <2>2
  <2>4. /\ orphans' \in 0 .. Threads
        /\ hung'["api"] \in 0 .. users["api"] /\ hung'["worker"] \in 0 .. orphans'
    <3>1. CASE orphans > hung["worker"] /\ orphans' = orphans - 1 /\ hung' = hung
      BY <2>2, <3>1
    <3>2. CASE hung["api"] < users["api"] /\ hung' = [hung EXCEPT !["api"] = @ + 1] /\ orphans' = orphans
      <4>1. hung'["api"] = hung["api"] + 1 /\ hung'["worker"] = hung["worker"]
        BY <2>2, <3>2
      <4> QED
        BY <2>2, <3>2, <4>1
    <3>3. CASE hung["worker"] < orphans /\ hung' = [hung EXCEPT !["worker"] = @ + 1] /\ orphans' = orphans
      <4>1. hung'["worker"] = hung["worker"] + 1 /\ hung'["api"] = hung["api"]
        BY <2>2, <3>3
      <4> QED
        BY <2>2, <3>3, <4>1
    <3> QED
      BY <2>1, <3>1, <3>2, <3>3
  <2>5. TypesInv'
    BY <1>1, <2>1, <2>3, <2>4 DEF TypesInv
  <2>6. \A q \in Processes : Unmoved(q)
    BY <2>1 DEF Unmoved
  <2>7. ProcessInv("api")'
    BY <1>1, <2>2, <2>6, UnmovedKeeps
  <2> QED
    BY <2>2, <2>5, <2>6, <2>7, OneMoves
<1>5. ASSUME NEW p \in Processes, Stop(p) PROVE LifespanInv'
  <2>1. /\ phase[p] = "serving" /\ phase' = [phase EXCEPT ![p] = "draining"] /\ ServingInv(p)
        /\ UNCHANGED <<settings, step, open, registered, raised, served, users, orphans, hung>>
    BY <1>1, <1>5 DEF Stop, GoTo, ProcessInv
  <2>2. TypesInv' /\ phase'[p] = "draining" /\ \A q \in Processes \ {p} : Unmoved(q)
    BY <1>1, <2>1 DEF TypesInv, Unmoved
  <2>3. ProcessInv(p)'
    BY <1>1, <2>1, <2>2 DEF ProcessInv, ServingInv, OrderInv
  <2> QED
    BY <2>2, <2>3, OneMoves
<1>6. ASSUME NEW p \in Processes, Drained(p) PROVE LifespanInv'
  <2>1. /\ phase[p] = "draining" /\ users[p] = 0 /\ ServingInv(p)
        /\ phase' = [phase EXCEPT ![p] = "releasing"]
        /\ UNCHANGED <<settings, step, open, registered, raised, served, users, orphans, hung>>
    BY <1>1, <1>6 DEF Drained, GoTo, ProcessInv
  <2>2. TypesInv' /\ phase'[p] = "releasing" /\ \A q \in Processes \ {p} : Unmoved(q)
    BY <1>1, <2>1 DEF TypesInv, Unmoved
  <2>3. ProcessInv(p)'
    BY <1>1, <2>1, <2>2 DEF ProcessInv, ServingInv, EndingInv, OrderInv
  <2> QED
    BY <2>2, <2>3, OneMoves
<1>7. ASSUME NEW p \in Processes, Release(p) PROVE LifespanInv'
  <2> DEFINE r == Last(registered[p])
             rest == Front(registered[p])
  <2>1. /\ phase[p] = "releasing" /\ registered[p] # <<>> /\ EndingInv(p)
        /\ UNCHANGED <<settings, phase, step, served, users, orphans, hung>>
    BY <1>1, <1>7 DEF Release, ProcessInv
  <2>2. registered[p] \in Seq(Resources)
    BY <1>1 DEF TypesInv
  <2>3. r \in Resources /\ rest \in Seq(Resources) /\ Range(registered[p]) \subseteq Range(rest) \cup {r}
    BY <2>1, <2>2, LastGoes
  <2>4. \/ /\ open' = [open EXCEPT ![p] = @ \ {r}]
           /\ registered' = [registered EXCEPT ![p] = rest]
           /\ raised' = raised
        \/ /\ raised' = [raised EXCEPT ![p] = @ \cup {r}]
           /\ registered' = [registered EXCEPT ![p] = IF p = "api" THEN rest ELSE <<>>]
           /\ open' = open
    BY <1>7 DEF Release
  <2> HIDE DEF r, rest
  <2>5. TypesInv'
    <3>1. <<>> \in Seq(Resources) /\ open[p] \in SUBSET Resources /\ raised[p] \in SUBSET Resources
      BY <1>1 DEF TypesInv
    <3>2. open[p] \ {r} \in SUBSET Resources /\ raised[p] \cup {r} \in SUBSET Resources
      BY <2>3, <3>1
    <3>3. /\ open' \in [Processes -> SUBSET Resources]
          /\ registered' \in [Processes -> Seq(Resources)]
          /\ raised' \in [Processes -> SUBSET Resources]
      BY <1>1, <2>3, <2>4, <3>1, <3>2, ZenonT(30) DEF TypesInv
    <3> QED
      BY <1>1, <2>1, <3>3 DEF TypesInv
  <2>6. \A q \in Processes \ {p} : Unmoved(q)
    BY <1>1, <2>1, <2>4 DEF TypesInv, Unmoved
  <2>7. \/ open'[p] = open[p] \ {r} /\ registered'[p] = rest /\ raised'[p] = raised[p]
        \/ /\ raised'[p] = raised[p] \cup {r} /\ open'[p] = open[p]
           /\ p = "api" => registered'[p] = rest
    BY <1>1, <2>4 DEF TypesInv
  <2>8. ProcessInv(p)'
    <3>1. phase'[p] = "releasing" /\ users'[p] = users[p] /\ served'[p] = served[p]
      BY <2>1
    <3>2. /\ OrderInv(p)'
          /\ p = "worker" => \/ r = "redis" /\ Range(registered[p]) = {"arq", "redis"}
                             \/ r = "arq" /\ Range(registered[p]) = {"arq"}
      <4>1. p = "worker" => registered[p] \in {<<"arq">>, <<"arq", "redis">>}
        BY <1>1, <2>1 DEF ProcessInv, OrderInv
      <4>2. /\ Last(<<"arq">>) = "arq" /\ Front(<<"arq">>) = <<>>
            /\ Last(<<"arq", "redis">>) = "redis" /\ Front(<<"arq", "redis">>) = <<"arq">>
        <5>1. \A x : /\ Len(<<x>>) = 1 /\ <<x>>[1] = x /\ SubSeq(<<x>>, 1, 0) = <<>>
          OBVIOUS
        <5>2. \A x, y : /\ Len(<<x, y>>) = 2 /\ <<x, y>>[2] = y
                        /\ SubSeq(<<x, y>>, 1, 1) = <<x>>
          BY FirstOfTwo
        <5> QED
          BY <5>1, <5>2 DEF Last, Front
      <4>3. Range(<<"arq">>) = {"arq"} /\ Range(<<"arq", "redis">>) = {"arq", "redis"}
        <5>1. /\ DOMAIN <<"arq">> = {1} /\ DOMAIN <<"arq", "redis">> = {1, 2}
              /\ <<"arq">>[1] = "arq" /\ <<"arq", "redis">>[1] = "arq"
              /\ <<"arq", "redis">>[2] = "redis"
          OBVIOUS
        <5> QED
          BY <5>1 DEF Range
      <4>4. p = "worker" => registered'[p] = rest \/ registered'[p] = <<>>
        BY <1>1, <2>4 DEF TypesInv
      <4> QED
        BY <4>1, <4>2, <4>3, <4>4 DEF OrderInv, r, rest
    <3>3. EndingInv(p)'
      <4>1. open[p] \subseteq Range(registered[p]) \cup raised[p] \cup HalfOpen(p) \cup LeftToArq(p)
        BY <2>1 DEF EndingInv
      <4>2. HalfOpen(p)' = HalfOpen(p) /\ LeftToArq(p) \subseteq LeftToArq(p)'
        BY <2>7, <3>1 DEF HalfOpen, LeftToArq
      <4>3. CASE registered'[p] = rest
        <5>1. open'[p] \subseteq Range(registered'[p]) \cup raised'[p] \cup HalfOpen(p) \cup LeftToArq(p)
          BY <2>3, <2>7, <4>1, <4>3
        <5> QED
          BY <2>1, <3>1, <4>2, <5>1 DEF EndingInv
      <4>4. CASE registered'[p] # rest
        <5>1. p = "worker" /\ raised'[p] = raised[p] \cup {r} /\ open'[p] = open[p]
          BY <2>7, <4>4 DEF Processes
        <5>2. Range(registered[p]) \subseteq raised'[p] \cup LeftToArq(p)'
          BY <3>2, <5>1 DEF LeftToArq
        <5> QED
          BY <2>1, <3>1, <4>1, <4>2, <5>1, <5>2 DEF EndingInv
      <4> QED
        BY <4>3, <4>4
    <3> QED
      BY <3>1, <3>2, <3>3 DEF ProcessInv
  <2> QED
    BY <2>5, <2>6, <2>8, OneMoves
<1>8. ASSUME NEW p \in Processes, Exit(p) PROVE LifespanInv'
  <2>1. /\ phase[p] = "releasing" /\ registered[p] = <<>> /\ EndingInv(p)
        /\ phase' = [phase EXCEPT ![p] = "exited"]
        /\ UNCHANGED <<settings, step, open, registered, raised, served, users, orphans, hung>>
    BY <1>1, <1>8 DEF Exit, GoTo, ProcessInv
  <2>2. TypesInv' /\ phase'[p] = "exited" /\ \A q \in Processes \ {p} : Unmoved(q)
    BY <1>1, <2>1 DEF TypesInv, Unmoved
  <2>3. ProcessInv(p)'
    BY <1>1, <2>1, <2>2 DEF ProcessInv, OrderInv, EndingInv, HalfOpen, LeftToArq
  <2> QED
    BY <2>2, <2>3, OneMoves
<1>9. CASE UNCHANGED lifespanVars
  <2>1. TypesInv' /\ \A q \in Processes : Unmoved(q)
    BY <1>1, <1>9 DEF lifespanVars, TypesInv, Unmoved
  <2>2. "api" \in Processes
    BY DEF Processes
  <2>3. ProcessInv("api")'
    BY <1>1, <2>1, <2>2, UnmovedKeeps
  <2> QED
    BY <2>1, <2>2, <2>3, OneMoves
<1>11. JobLeavesThread => LifespanInv'
  BY <1>4 DEF Processes
<1> QED
  BY <1>2, <1>3, <1>4, <1>5, <1>6, <1>7, <1>8, <1>9, <1>10, <1>11
     DEF LifespanNext, Starting, Stopping

(* So it holds in every reachable state.                                   *)
LEMMA LifespanInvHolds == LifespanSpec => []LifespanInv
BY LifespanInvInit, LifespanInvStep, PTL DEF LifespanSpec

-----------------------------------------------------------------------------
(* The types of every variable hold in every reachable state of either     *)
(* process, for any settings and any number of users.                      *)
THEOREM LifespanTypeCorrect == LifespanSpec => []LifespanTypeOK
<1>1. LifespanInv => LifespanTypeOK
  BY DEF LifespanInv
<1> QED
  BY <1>1, LifespanInvHolds, PTL

(* Whoever uses a resource finds it open.                                  *)
THEOREM OpenWhileUsed == LifespanSpec => []UsersFindItOpen
<1>1. LifespanInv => UsersFindItOpen
  <2> SUFFICES ASSUME LifespanInv, NEW p \in Processes, users[p] > 0
               PROVE  Needs[p] \subseteq open[p]
    BY DEF UsersFindItOpen
  <2>1. users[p] # 0
    OBVIOUS
  <2>2. phase[p] \in {"starting", "serving", "draining", "releasing", "exited"} /\ ProcessInv(p)
    BY TypesAreTypeOK DEF LifespanInv, TypesInv
  <2> QED
    BY <2>1, <2>2 DEF ProcessInv, StartingInv, ServingInv, EndingInv
<1> QED
  BY <1>1, LifespanInvHolds, PTL

(* Only what could not be closed, or not yet be registered, or was left to *)
(* ARQ, stays open.                                                        *)
THEOREM LeaksAreNamed == LifespanSpec => []OnlyHalfOpenLeaks
<1>1. LifespanInv => OnlyHalfOpenLeaks
  <2> SUFFICES ASSUME LifespanInv, NEW p \in Processes, phase[p] = "exited"
               PROVE  open[p] \subseteq raised[p] \cup HalfOpen(p) \cup LeftToArq(p)
    BY DEF OnlyHalfOpenLeaks, HalfOpen, LeftToArq
  <2>1. EndingInv(p)
    BY DEF LifespanInv, ProcessInv
  <2>2. Range(<<>>) = {}
    BY DEF Range
  <2> QED
    BY <2>1, <2>2 DEF EndingInv
<1> QED
  BY <1>1, LifespanInvHolds, PTL
=============================================================================
