------------------------- MODULE RunRequests_proofs -------------------------
(***************************************************************************)
(* Proofs about RunRequests.  The stage of a request determines every copy *)
(* of it: this is the invariant.  The rest is what the operators the       *)
(* copies are made with do to any request: validating twice is validating  *)
(* once, and what is unique after stripping is what the rules ask for.     *)
(***************************************************************************)
EXTENDS RunRequests, DataLemmas

(* What is known of a request from the stage on that establishes it.       *)
Accepted == Valid(request) /\ model = Validated(request)

NamesDiffer == Accepted /\ UniqueParamNames(model)

Recorded == NamesDiffer /\ urlsValid /\ record = Redact(model)

Enqueued ==
    /\ Recorded
    /\ payload = Payload(model)
    /\ redisRaised \in BOOLEAN
    /\ answer = IF redisRaised THEN 500 ELSE 200

Read == Enqueued /\ inputs = payload

(* What does not exist yet, or does not come to exist.                     *)
NothingRun == arguments = <<>>
NothingRead == NothingRun /\ inputs = <<>>
NothingSent == NothingRead /\ payload = <<>>
NothingLeft == NothingSent /\ record = <<>>
NothingMade == NothingLeft /\ model = <<>>
Unanswered == answer = 0 /\ redisRaised = FALSE

StageInv ==
    /\ stage = "validate" => NothingMade /\ Unanswered
    /\ stage = "check" => Accepted /\ NothingLeft /\ Unanswered
    /\ stage = "submit" => NamesDiffer /\ NothingLeft /\ Unanswered
    /\ stage = "enqueue" => Recorded /\ NothingSent /\ Unanswered
    /\ stage = "revalidate" => Enqueued /\ NothingRead
    /\ stage = "resolve" => Read /\ NothingRun
    /\ stage = "handed" => Read /\ Resolvable(inputs.plan)
                                /\ arguments = ResolveTests(inputs.plan)
    /\ stage = "failed" => Read /\ ~Resolvable(inputs.plan) /\ NothingRun

RefusedInv ==
    stage = "refused" =>
        \/ answer = 422 /\ ~Valid(request) /\ NothingMade /\ redisRaised = FALSE
        \/ /\ answer = 400 /\ Accepted /\ ~UniqueParamNames(model)
           /\ NothingLeft /\ redisRaised = FALSE
        \/ answer = 500 /\ NamesDiffer /\ ~urlsValid /\ NothingLeft /\ redisRaised = FALSE
        \/ /\ answer = 500 /\ NamesDiffer /\ urlsValid /\ redisRaised = TRUE
           /\ NothingSent /\ record \in {<<>>, Redact(model)}

RequestInv ==
    /\ stage \in Stages
    /\ urlsValid \in BOOLEAN
    /\ stage = "idle" => request = <<>> /\ NothingMade /\ Unanswered
    /\ stage # "idle" => request \in RawRequests
    /\ StageInv
    /\ RefusedInv

-----------------------------------------------------------------------------
(* Types of what a request is made of.                                     *)
Tests(Names) == Seq([name : Names, params : Seq(Texts)])

(* A stripped text has no blanks left to strip.                            *)
LEMMA StripTwice ==
    /\ \A text \in Texts : Strip(text) \in {"x", "y", ""} /\ Strip(text) \in Texts
    /\ \A path \in Paths : Strip(path) = path /\ Strip(path) \in Paths
    /\ \A text : Strip(Strip(text)) = Strip(text)
BY DEF Strip, Texts, Paths

(* A test is a basic or a custom one.                                      *)
LEMMA EitherTests ==
    /\ Tests(Texts) \subseteq Tests(Texts \cup Paths)
    /\ Tests(Paths) \subseteq Tests(Texts \cup Paths)
<1>1. /\ [name : Texts, params : Seq(Texts)] \subseteq [name : Texts \cup Paths, params : Seq(Texts)]
      /\ [name : Paths, params : Seq(Texts)] \subseteq [name : Texts \cup Paths, params : Seq(Texts)]
  OBVIOUS
<1>2. ASSUME NEW X, NEW Y, X \subseteq Y PROVE Seq(X) \subseteq Seq(Y)
  BY <1>2
<1> QED
  BY <1>1, <1>2, Zenon DEF Tests

(* A list of texts, and a list of tests, stripped item by item.            *)
LEMMA StrippedTexts ==
    ASSUME NEW s \in Seq(Texts)
    PROVE  /\ Each(Strip, s) \in Seq(Texts)
           /\ Each(Strip, s) \in Seq({"x", "y", ""})
           /\ Len(Each(Strip, s)) = Len(s)
           /\ \A n \in 1 .. Len(s) : Each(Strip, s)[n] = Strip(s[n])
           /\ Each(Strip, Each(Strip, s)) = Each(Strip, s)
<1>1. ASSUME NEW n \in 1 .. Len(s)
      PROVE  Strip(s[n]) \in Texts /\ Strip(s[n]) \in {"x", "y", ""}
  <2>1. s[n] \in Texts
    OBVIOUS
  <2> QED
    BY <2>1, StripTwice, Zenon
<1>2. Each(Strip, s) = [n \in 1 .. Len(s) |-> Strip(s[n])]
  BY DEF Each
<1>3. Each(Strip, Each(Strip, s)) = Each(Strip, s)
  BY StripTwice DEF Each
<1>4. ASSUME NEW X, \A n \in 1 .. Len(s) : Strip(s[n]) \in X
      PROVE  Each(Strip, s) \in Seq(X)
  BY <1>2, <1>4
<1>5. Len(Each(Strip, s)) = Len(s) /\ \A n \in 1 .. Len(s) : Each(Strip, s)[n] = Strip(s[n])
  BY <1>2
<1>6. Each(Strip, s) \in Seq(Texts) /\ Each(Strip, s) \in Seq({"x", "y", ""})
  BY <1>1, <1>4
<1> QED
  BY <1>3, <1>5, <1>6

(* A list of tests, stripped: of the same type and length, and stripping   *)
(* it again changes nothing.                                               *)
LEMMA StrippedTests ==
    ASSUME NEW Names, NEW s \in Tests(Names), \A name \in Names : Strip(name) \in Names
    PROVE  /\ Each(Stripped, s) \in Tests(Names)
           /\ Len(Each(Stripped, s)) = Len(s)
           /\ \A i \in 1 .. Len(s) :
                /\ Each(Stripped, s)[i].name = Strip(s[i].name)
                /\ Each(Stripped, s)[i].params = Each(Strip, s[i].params)
           /\ Each(Stripped, Each(Stripped, s)) = Each(Stripped, s)
<1> DEFINE Test == [name : Names, params : Seq(Texts)]
<1>1. ASSUME NEW test \in Test
      PROVE  /\ Stripped(test) \in Test
             /\ Stripped(test).name = Strip(test.name)
             /\ Stripped(test).params = Each(Strip, test.params)
             /\ Stripped(Stripped(test)) = Stripped(test)
  <2>1. test.params \in Seq(Texts) /\ test.name \in Names
    OBVIOUS
  <2>2. /\ Each(Strip, test.params) \in Seq(Texts)
        /\ Each(Strip, Each(Strip, test.params)) = Each(Strip, test.params)
    BY <2>1, StrippedTexts
  <2> QED
    BY <2>1, <2>2, StripTwice DEF Stripped
<1>2. s \in Seq(Test)
  BY DEF Tests
<1> HIDE DEF Test
<1>3. Each(Stripped, s) = [i \in 1 .. Len(s) |-> Stripped(s[i])]
  BY <1>2 DEF Each
<1>4. \A i \in 1 .. Len(s) : s[i] \in Test
  BY <1>2
<1>5. /\ Each(Stripped, s) \in Seq(Test)
      /\ Len(Each(Stripped, s)) = Len(s)
      /\ \A i \in 1 .. Len(s) : Each(Stripped, s)[i] = Stripped(s[i])
  <2>1. \A i \in 1 .. Len(s) : Stripped(s[i]) \in Test
    BY <1>1, <1>4
  <2> QED
    BY <1>2, <1>3, <2>1
<1>6. Each(Stripped, Each(Stripped, s)) = Each(Stripped, s)
  <2>1. \A i \in DOMAIN s : s[i] \in Test
    BY <1>2
  <2>2. \A i \in DOMAIN s : Stripped(Stripped(s[i])) = Stripped(s[i])
    BY <1>1, <2>1
  <2> QED
    BY <2>2, Zenon DEF Each
<1>7. \A i \in 1 .. Len(s) :
         /\ Each(Stripped, s)[i].name = Strip(s[i].name)
         /\ Each(Stripped, s)[i].params = Each(Strip, s[i].params)
  BY <1>1, <1>4, <1>5
<1> QED
  BY <1>5, <1>6, <1>7 DEF Test, Tests

(* An optional value is none, or one.                                      *)
LEMMA NoneOrOne ==
    ASSUME NEW S
    PROVE  /\ \A s \in Optional(S) : s = <<>> \/ \E x \in S : s = <<x>>
           /\ <<>> \in Optional(S)
           /\ \A x \in S : <<x>> \in Optional(S)
<1>1. ASSUME NEW s \in Optional(S), s # <<>>
      PROVE  \E x \in S : s = <<x>>
  <2>1. s \in Seq(S) /\ Len(s) <= 1
    BY <1>1 DEF Optional
  <2>2. Len(s) # 0 /\ Len(s) \in Nat
    BY <1>1, <2>1
  <2>3. Len(s) = 1
    <3>1. \A m \in Nat : m <= 1 /\ m # 0 => m = 1
      OBVIOUS
    <3> QED
      BY <2>1, <2>2, <3>1, Zenon
  <2>4. s[1] \in S /\ s = <<s[1]>>
    BY <2>1, <2>3
  <2> QED
    BY <2>4
<1> QED
  BY <1>1 DEF Optional

(* The prompts that stay are stripped and not blank: cleaning them again   *)
(* keeps them all.                                                         *)
LEMMA CleanedPrompts ==
    ASSUME NEW s \in Seq(Texts)
    PROVE  /\ CleanPrompts(s) \in Optional(Seq(Texts))
           /\ CleanPrompts(s) # <<>> => CleanPrompts(CleanPrompts(s)[1]) = CleanPrompts(s)
<1> DEFINE kept == Kept(Each(Strip, s), Texts \ {""})
<1>1. /\ kept \in Seq({"x", "y", ""} \cap (Texts \ {""}))
      /\ \A t \in Seq(Texts \ {""}) : Kept(t, Texts \ {""}) = t
  <2>1. Each(Strip, s) \in Seq({"x", "y", ""})
    BY StrippedTexts
  <2>2. \A t \in Seq(Texts \ {""}) : Kept(t, Texts \ {""}) = t
    BY KeptItems
  <2> QED
    BY <2>1, <2>2, KeptItems
<1>2. CleanPrompts(s) = IF kept = <<>> THEN <<>> ELSE <<kept>>
  BY DEF CleanPrompts
<1> HIDE DEF kept
<1>3. {"x", "y", ""} \cap (Texts \ {""}) = {"x", "y"}
  BY DEF Texts
<1>4. kept \in Seq({"x", "y"})
  BY <1>1, <1>3
<1>5. kept \in Seq(Texts) /\ kept \in Seq(Texts \ {""})
  <2>1. {"x", "y"} \subseteq Texts /\ {"x", "y"} \subseteq Texts \ {""}
    BY DEF Texts
  <2>2. \A X : {"x", "y"} \subseteq X => kept \in Seq(X)
    BY <1>4
  <2> QED
    BY <2>1, <2>2
<1>6. \A n \in DOMAIN kept : kept[n] \in {"x", "y"}
  BY <1>4
<1>7. Each(Strip, kept) = kept
  <2>1. \A n \in DOMAIN kept : Strip(kept[n]) = kept[n]
    BY <1>6 DEF Strip
  <2>2. kept = [n \in DOMAIN kept |-> kept[n]]
    BY <1>4
  <2> QED
    BY <2>1, <2>2, Zenon DEF Each
<1>8. CleanPrompts(kept) = IF kept = <<>> THEN <<>> ELSE <<kept>>
  BY <1>1, <1>5, <1>7 DEF CleanPrompts
<1>9. CleanPrompts(s) \in Optional(Seq(Texts))
  BY <1>2, <1>5, NoneOrOne
<1>10. kept # <<>> => CleanPrompts(s)[1] = kept /\ CleanPrompts(s) = <<kept>>
  BY <1>2
<1>11. CleanPrompts(s) # <<>> => kept # <<>>
  BY <1>2
<1> QED
  BY <1>8, <1>9, <1>10, <1>11

(* An optional list of tests, stripped.                                    *)
StrippedOptional(tests) == [i \in DOMAIN tests |-> Each(Stripped, tests[i])]

(* The same of an optional list.                                           *)
LEMMA StrippedOptionals ==
    ASSUME NEW Names, NEW s \in Optional(Tests(Names)),
           \A name \in Names : Strip(name) \in Names
    PROVE  /\ StrippedOptional(s) \in Optional(Tests(Names))
           /\ OrEmpty(s) \in Tests(Names)
           /\ OrEmpty(StrippedOptional(s)) = Each(Stripped, OrEmpty(s))
           /\ StrippedOptional(StrippedOptional(s)) = StrippedOptional(s)
<1>1. CASE s = <<>>
  <2>1. /\ StrippedOptional(<<>>) = <<>>
        /\ Each(Stripped, <<>>) = <<>>
    BY DEF StrippedOptional, Each
  <2>2. <<>> \in Optional(Tests(Names)) /\ <<>> \in Tests(Names)
    BY DEF Optional, Tests
  <2> QED
    BY <1>1, <2>1, <2>2 DEF OrEmpty
<1>2. CASE s # <<>>
  <2>1. PICK tests \in Tests(Names) : s = <<tests>>
    BY <1>2, NoneOrOne
  <2>2. /\ Each(Stripped, tests) \in Tests(Names)
        /\ Each(Stripped, Each(Stripped, tests)) = Each(Stripped, tests)
    BY StrippedTests
  <2>3. \A t : /\ StrippedOptional(<<t>>) = <<Each(Stripped, t)>>
               /\ OrEmpty(<<t>>) = t
    BY DEF StrippedOptional, OrEmpty
  <2>4. <<Each(Stripped, tests)>> \in Optional(Tests(Names))
    BY <2>2, NoneOrOne
  <2> QED
    BY <2>1, <2>2, <2>3, <2>4
<1> QED
  BY <1>1, <1>2

(* What validation makes of a request, field by field.                     *)
LEMMA RequestFields ==
    ASSUME NEW req \in Requests
    PROVE  /\ req.preset \in Optional(Texts) /\ req.threads \in Optional(Nat)
           /\ req.basic \in Optional(Tests(Texts)) /\ req.custom \in Optional(Tests(Paths))
           /\ req.prompts \in Optional(Seq(Texts)) /\ req.path \in Optional({"d", ".."})
           /\ req # <<>>
<1>1. DOMAIN req # {}
  BY DEF Requests
<1>2. DOMAIN <<>> = {}
  OBVIOUS
<1> QED
  BY <1>1, <1>2 DEF Requests, Tests

(* Field by field, from the validators.                                    *)
LEMMA ValidatedFields ==
    ASSUME NEW req \in Requests
    PROVE  /\ Validated(req).preset = req.preset
           /\ Validated(req).threads = req.threads
           /\ Validated(req).path = req.path
           /\ Validated(req).basic = StrippedOptional(req.basic)
           /\ Validated(req).custom = StrippedOptional(req.custom)
           /\ Validated(req).prompts =
                 IF req.prompts = <<>> THEN <<>> ELSE CleanPrompts(req.prompts[1])
BY DEF Validated, Requests, StrippedOptional, Each

(* What validation returns is a request.                                   *)
LEMMA ValidatedType ==
    ASSUME NEW req \in Requests
    PROVE  Validated(req) \in Requests
<1>1. /\ StrippedOptional(req.basic) \in Optional(Tests(Texts))
      /\ StrippedOptional(req.custom) \in Optional(Tests(Paths))
  BY RequestFields, StrippedOptionals, StripTwice
<1>2. (IF req.prompts = <<>> THEN <<>> ELSE CleanPrompts(req.prompts[1]))
         \in Optional(Seq(Texts))
  <2>1. req.prompts = <<>> \/ \E x \in Seq(Texts) : req.prompts = <<x>>
    BY RequestFields, NoneOrOne
  <2>2. \A x \in Seq(Texts) : <<x>>[1] = x /\ CleanPrompts(x) \in Optional(Seq(Texts))
    BY CleanedPrompts
  <2> QED
    BY <2>1, <2>2, NoneOrOne
<1> QED
  BY <1>1, <1>2, RequestFields DEF Validated, Requests, StrippedOptional, Each, Tests

(* The tests of the validated copy are the tests that were sent, each      *)
(* stripped.                                                               *)
LEMMA StrippedLists ==
    ASSUME NEW req \in Requests
    PROVE  /\ OrEmpty(req.basic) \in Tests(Texts)
           /\ OrEmpty(req.custom) \in Tests(Paths)
           /\ OrEmpty(Validated(req).basic) = Each(Stripped, OrEmpty(req.basic))
           /\ OrEmpty(Validated(req).custom) = Each(Stripped, OrEmpty(req.custom))
<1>1. /\ req.basic \in Optional(Tests(Texts)) /\ req.custom \in Optional(Tests(Paths))
      /\ Validated(req).basic = StrippedOptional(req.basic)
      /\ Validated(req).custom = StrippedOptional(req.custom)
  BY RequestFields, ValidatedFields
<1>2. ASSUME NEW s \in Optional(Tests(Texts))
      PROVE  /\ OrEmpty(s) \in Tests(Texts)
             /\ OrEmpty(StrippedOptional(s)) = Each(Stripped, OrEmpty(s))
  BY StrippedOptionals, StripTwice
<1>3. ASSUME NEW s \in Optional(Tests(Paths))
      PROVE  /\ OrEmpty(s) \in Tests(Paths)
             /\ OrEmpty(StrippedOptional(s)) = Each(Stripped, OrEmpty(s))
  BY StrippedOptionals, StripTwice
<1> QED
  BY <1>1, <1>2, <1>3

(* A list of the one and a list of the other make one.                     *)
LEMMA AllTests ==
    ASSUME NEW req \in Requests
    PROVE  /\ TestsOf(req) \in Tests(Texts \cup Paths)
           /\ TestsOf(Validated(req)) = Each(Stripped, TestsOf(req))
           /\ \A name \in Texts \cup Paths : Strip(name) \in Texts \cup Paths
<1> DEFINE Test == [name : Texts \cup Paths, params : Seq(Texts)]
<1>1. \A s \in Tests(Texts) \cup Tests(Paths) : s \in Seq(Test)
  BY EitherTests DEF Tests
<1>2. TestsOf(req) \in Seq(Test)
  <2>1. OrEmpty(req.basic) \in Seq(Test) /\ OrEmpty(req.custom) \in Seq(Test)
    BY <1>1, StrippedLists
  <2> HIDE DEF Test
  <2> QED
    BY <2>1 DEF TestsOf
<1>3. ASSUME NEW s \in Seq(Test), NEW t \in Seq(Test),
             \A u \in Test : Stripped(u) \in Test
      PROVE  Each(Stripped, s \o t) = Each(Stripped, s) \o Each(Stripped, t)
  <2> HIDE DEF Test
  <2>1. \A u \in Seq(Test) : /\ Each(Stripped, u) = [i \in 1 .. Len(u) |-> Stripped(u[i])]
                             /\ \A i \in 1 .. Len(u) : Stripped(u[i]) \in Test
    BY <1>3 DEF Each
  <2>2. ASSUME NEW u \in Seq(Test)
        PROVE  /\ Each(Stripped, u) \in Seq(Test)
               /\ Len(Each(Stripped, u)) = Len(u)
               /\ \A i \in 1 .. Len(u) : Each(Stripped, u)[i] = Stripped(u[i])
    <3>1. Each(Stripped, u) \in [1 .. Len(u) -> Test]
      BY <2>1
    <3>2. Len(u) \in Nat
      OBVIOUS
    <3>3. \A n \in Nat : \A f \in [1 .. n -> Test] : f \in Seq(Test) /\ Len(f) = n
      OBVIOUS
    <3>4. Each(Stripped, u) \in Seq(Test) /\ Len(Each(Stripped, u)) = Len(u)
      BY <3>1, <3>2, <3>3
    <3> QED
      BY <2>1, <3>4
  <2>3. s \o t \in Seq(Test) /\ Len(s \o t) = Len(s) + Len(t)
    OBVIOUS
  <2> DEFINE a == Each(Stripped, s)
             b == Each(Stripped, t)
             c == Each(Stripped, s \o t)
  <2>4. /\ a \in Seq(Test) /\ b \in Seq(Test) /\ c \in Seq(Test)
        /\ Len(a) = Len(s) /\ Len(b) = Len(t) /\ Len(c) = Len(s) + Len(t)
        /\ \A i \in 1 .. Len(s) : a[i] = Stripped(s[i])
        /\ \A i \in 1 .. Len(t) : b[i] = Stripped(t[i])
        /\ \A i \in 1 .. Len(s) + Len(t) : c[i] = Stripped((s \o t)[i])
    BY <2>2, <2>3
  <2> HIDE DEF a, b, c
  <2>5. ASSUME NEW i \in 1 .. Len(c) PROVE c[i] = (a \o b)[i]
    <3>1. CASE i <= Len(s)
      BY <2>4, <3>1
    <3>2. CASE i > Len(s)
      <4>1. /\ i - Len(s) \in 1 .. Len(t) /\ (s \o t)[i] = t[i - Len(s)]
            /\ (a \o b)[i] = b[i - Len(s)]
        BY <2>4, <3>2
      <4> QED
        BY <2>4, <4>1
    <3> QED
      BY <2>4, <3>1, <3>2
  <2>6. a \o b \in Seq(Test) /\ Len(a \o b) = Len(c)
    <3>1. a \in Seq(Test) /\ b \in Seq(Test)
      BY <2>4
    <3>2. a \o b \in Seq(Test) /\ Len(a \o b) = Len(a) + Len(b)
      BY <3>1
    <3> QED
      BY <2>4, <3>2
  <2>7. c = a \o b
    BY <2>4, <2>5, <2>6
  <2> QED
    BY <2>7 DEF a, b, c
<1>4. \A name \in Texts \cup Paths : Strip(name) \in Texts \cup Paths
  BY StripTwice
<1>5. ASSUME NEW u \in Test PROVE Stripped(u) \in Test
  <2>1. u.name \in Texts \cup Paths /\ u.params \in Seq(Texts)
    OBVIOUS
  <2>2. Each(Strip, u.params) \in Seq(Texts) /\ Strip(u.name) \in Texts \cup Paths
    BY <1>4, <2>1, StrippedTexts
  <2> QED
    BY <2>2 DEF Stripped
<1>6. OrEmpty(req.basic) \in Seq(Test) /\ OrEmpty(req.custom) \in Seq(Test)
  BY <1>1, StrippedLists
<1>7. TestsOf(Validated(req)) = Each(Stripped, TestsOf(req))
  <2> HIDE DEF Test
  <2> QED
    BY <1>3, <1>5, <1>6, StrippedLists DEF TestsOf
<1> QED
  BY <1>2, <1>4, <1>7 DEF Tests

-----------------------------------------------------------------------------
(* The worker validates again.                                             *)

(* A list of tests is valid when every test of it is.                      *)
LEMMA RangeOfTests ==
    ASSUME NEW Names, NEW s \in Tests(Names)
    PROVE  /\ Range(s) \subseteq [name : Names, params : Seq(Texts)]
           /\ \A test \in Range(s) : \E i \in 1 .. Len(s) : test = s[i]
           /\ \A i \in 1 .. Len(s) : s[i] \in Range(s)
<1> DEFINE Test == [name : Names, params : Seq(Texts)]
<1>1. s \in Seq(Test)
  BY DEF Tests
<1> HIDE DEF Test
<1>2. Range(s) = {s[i] : i \in 1 .. Len(s)}
  BY <1>1 DEF Range
<1>3. \A i \in 1 .. Len(s) : s[i] \in Test
  BY <1>1
<1> QED
  BY <1>2, <1>3 DEF Test

(* A test that is valid is valid after it was stripped.                    *)
LEMMA StrippedStillValid ==
    ASSUME NEW test \in [name : Texts \cup Paths, params : Seq(Texts)], NamesValid(test)
    PROVE  NamesValid(Stripped(test))
<1>1. test.params \in Seq(Texts)
  OBVIOUS
<1>2. /\ Stripped(test).name = Strip(test.name)
      /\ Stripped(test).params = Each(Strip, test.params)
  BY DEF Stripped
<1>3. DOMAIN Each(Strip, test.params) = DOMAIN test.params
  BY DEF Each
<1>4. \A i \in DOMAIN test.params : Each(Strip, test.params)[i] = Strip(test.params[i])
  BY DEF Each
<1>5. Strip(Strip(test.name)) = Strip(test.name)
  BY StripTwice, Zenon
<1>6. \A i \in DOMAIN test.params : Strip(Strip(test.params[i])) = Strip(test.params[i])
  BY StripTwice, Zenon
<1>7. Strip(test.name) # "" /\ \A i \in DOMAIN test.params : Strip(test.params[i]) # ""
  BY DEF NamesValid
<1> QED
  BY <1>2, <1>3, <1>4, <1>5, <1>6, <1>7, Zenon DEF NamesValid

(* What the API accepts is accepted again, and nothing of it is changed.   *)
LEMMA ValidatedTwice ==
    ASSUME NEW req \in Requests, Valid(req)
    PROVE  /\ Valid(Payload(Validated(req)).plan)
           /\ Validated(Payload(Validated(req)).plan) = Payload(Validated(req)).plan
<1> DEFINE v == Validated(req)
           plan == Payload(v).plan
<1>1. v \in Requests
  BY ValidatedType
<1>2. /\ plan = [preset |-> v.preset, threads |-> v.threads, basic |-> v.basic,
                 custom |-> v.custom, prompts |-> v.prompts, path |-> <<>>]
      /\ plan.preset = v.preset /\ plan.threads = v.threads /\ plan.basic = v.basic
      /\ plan.custom = v.custom /\ plan.prompts = v.prompts /\ plan.path = <<>>
  BY DEF Payload
<1>3. plan \in Requests
  BY <1>1, <1>2, NoneOrOne DEF Requests
<1>4. v.preset = req.preset /\ v.threads = req.threads
  BY ValidatedFields
<1>5. /\ TestsOf(v) = Each(Stripped, TestsOf(req)) /\ TestsOf(plan) = TestsOf(v)
      /\ OrEmpty(v.custom) = Each(Stripped, OrEmpty(req.custom))
  BY <1>2, AllTests, StrippedLists DEF TestsOf
<1> HIDE DEF v, plan
<1>6. \A test \in Range(TestsOf(plan)) : NamesValid(test)
  <2> SUFFICES ASSUME NEW test \in Range(TestsOf(plan)) PROVE NamesValid(test)
    OBVIOUS
  <2>1. PICK i \in DOMAIN TestsOf(req) : test = Stripped(TestsOf(req)[i])
    BY <1>5 DEF Range, Each
  <2>2. TestsOf(req)[i] \in Range(TestsOf(req))
    BY DEF Range
  <2>3. /\ TestsOf(req)[i] \in [name : Texts \cup Paths, params : Seq(Texts)]
        /\ NamesValid(TestsOf(req)[i])
    BY <2>2, AllTests, RangeOfTests DEF Valid
  <2> QED
    BY <2>1, <2>3, StrippedStillValid
<1>7. \A test \in Range(OrEmpty(plan.custom)) : AllowedPath(test.name)
  <2> SUFFICES ASSUME NEW test \in Range(OrEmpty(plan.custom)) PROVE AllowedPath(test.name)
    OBVIOUS
  <2>1. PICK i \in DOMAIN OrEmpty(req.custom) : test = Stripped(OrEmpty(req.custom)[i])
    BY <1>2, <1>5 DEF Range, Each
  <2>2. OrEmpty(req.custom)[i] \in Range(OrEmpty(req.custom))
    BY DEF Range
  <2>3. OrEmpty(req.custom)[i].name \in Paths
    BY <2>2, StrippedLists, RangeOfTests, SMTT(30)
  <2>4. AllowedPath(OrEmpty(req.custom)[i].name)
    BY <2>2 DEF Valid
  <2> QED
    BY <2>1, <2>3, <2>4, StripTwice DEF Stripped
<1>8. Range(plan.path) = {}
  BY <1>2 DEF Range
<1>9. Valid(plan)
  BY <1>2, <1>4, <1>6, <1>7, <1>8 DEF Valid
<1>10. /\ StrippedOptional(plan.basic) = plan.basic
       /\ StrippedOptional(plan.custom) = plan.custom
  <2>1. v.basic = StrippedOptional(req.basic) /\ v.custom = StrippedOptional(req.custom)
    BY ValidatedFields DEF v
  <2>2. /\ StrippedOptional(v.basic) = v.basic
        /\ StrippedOptional(v.custom) = v.custom
    BY <2>1, RequestFields, StrippedOptionals, StripTwice
  <2> QED
    BY <1>2, <2>2
<1>11. (IF plan.prompts = <<>> THEN <<>> ELSE CleanPrompts(plan.prompts[1])) = plan.prompts
  <2>1. v.prompts = IF req.prompts = <<>> THEN <<>> ELSE CleanPrompts(req.prompts[1])
    BY ValidatedFields DEF v
  <2>2. req.prompts = <<>> \/ \E s \in Seq(Texts) : req.prompts = <<s>>
    BY RequestFields, NoneOrOne
  <2>3. \A s \in Seq(Texts) :
           CleanPrompts(s) # <<>> => CleanPrompts(CleanPrompts(s)[1]) = CleanPrompts(s)
    BY CleanedPrompts
  <2> QED
    BY <1>2, <2>1, <2>2, <2>3
<1>12. Validated(plan) = plan
  <2>1. Validated(plan) = [plan EXCEPT !.basic = StrippedOptional(plan.basic),
                                       !.custom = StrippedOptional(plan.custom),
                                       !.prompts = IF plan.prompts = <<>> THEN <<>>
                                                   ELSE CleanPrompts(plan.prompts[1])]
    BY <1>3 DEF Validated, StrippedOptional, Each, Requests
  <2>2. Validated(plan) = [plan EXCEPT !.basic = plan.basic, !.custom = plan.custom,
                                       !.prompts = plan.prompts]
    BY <1>10, <1>11, <2>1, Zenon
  <2>3. [plan EXCEPT !.basic = plan.basic, !.custom = plan.custom,
                     !.prompts = plan.prompts] = plan
    BY <1>3 DEF Requests
  <2> QED
    BY <2>2, <2>3
<1> QED
  BY <1>9, <1>12 DEF plan, v

-----------------------------------------------------------------------------
(* The rules, as RefusedForCause has them.                                 *)
Repeats(test) ==
    \E m, n \in DOMAIN test.params : m # n /\ Strip(test.params[m]) = Strip(test.params[n])

Blank(test) == \E text \in {test.name} \cup Range(test.params) : Strip(text) = ""

Malformed(req) ==
    \/ \E test \in Range(TestsOf(req)) : Blank(test)
    \/ \E test \in Range(OrEmpty(req.custom)) : test.name = "os.x"
    \/ \E name \in Range(req.preset) : Strip(name) = ""
    \/ req.threads = <<0>> \/ req.path = <<"..">>

Repeated(req) == \E test \in Range(TestsOf(req)) : Repeats(test)

(* The names are unique in the validated copy when no two of the names     *)
(* that were sent are the same but for the blanks around them.             *)
LEMMA UniqueAfterStripping ==
    ASSUME NEW req \in Requests
    PROVE  UniqueParamNames(Validated(req)) <=>
              \A test \in Range(TestsOf(req)) : ~Repeats(test)
<1> DEFINE tests == TestsOf(req)
<1>1. TestsOf(Validated(req)) = Each(Stripped, tests)
  BY AllTests
<1>2. /\ DOMAIN Each(Stripped, tests) = DOMAIN tests
      /\ \A i \in DOMAIN tests : Each(Stripped, tests)[i].params = Each(Strip, tests[i].params)
  BY DEF Each, Stripped
<1>3. ASSUME NEW p
      PROVE  IsInjective(Each(Strip, p)) <=>
                \A m, n \in DOMAIN p : Strip(p[m]) = Strip(p[n]) => m = n
  BY DEF IsInjective, Each
<1>4. UniqueParamNames(Validated(req)) <=>
         \A i \in DOMAIN tests : ~Repeats(tests[i])
  <2>1. UniqueParamNames(Validated(req)) <=>
           \A i \in DOMAIN tests : IsInjective(Each(Strip, tests[i].params))
    BY <1>1, <1>2, Zenon DEF UniqueParamNames
  <2>2. ASSUME NEW i \in DOMAIN tests
        PROVE  IsInjective(Each(Strip, tests[i].params)) <=> ~Repeats(tests[i])
    BY <1>3 DEF Repeats
  <2> QED
    BY <2>1, <2>2, Zenon
<1> QED
  BY <1>4 DEF Range

(* A test has no blank name exactly when it passes the validators.         *)
LEMMA BlankNames ==
    ASSUME NEW test
    PROVE  NamesValid(test) <=> ~Blank(test)
BY DEF NamesValid, Blank, Range

(* The rules of README.md:363-382 are what Valid and UniqueParamNames      *)
(* check.                                                                  *)
LEMMA RulesOfRequests ==
    ASSUME NEW req \in Requests
    PROVE  /\ Malformed(req) <=> ~Valid(req)
           /\ Repeated(req) <=> ~UniqueParamNames(Validated(req))
<1>1. (\E test \in Range(TestsOf(req)) : Blank(test)) <=>
      ~\A test \in Range(TestsOf(req)) : NamesValid(test)
  BY BlankNames
<1>2. ASSUME NEW test \in Range(OrEmpty(req.custom))
      PROVE  test.name = "os.x" <=> ~AllowedPath(test.name)
  BY StrippedLists, RangeOfTests DEF AllowedPath
<1>3. req.threads = <<0>> <=> ~\A n \in Range(req.threads) : n >= 1
  <2>1. req.threads = <<>> \/ \E n \in Nat : req.threads = <<n>>
    BY RequestFields, NoneOrOne
  <2>2. \A n : Range(<<n>>) = {n} /\ <<n>>[1] = n
    BY DEF Range
  <2>3. Range(<<>>) = {} /\ \A n : <<>> # <<n>>
    BY DEF Range
  <2>4. \A n \in Nat : n = 0 <=> ~(n >= 1)
    OBVIOUS
  <2>5. CASE req.threads = <<>>
    BY <2>3, <2>5
  <2>6. ASSUME NEW n \in Nat, req.threads = <<n>>
        PROVE  req.threads = <<0>> <=> ~\A k \in Range(req.threads) : k >= 1
    <3>1. <<n>> = <<0>> <=> n = 0
      BY <2>2
    <3> QED
      BY <2>2, <2>4, <2>6, <3>1
  <2> QED
    BY <2>1, <2>5, <2>6
<1>4. req.path = <<"..">> <=> ~\A path \in Range(req.path) : SafePath(path)
  <2>1. req.path = <<>> \/ \E path \in {"d", ".."} : req.path = <<path>>
    BY RequestFields, NoneOrOne
  <2>2. \A path : Range(<<path>>) = {path} /\ <<path>>[1] = path
    BY DEF Range
  <2>3. Range(<<>>) = {} /\ \A path : <<>> # <<path>>
    BY DEF Range
  <2>4. CASE req.path = <<>>
    BY <2>3, <2>4
  <2>5. ASSUME NEW path \in {"d", ".."}, req.path = <<path>>
        PROVE  req.path = <<"..">> <=> ~\A q \in Range(req.path) : SafePath(q)
    <3>1. <<path>> = <<"..">> <=> path = ".."
      BY <2>2
    <3> QED
      BY <2>2, <2>5, <3>1 DEF SafePath
  <2> QED
    BY <2>1, <2>4, <2>5
<1>5. Malformed(req) <=> ~Valid(req)
  BY <1>1, <1>2, <1>3, <1>4 DEF Malformed, Valid
<1>6. Repeated(req) <=> ~UniqueParamNames(Validated(req))
  BY UniqueAfterStripping DEF Repeated
<1> QED
  BY <1>5, <1>6

-----------------------------------------------------------------------------
(* The invariant.                                                          *)
USE DEF copies, Stages

(* No request has come.                                                    *)
LEMMA RequestInvInit == RequestInit => RequestInv
BY DEF RequestInit, RequestInv, StageInv, RefusedInv, NothingMade, NothingLeft, NothingSent,
       NothingRead, NothingRun, Unanswered

(* The worker reads what the API has sent.                                 *)
LEMMA ReadAsSent ==
    ASSUME NEW req \in Requests, Valid(req), NEW sent, sent = Payload(Validated(req))
    PROVE  Valid(sent.plan) /\ [sent EXCEPT !.plan = Validated(@)] = sent
<1>1. Valid(sent.plan) /\ Validated(sent.plan) = sent.plan
  BY ValidatedTwice
<1>2. [sent EXCEPT !.plan = sent.plan] = sent
  BY DEF Payload
<1> QED
  BY <1>1, <1>2

(* Every hand-over keeps the invariant.                                    *)
LEMMA RequestInvStep == RequestInv /\ [RequestNext]_requestVars => RequestInv'
<1> SUFFICES ASSUME RequestInv, [RequestNext]_requestVars PROVE RequestInv'
  OBVIOUS
<1>1. CASE Receive
  BY <1>1 DEF Receive, GoOn, RequestInv, StageInv, RefusedInv, NothingMade, NothingLeft,
              NothingSent, NothingRead, NothingRun, Unanswered
<1>2. CASE Validate
  <2>1. /\ stage = "validate" /\ request \in RawRequests /\ urlsValid \in BOOLEAN
        /\ NothingMade /\ Unanswered
    BY <1>2 DEF Validate, RequestInv, StageInv
  <2>2. CASE ~Valid(request) /\ Refuse(422)
    BY <2>1, <2>2 DEF Refuse, RequestInv, StageInv, RefusedInv, NothingMade, NothingLeft,
                      NothingSent, NothingRead, NothingRun, Unanswered
  <2>3. CASE Valid(request)
    BY <1>2, <2>1, <2>3 DEF Validate, Refuse, RequestInv, StageInv, RefusedInv, Accepted,
                      NothingMade, NothingLeft, NothingSent, NothingRead, NothingRun, Unanswered
  <2> QED
    BY <1>2, <2>2, <2>3 DEF Validate, Refuse
<1>3. CASE Check
  <2>1. /\ stage = "check" /\ request \in RawRequests /\ urlsValid \in BOOLEAN
        /\ Accepted /\ NothingLeft /\ Unanswered
    BY <1>3 DEF Check, RequestInv, StageInv
  <2>2. UNCHANGED <<urlsValid, request, copies, redisRaised>>
    BY <1>3 DEF Check, Refuse
  <2>3. Accepted' /\ NothingLeft'
    BY <2>1, <2>2 DEF Accepted, NothingLeft, NothingSent, NothingRead, NothingRun
  <2>4. CASE ~UniqueParamNames(model) /\ Refuse(400)
    BY <2>1, <2>2, <2>3, <2>4 DEF Refuse, RequestInv, StageInv, RefusedInv, Unanswered
  <2>5. CASE UniqueParamNames(model) /\ stage' = "submit" /\ answer' = answer
    BY <2>1, <2>2, <2>3, <2>5 DEF RequestInv, StageInv, RefusedInv, NamesDiffer, Unanswered
  <2> QED
    BY <1>3, <2>4, <2>5 DEF Check
<1>4. CASE Submit
  <2>1. /\ stage = "submit" /\ request \in RawRequests /\ urlsValid \in BOOLEAN
        /\ NamesDiffer /\ NothingLeft /\ Unanswered
    BY <1>4 DEF Submit, RequestInv, StageInv
  <2>2. UNCHANGED <<urlsValid, request, model, payload, inputs, arguments>>
    BY <1>4 DEF Submit, Refuse
  <2>3. NamesDiffer' /\ NothingSent'
    BY <2>1, <2>2 DEF Accepted, NamesDiffer, NothingLeft, NothingSent, NothingRead, NothingRun
  <2>4. CASE ~ClientsValid /\ Refuse(500)
    BY <2>1, <2>2, <2>3, <2>4 DEF Refuse, ClientsValid, RequestInv, StageInv, RefusedInv,
                                  NothingLeft, Unanswered
  <2>5. CASE /\ ClientsValid /\ stage' = "enqueue" /\ record' = Redact(model)
             /\ UNCHANGED <<answer, redisRaised>>
    BY <2>1, <2>2, <2>3, <2>5 DEF ClientsValid, RequestInv, StageInv, RefusedInv, Recorded,
                                  Unanswered
  <2>6. CASE /\ ClientsValid /\ stage' = "refused" /\ record' \in {record, Redact(model)}
             /\ answer' = 500 /\ redisRaised' = TRUE
    <3>1. record' \in {<<>>, Redact(model')}
      BY <2>1, <2>2, <2>6 DEF NothingLeft
    <3> QED
      BY <2>1, <2>2, <2>3, <2>6, <3>1 DEF ClientsValid, RequestInv, StageInv, RefusedInv
  <2> QED
    BY <1>4, <2>4, <2>5, <2>6 DEF Submit
<1>5. CASE Enqueue
  <2>1. /\ stage = "enqueue" /\ request \in RawRequests /\ urlsValid \in BOOLEAN
        /\ Recorded /\ NothingSent /\ Unanswered
    BY <1>5 DEF Enqueue, RequestInv, StageInv
  <2>2. /\ UNCHANGED <<urlsValid, request, model, record, inputs, arguments>>
        /\ Recorded' /\ NothingRead'
    BY <1>5, <2>1 DEF Enqueue, Recorded, NamesDiffer, Accepted, NothingSent, NothingRead,
                      NothingRun
  <2>3. CASE stage' = "revalidate"
    <3>1. Enqueued'
      BY <1>5, <2>1, <2>2, <2>3 DEF Enqueue, Enqueued, Unanswered
    <3> QED
      BY <2>1, <2>2, <2>3, <3>1 DEF RequestInv, StageInv, RefusedInv
  <2>4. CASE stage' = "refused"
    <3>1. answer' = 500 /\ redisRaised' = TRUE /\ NothingSent'
      BY <1>5, <2>1, <2>2, <2>4 DEF Enqueue, NothingSent
    <3> QED
      BY <2>1, <2>2, <2>4, <3>1 DEF RequestInv, StageInv, RefusedInv, Recorded, NamesDiffer
  <2> QED
    BY <1>5, <2>3, <2>4 DEF Enqueue
<1>6. CASE FromPayload
  <2>1. /\ stage = "revalidate" /\ request \in RawRequests /\ urlsValid \in BOOLEAN
        /\ Enqueued /\ NothingRead
    BY <1>6 DEF FromPayload, RequestInv, StageInv
  <2>2. Valid(payload.plan) /\ [payload EXCEPT !.plan = Validated(@)] = payload
    BY <2>1, ReadAsSent, RequestAssumption DEF Enqueued, Recorded, NamesDiffer, Accepted
  <2>3. /\ stage' = "resolve" /\ inputs' = payload
        /\ UNCHANGED <<urlsValid, request, model, record, payload, arguments, answer, redisRaised>>
    BY <1>6, <2>2 DEF FromPayload
  <2>4. Read' /\ NothingRun'
    BY <2>1, <2>3 DEF Read, Enqueued, Recorded, NamesDiffer, Accepted, NothingRead, NothingRun
  <2> QED
    BY <2>1, <2>3, <2>4 DEF RequestInv, StageInv, RefusedInv
<1>7. CASE Run
  <2>1. /\ stage = "resolve" /\ request \in RawRequests /\ urlsValid \in BOOLEAN
        /\ Read /\ NothingRun
    BY <1>7 DEF Run, RequestInv, StageInv
  <2>2. Read' /\ UNCHANGED <<urlsValid, request, inputs>>
    BY <1>7, <2>1 DEF Run, Read, Enqueued, Recorded, NamesDiffer, Accepted
  <2>3. CASE ~Resolvable(inputs.plan) /\ stage' = "failed" /\ UNCHANGED arguments
    BY <2>1, <2>2, <2>3 DEF RequestInv, StageInv, RefusedInv, NothingRun
  <2>4. CASE /\ Resolvable(inputs.plan) /\ stage' = "handed"
             /\ arguments' = ResolveTests(inputs.plan)
    BY <2>1, <2>2, <2>4 DEF RequestInv, StageInv, RefusedInv
  <2> QED
    BY <1>7, <2>3, <2>4 DEF Run
<1>8. CASE UNCHANGED requestVars
  BY <1>8 DEF requestVars, RequestInv, StageInv, RefusedInv, Accepted, NamesDiffer, Recorded,
              Enqueued, Read, NothingMade, NothingLeft, NothingSent, NothingRead, NothingRun,
              Unanswered
<1> QED
  BY <1>1, <1>2, <1>3, <1>4, <1>5, <1>6, <1>7, <1>8 DEF RequestNext

(* So it holds in every reachable state.                                   *)
LEMMA RequestInvHolds == RequestSpec => []RequestInv
BY RequestInvInit, RequestInvStep, PTL DEF RequestSpec

(* The second validation, in the worker, agrees with the first.            *)
THEOREM SameRequestInBothProcesses == RequestSpec => []RevalidationAgrees
<1>1. RequestInv => RevalidationAgrees
  <2> SUFFICES ASSUME RequestInv, stage \in {"resolve", "handed", "failed"}
               PROVE  inputs # <<>> /\ inputs = Payload(model)
    BY DEF RevalidationAgrees
  <2>1. inputs = Payload(model)
    BY DEF RequestInv, StageInv, Read, Enqueued
  <2>2. DOMAIN inputs = {"plan", "dir"}
    BY <2>1 DEF Payload
  <2>3. DOMAIN <<>> = {}
    OBVIOUS
  <2> QED
    BY <2>1, <2>2, <2>3
<1> QED
  BY <1>1, RequestInvHolds, PTL

(* What is refused before submit writes has left nothing, and a job has a  *)
(* record even when its client is told 500, whatever requests are sent.    *)
THEOREM RefusalsLeaveNothing == RequestSpec => []RefusedLeavesNothing
<1>1. RequestInv => RefusedLeavesNothing
  <2> SUFFICES ASSUME RequestInv PROVE RefusedLeavesNothing
    OBVIOUS
  <2>1. ASSUME answer \in {400, 422, 500}, ~redisRaised
        PROVE  record = <<>> /\ payload = <<>>
    BY <2>1 DEF RequestInv, StageInv, RefusedInv, NothingMade, NothingLeft, NothingSent,
                Unanswered, Enqueued, Read
  <2>2. ASSUME payload # <<>>
        PROVE  record = Redact(model)
    BY <2>2 DEF RequestInv, StageInv, RefusedInv, NothingMade, NothingLeft, NothingSent,
                Recorded, Enqueued, Read
  <2> QED
    BY <2>1, <2>2 DEF RefusedLeavesNothing
<1> QED
  BY <1>1, RequestInvHolds, PTL

(* Every answer has its cause, whatever requests are sent and whenever     *)
(* Redis fails.                                                            *)
THEOREM RefusalsHaveACause == RequestSpec => []RefusedForCause
<1>1. RequestInv => RefusedForCause
  <2> SUFFICES ASSUME RequestInv, answer # 0
               PROVE  /\ answer = 422 <=> Malformed(request)
                      /\ answer = 400 <=> ~Malformed(request) /\ Repeated(request)
                      /\ answer = 500 <=> ~Malformed(request) /\ ~Repeated(request)
                                            /\ (~urlsValid \/ redisRaised)
    BY DEF RefusedForCause, Malformed, Repeated, Repeats, Blank
  <2>1. request \in Requests
    BY RequestAssumption DEF RequestInv, Unanswered
  <2>2. /\ Malformed(request) <=> ~Valid(request)
        /\ Repeated(request) <=> ~UniqueParamNames(Validated(request))
    BY <2>1, RulesOfRequests
  <2>3. NamesDiffer => Valid(request) /\ UniqueParamNames(Validated(request))
    BY DEF NamesDiffer, Accepted
  <2>4. \/ answer = 422 /\ ~Valid(request)
        \/ answer = 400 /\ Valid(request) /\ ~UniqueParamNames(Validated(request))
        \/ answer = 500 /\ NamesDiffer /\ (~urlsValid \/ redisRaised)
        \/ answer = 200 /\ NamesDiffer /\ urlsValid /\ ~redisRaised
    BY DEF RequestInv, StageInv, RefusedInv, Unanswered, Accepted, Recorded, Enqueued, Read,
           Stages
  <2> QED
    BY <2>2, <2>3, <2>4
<1> QED
  BY <1>1, RequestInvHolds, PTL

(* Copies appear with their stages, and validated names are stripped.      *)
THEOREM RequestTypeCorrect == RequestSpec => []RequestTypeOK
<1>1. RequestInv => RequestTypeOK
  <2> SUFFICES ASSUME RequestInv PROVE RequestTypeOK
    OBVIOUS
  <2>1. ASSUME model # <<>>, NEW test \in Range(TestsOf(model))
        PROVE  Range(test.params) \subseteq {"x", "y"}
    <3>1. Accepted /\ request \in Requests
      BY <2>1, RequestAssumption
         DEF RequestInv, StageInv, RefusedInv, NothingMade, NamesDiffer, Recorded, Enqueued,
             Read
    <3>2. PICK i \in DOMAIN TestsOf(request) : test = Stripped(TestsOf(request)[i])
      BY <3>1, AllTests DEF Range, Each, Accepted
    <3> DEFINE of == TestsOf(request)[i]
    <3>3. of \in Range(TestsOf(request))
      BY DEF Range
    <3>4. of \in [name : Texts \cup Paths, params : Seq(Texts)] /\ NamesValid(of)
      BY <3>1, <3>3, AllTests, RangeOfTests DEF Valid, Accepted
    <3>5. test.params = Each(Strip, of.params) /\ of.params \in Seq(Texts)
      BY <3>2, <3>4 DEF Stripped
    <3> HIDE DEF of
    <3>6. Range(test.params) = {Strip(of.params[n]) : n \in DOMAIN of.params}
      BY <3>5 DEF Range, Each
    <3>7. \A n \in DOMAIN of.params : of.params[n] \in Texts
      BY <3>5
    <3>8. \A n \in DOMAIN of.params : Strip(of.params[n]) \in {"x", "y", ""}
      BY <3>7, StripTwice
    <3> QED
      BY <3>4, <3>6, <3>8 DEF NamesValid
  <2>2. (payload # <<>>) = (stage \in {"revalidate", "resolve", "handed", "failed"})
    <3>1. Payload(model) # <<>>
      <4>1. DOMAIN Payload(model) = {"plan", "dir"} /\ DOMAIN <<>> = {}
        BY DEF Payload
      <4> QED
        BY <4>1
    <3> QED
      BY <3>1 DEF RequestInv, StageInv, RefusedInv, NothingMade, NothingLeft, NothingSent,
                  Enqueued, Read
  <2>3. (arguments # <<>>) = (stage = "handed")
    <3>1. ResolveTests(inputs.plan) # <<>>
      <4>1. DOMAIN ResolveTests(inputs.plan) = {"basic", "custom"} /\ DOMAIN <<>> = {}
        BY DEF ResolveTests
      <4> QED
        BY <4>1
    <3> QED
      BY <3>1 DEF RequestInv, StageInv, RefusedInv, NothingMade, NothingLeft, NothingSent,
                  NothingRead, NothingRun
  <2>4. answer \in {0, 200, 400, 422, 500} /\ redisRaised \in BOOLEAN
    <3>1. CASE Read \/ Enqueued
      BY <3>1 DEF Read, Enqueued
    <3>2. CASE Unanswered
      BY <3>2 DEF Unanswered
    <3>3. CASE stage = "refused"
      BY <3>3 DEF RequestInv, RefusedInv
    <3> QED
      BY <3>1, <3>2, <3>3 DEF RequestInv, StageInv
  <2>5. request \in RawRequests \cup {<<>>} /\ stage \in Stages /\ urlsValid \in BOOLEAN
    BY DEF RequestInv
  <2> QED
    BY <2>1, <2>2, <2>3, <2>4, <2>5 DEF RequestTypeOK
<1> QED
  BY <1>1, RequestInvHolds, PTL

-----------------------------------------------------------------------------
(* What LLAMATOR is handed.                                                *)

(* The tests of a preset, and the tests a plan was resolved into.          *)
PresetTests(preset) == IF preset = <<>> THEN <<>> ELSE Presets[Strip(preset[1])]

Resolved ==
    {[name |-> "preset", params |-> <<>>]}
        \cup {ResolvedTest(test) : test \in [name : Texts \cup Paths, params : Seq(Texts)]}

(* The tests of a preset are resolved tests.                               *)
LEMMA PresetTestsType ==
    ASSUME NEW plan \in Requests, Resolvable(plan)
    PROVE  PresetTests(plan.preset) \in Seq(Resolved)
<1>1. plan.preset = <<>> \/ \E name \in Texts : plan.preset = <<name>>
  BY RequestFields, NoneOrOne
<1>2. CASE plan.preset = <<>>
  BY <1>2 DEF PresetTests
<1>3. ASSUME NEW name \in Texts, plan.preset = <<name>>
      PROVE  PresetTests(plan.preset) \in Seq(Resolved)
  <2>1. plan.preset[1] = name /\ 1 \in DOMAIN plan.preset /\ plan.preset # <<>>
    BY <1>3
  <2>2. Strip(name) \in DOMAIN Presets
    BY <2>1 DEF Resolvable
  <2>3. Presets[Strip(name)] = << [name |-> "preset", params |-> <<>>] >>
    BY <2>2 DEF Presets
  <2>4. [name |-> "preset", params |-> <<>>] \in Resolved
    BY DEF Resolved
  <2>5. \A x \in Resolved : <<x>> \in Seq(Resolved)
    OBVIOUS
  <2> QED
    BY <2>1, <2>3, <2>4, <2>5 DEF PresetTests
<1> QED
  BY <1>1, <1>2, <1>3

(* Resolving a list of tests item by item gives a list of resolved tests.  *)
LEMMA ResolvedTests ==
    ASSUME NEW s \in Tests(Texts) \cup Tests(Paths)
    PROVE  /\ Each(ResolvedTest, s) \in Seq(Resolved)
           /\ Len(Each(ResolvedTest, s)) = Len(s)
           /\ \A i \in 1 .. Len(s) : Each(ResolvedTest, s)[i] = ResolvedTest(s[i])
<1> DEFINE Test == [name : Texts \cup Paths, params : Seq(Texts)]
<1>1. s \in Seq(Test)
  BY EitherTests DEF Tests
<1>2. \A test \in Test : ResolvedTest(test) \in Resolved
  BY DEF Resolved
<1> HIDE DEF Test
<1>3. Each(ResolvedTest, s) = [i \in 1 .. Len(s) |-> ResolvedTest(s[i])]
  BY <1>1 DEF Each
<1>4. \A i \in 1 .. Len(s) : ResolvedTest(s[i]) \in Resolved
  BY <1>1, <1>2
<1>5. Each(ResolvedTest, s) \in [1 .. Len(s) -> Resolved] /\ Len(s) \in Nat
  BY <1>1, <1>3, <1>4
<1>6. \A n \in Nat : \A f \in [1 .. n -> Resolved] : f \in Seq(Resolved) /\ Len(f) = n
  OBVIOUS
<1> QED
  BY <1>3, <1>5, <1>6

(* What start_testing is called with, of the copy the API validated.       *)
LEMMA HandedTests ==
    ASSUME RequestInv, stage = "handed"
    PROVE  /\ request \in Requests /\ Valid(request) /\ model = Validated(request)
           /\ UniqueParamNames(model) /\ record = Redact(model)
           /\ PresetTests(model.preset) \in Seq(Resolved)
           /\ OrEmpty(arguments.basic) =
                 PresetTests(model.preset) \o Each(ResolvedTest, OrEmpty(model.basic))
           /\ OrEmpty(arguments.custom) = Each(ResolvedTest, OrEmpty(model.custom))
<1>1. /\ request \in RawRequests /\ Read /\ Resolvable(inputs.plan)
      /\ arguments = ResolveTests(inputs.plan)
  BY DEF RequestInv, StageInv
<1>2. /\ request \in Requests /\ Valid(request) /\ model = Validated(request)
      /\ UniqueParamNames(model) /\ record = Redact(model) /\ inputs = Payload(model)
  BY <1>1, RequestAssumption DEF Read, Enqueued, Recorded, NamesDiffer, Accepted
<1>3. /\ inputs.plan.preset = model.preset /\ inputs.plan.basic = model.basic
      /\ inputs.plan.custom = model.custom
  BY <1>2 DEF Payload
<1>4. inputs.plan \in Requests
  <2>1. model \in Requests
    BY <1>2, ValidatedType
  <2> QED
    BY <1>2, <2>1, NoneOrOne DEF Payload, Requests
<1>5. PresetTests(model.preset) \in Seq(Resolved)
  BY <1>1, <1>3, <1>4, PresetTestsType
<1>6. \A s : OrEmpty(IF s = <<>> THEN <<>> ELSE <<s>>) = s
  BY DEF OrEmpty
<1>7. /\ OrEmpty(arguments.basic) =
            PresetTests(model.preset) \o Each(ResolvedTest, OrEmpty(model.basic))
      /\ OrEmpty(arguments.custom) = Each(ResolvedTest, OrEmpty(model.custom))
  BY <1>1, <1>3, <1>6 DEF ResolveTests, PresetTests
<1> QED
  BY <1>2, <1>5, <1>7

(* The last item with a name is the only one.                              *)
LEMMA OwnValue ==
    ASSUME NEW p \in Seq(Texts), IsInjective(Each(Strip, p)), NEW n \in DOMAIN p
    PROVE  ParamsToDict(Each(Strip, p))[Strip(p[n])] = n
<1> DEFINE q == Each(Strip, p)
<1>1. DOMAIN q = DOMAIN p /\ q[n] = Strip(p[n])
  BY DEF Each
<1>2. \A i, h \in DOMAIN q : q[i] = q[h] => i = h
  BY DEF IsInjective
<1>3. q[n] \in Range(q)
  BY <1>1 DEF Range
<1> HIDE DEF q
<1>4. ParamsToDict(q)[q[n]] =
         CHOOSE i \in DOMAIN q : q[i] = q[n] /\ \A h \in DOMAIN q : q[h] = q[n] => h <= i
  BY <1>3 DEF ParamsToDict
<1>5. n <= n
  OBVIOUS
<1>6. /\ n \in DOMAIN q /\ q[n] = q[n]
      /\ \A h \in DOMAIN q : q[h] = q[n] => h <= n
      /\ \A i \in DOMAIN q : q[i] = q[n] => i = n
  BY <1>1, <1>2, <1>5, Zenon
<1>7. ParamsToDict(q)[q[n]] = n
  BY <1>4, <1>6, Zenon
<1> QED
  BY <1>1, <1>7 DEF q

(* The tests at the end of a list.                                         *)
LEMMA AtTheEnd ==
    ASSUME NEW X, NEW s \in Seq(X), NEW t \in Seq(X), NEW i \in 1 .. Len(t)
    PROVE  (s \o t)[Len(s \o t) - Len(t) + i] = t[i]
OBVIOUS

(* The values of a list of tests, as they are handed over.                 *)
LEMMA OwnValues ==
    ASSUME RequestInv, stage = "handed", NEW of,
           of \in {OrEmpty(request.basic), OrEmpty(request.custom)},
           NEW i \in DOMAIN of, NEW n \in DOMAIN of[i].params
    PROVE  /\ Len(Each(Stripped, of)) = Len(of) /\ i \in 1 .. Len(of)
           /\ Each(Stripped, of) \in Tests(Texts) \cup Tests(Paths)
           /\ ResolvedTest(Each(Stripped, of)[i]).params[Strip(of[i].params[n])] = n
<1>1. request \in Requests /\ model = Validated(request) /\ UniqueParamNames(model)
  BY HandedTests
<1>2. of \in Tests(Texts) \/ of \in Tests(Paths)
  BY <1>1, StrippedLists
<1>3. ASSUME NEW Names \in {Texts, Paths}, of \in Tests(Names)
      PROVE  /\ Each(Stripped, of) \in Tests(Names)
             /\ Len(Each(Stripped, of)) = Len(of) /\ i \in 1 .. Len(of)
             /\ Each(Stripped, of)[i].params = Each(Strip, of[i].params)
             /\ of[i] \in Range(of) /\ of[i].params \in Seq(Texts)
  <2>1. \A name \in Names : Strip(name) \in Names
    <3>1. CASE Names = Texts
      BY <3>1, StripTwice
    <3>2. CASE Names = Paths
      BY <3>2, StripTwice
    <3> QED
      BY <1>3, <3>1, <3>2
  <2>2. i \in 1 .. Len(of)
    BY <1>3 DEF Tests
  <2>3. of[i].params \in Seq(Texts)
    <3> DEFINE Test == [name : Names, params : Seq(Texts)]
    <3>1. of \in Seq(Test)
      BY <1>3 DEF Tests
    <3> HIDE DEF Test
    <3>2. of[i] \in Test
      BY <2>2, <3>1
    <3> QED
      BY <3>2 DEF Test
  <2> QED
    BY <1>3, <2>1, <2>2, <2>3, StrippedTests, RangeOfTests
<1>4. of[i] \in Range(TestsOf(request))
  <2>1. /\ OrEmpty(request.basic) \in Tests(Texts \cup Paths)
        /\ OrEmpty(request.custom) \in Tests(Texts \cup Paths)
    BY <1>1, StrippedLists, EitherTests
  <2>2. ASSUME NEW X, NEW s \in Seq(X), NEW t \in Seq(X)
        PROVE  Range(s) \subseteq Range(s \o t) /\ Range(t) \subseteq Range(s \o t)
    <3>1. ASSUME NEW k \in DOMAIN s
          PROVE  k \in DOMAIN (s \o t) /\ (s \o t)[k] = s[k]
      OBVIOUS
    <3>2. ASSUME NEW k \in DOMAIN t
          PROVE  \E h \in DOMAIN (s \o t) : (s \o t)[h] = t[k]
      <4>1. k \in 1 .. Len(t) /\ Len(s) \in Nat
        OBVIOUS
      <4>2. Len(s) + k \in DOMAIN (s \o t) /\ (s \o t)[Len(s) + k] = t[k]
        BY <4>1
      <4> QED
        BY <4>2
    <3> QED
      BY <3>1, <3>2, Zenon DEF Range
  <2>3. of[i] \in Range(of)
    BY <1>2, <1>3
  <2> QED
    BY <2>1, <2>2, <2>3 DEF TestsOf, Tests
<1>5. IsInjective(Each(Strip, of[i].params))
  <2>1. ~Repeats(of[i])
    BY <1>1, <1>4, UniqueAfterStripping
  <2> QED
    BY <2>1 DEF Repeats, IsInjective, Each
<1>6. ParamsToDict(Each(Strip, of[i].params))[Strip(of[i].params[n])] = n
  BY <1>2, <1>3, <1>5, OwnValue
<1> QED
  BY <1>2, <1>3, <1>6 DEF ResolvedTest

(* No parameter of a request is lost on the way, and none has the value of *)
(* another.                                                                *)
THEOREM EveryParameterArrives == RequestSpec => []NoParameterLost
<1>1. RequestInv => NoParameterLost
  <2> SUFFICES ASSUME RequestInv, stage = "handed" PROVE NoParameterLost
    BY DEF NoParameterLost
  <2> DEFINE Own(tests, of) ==
          \A i \in DOMAIN of : \A n \in DOMAIN of[i].params :
              tests[Len(tests) - Len(of) + i].params[Strip(of[i].params[n])] = n
  <2>1. request \in Requests /\ model = Validated(request)
    BY HandedTests
  <2>2. ASSUME NEW preset \in Seq(Resolved), NEW of,
               of \in {OrEmpty(request.basic), OrEmpty(request.custom)}
        PROVE  Own(preset \o Each(ResolvedTest, Each(Stripped, of)), of)
    <3> SUFFICES ASSUME NEW i \in DOMAIN of, NEW n \in DOMAIN of[i].params
                 PROVE  LET tests == preset \o Each(ResolvedTest, Each(Stripped, of))
                        IN  tests[Len(tests) - Len(of) + i].params[Strip(of[i].params[n])] = n
      OBVIOUS
    <3> DEFINE own == Each(ResolvedTest, Each(Stripped, of))
    <3>1. /\ Len(Each(Stripped, of)) = Len(of) /\ i \in 1 .. Len(of)
          /\ Each(Stripped, of) \in Tests(Texts) \cup Tests(Paths)
          /\ ResolvedTest(Each(Stripped, of)[i]).params[Strip(of[i].params[n])] = n
      BY <2>2, OwnValues
    <3>2. /\ own \in Seq(Resolved) /\ Len(own) = Len(of)
          /\ own[i] = ResolvedTest(Each(Stripped, of)[i])
      BY <3>1, ResolvedTests
    <3> HIDE DEF own
    <3>3. (preset \o own)[Len(preset \o own) - Len(own) + i] = own[i]
      BY <3>1, <3>2, AtTheEnd
    <3> QED
      BY <3>1, <3>2, <3>3 DEF own
  <2>3. /\ PresetTests(model.preset) \in Seq(Resolved)
        /\ OrEmpty(arguments.basic) = PresetTests(model.preset)
                \o Each(ResolvedTest, Each(Stripped, OrEmpty(request.basic)))
        /\ OrEmpty(arguments.custom) = Each(ResolvedTest, Each(Stripped, OrEmpty(request.custom)))
    BY <2>1, HandedTests, StrippedLists
  <2>4. Own(OrEmpty(arguments.basic), OrEmpty(request.basic))
    BY <2>2, <2>3
  <2>5. Own(OrEmpty(arguments.custom), OrEmpty(request.custom))
    <3>1. \A s \in Seq(Resolved) : <<>> \o s = s
      OBVIOUS
    <3>2. <<>> \in Seq(Resolved)
      OBVIOUS
    <3>3. Each(ResolvedTest, Each(Stripped, OrEmpty(request.custom))) \in Seq(Resolved)
      BY <2>1, AllTests, StrippedLists, ResolvedTests, HandedTests, ValidatedType
    <3> HIDE DEF Own
    <3> QED
      BY <2>2, <2>3, <3>1, <3>2, <3>3
  <2> QED
    BY <2>4, <2>5 DEF NoParameterLost
<1> QED
  BY <1>1, RequestInvHolds, PTL

(* The plan in the record is the plan that is run.                         *)
THEOREM RecordsTellTheRun == RequestSpec => []RecordTellsTheRun
<1>1. RequestInv => RecordTellsTheRun
  <2> SUFFICES ASSUME RequestInv, stage = "handed" PROVE RecordTellsTheRun
    BY DEF RecordTellsTheRun
  <2>1. /\ record = Redact(model)
        /\ OrEmpty(arguments.basic) =
              PresetTests(model.preset) \o Each(ResolvedTest, OrEmpty(model.basic))
        /\ OrEmpty(arguments.custom) = Each(ResolvedTest, OrEmpty(model.custom))
    BY HandedTests
  <2>2. /\ record.preset = model.preset /\ record.basic = OrEmpty(model.basic)
        /\ record.custom = OrEmpty(model.custom)
    BY <2>1 DEF Redact
  <2> QED
    BY <2>1, <2>2 DEF RecordTellsTheRun, PresetTests, Each
<1> QED
  BY <1>1, RequestInvHolds, PTL

=============================================================================
