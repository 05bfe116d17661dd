-------------------------- MODULE SseToJson_proofs --------------------------
(***************************************************************************)
(* Proofs about SseToJson.  The first half is about the algorithm: what    *)
(* the scan of a body returns is the document of its first event that has  *)
(* one.  The second is about the wrapper: what the server has got is       *)
(* always the beginning of one answer, fixed by what the application sent. *)
(***************************************************************************)
EXTENDS SseToJson, DataLemmas

-----------------------------------------------------------------------------
(* The scan.                                                               *)

(* The lines between two ends with none between them are an event, and     *)
(* every event that begins before its end is it or an earlier one.         *)
LEMMA NextEvent ==
    ASSUME NEW lines \in Seq(AllLines), NEW b \in Ends(lines), NEW c \in Ends(lines), b < c,
           \A i \in Ends(lines) : i <= b \/ i >= c
    PROVE  /\ <<b, c>> \in Events(lines)
           /\ \A d \in Events(lines) : d[1] < c => d[1] < b \/ d = <<b, c>>
<1>1. \A i \in Ends(lines) : i \in Nat
  BY DEF Ends
<1>2. <<b, c>> \in Events(lines)
  BY DEF Events
<1>3. ASSUME NEW d \in Events(lines), d[1] < c, ~(d[1] < b)
      PROVE  d = <<b, c>>
  <2>1. /\ d = <<d[1], d[2]>> /\ d[1] \in Ends(lines) /\ d[2] \in Ends(lines) /\ d[1] < d[2]
        /\ \A i \in Ends(lines) : i <= d[1] \/ i >= d[2]
    BY DEF Events
  <2>2. d[1] \in Nat /\ d[2] \in Nat /\ b \in Nat /\ c \in Nat
    BY <1>1, <2>1
  <2>3. d[1] <= b \/ d[1] >= c
    BY <2>1
  <2>4. d[1] = b
    BY <1>3, <2>2, <2>3
  <2>5. (d[2] <= b \/ d[2] >= c) /\ (c <= d[1] \/ c >= d[2])
    BY <2>1
  <2>6. d[2] = c
    BY <2>1, <2>2, <2>4, <2>5
  <2> QED
    BY <2>1, <2>4, <2>6
<1> QED
  BY <1>2, <1>3

(* What the scan knows: the document it has found, or, after n lines, the  *)
(* data lines of the event that began after the end b.                     *)
HasFound(lines, doc) ==
    /\ doc \in Documents
    /\ IsFirstDocument(lines, doc)

IsLooking(lines, n, data, b) ==
    /\ b \in Ends(lines) /\ b <= n
    /\ \A i \in Ends(lines) : i <= b \/ i > n
    /\ data = Kept(SubSeq(lines, b + 1, n), DataLines)
    /\ \A d \in Events(lines) : d[1] < b => DocumentOf(lines, d) = "none"

(* The event that is looked at ends.                                       *)
LEMMA EventEnds ==
    ASSUME NEW lines \in Seq(AllLines), NEW n \in Nat, n + 1 \in Ends(lines), NEW data,
           NEW b, IsLooking(lines, n, data, b)
    PROVE  /\ Parse(data) # "none" => HasFound(lines, Parse(data))
           /\ Parse(data) = "none" =>
                \A d \in Events(lines) : d[1] < n + 1 => DocumentOf(lines, d) = "none"
<1> DEFINE e == <<b, n + 1>>
<1>1. \A i \in Ends(lines) : i \in Nat
  BY DEF Ends
<1>2. /\ b \in Ends(lines) /\ b \in Nat /\ b < n + 1
      /\ \A i \in Ends(lines) : i <= b \/ i >= n + 1
  BY <1>1 DEF IsLooking
<1>3. /\ e \in Events(lines)
      /\ \A d \in Events(lines) : d[1] < n + 1 => d[1] < b \/ d = e
  BY <1>2, NextEvent
<1>4. e[1] = b /\ e[2] = n + 1 /\ (n + 1) - 1 = n
  OBVIOUS
<1> HIDE DEF e
<1>5. DocumentOf(lines, e) = Parse(data)
  BY <1>4 DEF DocumentOf, IsLooking
<1>6. \A d \in Events(lines) : d[1] < b => DocumentOf(lines, d) = "none"
  BY DEF IsLooking
<1>7. Parse(data) # "none" => Parse(data) \in Documents
  BY DEF Parse, Documents
<1>8. Parse(data) # "none" => IsFirstDocument(lines, Parse(data))
  BY <1>3, <1>4, <1>5, <1>6 DEF IsFirstDocument
<1> QED
  BY <1>3, <1>5, <1>6, <1>7, <1>8 DEF HasFound

(* One line more.                                                          *)
LEMMA ScanLine ==
    ASSUME NEW lines \in Seq(AllLines), NEW n \in Nat, n + 1 <= Len(lines),
           NEW b, NEW data \in Seq(DataLines), IsLooking(lines, n, data, b),
           NEW next, next = Scan([data |-> data, found |-> "none"], lines[n + 1])
    PROVE  /\ next \in [data : Seq(DataLines), found : Documents \cup {"none"}]
           /\ \/ HasFound(lines, next.found)
              \/ next.found = "none" /\ \E c : IsLooking(lines, n + 1, next.data, c)
<1>1. \A i \in Ends(lines) : i \in Nat
  BY DEF Ends
<1>2. b \in Nat /\ b <= n /\ n + 1 \in 1 .. Len(lines) /\ Len(lines) \in Nat
  BY <1>1 DEF IsLooking
<1>3. CASE lines[n + 1] = "blank"
  <2>1. n + 1 \in Ends(lines)
    BY <1>2, <1>3 DEF Ends
  <2>2. next.data = <<>> /\ next.found = Parse(data) /\ next = [data |-> <<>>, found |-> Parse(data)]
    BY <1>3 DEF Scan
  <2>3. Parse(data) \in Documents \cup {"none"}
    BY DEF Parse, Documents
  <2>4. ASSUME Parse(data) = "none" PROVE IsLooking(lines, n + 1, <<>>, n + 1)
    <3>1. \A d \in Events(lines) : d[1] < n + 1 => DocumentOf(lines, d) = "none"
      BY <2>1, <2>4, EventEnds
    <3>2. \A i \in Ends(lines) : i <= n + 1 \/ i > n + 1
      BY <1>1, <1>2
    <3>3. SubSeq(lines, (n + 1) + 1, n + 1) = <<>>
      BY <1>2
    <3>4. Kept(<<>>, DataLines) = <<>>
      <4>1. <<>> \in Seq(DataLines)
        OBVIOUS
      <4> QED
        BY <4>1, KeptItems
    <3>5. n + 1 <= n + 1
      OBVIOUS
    <3> QED
      BY <2>1, <3>1, <3>2, <3>3, <3>4, <3>5 DEF IsLooking
  <2>5. Parse(data) # "none" => HasFound(lines, Parse(data))
    BY <2>1, EventEnds
  <2>6. next \in [data : Seq(DataLines), found : Documents \cup {"none"}]
    <3>1. <<>> \in Seq(DataLines)
      OBVIOUS
    <3> QED
      BY <2>2, <2>3, <3>1
  <2> QED
    BY <2>2, <2>3, <2>4, <2>5, <2>6
<1>4. CASE lines[n + 1] # "blank"
  <2> DEFINE more == IF lines[n + 1] \in DataLines THEN Append(data, lines[n + 1]) ELSE data
  <2>1. next = [data |-> more, found |-> "none"]
    BY <1>4 DEF Scan
  <2>2. more \in Seq(DataLines)
    OBVIOUS
  <2>3. \A x, y : y = [data |-> x, found |-> "none"] => y.data = x /\ y.found = "none"
    OBVIOUS
  <2>4. more = Kept(SubSeq(lines, b + 1, n + 1), DataLines)
    <3>1. /\ SubSeq(lines, b + 1, n + 1) = Append(SubSeq(lines, b + 1, n), lines[n + 1])
          /\ SubSeq(lines, b + 1, n) \in Seq(AllLines) /\ lines[n + 1] \in AllLines
      BY <1>2
    <3>2. data = Kept(SubSeq(lines, b + 1, n), DataLines)
      BY DEF IsLooking
    <3> DEFINE t == SubSeq(lines, b + 1, n)
               x == lines[n + 1]
    <3> HIDE DEF t, x
    <3>3. t \in Seq(AllLines) /\ x \in AllLines
      BY <3>1 DEF t, x
    <3>4. Kept(Append(t, x), DataLines) =
             IF x \in DataLines THEN Append(Kept(t, DataLines), x) ELSE Kept(t, DataLines)
      BY <3>3, KeptAppend
    <3> QED
      BY <3>1, <3>2, <3>4 DEF t, x
  <2> HIDE DEF more
  <2>5. n + 1 \notin Ends(lines)
    BY <1>2, <1>4 DEF Ends
  <2>6. /\ b \in Ends(lines) /\ b <= n + 1
        /\ \A i \in Ends(lines) : i <= b \/ i > n + 1
    <3>1. b \in Ends(lines) /\ \A i \in Ends(lines) : i <= b \/ i > n
      BY DEF IsLooking
    <3>2. ASSUME NEW i \in Ends(lines), i > n PROVE i > n + 1
      BY <1>1, <2>5, <3>2
    <3> QED
      BY <1>2, <3>1, <3>2
  <2>7. IsLooking(lines, n + 1, more, b)
    BY <2>4, <2>6 DEF IsLooking
  <2> QED
    BY <2>1, <2>2, <2>3, <2>7
<1> QED
  BY <1>3, <1>4

(* The scan from the first line on exists.                                 *)
Scans(lines, scanned) ==
    /\ scanned[0] = [data |-> <<>>, found |-> "none"]
    /\ \A n \in 1 .. Len(lines) : scanned[n] = Scan(scanned[n - 1], lines[n])
    /\ LET end == scanned[Len(lines)]
       IN  Extract(lines) = IF end.found # "none" THEN end.found ELSE Parse(end.data)

(* By RecursiveExists: a scan of any body, which Extract ends with.        *)
LEMMA ScanExists ==
    ASSUME NEW lines \in Seq(AllLines)
    PROVE  \E scanned : Scans(lines, scanned)
<1> DEFINE N == Len(lines)
           State == [data : Seq(DataLines), found : Documents \cup {"none"}]
           start == [data |-> <<>>, found |-> "none"]
           Dom == State \X (1 .. N)
           step == [e \in Dom |-> Scan(e[1], lines[e[2]])]
           F(f) == f = [n \in 0 .. N |-> IF n = 0 THEN start ELSE Scan(f[n - 1], lines[n])]
           f == CHOOSE f : F(f)
<1>1. N \in Nat /\ \A n \in 1 .. N : lines[n] \in AllLines
  OBVIOUS
<1>2. start \in State
  <2>1. <<>> \in Seq(DataLines)
    OBVIOUS
  <2> QED
    BY <2>1
<1>3. ASSUME NEW acc \in State, NEW line \in AllLines
      PROVE  Scan(acc, line) \in State
  <2>1. /\ acc = [data |-> acc.data, found |-> acc.found]
        /\ acc.data \in Seq(DataLines) /\ acc.found \in Documents \cup {"none"}
    OBVIOUS
  <2>2. CASE acc.found # "none"
    BY <2>2 DEF Scan
  <2>3. CASE acc.found = "none" /\ line = "blank"
    <3>1. <<>> \in Seq(DataLines) /\ Parse(acc.data) \in Documents \cup {"none"}
      BY DEF Parse, Documents
    <3> QED
      BY <2>3, <3>1 DEF Scan
  <2>4. CASE acc.found = "none" /\ line # "blank" /\ line \in DataLines
    <3>1. Append(acc.data, line) \in Seq(DataLines)
      BY <2>1, <2>4
    <3> QED
      BY <2>1, <2>4, <3>1 DEF Scan
  <2>5. CASE acc.found = "none" /\ line # "blank" /\ line \notin DataLines
    BY <2>5 DEF Scan
  <2> QED
    BY <2>2, <2>3, <2>4, <2>5
<1>4. \A acc \in State, n \in 1 .. N : step[<<acc, n>>] = Scan(acc, lines[n])
  OBVIOUS
<1>5. step \in [Dom -> State]
  <2> HIDE DEF State
  <2>1. \A e \in Dom : e[1] \in State /\ lines[e[2]] \in AllLines
    BY <1>1
  <2> QED
    BY <1>3, <2>1
<1>6. /\ F(f) => f = [n \in 0 .. N |-> IF n = 0 THEN start ELSE Scan(f[n - 1], lines[n])]
      /\ Extract(lines) = IF f[N].found # "none" THEN f[N].found ELSE Parse(f[N].data)
  BY DEF Extract
<1>7. \E g : F(g)
  <2> HIDE DEF State, step, N, start
  <2>1. PICK g \in [0 .. N -> State] : IsRecursive(g, N, start, step)
    BY <1>1, <1>2, <1>5, RecursiveExists
  <2>2. ASSUME NEW n \in 0 .. N
        PROVE  (IF n = 0 THEN start ELSE step[<<g[n - 1], n>>])
                  = (IF n = 0 THEN start ELSE Scan(g[n - 1], lines[n]))
    <3>1. CASE n = 0
      BY <3>1
    <3>2. CASE n # 0
      <4>1. n \in 1 .. N /\ n - 1 \in 0 .. N
        BY <1>1, <3>2
      <4>2. g[n - 1] \in State
        BY <2>1, <4>1
      <4> QED
        BY <1>4, <3>2, <4>1, <4>2
    <3> QED
      BY <3>1, <3>2
  <2> QED
    BY <2>1, <2>2 DEF IsRecursive
<1>8. F(f)
  <2> HIDE DEF F
  <2> QED
    BY <1>7
<1> HIDE DEF f
<1>9. f[0] = start /\ \A n \in 1 .. N : f[n] = Scan(f[n - 1], lines[n])
  <2>1. 0 \in 0 .. N /\ \A n \in 1 .. N : n \in 0 .. N /\ n # 0
    BY <1>1
  <2> QED
    BY <1>8, <2>1
<1> QED
  BY <1>6, <1>9 DEF Scans

(* What is extracted from a body is the document of its first event that   *)
(* has one, and nothing only when no event has one.                        *)
THEOREM ExtractsFirstDocument ==
    ASSUME NEW lines \in Seq(AllLines)
    PROVE  \/ /\ Extract(lines) \in Documents
              /\ IsFirstDocument(lines, Extract(lines)) /\ ~NoDocument(lines)
           \/ Extract(lines) = "none" /\ NoDocument(lines)
<1> DEFINE N == Len(lines)
           State == [data : Seq(DataLines), found : Documents \cup {"none"}]
<1>1. PICK s : Scans(lines, s)
  BY ScanExists
<1>2. /\ s[0] = [data |-> <<>>, found |-> "none"]
      /\ \A n \in 1 .. N : s[n] = Scan(s[n - 1], lines[n])
      /\ Extract(lines) = IF s[N].found # "none" THEN s[N].found ELSE Parse(s[N].data)
      /\ N \in Nat
  BY <1>1 DEF Scans
<1> DEFINE Knows(n) ==
             /\ s[n] \in State
             /\ \/ HasFound(lines, s[n].found)
                \/ s[n].found = "none" /\ \E b : IsLooking(lines, n, s[n].data, b)
           T == {n \in Nat : n <= N => Knows(n)}
<1>3. ~HasFound(lines, "none")
  BY DEF HasFound, Documents
<1>4. 0 \in T
  <2>1. <<>> \in Seq(DataLines)
    OBVIOUS
  <2>2. \A i \in Ends(lines) : i <= 0 \/ i > 0
    BY DEF Ends
  <2>3. Kept(SubSeq(lines, 0 + 1, 0), DataLines) = <<>>
    <3>1. SubSeq(lines, 0 + 1, 0) = <<>>
      OBVIOUS
    <3> QED
      BY <2>1, <3>1, KeptItems
  <2>4. 0 \in Ends(lines) /\ \A d \in Events(lines) : ~(d[1] < 0)
    BY DEF Ends, Events
  <2>5. IsLooking(lines, 0, <<>>, 0)
    BY <2>2, <2>3, <2>4 DEF IsLooking
  <2>6. s[0] \in State /\ s[0].data = <<>> /\ s[0].found = "none"
    BY <1>2, <2>1
  <2> QED
    BY <2>5, <2>6
<1>5. ASSUME NEW n \in Nat, n \in T PROVE n + 1 \in T
  <2> SUFFICES ASSUME n + 1 <= N PROVE Knows(n + 1)
    OBVIOUS
  <2>1. Knows(n) /\ n + 1 \in 1 .. N /\ (n + 1) - 1 = n
    BY <1>2, <1>5
  <2>2. s[n + 1] = Scan(s[n], lines[n + 1])
    BY <1>2, <2>1
  <2>3. CASE HasFound(lines, s[n].found)
    <3>1. s[n].found # "none"
      BY <1>3, <2>3
    <3>2. s[n + 1] = s[n]
      BY <2>2, <3>1 DEF Scan
    <3> QED
      BY <2>1, <2>3, <3>2
  <2>4. ASSUME s[n].found = "none", NEW b, IsLooking(lines, n, s[n].data, b)
        PROVE  Knows(n + 1)
    <3>1. s[n] = [data |-> s[n].data, found |-> "none"] /\ s[n].data \in Seq(DataLines)
      BY <2>1, <2>4
    <3>2. s[n + 1] = Scan([data |-> s[n].data, found |-> "none"], lines[n + 1])
      BY <2>2, <3>1
    <3> QED
      BY <2>4, <3>1, <3>2, ScanLine
  <2> QED
    BY <2>1, <2>3, <2>4
<1> HIDE DEF T
<1>6. Knows(N)
  <2>1. N \in T
    BY <1>2, <1>4, <1>5, NumbersInduction
  <2> QED
    BY <1>2, <2>1 DEF T
<1>7. ASSUME NEW doc, IsFirstDocument(lines, doc) PROVE ~NoDocument(lines)
  BY <1>7 DEF IsFirstDocument, NoDocument
<1>8. CASE HasFound(lines, s[N].found)
  <2>1. s[N].found # "none"
    BY <1>3, <1>8
  <2> QED
    BY <1>2, <1>7, <1>8, <2>1 DEF HasFound
<1>9. ASSUME s[N].found = "none", NEW b, IsLooking(lines, N, s[N].data, b)
      PROVE  \/ /\ Extract(lines) \in Documents
                /\ IsFirstDocument(lines, Extract(lines)) /\ ~NoDocument(lines)
             \/ Extract(lines) = "none" /\ NoDocument(lines)
  <2>1. Extract(lines) = Parse(s[N].data)
    BY <1>2, <1>9
  <2>2. N + 1 \in Ends(lines)
    BY DEF Ends
  <2>3. Parse(s[N].data) # "none" => HasFound(lines, Parse(s[N].data))
    BY <1>2, <1>9, <2>2, EventEnds
  <2>4. Parse(s[N].data) = "none" =>
           \A d \in Events(lines) : d[1] < N + 1 => DocumentOf(lines, d) = "none"
    BY <1>2, <1>9, <2>2, EventEnds
  <2>5. \A d \in Events(lines) : d[1] < N + 1
    BY <1>2 DEF Events, Ends
  <2>6. CASE Parse(s[N].data) # "none"
    BY <1>7, <2>1, <2>3, <2>6 DEF HasFound
  <2>7. CASE Parse(s[N].data) = "none"
    BY <2>1, <2>4, <2>5, <2>7 DEF NoDocument
  <2> QED
    BY <2>6, <2>7
<1> QED
  BY <1>6, <1>8, <1>9

-----------------------------------------------------------------------------
(* The wrapper.                                                            *)

AllMessages == Messages \cup {Body(<<doc>>, FALSE) : doc \in Documents}

(* The response is kept back, and was not longer than the limit so far.    *)
Short == method = "POST" /\ size <= MaxBody

(* What the server is to get for what the application has sent: the answer *)
(* that every send of the wrapper is a piece of.                           *)
Answer == IF Short /\ captured # <<>> THEN Response ELSE sent

MessagesInv ==
    /\ method \in {"POST", "GET"}
    /\ pc \in {"capture", "burst", "through", "done", "raised", "cancelled"}
    /\ size \in Nat
    /\ sent \in Seq(Messages) /\ captured \in Seq(Messages)
    /\ pending \in Seq(AllMessages) /\ out \in Seq(AllMessages)

HeldInv ==
    /\ Len(LinesOf(captured)) <= MaxBody
    /\ Short => captured = sent
    /\ pc = "capture" => Short /\ out = <<>> /\ size = Len(LinesOf(captured))

AnswerInv ==
    /\ pc = "burst" => method = "POST" /\ pending # <<>> /\ out \o pending = Answer
    /\ pc = "through" => ~Short /\ out = sent
    /\ pc = "done" => out = Answer
    /\ pc = "raised" => out = IF Short THEN <<>> ELSE sent
    /\ pc = "cancelled" => IsPrefix(out, Answer)

SseInv == MessagesInv /\ HeldInv /\ AnswerInv

-----------------------------------------------------------------------------
(* A message is a start, or a body with a list of lines.                   *)
LEMMA MessageFields ==
    ASSUME NEW m \in Messages
    PROVE  m.kind = "start" \/ (m.kind = "body" /\ m.lines \in Seq(Lines))
<1>1. ASSUME NEW lines \in Chunks PROVE lines \in Seq(Lines)
  BY DEF Chunks
<1>2. \A lines, more : /\ Body(lines, more).kind = "body"
                       /\ Body(lines, more).lines = lines
  BY DEF Body
<1>3. \A type : Start(type).kind = "start"
  BY DEF Start
<1>4. \/ m \in {Start("sse"), Start("json")}
      \/ \E lines \in Chunks, more \in BOOLEAN : m = Body(lines, more)
  BY DEF Messages
<1>5. CASE m \in {Start("sse"), Start("json")}
  BY <1>3, <1>5
<1>6. ASSUME NEW lines \in Chunks, NEW more \in BOOLEAN, m = Body(lines, more)
      PROVE  m.kind = "body" /\ m.lines \in Seq(Lines)
  BY <1>1, <1>2, <1>6
<1> QED
  BY <1>4, <1>5, <1>6

(* The lines of a message that is kept back come after those before it.    *)
LEMMA LinesOfAppend ==
    ASSUME NEW messages \in Seq(Messages), NEW m \in Messages
    PROVE  /\ LinesOf(messages) \in Seq(Lines)
           /\ m.kind = "start" => LinesOf(Append(messages, m)) = LinesOf(messages)
           /\ m.kind = "body" =>
                 LinesOf(Append(messages, m)) = LinesOf(messages) \o m.lines
<1> DEFINE LinesIn(x) == IF x.kind = "body" THEN x.lines ELSE <<>>
           parts == [i \in DOMAIN messages |-> LinesIn(messages[i])]
           next == Append(messages, m)
           all == [i \in DOMAIN next |-> LinesIn(next[i])]
<1>1. \A x \in Messages : LinesIn(x) \in Seq(Lines)
  BY MessageFields
<1> HIDE DEF LinesIn
<1>2. parts \in Seq(Seq(Lines)) /\ Len(parts) = Len(messages)
  <2>1. parts = [i \in 1 .. Len(messages) |-> LinesIn(messages[i])]
    OBVIOUS
  <2>2. \A i \in 1 .. Len(messages) : LinesIn(messages[i]) \in Seq(Lines)
    BY <1>1
  <2> HIDE DEF parts
  <2>3. parts \in [1 .. Len(messages) -> Seq(Lines)] /\ Len(messages) \in Nat
    BY <2>1, <2>2
  <2>4. \A n \in Nat : \A f \in [1 .. n -> Seq(Lines)] : f \in Seq(Seq(Lines)) /\ Len(f) = n
    OBVIOUS
  <2> QED
    BY <2>3, <2>4
<1>3. all = Append(parts, LinesIn(m))
  <2>1. /\ next \in Seq(Messages) /\ Len(next) = Len(messages) + 1
        /\ next[Len(messages) + 1] = m
        /\ \A i \in 1 .. Len(messages) : next[i] = messages[i]
    OBVIOUS
  <2>2. \A i \in 1 .. Len(messages) : parts[i] = LinesIn(messages[i])
    OBVIOUS
  <2> HIDE DEF next
  <2>3. all = [i \in 1 .. Len(messages) + 1 |-> LinesIn(next[i])]
    BY <2>1
  <2> DEFINE x == LinesIn(m)
  <2>4. x \in Seq(Lines)
    BY <1>1
  <2>5. ASSUME NEW i \in 1 .. Len(messages) + 1
        PROVE  LinesIn(next[i]) = IF i = Len(messages) + 1 THEN x ELSE parts[i]
    <3>1. CASE i = Len(messages) + 1
      BY <2>1, <3>1
    <3>2. CASE i # Len(messages) + 1
      <4>1. i \in 1 .. Len(messages)
        BY <3>2
      <4> QED
        BY <2>1, <2>2, <3>2, <4>1
    <3> QED
      BY <3>1, <3>2
  <2> HIDE DEF x, parts
  <2>6. /\ Append(parts, x) \in Seq(Seq(Lines))
        /\ Len(Append(parts, x)) = Len(messages) + 1
        /\ \A i \in 1 .. Len(messages) + 1 :
              Append(parts, x)[i] = IF i = Len(messages) + 1 THEN x ELSE parts[i]
    <3>1. ASSUME NEW X, NEW s \in Seq(X), NEW y \in X
          PROVE  /\ Append(s, y) \in Seq(X) /\ Len(Append(s, y)) = Len(s) + 1
                 /\ \A i \in 1 .. Len(s) + 1 :
                       Append(s, y)[i] = IF i = Len(s) + 1 THEN y ELSE s[i]
      OBVIOUS
    <3>2. Len(parts) = Len(messages)
      BY <1>2
    <3>3. /\ Append(parts, x) \in Seq(Seq(Lines))
          /\ Len(Append(parts, x)) = Len(parts) + 1
          /\ \A i \in 1 .. Len(parts) + 1 :
                Append(parts, x)[i] = IF i = Len(parts) + 1 THEN x ELSE parts[i]
      BY <1>2, <2>4, <3>1, ZenonT(30)
    <3> QED
      BY <3>2, <3>3, Zenon
  <2>7. /\ all \in Seq(Seq(Lines)) /\ Len(all) = Len(messages) + 1
        /\ \A i \in 1 .. Len(messages) + 1 : all[i] = LinesIn(next[i])
    <3>1. \A i \in 1 .. Len(messages) + 1 : LinesIn(next[i]) \in Seq(Lines)
      BY <1>1, <2>1
    <3> HIDE DEF all
    <3>2. Len(messages) + 1 \in Nat /\ all \in [1 .. Len(messages) + 1 -> Seq(Lines)]
      BY <2>3, <3>1
    <3>3. \A n \in Nat : \A f \in [1 .. n -> Seq(Lines)] : f \in Seq(Seq(Lines)) /\ Len(f) = n
      OBVIOUS
    <3> QED
      BY <2>3, <3>2, <3>3
  <2> HIDE DEF all
  <2>8. all = Append(parts, x)
    <3>1. ASSUME NEW X, NEW s \in Seq(X), NEW t \in Seq(X), Len(s) = Len(t),
                 \A i \in 1 .. Len(s) : s[i] = t[i]
          PROVE  s = t
      BY <3>1
    <3> QED
      BY <2>5, <2>6, <2>7, <3>1
  <2> QED
    BY <2>8 DEF x
<1>4. /\ LinesOf(messages) = FlattenSeq(parts)
      /\ LinesOf(Append(messages, m)) = FlattenSeq(all)
  BY DEF LinesOf, LinesIn
<1> HIDE DEF parts, all
<1>5. /\ FlattenSeq(parts) \in Seq(Lines)
      /\ FlattenSeq(Append(parts, LinesIn(m))) = FlattenSeq(parts) \o LinesIn(m)
  BY <1>1, <1>2, FlattenAppend
<1>6. \A s \in Seq(Lines) : s \o <<>> = s
  OBVIOUS
<1> QED
  BY <1>3, <1>4, <1>5, <1>6 DEF LinesIn

(* No messages, no lines.                                                  *)
LEMMA LinesOfNothing == LinesOf(<<>>) = <<>>
<1>1. [i \in DOMAIN <<>> |-> IF <<>>[i].kind = "body" THEN <<>>[i].lines ELSE <<>>] = <<>>
  OBVIOUS
<1>2. FlattenSeq(<<>>) = <<>>
  BY DEF FlattenSeq
<1> QED
  BY <1>1, <1>2 DEF LinesOf

(* The application's messages are messages the wrapper may send.           *)
LEMMA MoreMessages == Seq(Messages) \subseteq Seq(AllMessages)
<1>1. Messages \subseteq AllMessages
  BY DEF AllMessages
<1>2. ASSUME NEW X, NEW Y, X \subseteq Y PROVE Seq(X) \subseteq Seq(Y)
  BY <1>2
<1> QED
  BY <1>1, <1>2, Zenon

(* The lines of messages are lines.                                        *)
LEMMA LinesOfBodies ==
    ASSUME NEW messages \in Seq(Messages)
    PROVE  LinesOf(messages) \in Seq(Lines) /\ LinesOf(messages) \in Seq(AllLines)
<1>1. Start("sse") \in Messages
  BY DEF Messages
<1>2. LinesOf(messages) \in Seq(Lines)
  BY <1>1, LinesOfAppend
<1>3. ASSUME NEW X, NEW Y, X \subseteq Y PROVE Seq(X) \subseteq Seq(Y)
  BY <1>3
<1>4. Seq(Lines) \subseteq Seq(AllLines)
  BY <1>3, SseAssumption
<1> QED
  BY <1>2, <1>4

(* A response is a document that was found, converted, or the messages as  *)
(* they were kept back.                                                    *)
LEMMA ResponseCases ==
    ASSUME NEW lines, lines = LinesOf(captured), captured \in Seq(Messages), captured # <<>>
    PROVE  /\ Response \in Seq(AllMessages) /\ Response # <<>>
           /\ \/ Response = captured /\ (Head(captured).type = "sse" => NoDocument(lines))
              \/ /\ Head(captured).type = "sse" /\ Response = Converted(Extract(lines))
                 /\ Extract(lines) \in Documents /\ ~NoDocument(lines)
                 /\ IsFirstDocument(lines, Extract(lines))
<1>1. lines \in Seq(AllLines)
  BY LinesOfBodies
<1>2. \/ /\ Extract(lines) \in Documents
         /\ IsFirstDocument(lines, Extract(lines)) /\ ~NoDocument(lines)
      \/ Extract(lines) = "none" /\ NoDocument(lines)
  BY <1>1, ExtractsFirstDocument
<1>3. captured \in Seq(AllMessages)
  BY MoreMessages
<1>4. ASSUME NEW doc \in Documents
      PROVE  Converted(doc) \in Seq(AllMessages) /\ Converted(doc) # <<>>
  <2>1. Start("json") \in AllMessages /\ Body(<<doc>>, FALSE) \in AllMessages
    <3>1. Start("json") \in Messages
      BY DEF Messages
    <3> QED
      BY <3>1, Zenon DEF AllMessages
  <2>2. ASSUME NEW X, NEW a \in X, NEW c \in X PROVE <<a, c>> \in Seq(X) /\ <<a, c>> # <<>>
    OBVIOUS
  <2> QED
    BY <2>1, <2>2 DEF Converted
<1>5. "none" \notin Documents
  BY DEF Documents
<1>6. Response = IF Head(captured).type = "sse" /\ Extract(lines) # "none"
                 THEN Converted(Extract(lines)) ELSE captured
  BY DEF Response
<1> QED
  BY <1>2, <1>3, <1>4, <1>5, <1>6

(* Nothing has been sent.                                                  *)
LEMMA SseInvInit == SseInit => SseInv
<1> SUFFICES ASSUME SseInit PROVE SseInv
  OBVIOUS
<1>1. /\ method \in {"POST", "GET"} /\ size = 0
      /\ sent = <<>> /\ captured = <<>> /\ pending = <<>> /\ out = <<>>
      /\ pc = IF method = "POST" THEN "capture" ELSE "through"
  BY DEF SseInit
<1>2. MaxBody \in Nat /\ MaxBody >= 0
  BY SseAssumption
<1>3. MessagesInv
  BY <1>1 DEF MessagesInv
<1>4. HeldInv
  BY <1>1, <1>2, LinesOfNothing DEF HeldInv, Short
<1>5. AnswerInv
  BY <1>1 DEF AnswerInv, Short
<1> QED
  BY <1>3, <1>4, <1>5 DEF SseInv

(* A message that is sent moves from the front of what is pending to the   *)
(* end of what was sent.                                                   *)
HeadMoves(X, s, t) ==
    /\ Append(s, Head(t)) \in Seq(X) /\ Tail(t) \in Seq(X)
    /\ Append(s, Head(t)) \o Tail(t) = s \o t
    /\ Tail(t) = <<>> => Append(s, Head(t)) = s \o t

(* Sending the first of what is pending leaves what was and is to be sent  *)
(* the same.                                                               *)
LEMMA SendHead ==
    ASSUME NEW X, NEW s \in Seq(X), NEW t \in Seq(X), t # <<>>
    PROVE  HeadMoves(X, s, t)
<1>1. Head(t) \in X /\ Tail(t) \in Seq(X) /\ Append(s, Head(t)) \in Seq(X)
  OBVIOUS
<1>2. t = <<Head(t)>> \o Tail(t)
  OBVIOUS
<1>3. Append(s, Head(t)) = s \o <<Head(t)>>
  BY <1>1
<1>4. ASSUME NEW a \in Seq(X), NEW c \in Seq(X), NEW d \in Seq(X)
      PROVE  (a \o c) \o d = a \o (c \o d)
  OBVIOUS
<1>5. <<Head(t)>> \in Seq(X)
  BY <1>1
<1>6. Append(s, Head(t)) \o Tail(t) = s \o t
  BY <1>1, <1>2, <1>3, <1>4, <1>5
<1>7. \A u \in Seq(X) : u \o <<>> = u
  OBVIOUS
<1> QED
  BY <1>1, <1>6, <1>7 DEF HeadMoves

(* What comes first is a prefix of the whole.                              *)
LEMMA PrefixOfConcatenation ==
    ASSUME NEW X, NEW s \in Seq(X), NEW t \in Seq(X)
    PROVE  IsPrefix(s, s \o t) /\ IsPrefix(s, s) /\ IsPrefix(<<>>, s)
<1>1. /\ s \o t \in Seq(X) /\ Len(s) <= Len(s \o t)
      /\ \A i \in 1 .. Len(s) : (s \o t)[i] = s[i]
  OBVIOUS
<1>2. IsPrefix(s, s \o t)
  BY <1>1, PrefixByItems
<1>3. IsPrefix(s, s)
  BY PrefixByItems
<1>4. IsPrefix(<<>>, s)
  BY DEF IsPrefix
<1> QED
  BY <1>2, <1>3, <1>4

(* What the steps that send nothing to the wrapper leave alone.            *)
LEMMA AnswerUnmoved ==
    ASSUME UNCHANGED <<method, sent, captured, size>>
    PROVE  /\ Short' <=> Short
           /\ Answer' = Answer /\ Response' = Response /\ LinesOf(captured)' = LinesOf(captured)
<1>1. (Short' <=> Short) /\ Response' = Response /\ LinesOf(captured)' = LinesOf(captured)
  BY DEF Short, Response
<1> QED
  BY <1>1 DEF Answer

(* Every step keeps the invariant.                                         *)
LEMMA SseInvStep == SseInv /\ [SseNext]_sseVars => SseInv'
<1> SUFFICES ASSUME SseInv, [SseNext]_sseVars PROVE SseInv'
  OBVIOUS
<1>1. MessagesInv /\ HeldInv /\ AnswerInv
  BY DEF SseInv
<1>2. ASSUME NEW m \in Messages, CaptureStart(m) PROVE SseInv'
  <2>1. /\ pc = "capture" /\ m.kind = "start"
        /\ sent' = Append(sent, m) /\ captured' = Append(captured, m)
        /\ UNCHANGED <<method, pc, size, pending, out>>
    BY <1>2 DEF CaptureStart
  <2>2. /\ Short /\ out = <<>> /\ size = Len(LinesOf(captured)) /\ captured = sent
        /\ Len(LinesOf(captured)) <= MaxBody
    BY <1>1, <2>1 DEF HeldInv
  <2>3. LinesOf(captured)' = LinesOf(captured)
    BY <1>1, <2>1, LinesOfAppend DEF MessagesInv
  <2>4. MessagesInv'
    BY <1>1, <2>1 DEF MessagesInv
  <2>5. HeldInv'
    BY <2>1, <2>2, <2>3 DEF HeldInv, Short
  <2>6. AnswerInv'
    BY <2>1 DEF AnswerInv
  <2> QED
    BY <2>4, <2>5, <2>6 DEF SseInv
<1>3. ASSUME NEW m \in Messages, CaptureBody(m) PROVE SseInv'
  <2>1. /\ pc = "capture" /\ m.kind = "body"
        /\ sent' = Append(sent, m) /\ size' = size + Len(m.lines)
        /\ UNCHANGED <<method, out>>
    BY <1>3 DEF CaptureBody
  <2>2. /\ Short /\ out = <<>> /\ size = Len(LinesOf(captured)) /\ captured = sent
        /\ Len(LinesOf(captured)) <= MaxBody /\ method = "POST"
    BY <1>1, <2>1 DEF HeldInv, Short
  <2>3. m.lines \in Seq(Lines) /\ Len(m.lines) \in Nat
    <3>1. m.lines \in Seq(Lines)
      BY <2>1, MessageFields
    <3> QED
      BY <3>1
  <2>4. size' \in Nat
    BY <1>1, <2>1, <2>3 DEF MessagesInv
  <2>5. CASE /\ size' > MaxBody /\ pc' = "burst" /\ pending' = Append(captured, m)
             /\ captured' = captured
    <3>1. pending' = sent' /\ pending' \in Seq(AllMessages) /\ sent' \in Seq(Messages)
      <4>1. Append(sent, m) \in Seq(Messages)
        BY <1>1 DEF MessagesInv
      <4>2. pending' = Append(sent, m) /\ sent' = Append(sent, m)
        BY <2>1, <2>2, <2>5
      <4> QED
        BY <4>1, <4>2, MoreMessages, Zenon
    <3>2. ~Short'
      BY <2>4, <2>5, SseAssumption DEF Short
    <3>3. Answer' = sent'
      BY <3>2 DEF Answer
    <3>4. sent' # <<>> /\ <<>> \o sent' = sent'
      BY <1>1, <2>1, <3>1, SMTT(30) DEF MessagesInv
    <3>5. MessagesInv'
      BY <1>1, <2>1, <2>4, <2>5, <3>1 DEF MessagesInv
    <3>6. HeldInv'
      BY <2>2, <2>5, <3>2 DEF HeldInv
    <3>7. AnswerInv'
      BY <2>1, <2>2, <2>5, <3>1, <3>3, <3>4 DEF AnswerInv
    <3> QED
      BY <3>5, <3>6, <3>7 DEF SseInv
  <2>6. CASE /\ ~(size' > MaxBody) /\ captured' = Append(captured, m)
             /\ UNCHANGED <<pc, pending>>
    <3>1. LinesOf(captured)' = LinesOf(captured) \o m.lines /\ LinesOf(captured) \in Seq(Lines)
      BY <1>1, <2>1, <2>6, LinesOfAppend DEF MessagesInv
    <3>2. Len(LinesOf(captured)') = size'
      <4>1. ASSUME NEW s \in Seq(Lines), NEW t \in Seq(Lines)
            PROVE  Len(s \o t) = Len(s) + Len(t)
        OBVIOUS
      <4> QED
        BY <2>1, <2>2, <2>3, <3>1, <4>1
    <3>3. size' <= MaxBody
      BY <2>4, <2>6, SseAssumption
    <3>4. MessagesInv'
      BY <1>1, <2>1, <2>4, <2>6 DEF MessagesInv
    <3>5. HeldInv'
      BY <2>1, <2>2, <2>6, <3>2, <3>3 DEF HeldInv, Short
    <3>6. AnswerInv'
      BY <2>1, <2>6 DEF AnswerInv
    <3> QED
      BY <3>4, <3>5, <3>6 DEF SseInv
  <2> QED
    BY <1>3, <2>5, <2>6 DEF CaptureBody
<1>4. ASSUME NEW m \in Messages, Forward(m) PROVE SseInv'
  <2>1. /\ pc = "through" /\ sent' = Append(sent, m) /\ out' = Append(out, m)
        /\ UNCHANGED <<method, pc, captured, size, pending>>
    BY <1>4 DEF Forward
  <2>2. ~Short /\ out = sent
    BY <1>1, <2>1 DEF AnswerInv
  <2>3. m \in AllMessages
    BY DEF AllMessages
  <2>4. MessagesInv'
    BY <1>1, <2>1, <2>3 DEF MessagesInv
  <2>5. ~Short' /\ out' = sent' /\ LinesOf(captured)' = LinesOf(captured)
    BY <2>1, <2>2 DEF Short
  <2>6. HeldInv'
    BY <1>1, <2>1, <2>5 DEF HeldInv
  <2>7. AnswerInv'
    BY <2>1, <2>5 DEF AnswerInv
  <2> QED
    BY <2>4, <2>6, <2>7 DEF SseInv
<1>5. CASE AppReturns
  <2>1. UNCHANGED <<method, sent, captured, size, out>>
    BY <1>5 DEF AppReturns
  <2>2. /\ Short' <=> Short
        /\ Answer' = Answer /\ LinesOf(captured)' = LinesOf(captured)
    BY <2>1, AnswerUnmoved
  <2>3. CASE pc = "capture" /\ captured # <<>> /\ pc' = "burst" /\ pending' = Response
    <3>1. Short /\ out = <<>> /\ method = "POST"
      BY <1>1, <2>3 DEF HeldInv, Short
    <3>2. Response \in Seq(AllMessages) /\ Response # <<>> /\ Answer = Response
      BY <1>1, <2>3, <3>1, ResponseCases DEF MessagesInv, Answer
    <3>3. <<>> \o Response = Response
      BY <3>2
    <3>4. MessagesInv'
      BY <1>1, <2>1, <2>3, <3>2 DEF MessagesInv
    <3>5. HeldInv'
      BY <1>1, <2>1, <2>2, <2>3 DEF HeldInv
    <3>6. AnswerInv'
      BY <2>1, <2>2, <2>3, <3>1, <3>2, <3>3 DEF AnswerInv
    <3> QED
      BY <3>4, <3>5, <3>6 DEF SseInv
  <2>4. CASE /\ (pc = "capture" /\ captured = <<>>) \/ pc = "through"
             /\ pc' = "done" /\ UNCHANGED pending
    <3>1. out = Answer
      BY <1>1, <2>4 DEF HeldInv, AnswerInv, Answer
    <3>2. MessagesInv'
      BY <1>1, <2>1, <2>4 DEF MessagesInv
    <3>3. HeldInv'
      BY <1>1, <2>1, <2>2, <2>4 DEF HeldInv
    <3>4. AnswerInv'
      BY <2>1, <2>2, <2>4, <3>1 DEF AnswerInv
    <3> QED
      BY <3>2, <3>3, <3>4 DEF SseInv
  <2> QED
    BY <1>5, <2>3, <2>4 DEF AppReturns
<1>6. CASE Burst
  <2>1. /\ pc = "burst" /\ out' = Append(out, Head(pending)) /\ pending' = Tail(pending)
        /\ pc' = IF Tail(pending) # <<>> THEN "burst"
                 ELSE IF size > MaxBody THEN "through" ELSE "done"
        /\ UNCHANGED <<method, sent, captured, size>>
    BY <1>6 DEF Burst
  <2>2. /\ Short' <=> Short
        /\ Answer' = Answer /\ LinesOf(captured)' = LinesOf(captured)
    BY <2>1, AnswerUnmoved
  <2>3. /\ method = "POST" /\ pending # <<>> /\ out \o pending = Answer
        /\ out \in Seq(AllMessages) /\ pending \in Seq(AllMessages)
    BY <1>1, <2>1 DEF AnswerInv, MessagesInv
  <2>4. /\ out' \in Seq(AllMessages) /\ pending' \in Seq(AllMessages)
        /\ out' \o pending' = Answer
        /\ pending' = <<>> => out' = Answer
    <3>1. HeadMoves(AllMessages, out, pending)
      BY <2>3, SendHead
    <3> QED
      BY <2>1, <2>3, <3>1, Zenon DEF HeadMoves
  <2>5. MessagesInv'
    BY <1>1, <2>1, <2>4 DEF MessagesInv
  <2>6. HeldInv'
    BY <1>1, <2>1, <2>2 DEF HeldInv
  <2>7. AnswerInv'
    <3>1. size > MaxBody => ~Short /\ Answer = sent
      BY <1>1, SseAssumption DEF MessagesInv, Short, Answer
    <3> QED
      BY <2>1, <2>2, <2>3, <2>4, <3>1 DEF AnswerInv
  <2> QED
    BY <2>5, <2>6, <2>7 DEF SseInv
<1>7. CASE AppRaises \/ Cancelled
  <2>1. /\ UNCHANGED <<method, sent, captured, size, pending, out>>
        /\ \/ pc \in {"capture", "through"} /\ pc' = "raised"
           \/ pc \in {"capture", "burst", "through"} /\ pc' = "cancelled"
    BY <1>7 DEF AppRaises, Cancelled
  <2>2. /\ Short' <=> Short
        /\ Answer' = Answer /\ LinesOf(captured)' = LinesOf(captured)
    BY <2>1, AnswerUnmoved
  <2>3. /\ out \in Seq(AllMessages) /\ pending \in Seq(AllMessages)
        /\ sent \in Seq(AllMessages) /\ captured \in Seq(Messages)
    BY <1>1, MoreMessages DEF MessagesInv
  <2>4. IsPrefix(out, Answer)
    <3>1. CASE pc = "capture"
      <4>1. Answer \in Seq(AllMessages) /\ out = <<>>
        BY <1>1, <2>3, <3>1, ResponseCases DEF Answer, HeldInv
      <4> QED
        BY <4>1, PrefixOfConcatenation
    <3>2. CASE pc = "burst"
      BY <1>1, <2>3, <3>2, PrefixOfConcatenation DEF AnswerInv
    <3>3. CASE pc = "through"
      <4>1. out = Answer
        BY <1>1, <3>3 DEF AnswerInv, Answer
      <4> QED
        BY <2>3, <4>1, PrefixOfConcatenation
    <3> QED
      BY <2>1, <3>1, <3>2, <3>3
  <2>5. pc' = "raised" => out = IF Short THEN <<>> ELSE sent
    BY <1>1, <2>1 DEF HeldInv, AnswerInv
  <2>6. MessagesInv'
    BY <1>1, <2>1 DEF MessagesInv
  <2>7. HeldInv'
    BY <1>1, <2>1, <2>2 DEF HeldInv
  <2>8. AnswerInv'
    BY <2>1, <2>2, <2>4, <2>5 DEF AnswerInv
  <2> QED
    BY <2>6, <2>7, <2>8 DEF SseInv
<1>8. CASE UNCHANGED sseVars
  <2>1. UNCHANGED <<method, pc, sent, captured, size, pending, out>>
    BY <1>8 DEF sseVars
  <2>2. /\ Short' <=> Short
        /\ Answer' = Answer /\ LinesOf(captured)' = LinesOf(captured)
    BY <2>1, AnswerUnmoved
  <2> QED
    BY <1>1, <2>1, <2>2 DEF SseInv, MessagesInv, HeldInv, AnswerInv
<1> QED
  BY <1>2, <1>3, <1>4, <1>5, <1>6, <1>7, <1>8 DEF SseNext

(* So it holds in every reachable state.                                   *)
LEMMA SseInvHolds == SseSpec => []SseInv
BY SseInvInit, SseInvStep, PTL DEF SseSpec

-----------------------------------------------------------------------------
(* A wrapper that failed before the limit has sent nothing.                *)
THEOREM FailuresAreClean == SseSpec => []CleanFailure
<1>1. SseInv => CleanFailure
  BY DEF SseInv, AnswerInv, Short, CleanFailure
<1> QED
  BY <1>1, SseInvHolds, PTL

(* No more than the limit is kept back, for any limit.                     *)
THEOREM BufferIsBounded == SseSpec => []BoundedBuffer
<1>1. SseInv => BoundedBuffer
  BY DEF SseInv, HeldInv, AnswerInv, BoundedBuffer
<1> QED
  BY <1>1, SseInvHolds, PTL

(* Messages are the application's, or a document that was found.           *)
THEOREM SseTypeCorrect == SseSpec => []SseTypeOK
<1>1. SseInv => SseTypeOK
  <2> SUFFICES ASSUME SseInv PROVE SseTypeOK
    OBVIOUS
  <2>1. MessagesInv
    BY DEF SseInv
  <2>2. \A messages \in {sent, captured, pending, out} : messages \in Seq(AllMessages)
    BY <2>1, MoreMessages DEF MessagesInv
  <2>3. ASSUME NEW messages \in Seq(AllMessages), NEW i \in DOMAIN messages
        PROVE  messages[i] \in AllMessages
    OBVIOUS
  <2> QED
    BY <2>1, <2>2, <2>3 DEF MessagesInv, SseTypeOK, AllMessages
<1> QED
  BY <1>1, SseInvHolds, PTL

(* At every moment the server has the beginning of one answer.             *)
LEMMA BeginningOfAnswer ==
    ASSUME SseInv
    PROVE  IsPrefix(out, Answer)
<1>1. MessagesInv /\ HeldInv /\ AnswerInv
  BY DEF SseInv
<1>2. /\ out \in Seq(AllMessages) /\ pending \in Seq(AllMessages)
      /\ sent \in Seq(AllMessages) /\ captured \in Seq(Messages)
  BY <1>1, MoreMessages DEF MessagesInv
<1>3. Answer \in Seq(AllMessages)
  BY <1>2, ResponseCases DEF Answer
<1>4. CASE out = <<>>
  BY <1>3, <1>4, PrefixOfConcatenation
<1>5. CASE out = Answer
  BY <1>3, <1>5, PrefixOfConcatenation
<1>6. CASE pc = "burst"
  BY <1>1, <1>2, <1>6, PrefixOfConcatenation DEF AnswerInv
<1>7. ~Short => Answer = sent
  BY DEF Answer
<1> QED
  BY <1>1, <1>4, <1>5, <1>6, <1>7 DEF MessagesInv, HeldInv, AnswerInv

(* Never a mixture of the application's response and its conversion.       *)
THEOREM NeverAMixture == SseSpec => []OneResponse
<1>1. SseInv => OneResponse
  <2> SUFFICES ASSUME SseInv PROVE OneResponse
    OBVIOUS
  <2>1. IsPrefix(out, Answer)
    BY BeginningOfAnswer
  <2>2. CASE Answer = sent
    BY <2>1, <2>2 DEF OneResponse
  <2>3. CASE Answer # sent
    <3>1. Short /\ captured # <<>> /\ Answer = Response
      BY <2>3 DEF Answer
    <3>2. captured = sent /\ captured \in Seq(Messages) /\ method = "POST"
      BY <3>1 DEF SseInv, HeldInv, MessagesInv, Short
    <3> DEFINE doc == Extract(LinesOf(captured))
    <3>3. /\ Head(captured).type = "sse" /\ Response = Converted(doc) /\ doc \in Documents
          /\ IsFirstDocument(LinesOf(captured), doc)
      BY <2>3, <3>1, <3>2, ResponseCases
    <3> HIDE DEF doc
    <3> QED
      BY <2>1, <3>1, <3>2, <3>3 DEF OneResponse
  <2> QED
    BY <2>2, <2>3
<1> QED
  BY <1>1, SseInvHolds, PTL

(* When the wrapper returns the server has got the whole answer.           *)
THEOREM AnswersAreWhole == SseSpec => []WholeResponse
<1>1. SseInv => WholeResponse
  <2> SUFFICES ASSUME SseInv, pc = "done" PROVE WholeResponse
    BY DEF WholeResponse
  <2>1. out = Answer /\ captured \in Seq(Messages) /\ (Short => captured = sent)
    BY DEF SseInv, AnswerInv, HeldInv, MessagesInv
  <2> DEFINE Found == /\ method = "POST" /\ sent # <<>> /\ Head(sent).type = "sse"
                      /\ size <= MaxBody /\ ~NoDocument(LinesOf(sent))
  <2>2. CASE Found
    <3>1. Short /\ captured = sent /\ captured # <<>>
      BY <2>1, <2>2 DEF Short
    <3>2. out = Converted(Extract(LinesOf(captured)))
      <4>1. /\ ~NoDocument(LinesOf(captured)) /\ Head(captured).type = "sse"
            /\ out = Response
        BY <2>1, <2>2, <3>1 DEF Answer
      <4> QED
        BY <2>1, <3>1, <4>1, ResponseCases
    <3>3. \A doc : /\ Len(Converted(doc)) = 2
                   /\ Last(Converted(doc)).more = FALSE
      BY DEF Converted, Last, Body
    <3> QED
      BY <2>2, <3>2, <3>3 DEF WholeResponse
  <2>3. CASE ~Found
    <3>1. out = sent
      <4>1. CASE Short /\ captured # <<>>
        <5>1. out = Response /\ captured = sent /\ method = "POST" /\ size <= MaxBody
          BY <2>1, <4>1 DEF Answer, Short
        <5>2. Head(captured).type = "sse" => NoDocument(LinesOf(captured))
          BY <2>3, <4>1, <5>1
        <5> QED
          BY <2>1, <4>1, <5>1, <5>2, ResponseCases
      <4>2. CASE ~(Short /\ captured # <<>>)
        BY <2>1, <4>2 DEF Answer
      <4> QED
        BY <4>1, <4>2
    <3> QED
      BY <2>3, <3>1 DEF WholeResponse
  <2> QED
    BY <2>2, <2>3
<1> QED
  BY <1>1, SseInvHolds, PTL

=============================================================================
