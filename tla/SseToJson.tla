------------------------------ MODULE SseToJson ------------------------------
(***************************************************************************)
(* api/asgi_wrappers.py: _McpSseToJsonWrapper around one HTTP request to   *)
(* the MCP application.  It keeps the response of a POST back, up to       *)
(* MaxBody bytes, and replaces an event stream by the JSON document in it. *)
(*                                                                         *)
(*   capture    the application runs, its messages are kept                *)
(*   burst      the wrapper sends what is in pending, one await each       *)
(*   through    the application's messages are forwarded one by one        *)
(*   done, raised, cancelled   how the call of the wrapper ended           *)
(*                                                                         *)
(* A body is a sequence of lines, a line counts one byte.  The data lines  *)
(* "doc1" and "doc2" are JSON documents, "open" and "close" the two halves *)
(* of the document "pair"; "bad" is no JSON; "event" is any other field    *)
(* of an event, "blank" ends one.                                          *)
(***************************************************************************)
EXTENDS Naturals, Sequences, SequencesExt, Lists

CONSTANTS
    MaxBody,    \* max_body_bytes
    Lines,      \* the lines a body is made of
    MaxChunk,   \* bound: lines per body message
    MaxMessages \* bound: messages per response

AllLines == {"doc1", "doc2", "open", "close", "bad", "event", "blank"}

ASSUME SseAssumption ==
    /\ MaxBody \in Nat \ {0}
    /\ Lines \subseteq AllLines
    /\ MaxChunk \in Nat
    /\ MaxMessages \in Nat

VARIABLES
    method,     \* "POST" or another
    pc,
    sent,       \* history: the messages the application has sent
    captured,   \* captured_start and captured_body_msgs
    size,       \* captured_bytes
    pending,    \* what the current burst has still to send
    out         \* the messages the server has got

sseVars == <<method, pc, sent, captured, size, pending, out>>

Start(type) == [kind |-> "start", type |-> type]
Body(lines, more) == [kind |-> "body", lines |-> lines, more |-> more]
Chunks == UNION {[1 .. n -> Lines] : n \in 0 .. MaxChunk}

LinesOf(messages) ==
    FlattenSeq([i \in DOMAIN messages |->
                   IF messages[i].kind = "body" THEN messages[i].lines ELSE <<>>])

DataLines == {"doc1", "doc2", "open", "close", "bad"}
Documents == {"doc1", "doc2", "pair"}

(* json.loads of the data lines of one event, joined: the document, or none*)
Parse(data) ==
    CASE data = <<"doc1">> -> "doc1"
      [] data = <<"doc2">> -> "doc2"
      [] data = <<"open", "close">> -> "pair"
      [] OTHER -> "none"

-----------------------------------------------------------------------------
(* _try_extract_json_from_sse                                              *)

(* Mutant: the lines of an event that is no JSON are not cleared.          *)
ScanUncleared(acc, line) ==
    IF acc.found # "none" THEN acc
    ELSE IF line = "blank" THEN [acc EXCEPT !.found = Parse(acc.data)]
    ELSE IF line \in DataLines THEN [acc EXCEPT !.data = Append(@, line)]
    ELSE acc

Scan(acc, line) ==
    IF acc.found # "none" THEN acc
    ELSE IF line = "blank" THEN [data |-> <<>>, found |-> Parse(acc.data)]
    ELSE IF line \in DataLines THEN [acc EXCEPT !.data = Append(@, line)]
    ELSE acc

Extract(lines) ==
    LET scanned[n \in 0 .. Len(lines)] ==
            IF n = 0 THEN [data |-> <<>>, found |-> "none"]
            ELSE Scan(scanned[n - 1], lines[n])
        end == scanned[Len(lines)]
    IN  IF end.found # "none" THEN end.found ELSE Parse(end.data)

-----------------------------------------------------------------------------
SseInit ==
    /\ method \in {"POST", "GET"}
    /\ pc = IF method = "POST" THEN "capture" ELSE "through"
    /\ sent = <<>>
    /\ captured = <<>>
    /\ size = 0
    /\ pending = <<>>
    /\ out = <<>>

Finished == sent # <<>> /\ Last(sent).kind = "body" /\ ~Last(sent).more

(* The application sends its start, then body messages until one is last.  *)
MaySend(message) ==
    IF sent = <<>> THEN message.kind = "start"
    ELSE /\ message.kind = "body"
         /\ ~Finished
         /\ Len(sent) < MaxMessages

(* Mutant: the start of the response is sent on at once.                   *)
CaptureStartEager(message) ==
    /\ pc = "capture" /\ MaySend(message) /\ message.kind = "start"
    /\ sent' = Append(sent, message)
    /\ captured' = <<message>>
    /\ out' = Append(out, message)
    /\ UNCHANGED <<method, pc, size, pending>>

(* send_wrapper, while the response is kept back                           *)
CaptureStart(message) ==
    /\ pc = "capture" /\ MaySend(message) /\ message.kind = "start"
    /\ sent' = Append(sent, message)
    /\ captured' = Append(captured, message)
    /\ UNCHANGED <<method, pc, size, pending, out>>

(* Mutant: the messages kept back are dropped when the limit is passed.    *)
CaptureBodyLossy(message) ==
    /\ pc = "capture" /\ MaySend(message) /\ message.kind = "body"
    /\ sent' = Append(sent, message)
    /\ size' = size + Len(message.lines)
    /\ IF size' > MaxBody
       THEN /\ pc' = "burst"
            /\ pending' = <<Head(captured), message>>
            /\ UNCHANGED captured
       ELSE /\ captured' = Append(captured, message)
            /\ UNCHANGED <<pc, pending>>
    /\ UNCHANGED <<method, out>>

(* Mutant: the limit is compared before the new message is counted.        *)
CaptureBodyLate(message) ==
    /\ pc = "capture" /\ MaySend(message) /\ message.kind = "body"
    /\ sent' = Append(sent, message)
    /\ size' = size + Len(message.lines)
    /\ IF size > MaxBody
       THEN /\ pc' = "burst"
            /\ pending' = Append(captured, message)
            /\ UNCHANGED captured
       ELSE /\ captured' = Append(captured, message)
            /\ UNCHANGED <<pc, pending>>
    /\ UNCHANGED <<method, out>>

CaptureBody(message) ==
    /\ pc = "capture" /\ MaySend(message) /\ message.kind = "body"
    /\ sent' = Append(sent, message)
    /\ size' = size + Len(message.lines)
    /\ IF size' > MaxBody
       THEN /\ pc' = "burst"
            /\ pending' = Append(captured, message)
            /\ UNCHANGED captured
       ELSE /\ captured' = Append(captured, message)
            /\ UNCHANGED <<pc, pending>>
    /\ UNCHANGED <<method, out>>

(* send_wrapper after the limit was passed; a request other than a POST    *)
Forward(message) ==
    /\ pc = "through" /\ MaySend(message)
    /\ sent' = Append(sent, message)
    /\ out' = Append(out, message)
    /\ UNCHANGED <<method, pc, captured, size, pending>>

Converted(doc) == <<Start("json"), Body(<<doc>>, FALSE)>>

(* Mutant: a stream without a document is converted, too.                  *)
ResponseUnchecked ==
    IF Head(captured).type = "sse" THEN Converted(Extract(LinesOf(captured)))
    ELSE captured

(* What is sent for the messages kept back: a document is taken out of an  *)
(* event stream that has one.                                              *)
Response ==
    LET doc == Extract(LinesOf(captured))
    IN  IF Head(captured).type = "sse" /\ doc # "none" THEN Converted(doc) ELSE captured

(* The application returns: after its last message, or before it when the  *)
(* client is gone or the server shuts down and an event stream is left     *)
(* unfinished.  It may not have sent anything.                             *)
AppReturns ==
    /\ \/ /\ pc = "capture" /\ captured # <<>>
          /\ pc' = "burst" /\ pending' = Response
       \/ /\ \/ pc = "capture" /\ captured = <<>>
             \/ pc = "through"
          /\ pc' = "done" /\ UNCHANGED pending
    /\ UNCHANGED <<method, sent, captured, size, out>>

Burst ==
    /\ pc = "burst"
    /\ out' = Append(out, Head(pending))
    /\ pending' = Tail(pending)
    /\ pc' = IF Tail(pending) # <<>> THEN "burst"
             ELSE IF size > MaxBody THEN "through" ELSE "done"
    /\ UNCHANGED <<method, sent, captured, size>>

(* The application raised, or the server cancelled the request.            *)
AppRaises ==
    /\ pc \in {"capture", "through"}
    /\ pc' = "raised"
    /\ UNCHANGED <<method, sent, captured, size, pending, out>>

Cancelled ==
    /\ pc \in {"capture", "burst", "through"}
    /\ pc' = "cancelled"
    /\ UNCHANGED <<method, sent, captured, size, pending, out>>

Messages == {Start("sse"), Start("json")}
            \cup {Body(lines, more) : lines \in Chunks, more \in BOOLEAN}

SseNext ==
    \/ \E m \in Messages : CaptureStart(m) \/ CaptureBody(m) \/ Forward(m)
    \/ AppReturns \/ Burst \/ AppRaises \/ Cancelled

SseSpec == SseInit /\ [][SseNext]_sseVars

-----------------------------------------------------------------------------
(* Properties.                                                             *)

SseTypeOK ==
    /\ method \in {"POST", "GET"}
    /\ pc \in {"capture", "burst", "through", "done", "raised", "cancelled"}
    /\ size \in Nat
    /\ \A messages \in {sent, captured, pending, out} :
        \A i \in DOMAIN messages :
            messages[i] \in Messages \cup {Body(<<doc>>, FALSE) : doc \in Documents}

(* What extraction should find, said without a scan: the document of the   *)
(* first event, lines from blank to blank, whose data lines are one.       *)
Ends(lines) == {i \in DOMAIN lines : lines[i] = "blank"} \cup {0, Len(lines) + 1}

Events(lines) ==
    {e \in Ends(lines) \X Ends(lines) :
        e[1] < e[2] /\ \A i \in Ends(lines) : i <= e[1] \/ i >= e[2]}

DocumentOf(lines, e) == Parse(Kept(SubSeq(lines, e[1] + 1, e[2] - 1), DataLines))

IsFirstDocument(lines, doc) ==
    \E e \in Events(lines) :
        /\ doc = DocumentOf(lines, e) /\ doc # "none"
        /\ \A d \in Events(lines) : d[1] < e[1] => DocumentOf(lines, d) = "none"

NoDocument(lines) == \A e \in Events(lines) : DocumentOf(lines, e) = "none"

(* At every moment, however the request ends, the server has got the       *)
(* beginning of one legal response: the application's own, message for     *)
(* message, or the conversion of its event stream, be it one that was left *)
(* unfinished; never a mixture.                                            *)
OneResponse ==
    \/ IsPrefix(out, sent)
    \/ /\ method = "POST" /\ Head(sent).type = "sse"
       /\ \E doc \in Documents :
            IsFirstDocument(LinesOf(sent), doc) /\ IsPrefix(out, Converted(doc))

(* When the wrapper returns, the server has got all of it: an event stream *)
(* short enough with a document in it as one finished JSON response, even  *)
(* when it broke off, and anything else as it came, nothing if nothing.    *)
WholeResponse ==
    pc = "done" =>
        IF method = "POST" /\ sent # <<>> /\ Head(sent).type = "sse"
           /\ size <= MaxBody /\ ~NoDocument(LinesOf(sent))
        THEN Len(out) = 2 /\ Last(out).more = FALSE
        ELSE out = sent

(* No more than MaxBody bytes are ever kept back, beyond the message that  *)
(* passed the limit; what is kept back is all of the response until then,  *)
(* and nothing of it once the wrapper only forwards.                       *)
BoundedBuffer ==
    /\ Len(LinesOf(captured)) <= MaxBody
    /\ pc = "capture" => LinesOf(captured) = LinesOf(sent)
    /\ pc = "through" => out = sent

(* An application that fails before the limit leaves the server free to    *)
(* answer with an error: nothing of the response has been sent.            *)
CleanFailure == method = "POST" /\ pc = "raised" /\ size <= MaxBody => out = <<>>
=============================================================================
