----------------------------- MODULE ArtifactsApi -----------------------------
(***************************************************************************)
(* Requests for the artifacts of one job: the listing and the download of  *)
(* api/http.py and the link of api/mcp_server.py, over S3ArtifactsStorage  *)
(* or LocalArtifactsStorage, while workers and others put objects into the *)
(* bucket, or write and remove files.  Every presigned GET and every look  *)
(* at a file is a step of its own.                                         *)
(*                                                                         *)
(*   idle -> lookup -> page (once per page)                -> answered     *)
(*                  -> walk -> stat (once per file)        -> answered     *)
(*                  -> resolve (-> serve a local file)     -> answered     *)
(*                                                                         *)
(* A key under the prefix of the job, or a file name in its directory, is  *)
(* a sequence of numbers: what S3 lists is ordered by key, and one key may *)
(* be a prefix of another.                                                 *)
(***************************************************************************)
EXTENDS Naturals, Sequences, FiniteSets, SequencesExt, FiniteSetsExt

CONSTANTS
    Requests,
    Keys,           \* the keys that may come to exist under the job's prefix
    MaxKeys,        \* list_max_keys, the size of a page
    MaxRemovals,    \* bound: files that are removed
    Failures        \* how a GET of this instance may fail

AllFailures ==
    {"url_error",       \* URLError or HTTPError
     "bad_xml",         \* ParseError or ValueError, of what was received
     "read_timeout"}    \* TimeoutError, once the connection was made

ASSUME ArtifactsAssumption ==
    /\ \A k \in Keys : k \in Seq(Nat) /\ k # <<>>
    /\ <<1>> \in Keys /\ <<0>> \notin Keys
    /\ MaxKeys \in Nat \ {0} /\ MaxRemovals \in Nat
    /\ Failures \subseteq AllFailures

VARIABLES
    backend,    \* "s3" or "local"
    record,     \* whether Redis has a record of the job
    bucket,     \* SUBSET Keys: the objects, or the files
    removed,    \* history: the files that are there no more
    phase, kind, path,  \* per request: where it stands, what it asks for
    token,      \* [Requests -> Keys \cup {<<>>}], the continuation token
    found,      \* [Requests -> SUBSET Keys], walked and not yet looked at
    items,      \* [Requests -> Seq(Keys)], all_items or results
    atStart,    \* history: the bucket when the request began its work
    failed,     \* history: the failure the request met, or "none"
    status      \* the answer: an HTTP status, or what the link lookup did

storageVars == <<backend, record, bucket, removed>>
requestVars == <<kind, path, atStart>>
artifactVars == <<storageVars, requestVars, phase, token, found, items, failed, status>>

Kinds == {"list", "download", "link"}
Phases == {"idle", "lookup", "page", "walk", "stat", "resolve", "serve", "answered"}
Statuses == {"none", "200", "307", "400", "404", "500", "502", "null", "url", "raised"}
BadPath == <<0>>        \* a path _safe_posix_relpath refuses
Archive == <<1>>        \* ARTIFACTS_ARCHIVE_NAME, what the link points to

ArtifactsTypeOK ==
    /\ backend \in {"s3", "local"}
    /\ record \in BOOLEAN
    /\ bucket \subseteq Keys /\ removed \subseteq Keys \ bucket
    /\ phase \in [Requests -> Phases]
    /\ kind \in [Requests -> Kinds]
    /\ path \in [Requests -> Keys \cup {BadPath}]
    /\ token \in [Requests -> Keys \cup {<<>>}]
    /\ found \in [Requests -> SUBSET Keys]
    /\ items \in [Requests -> Seq(Keys)]
    /\ atStart \in [Requests -> SUBSET Keys]
    /\ failed \in [Requests -> Failures \cup {"gone", "none"}]
    /\ status \in [Requests -> Statuses]

ArtifactsInit ==
    /\ backend \in {"s3", "local"}
    /\ record = TRUE
    /\ bucket = {} /\ removed = {}
    /\ phase = [r \in Requests |-> "idle"]
    /\ kind = [r \in Requests |-> "list"]
    /\ path = [r \in Requests |-> BadPath]
    /\ token = [r \in Requests |-> <<>>]
    /\ found = [r \in Requests |-> {}]
    /\ items = [r \in Requests |-> <<>>]
    /\ atStart = [r \in Requests |-> {}]
    /\ failed = [r \in Requests |-> "none"]
    /\ status = [r \in Requests |-> "none"]

-----------------------------------------------------------------------------
(* S3: ListObjectsV2 as the code uses it.                                  *)

(* Keys are ordered by their first difference, a prefix before the rest.   *)
Before(k, l) ==
    \E i \in DOMAIN l :
        /\ i \in DOMAIN k => k[i] < l[i]
        /\ \A h \in 1 .. i - 1 : h \in DOMAIN k /\ k[h] = l[h]

(* The keys in their order: at n is the one that n - 1 are before.         *)
Sorted(keys) ==
    [n \in 1 .. Cardinality(keys) |->
        CHOOSE k \in keys : Cardinality({l \in keys : Before(l, k)}) = n - 1]

Listed(prefix, after) ==
    Sorted({k \in bucket : IsPrefix(prefix, k) /\ (after = <<>> \/ Before(after, k))})

Page(prefix, after, max) ==
    LET all == Listed(prefix, after)
    IN  [keys |-> SubSeq(all, 1, Min({max, Len(all)})), truncated |-> Len(all) > max]

-----------------------------------------------------------------------------
(* list.sort by path: the item at j goes before the one at i.  Equal items *)
(* stay as they were.                                                      *)
GoesFirst(s, j, i) == Before(s[j], s[i]) \/ (s[j] = s[i] /\ j < i)

InOrder(s) ==
    [n \in DOMAIN s |->
        s[CHOOSE i \in DOMAIN s :
            Cardinality({j \in DOMAIN s : GoesFirst(s, j, i)}) = n - 1]]

Answer(r, s) ==
    /\ phase' = [phase EXCEPT ![r] = "answered"]
    /\ status' = [status EXCEPT ![r] = s]

(* Mutants: a failure is taken for a missing object; a failed page ends    *)
(* the list; the class of the failure is answered.                         *)
OnFailureMissing(r, failure) == IF kind[r] = "link" THEN "null" ELSE "404"
OnFailurePartial(r, failure) ==
    CASE kind[r] = "list" -> "200"
      [] kind[r] = "link" -> "null"
      [] OTHER            -> "502"
OnFailureClass(r, failure) == failure

(* The answer to a failure, by the except clauses it passes.  "gone" is a  *)
(* FileNotFoundError of stat, past every except clause.                    *)
OnFailure(r, failure) ==
    IF failure = "gone" THEN "500"
    ELSE IF failure = "read_timeout" THEN IF kind[r] = "link" THEN "raised" ELSE "500"
    ELSE IF kind[r] = "link" THEN "null" ELSE "502"

Fails(r, failure) ==
    /\ failed' = [failed EXCEPT ![r] = failure]
    /\ Answer(r, OnFailure(r, failure))
    /\ UNCHANGED <<storageVars, requestVars, token, found, items>>

Request(r, k, p) ==
    /\ phase[r] = "idle"
    /\ kind' = [kind EXCEPT ![r] = k]
    /\ path' = [path EXCEPT ![r] = p]
    /\ phase' = [phase EXCEPT ![r] = IF k = "link" THEN "resolve" ELSE "lookup"]
    /\ atStart' = [atStart EXCEPT ![r] = bucket]
    /\ UNCHANGED <<storageVars, token, found, items, failed, status>>

Asks(r) ==
    phase' = [phase EXCEPT ![r] = IF kind[r] = "download" THEN "resolve"
                                  ELSE IF backend = "s3" THEN "page" ELSE "walk"]

(* store.get, before the backend is asked                                  *)
Lookup(r) ==
    /\ phase[r] = "lookup"
    /\ \/ /\ ~record
          /\ Answer(r, "404")
       \/ /\ record
          /\ Asks(r)
          /\ UNCHANGED status
    /\ UNCHANGED <<storageVars, requestVars, token, found, items, failed>>

(* Mutant: the continuation starts after the first key of the page.        *)
ListFromFirstKey(r) ==
    /\ phase[r] = "page"
    /\ LET page == Page(<<>>, token[r], MaxKeys)
       IN  /\ items' = [items EXCEPT ![r] = InOrder(@ \o page.keys)]
           /\ IF page.truncated
              THEN /\ token' = [token EXCEPT ![r] = Head(page.keys)]
                   /\ UNCHANGED <<phase, status>>
              ELSE /\ Answer(r, "200")
                   /\ UNCHANGED token
           /\ UNCHANGED <<storageVars, requestVars, found, failed>>

(* Mutant: the token of the page is not kept for the next one.             *)
ListSamePage(r) ==
    /\ phase[r] = "page"
    /\ LET page == Page(<<>>, token[r], MaxKeys)
       IN  /\ items' = [items EXCEPT ![r] = @ \o page.keys]
           /\ IF page.truncated THEN UNCHANGED <<phase, status>> ELSE Answer(r, "200")
           /\ UNCHANGED <<storageVars, requestVars, token, found, failed>>

(* S3: one turn of the loop of list_files.                                 *)
ListPage(r) ==
    /\ phase[r] = "page"
    /\ \/ LET page == Page(<<>>, token[r], MaxKeys)
          IN  /\ IF page.truncated
                 THEN /\ items' = [items EXCEPT ![r] = @ \o page.keys]
                      /\ token' = [token EXCEPT ![r] = Last(page.keys)]
                      /\ UNCHANGED <<phase, status>>
                 ELSE /\ items' = [items EXCEPT ![r] = InOrder(@ \o page.keys)]
                      /\ Answer(r, "200")
                      /\ UNCHANGED token
              /\ UNCHANGED <<storageVars, requestVars, found, failed>>
       \/ \E failure \in Failures : Fails(r, failure)

(* Local: os.walk reads the directory, then each file is looked at.        *)
Walk(r) ==
    /\ phase[r] = "walk"
    /\ found' = [found EXCEPT ![r] = bucket]
    /\ phase' = [phase EXCEPT ![r] = "stat"]
    /\ UNCHANGED <<storageVars, requestVars, token, items, failed, status>>

(* Mutant: the files that are there no more cut the list short.            *)
StatUntilGone(r) ==
    /\ phase[r] = "stat"
    /\ \/ /\ found[r] \cap removed # {} \/ found[r] = {}
          /\ Answer(r, "200")
          /\ UNCHANGED <<found, items>>
       \/ /\ found[r] \cap removed = {}
          /\ \E k \in found[r] :
                /\ found' = [found EXCEPT ![r] = @ \ {k}]
                /\ items' = [items EXCEPT ![r] = InOrder(Append(@, k))]
          /\ UNCHANGED <<phase, status>>
    /\ UNCHANGED <<storageVars, requestVars, token, failed>>

Stat(r) ==
    /\ phase[r] = "stat"
    /\ \/ /\ found[r] = {}
          /\ items' = [items EXCEPT ![r] = InOrder(@)]
          /\ Answer(r, "200")
          /\ UNCHANGED <<storageVars, requestVars, token, found, failed>>
       \/ \E k \in found[r] :
            \/ /\ k \in bucket
               /\ found' = [found EXCEPT ![r] = @ \ {k}]
               /\ items' = [items EXCEPT ![r] = Append(@, k)]
               /\ UNCHANGED <<storageVars, requestVars, phase, token, failed, status>>
            \/ /\ k \notin bucket
               /\ Fails(r, "gone")

(* Mutant: any key that begins with the path will do.                      *)
PrefixExists(p) == Page(p, <<>>, 1).keys # <<>>

(* _object_exists: of the keys that begin with the path, S3 is asked for   *)
(* the first only.                                                         *)
ObjectExists(p) == Page(p, <<>>, 1).keys = <<p>>

(* What the callers of resolve_download make of what it finds: a local     *)
(* file has no link.                                                       *)
Resolved(r) ==
    CASE kind[r] = "link" -> IF backend = "s3" /\ ObjectExists(path[r]) THEN "url" ELSE "null"
      [] OTHER            -> IF ObjectExists(path[r]) THEN "307" ELSE "404"

(* resolve_download.  A refused path is answered before S3 is asked.       *)
Resolve(r) ==
    /\ phase[r] = "resolve"
    /\ \/ /\ path[r] = BadPath
          /\ Answer(r, "400")
          /\ UNCHANGED <<storageVars, requestVars, token, found, items, failed>>
       \/ /\ path[r] # BadPath
          /\ IF backend = "local" /\ kind[r] = "download" /\ path[r] \in bucket
             THEN phase' = [phase EXCEPT ![r] = "serve"] /\ UNCHANGED status
             ELSE Answer(r, Resolved(r))
          /\ UNCHANGED <<storageVars, requestVars, token, found, items, failed>>
       \/ /\ path[r] # BadPath /\ backend = "s3"
          /\ \E failure \in Failures : Fails(r, failure)

(* FileResponse looks for the file once more, outside the try block.       *)
Serve(r) ==
    /\ phase[r] = "serve"
    /\ \/ /\ path[r] \in bucket
          /\ Answer(r, "200")
          /\ UNCHANGED <<storageVars, requestVars, token, found, items, failed>>
       \/ /\ path[r] \notin bucket
          /\ Fails(r, "gone")

(* S3: the archive of the job is put, or another object under its prefix.  *)
(* Local: LLAMATOR writes a file.                                          *)
PutObject(k) ==
    /\ k \notin bucket \cup removed
    /\ bucket' = bucket \cup {k}
    /\ UNCHANGED <<backend, record, removed, requestVars, phase, token, found, items, failed, status>>

(* Local: LLAMATOR, or whoever keeps the directory, removes a file.        *)
RemoveFile(k) ==
    /\ backend = "local"
    /\ Cardinality(removed) < MaxRemovals
    /\ k \in bucket
    /\ bucket' = bucket \ {k}
    /\ removed' = removed \cup {k}
    /\ UNCHANGED <<backend, record, requestVars, phase, token, found, items, failed, status>>

RecordExpires ==
    /\ record
    /\ record' = FALSE
    /\ UNCHANGED <<backend, bucket, removed, requestVars, phase, token, found, items, failed, status>>

Step(r) == Lookup(r) \/ ListPage(r) \/ Walk(r) \/ Stat(r) \/ Resolve(r) \/ Serve(r)

ArtifactsNext ==
    \/ \E r \in Requests :
        \/ Request(r, "list", BadPath) \/ Request(r, "link", Archive)
        \/ \E p \in Keys \cup {BadPath} : Request(r, "download", p)
        \/ Step(r)
    \/ \E k \in Keys : PutObject(k) \/ RemoveFile(k)
    \/ RecordExpires

ArtifactsSpec == ArtifactsInit /\ [][ArtifactsNext]_artifactVars

-----------------------------------------------------------------------------
(* Properties.                                                             *)

(* A listing over several pages or files, taken while objects are put and  *)
(* files removed, names everything that was there before it began and      *)
(* stays, nothing that never was, each once and in the order of the keys.  *)
ListingIsComplete ==
    \A r \in Requests : kind[r] = "list" /\ status[r] = "200" =>
        /\ atStart[r] \ removed \subseteq Range(items[r])
        /\ Range(items[r]) \subseteq bucket \cup removed
        /\ items[r] = Sorted(Range(items[r]))

(* A caller is sent, or sent to, exactly the object it asked for.  It is   *)
(* told 404 for a file of a job that is known, or given no link without a  *)
(* failure, only when there was no such object when it asked, or it was    *)
(* removed since: no failure of the backend is told as a missing file.     *)
RedirectIsExact ==
    \A r \in Requests :
        /\ status[r] \in {"307", "url"} => backend = "s3" /\ path[r] \in bucket
        /\ status[r] = "200" /\ kind[r] = "download" => path[r] \in bucket \cup removed
        /\ status[r] = "404" /\ kind[r] = "download" /\ record
             => path[r] \notin atStart[r] \ removed
        /\ status[r] = "null" /\ failed[r] = "none" /\ backend = "s3"
             => path[r] \notin atStart[r] \ removed

(* A page of the loop of list_files that adds to the list is the last one, *)
(* or the next one begins later: no page is fetched twice, whatever is put *)
(* into the bucket between two pages, so the loop cannot go round in one.  *)
ListingMovesOn ==
    [][\A r \in Requests :
        phase[r] = "page" /\ items'[r] # items[r] =>
            \/ phase'[r] = "answered"
            \/ /\ token'[r] # <<>>
               /\ token[r] = <<>> \/ Before(token[r], token'[r])]_artifactVars

(* README.md:272 and :289, 502 when the artifacts backend is unavailable;  *)
(* mcp_server.py:113, the link is None when it is not available.           *)
FailuresAsDocumented ==
    \A r \in Requests :
        failed[r] \in Failures => status[r] = IF kind[r] = "link" THEN "null" ELSE "502"
=============================================================================
