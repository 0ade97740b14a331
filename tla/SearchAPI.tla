------------------------------ MODULE SearchAPI ------------------------------
(***************************************************************************)
(* search_api.py: searches of the index while the document processor       *)
(* rewrites it, both through the one embedding service.                    *)
(*                                                                         *)
(* A search that needs a vector gets it first and takes a connection of    *)
(* the pool then; it reads the two tables in one statement and gives the   *)
(* connection back, whatever happened.  The statistics take three          *)
(* statements on one connection.                                           *)
(*                                                                         *)
(* The index and its writer are those of DocumentIndex, which a daemon     *)
(* alone implements (IndexRefinement); here the writer asks for each chunk *)
(* before it stores it.  A search may return any rows: similarity and rank *)
(* are left out, and the vector index is approximate.                      *)
(*                                                                         *)
(* halfway is a history variable: no code reads or writes it.              *)
(***************************************************************************)
EXTENDS DocumentIndex, EmbeddingService, FiniteSets

CONSTANTS
    Requests,       \* the requests made of the API
    Kinds,          \* what they ask for, of "semantic", "hybrid", "fulltext", "stats"
    Indexer,        \* the document processor, as a client of the embedding service
    PoolSize,       \* max_size of the pool
    Limit,          \* most rows of an answer
    MaxAttempts     \* max_retries of the indexer

ASSUME SearchAssumption ==
    /\ IsFiniteSet(Requests) /\ Indexer \notin Requests
    /\ Kinds \subseteq {"semantic", "hybrid", "fulltext", "stats"}
    /\ PoolSize \in Nat \ {0} /\ Limit \in Nat /\ MaxAttempts \in Nat \ {0}

VARIABLES
    api,        \* "down", "up", or "stopping"
    free,       \* connections of the pool nobody has
    req,        \* req[r]: where request r is, its kind, the rows of its answer
    writer,     \* "ready" to ask for the next chunk, "asked", or "embedded"
    attempt,    \* the attempt of the writer
    halfway     \* history: the documents whose last writer has recorded them, not cleared

store == <<index, halfway>>

vars == <<store, service, api, free, req, writer, attempt>>

NewRequest == [pc |-> "new", kind |-> "none", rows |-> {}]

NeedsVector(kind) == kind \in {"semantic", "hybrid"}

Final == {"new", "ok", "failed"}

Holding == {r \in Requests : req[r].pc \in {"query", "count", "count_chunks", "latest"}}

UnderWay == {r \in Requests : req[r].pc \notin Final}

\* document_chunks JOIN documents: a row has the title of the document as it is
\* recorded, and the text of the chunk.
Joined ==
    UNION {{[file |-> f, title |-> recorded[f], text |-> held[f].text, i |-> i] : i \in 1..held[f].n} :
             f \in Files}

Init ==
    /\ IndexInit
    /\ ServiceInit
    /\ api = "down"
    /\ free = PoolSize
    /\ req = [r \in Requests |-> NewRequest]
    /\ writer = "ready"
    /\ attempt = 1
    /\ halfway = {}

-----------------------------------------------------------------------------
(* The API and its requests. *)

\* lifespan: the pool is made and the tables are there.  If not, the process
\* ends and is started again.
StartApi ==
    /\ api = "down"
    /\ api' = "up"
    /\ UNCHANGED <<store, service, free, req, writer, attempt>>

\* SIGTERM: no new requests.
StopApi ==
    /\ api = "up"
    /\ api' = "stopping"
    /\ UNCHANGED <<store, service, free, req, writer, attempt>>

\* close: after the last request.
CloseApi ==
    /\ api = "stopping" /\ UnderWay = {}
    /\ api' = "down"
    /\ UNCHANGED <<store, service, free, req, writer, attempt>>

\* The process ends with its connections; what it had asked for stays asked.
CrashApi ==
    /\ api # "down"
    /\ api' = "down"
    /\ free' = PoolSize
    /\ req' = [r \in Requests |-> IF r \in UnderWay THEN [NewRequest EXCEPT !.pc = "failed"] ELSE req[r]]
    /\ asking' = asking \ Requests
    /\ stale' = IF stale + Cardinality(asking \cap Requests) > MaxStale THEN MaxStale
                ELSE stale + Cardinality(asking \cap Requests)
    /\ UNCHANGED <<store, server, writer, attempt>>

Arrive(r, kind) ==
    /\ api = "up" /\ req[r].pc = "new"
    /\ req' = [req EXCEPT ![r] = [NewRequest EXCEPT
                  !.kind = kind, !.pc = IF NeedsVector(kind) THEN "embed" ELSE "acquire"]]
    /\ UNCHANGED <<store, service, api, free, writer, attempt>>

Goto(r, pc) == req' = [req EXCEPT ![r].pc = pc]

\* generate_embedding: the vector comes, or the answer is 500, at once.
AskVector(r) ==
    /\ req[r].pc = "embed"
    /\ \/ Post(r) /\ Goto(r, "asked")
       \/ Refused /\ Goto(r, "failed")
    /\ UNCHANGED <<store, api, free, writer, attempt>>

GetVector(r) ==
    /\ req[r].pc = "asked"
    /\ Answer(r)
    /\ Goto(r, "acquire") \/ Goto(r, "failed")
    /\ UNCHANGED <<store, api, free, writer, attempt>>

NoVector(r) ==
    /\ req[r].pc = "asked"
    /\ TimeOut(r) \/ Closed(r)
    /\ Goto(r, "failed")
    /\ UNCHANGED <<store, api, free, writer, attempt>>

\* pool.acquire() waits, without a limit, for a free connection; the connection
\* may have to be opened, which may fail.
Acquire(r) ==
    /\ req[r].pc = "acquire"
    /\ free > 0
    /\ \/ /\ Goto(r, IF req[r].kind = "stats" THEN "count" ELSE "query")
          /\ free' = free - 1
       \/ /\ Goto(r, "failed")
          /\ UNCHANGED free
    /\ UNCHANGED <<store, service, api, writer, attempt>>

\* The one statement of a search, and the end of the async with.
Fetch(r) ==
    /\ req[r].pc = "query"
    /\ \E rows \in SUBSET Joined :
        /\ Cardinality(rows) <= Limit
        /\ req' = [req EXCEPT ![r].pc = "ok", ![r].rows = rows]
    /\ free' = free + 1
    /\ UNCHANGED <<store, service, api, writer, attempt>>

\* The three statements of get_stats, whose results are left out.
Count(r) ==
    /\ \/ req[r].pc = "count" /\ Goto(r, "count_chunks") /\ UNCHANGED free
       \/ req[r].pc = "count_chunks" /\ Goto(r, "latest") /\ UNCHANGED free
       \/ /\ req[r].pc = "latest"
          /\ Goto(r, "ok")
          /\ free' = free + 1
    /\ UNCHANGED <<store, service, api, writer, attempt>>

\* Mutant of StatementFails: the handler releases what the async with releases.
StatementFailsGivesTwice(r) ==
    /\ r \in Holding
    /\ Goto(r, "failed")
    /\ free' = free + 2
    /\ UNCHANGED <<store, service, api, writer, attempt>>

\* Mutant of StatementFails: the connection is given back on success only.
StatementFailsAndKeeps(r) ==
    /\ r \in Holding
    /\ Goto(r, "failed")
    /\ UNCHANGED <<store, service, api, free, writer, attempt>>

\* A statement fails, or takes longer than command_timeout.
StatementFails(r) ==
    /\ r \in Holding
    /\ Goto(r, "failed")
    /\ free' = free + 1
    /\ UNCHANGED <<store, service, api, writer, attempt>>

-----------------------------------------------------------------------------
(* The writer: DocumentIndex, with a request for each chunk. *)

Others == <<api, free, req>>

RecordRow(f) ==
    /\ \E c \in Text : Record(f, c)
    /\ halfway' = halfway \cup {f}

ClearRows(f) ==
    /\ Clear(f)
    /\ halfway' = halfway \ {f}

RecordOrClear ==
    /\ \E f \in Files : RecordRow(f) \/ ClearRows(f)
    /\ UNCHANGED <<service, Others, writer, attempt>>

AskChunk ==
    /\ writer = "ready"
    /\ \E f \in Files : writing[f] = "fill"
    /\ Post(Indexer)
    /\ writer' = "asked"
    /\ UNCHANGED <<store, Others, attempt>>

GetChunk ==
    /\ writer = "asked"
    /\ Answer(Indexer)
    /\ writer' = "embedded"
    /\ UNCHANGED <<store, Others, attempt>>

StoreChunk ==
    /\ writer = "embedded"
    /\ \E f \in Files : Add(f)
    /\ writer' = "ready"
    /\ attempt' = 1
    /\ UNCHANGED <<service, Others, halfway>>

\* The request fails: no server, its connection closed, 500, or 30 seconds.
Unanswered ==
    \/ writer = "ready" /\ (\E f \in Files : writing[f] = "fill") /\ Refused
    \/ writer = "asked" /\ (Answer(Indexer) \/ TimeOut(Indexer) \/ Closed(Indexer))

\* Mutant of RetryChunk: the attempts are not counted.
AskAgain == Unanswered /\ writer' = "ready" /\ UNCHANGED <<store, Others, attempt>>

RetryChunk ==
    /\ attempt < MaxAttempts
    /\ Unanswered
    /\ writer' = "ready"
    /\ attempt' = attempt + 1
    /\ UNCHANGED <<store, Others>>

\* The exception leaves process_document: the last attempt has failed, or an
\* answer of any attempt had no vector in it, which is not retried.
GiveUpChunk ==
    /\ \/ attempt = MaxAttempts /\ Unanswered
       \/ writer = "asked" /\ Answer(Indexer)
    /\ \E f \in Files : writing[f] = "fill" /\ Abandon(f)
    /\ writer' = "ready"
    /\ attempt' = 1
    /\ UNCHANGED <<Others, halfway>>

\* The processor ends, or loses its connection; a request of its stays.
WriterDies ==
    /\ \E f \in Files : Abandon(f)
    /\ writer' = "ready"
    /\ attempt' = 1
    /\ IF writer = "asked" /\ Indexer \in asking THEN TimeOut(Indexer) ELSE UNCHANGED service
    /\ UNCHANGED <<Others, halfway>>

-----------------------------------------------------------------------------

ServerStep ==
    /\ LoadModel \/ EncodeStale \/ CrashServer
    /\ UNCHANGED <<store, Others, writer, attempt>>

RequestStep(r) ==
    AskVector(r) \/ NoVector(r) \/ Acquire(r) \/ Fetch(r) \/ Count(r) \/ StatementFails(r)

\* What the writer does by itself, in a document.
WriterStep ==
    \/ (\E f \in Files : ClearRows(f)) /\ UNCHANGED <<service, Others, writer, attempt>>
    \/ AskChunk \/ StoreChunk \/ RetryChunk \/ GiveUpChunk

Next ==
    \/ StartApi \/ StopApi \/ CloseApi \/ CrashApi
    \/ \E r \in Requests, kind \in Kinds : Arrive(r, kind)
    \/ \E r \in Requests : RequestStep(r) \/ GetVector(r)
    \/ RecordOrClear \/ AskChunk \/ GetChunk \/ StoreChunk
    \/ RetryChunk \/ GiveUpChunk \/ WriterDies
    \/ ServerStep

Spec == Init /\ [][Next]_vars

\* A request and the writer go on by themselves: their requests to the embedding
\* service time out after 30 seconds, statements of the API after 30 too.
\* Nothing is asked of the embedding service, which may stay down or be silent.
FairSpec ==
    /\ Spec
    /\ \A r \in Requests : WF_vars(RequestStep(r))
    /\ WF_vars(WriterStep)

-----------------------------------------------------------------------------
(* Properties. *)

Row == [file : Files, title : Text, text : Text, i : Nat \ {0}]

Request == [pc : Final \cup {"embed", "asked", "acquire", "query", "count", "count_chunks", "latest"},
            kind : Kinds \cup {"none"}, rows : SUBSET Row]

\* The parts keep their shape; the server works only for those who wait for it,
\* and no connection is given back that nobody had.
TypeOK ==
    /\ IndexTypeOK
    /\ server \in {"down", "up"}
    /\ asking \subseteq {r \in Requests : req[r].pc = "asked"}
                        \cup (IF writer = "asked" THEN {Indexer} ELSE {})
    /\ stale \in 0..MaxStale
    /\ api \in {"down", "up", "stopping"}
    /\ free \in 0..PoolSize
    /\ req \in [Requests -> Request]
    /\ writer \in {"ready", "asked", "embedded"}
    /\ attempt \in 1..MaxAttempts
    /\ halfway \subseteq Files

\* A search returns the text of one version under the title of another only
\* between the upsert of a document and the DELETE of its chunks, or after a
\* writer that gave up there: never while the new chunks come, nor when a writer
\* that is interrupted later has left some of them.
TitlesFitTexts ==
    [][\A r \in Requests : \A x \in req'[r].rows \ req[r].rows :
          x.title = x.text \/ x.file \in halfway]_vars

\* Each connection is free or in the hands of a request that is reading: none is
\* lost to a failed statement or embedding, nor to a request that has ended.
ConnectionsReturn == free + Cardinality(Holding) = PoolSize

\* Every request is answered, with a result or 500, with more requests than
\* connections and whatever becomes of the embedding service.
RequestsAnswered == \A r \in Requests : r \in UnderWay ~> r \notin UnderWay

\* Every rewrite of a document ends, whole or given up, while searches compete
\* for the embedding service.
WritersEnd == \A f \in Files : writing[f] # "no" ~> writing[f] = "no"
=============================================================================
