-------------------------- MODULE DocumentProcessor --------------------------
(***************************************************************************)
(* document_processor.py: the processes that keep the tables of            *)
(* MemoryStore in step with the markdown files under DOCS_PATH.            *)
(*                                                                         *)
(*  - the daemon: its main thread makes one pass over all the files, then  *)
(*    starts the watchdog observer, whose thread handles one event at a    *)
(*    time; every request to /process starts one more thread that makes a  *)
(*    pass, from the moment the health server is up.  All of them share    *)
(*    ONE database connection, opened once.                                *)
(*  - `--mode process [--force]`: other processes, with a connection of    *)
(*    their own, that make one pass and exit.                              *)
(*                                                                         *)
(* A step reads or writes one shared thing: a file, or a table through one *)
(* autocommitted statement.  Any other thread may run between two steps.   *)
(***************************************************************************)
EXTENDS MemoryStore, Sequences, FiniteSets

CONSTANTS
    Main, Watcher,  \* the daemon's main thread and the observer's thread
    Triggers,       \* threads the daemon may have alive for /process at one time
    OneShots,       \* processes run with --mode process
    Forced,         \* those of OneShots run with --force
    Daemon,         \* names the daemon process, the owner of the shared connection
    MaxRetries,     \* 3 in generate_embedding
    EditKinds,      \* how files change: "save" in place, "rename" (also a removal)
    MaxEdits,       \* bound: how many times they do
    FaultKinds,     \* which of "outage", "connection", "crash" happen
    MaxFaults       \* bound: how many of them (a stop in the middle of a pass is one beyond it)

ASSUME ThreadsAssumption ==
    /\ Main # Watcher
    /\ {Main, Watcher} \cap Triggers = {}
    /\ ({Main, Watcher, Daemon} \cup Triggers) \cap OneShots = {}
    /\ Forced \subseteq OneShots

ASSUME BoundsAssumption ==
    /\ MaxRetries \in Nat \ {0}
    /\ MaxEdits \in Nat
    /\ MaxFaults \in Nat

VARIABLES
    disk,    \* disk[f]: the content of file f
    queue,   \* file events the observer has queued and not dispatched
    phase,   \* the daemon: "down", "starting" (before observer.start()), "watching", "stopping"
    conn,    \* conn[p]: the connection of process p is open
    thread,  \* thread[t]: where thread t is, and its locals
    edits,   \* changes made to the files so far (bounded by MaxEdits)
    faults,  \* faults so far (bounded by MaxFaults)
    missed,  \* history: files whose last change no event and no later listing reported
    torn     \* history: files that changed between the content and the hash last taken for their row

vars == <<documents, chunks, nextId, disk, queue, phase, conn, thread, edits, faults, missed, torn>>

-----------------------------------------------------------------------------

DaemonThreads == {Main, Watcher} \cup Triggers
Threads == DaemonThreads \cup OneShots
Processes == {Daemon} \cup OneShots

ProcessOf(t) == IF t \in OneShots THEN t ELSE Daemon

Connected(t) == conn[ProcessOf(t)]

Content == Text \cup {Blank, Absent}

PC == {"idle", "wait", "clearChunks", "clearDocuments", "next", "select",
       "check", "reselect", "read", "rehash", "upsert", "delete", "embed", "done"}

\* A frame of process_document (or of the loop of process_all_documents).
Frame == [pc : PC, todo : SUBSET Files, file : Files \cup {0}, hash : Content,
          content : Text \cup {Absent}, id : Nat, i : Nat, attempt : Nat]

\* A thread between two files: at pc, with the files todo still to visit.
At(pc, todo) ==
    [pc |-> pc, todo |-> todo, file |-> 0, hash |-> Absent, content |-> Absent,
     id |-> 0, i |-> 0, attempt |-> 0]

\* list(docs_path.rglob("*.md"))
Listing == {f \in Files : disk[f] # Absent}

-----------------------------------------------------------------------------

Init ==
    /\ TablesInit
    /\ disk \in [Files -> Content]
    /\ queue = <<>>
    /\ phase = "down"
    /\ conn = [p \in Processes |-> p # Daemon]
    /\ thread = [t \in Threads |-> At(IF t \in OneShots THEN "wait" ELSE "idle", {})]
    /\ edits = 0
    /\ faults = 0
    /\ missed = {}
    /\ torn = {}

-----------------------------------------------------------------------------
(* The threads. *)

environment == <<disk, queue, phase, conn, edits, faults, missed, torn>>

\* process_document returns, True or False, or its except clause swallows what
\* was raised: the pass goes on with its next file, the observer with its next
\* event.  Nothing is undone.
Leave(t) ==
    thread' = [thread EXCEPT ![t] =
                 At(IF t = Watcher THEN "idle" ELSE "next", thread[t].todo)]

\* An operation of t raises: the statement on a closed connection, or the
\* opening of a file that is gone.
Raise(t) == Leave(t) /\ UNCHANGED <<tables, environment>>

\* Mutant of BeginFirstPass: the pass starts before there is anything to list.
BeginWithoutListing ==
    /\ thread[Main].pc = "wait"
    /\ thread' = [thread EXCEPT ![Main] = At("next", {})]
    /\ missed' = {}
    /\ UNCHANGED <<tables, disk, queue, phase, conn, edits, faults, torn>>

\* main() once the embedding service answers, or once it has been waited for
\* long enough: the daemon starts its first pass.
BeginFirstPass ==
    /\ thread[Main].pc = "wait"
    /\ thread' = [thread EXCEPT ![Main] = At("next", Listing)]
    /\ missed' = {}
    /\ UNCHANGED <<tables, disk, queue, phase, conn, edits, faults, torn>>

\* The same wait in --mode process.
BeginOneShot(t) ==
    /\ t \in OneShots
    /\ thread[t].pc = "wait"
    /\ thread' = [thread EXCEPT ![t] =
                    IF t \in Forced THEN At("clearChunks", {}) ELSE At("next", Listing)]
    /\ UNCHANGED <<tables, environment>>

\* ... which gives up when the embedding service does not answer.
GiveUp(t) ==
    /\ t \in OneShots
    /\ thread[t].pc = "wait"
    /\ thread' = [thread EXCEPT ![t] = At("done", {})]
    /\ UNCHANGED <<tables, environment>>

\* --force, first statement; a closed connection ends the process.
ClearChunks(t) ==
    /\ thread[t].pc = "clearChunks"
    /\ \/ /\ Connected(t)
          /\ DeleteAllChunks
          /\ thread' = [thread EXCEPT ![t].pc = "clearDocuments"]
       \/ /\ ~ Connected(t)
          /\ thread' = [thread EXCEPT ![t] = At("done", {})]
          /\ UNCHANGED tables
    /\ UNCHANGED environment

\* Mutant of ClearDocuments: the chunks are deleted again, the documents stay.
ClearChunksTwice(t) ==
    /\ thread[t].pc = "clearDocuments"
    /\ Connected(t)
    /\ DeleteAllChunks
    /\ thread' = [thread EXCEPT ![t] = At("next", Listing)]
    /\ UNCHANGED environment

\* --force, second statement, then the listing of the pass.
ClearDocuments(t) ==
    /\ thread[t].pc = "clearDocuments"
    /\ \/ /\ Connected(t)
          /\ DeleteAllDocuments
          /\ thread' = [thread EXCEPT ![t] = At("next", Listing)]
       \/ /\ ~ Connected(t)
          /\ thread' = [thread EXCEPT ![t] = At("done", {})]
          /\ UNCHANGED tables
    /\ UNCHANGED environment

\* The loop of process_all_documents: the first file left, in sorted order, and
\* the hash is_file_processed takes of it (a file that is gone is skipped).
NextFile(t) ==
    /\ thread[t].pc = "next"
    /\ \E f \in thread[t].todo :
         /\ \A g \in thread[t].todo : f <= g
         /\ LET rest == thread[t].todo \ {f} IN
            thread' = [thread EXCEPT ![t] =
                IF disk[f] = Absent THEN At("next", rest)
                ELSE [At("select", rest) EXCEPT !.file = f, !.hash = disk[f]]]
    /\ UNCHANGED <<tables, environment>>

\* process_document starts with is_file_processed again, from a fresh hash.
CheckAgain(t) ==
    /\ thread[t].pc = "check"
    /\ \/ disk[thread[t].file] = Absent /\ Leave(t)
       \/ /\ disk[thread[t].file] # Absent
          /\ thread' = [thread EXCEPT ![t].pc = "reselect",
                                      ![t].hash = disk[thread[t].file]]
    /\ UNCHANGED <<tables, environment>>

\* Mutant of UpToDate: a document that is there is up to date.
UpToDateIfIndexed(t) == Indexed(thread[t].file)

\* is_file_processed(t): the stored hash is the hash just taken.
UpToDate(t) ==
    LET f == thread[t].file IN Indexed(f) /\ documents[f].hash = thread[t].hash

\* The SELECT of is_file_processed, called by the pass.
Select(t) ==
    /\ thread[t].pc = "select"
    /\ Connected(t)
    /\ \/ UpToDate(t) /\ Leave(t)
       \/ ~ UpToDate(t) /\ thread' = [thread EXCEPT ![t].pc = "check"]
    /\ UNCHANGED <<tables, environment>>

\* The same SELECT, called by process_document.
Reselect(t) ==
    /\ thread[t].pc = "reselect"
    /\ Connected(t)
    /\ \/ UpToDate(t) /\ Leave(t)
       \/ ~ UpToDate(t) /\ thread' = [thread EXCEPT ![t].pc = "read"]
    /\ UNCHANGED <<tables, environment>>

\* Mutant of ReadContent: an empty file is stored too.
ReadBlankContent(t) ==
    /\ thread[t].pc = "read"
    /\ disk[thread[t].file] # Absent
    /\ thread' = [thread EXCEPT ![t].pc = "rehash", ![t].content = disk[thread[t].file]]
    /\ UNCHANGED <<tables, environment>>

\* The content that will be stored and chunked.
ReadContent(t) ==
    /\ thread[t].pc = "read"
    /\ \/ disk[thread[t].file] \notin Text /\ Leave(t)
       \/ /\ disk[thread[t].file] \in Text
          /\ thread' = [thread EXCEPT ![t].pc = "rehash",
                                      ![t].content = disk[thread[t].file]]
    /\ UNCHANGED <<tables, environment>>

\* The hash that will be stored: taken from the file, not from the content.
Rehash(t) ==
    /\ thread[t].pc = "rehash"
    /\ \/ disk[thread[t].file] = Absent /\ Leave(t)
       \/ /\ disk[thread[t].file] # Absent
          /\ thread' = [thread EXCEPT ![t].pc = "upsert",
                                      ![t].hash = disk[thread[t].file]]
    /\ UNCHANGED <<tables, environment>>

\* The row of the document, whose hash says from now on that it is processed.
Upsert(t) ==
    LET f == thread[t].file IN
    /\ thread[t].pc = "upsert"
    /\ Connected(t)
    /\ UpsertDocument(f, thread[t].content, thread[t].hash)
    /\ thread' = [thread EXCEPT ![t].pc = "delete", ![t].id = documents'[f].id]
    /\ torn' = IF thread[t].hash = thread[t].content THEN torn \ {f} ELSE torn
    /\ UNCHANGED <<disk, queue, phase, conn, edits, faults, missed>>

\* Mutant of Delete: the loop over the chunks starts at its second one.
DeleteAndSkipOne(t) ==
    /\ thread[t].pc = "delete"
    /\ Connected(t)
    /\ DeleteChunks(thread[t].file, thread[t].id)
    /\ thread' = [thread EXCEPT ![t].pc = "embed", ![t].attempt = 1,
                               ![t].i = IF NChunks[thread[t].content] = 1 THEN 1 ELSE 2]
    /\ UNCHANGED environment

\* The old chunks go, and the new ones are cut.
Delete(t) ==
    /\ thread[t].pc = "delete"
    /\ Connected(t)
    /\ DeleteChunks(thread[t].file, thread[t].id)
    /\ thread' = [thread EXCEPT ![t].pc = "embed", ![t].i = 1, ![t].attempt = 1]
    /\ UNCHANGED environment

\* Mutant of InsertChunk: the loop stays at its chunk.
InsertChunkAndStay(t) ==
    LET l == thread[t] IN
    /\ l.pc = "embed"
    /\ Connected(t)
    /\ InsertChunkRow(l.file, l.id, l.content, l.i)
    /\ \/ l.i = NChunks[l.content] /\ Leave(t)
       \/ /\ l.i # NChunks[l.content]
          /\ thread' = [thread EXCEPT ![t].attempt = 1]
    /\ UNCHANGED environment

\* Mutant of InsertChunk: the loop ends before the last chunk.
InsertChunkButLast(t) ==
    LET l == thread[t] IN
    /\ l.pc = "embed"
    /\ Connected(t)
    /\ InsertChunkRow(l.file, l.id, l.content, l.i)
    /\ \/ l.i + 1 >= NChunks[l.content] /\ Leave(t)
       \/ /\ l.i + 1 < NChunks[l.content]
          /\ thread' = [thread EXCEPT ![t].i = l.i + 1, ![t].attempt = 1]
    /\ UNCHANGED environment

\* _process_chunk_batch: the embedding of chunk i arrives and the row is
\* inserted; after the last chunk process_document returns.
InsertChunk(t) ==
    LET l == thread[t] IN
    /\ l.pc = "embed"
    /\ Connected(t)
    /\ InsertChunkRow(l.file, l.id, l.content, l.i)
    /\ \/ l.i = NChunks[l.content] /\ Leave(t)
       \/ /\ l.i # NChunks[l.content]
          /\ thread' = [thread EXCEPT ![t].i = l.i + 1, ![t].attempt = 1]
    /\ UNCHANGED environment

\* The document was deleted meanwhile: the insert violates the foreign key.
InsertRefused(t) ==
    /\ thread[t].pc = "embed"
    /\ Connected(t)
    /\ ~ Refers(thread[t].file, thread[t].id)
    /\ Raise(t)

\* Mutant of RetryEmbedding: the attempts start over.
RetryForEver(t) ==
    /\ thread[t].pc = "embed"
    /\ thread' = [thread EXCEPT ![t].attempt = (@ % MaxRetries) + 1]
    /\ UNCHANGED <<tables, environment>>

\* generate_embedding: a request failed, not for the last time.
RetryEmbedding(t) ==
    /\ thread[t].pc = "embed"
    /\ thread[t].attempt < MaxRetries
    /\ thread' = [thread EXCEPT ![t].attempt = @ + 1]
    /\ UNCHANGED <<tables, environment>>

\* generate_embedding raises: the last request failed, or an answer of any
\* request had no embedding in it.
EmbeddingFails(t) ==
    /\ "outage" \in FaultKinds /\ faults < MaxFaults
    /\ thread[t].pc = "embed"
    /\ faults' = faults + 1
    /\ Leave(t)
    /\ UNCHANGED <<tables, disk, queue, phase, conn, edits, missed, torn>>

\* Mutant of StatementFails: an insert that fails is tried again, on the same connection.
StatementRetried(t) ==
    /\ thread[t].pc \in {"select", "reselect", "upsert", "delete", "embed"}
    /\ ~ Connected(t)
    /\ \/ thread[t].pc = "embed" /\ UNCHANGED <<thread, tables, environment>>
       \/ thread[t].pc # "embed" /\ Raise(t)

\* Any statement of process_document or is_file_processed on a closed connection.
StatementFails(t) ==
    /\ thread[t].pc \in {"select", "reselect", "upsert", "delete", "embed"}
    /\ ~ Connected(t)
    /\ Raise(t)

\* The first pass is over: the observer starts.  Nothing it missed is replayed.
StartWatching ==
    /\ thread[Main].pc = "next"
    /\ thread[Main].todo = {}
    /\ thread' = [thread EXCEPT ![Main] = At("idle", {})]
    /\ phase' = "watching"
    /\ UNCHANGED <<tables, disk, queue, conn, edits, faults, missed, torn>>

\* The pass of a /process thread, or of a one-shot process, is over.
EndPass(t) ==
    /\ t # Main
    /\ thread[t].pc = "next"
    /\ thread[t].todo = {}
    /\ thread' = [thread EXCEPT ![t] = At(IF t \in OneShots THEN "done" ELSE "idle", {})]
    /\ UNCHANGED <<tables, environment>>

\* DocumentWatcher.on_modified / on_created.
Dispatch ==
    /\ phase = "watching"
    /\ thread[Watcher].pc = "idle"
    /\ queue # <<>>
    /\ thread' = [thread EXCEPT ![Watcher] = [At("check", {}) EXCEPT !.file = Head(queue)]]
    /\ queue' = Tail(queue)
    /\ UNCHANGED <<tables, disk, phase, conn, edits, faults, missed, torn>>

\* GET or POST /process: a new thread, whatever the others are doing.
TriggerProcessing(t) ==
    /\ t \in Triggers
    /\ phase \in {"starting", "watching"}
    /\ thread[t].pc = "idle"
    /\ thread' = [thread EXCEPT ![t] = At("next", Listing)]
    /\ UNCHANGED <<tables, environment>>

-----------------------------------------------------------------------------
(* The daemon process. *)

\* main(): a new process and a new connection; the health server is up before
\* the wait for the embedding service.
StartDaemon ==
    /\ phase = "down"
    /\ phase' = "starting"
    /\ conn' = [conn EXCEPT ![Daemon] = TRUE]
    /\ thread' = [thread EXCEPT ![Main] = At("wait", {})]
    /\ UNCHANGED <<tables, disk, queue, edits, faults, missed, torn>>

\* KeyboardInterrupt in the sleep loop: the observer and the server stop taking
\* events and requests.
Interrupt ==
    /\ phase = "watching"
    /\ phase' = "stopping"
    /\ queue' = <<>>
    /\ UNCHANGED <<tables, disk, conn, thread, edits, faults, missed, torn>>

\* No thread of the daemon, and no connection of it, is left.
DaemonGone ==
    /\ phase' = "down"
    /\ queue' = <<>>
    /\ conn' = [conn EXCEPT ![Daemon] = FALSE]
    /\ thread' = [t \in Threads |-> IF t \in DaemonThreads THEN At("idle", {}) ELSE thread[t]]

Passing == {t \in Triggers : thread[t].pc # "idle"}

\* observer.join() waits for the event being handled; the /process threads are
\* daemon threads and die with the process.  A pass that is cut short so is a
\* fault, which no bound prevents.
Exit ==
    /\ phase = "stopping"
    /\ thread[Watcher].pc = "idle"
    /\ faults' = IF Passing # {} /\ faults = 0 THEN 1 ELSE faults
    /\ DaemonGone
    /\ UNCHANGED <<tables, disk, edits, missed, torn>>

-----------------------------------------------------------------------------
(* Faults, and the people who edit the files. *)

\* The daemon is killed (or interrupted before its try block).
Crash ==
    /\ "crash" \in FaultKinds /\ faults < MaxFaults
    /\ faults' = faults + 1
    /\ phase # "down"
    /\ DaemonGone
    /\ UNCHANGED <<tables, disk, edits, missed, torn>>

CrashOneShot(t) ==
    /\ "crash" \in FaultKinds /\ faults < MaxFaults
    /\ faults' = faults + 1
    /\ t \in OneShots
    /\ thread[t].pc # "done"
    /\ thread' = [thread EXCEPT ![t] = At("done", {})]
    /\ UNCHANGED <<tables, disk, queue, phase, conn, edits, missed, torn>>

\* PostgreSQL or the network closes a connection.  No code reopens it.
LoseConnection(p) ==
    /\ "connection" \in FaultKinds /\ faults < MaxFaults
    /\ faults' = faults + 1
    /\ conn[p]
    /\ conn' = [conn EXCEPT ![p] = FALSE]
    /\ UNCHANGED <<tables, disk, queue, phase, thread, edits, missed, torn>>

\* A change of f falls between the reading of its content and of its hash.
Torn(f) ==
    IF \E t \in Threads : thread[t].file = f /\ thread[t].pc = "rehash" THEN torn \cup {f} ELSE torn

\* A file is written in place.  While the observer runs this queues an event,
\* unless the last event queued is the same (watchdog's SkipRepeatsQueue).
Save(f, c) ==
    /\ "save" \in EditKinds /\ edits < MaxEdits
    /\ c \in Text \cup {Blank}
    /\ c # disk[f]
    /\ disk' = [disk EXCEPT ![f] = c]
    /\ edits' = edits + 1
    /\ \/ /\ phase = "watching"
          /\ queue' = IF queue # <<>> /\ queue[Len(queue)] = f THEN queue
                      ELSE Append(queue, f)
          /\ missed' = missed \ {f}
       \/ /\ phase # "watching"
          /\ missed' = missed \cup {f}
          /\ UNCHANGED queue
    /\ torn' = Torn(f)
    /\ UNCHANGED <<tables, phase, conn, thread, faults>>

\* A file is removed, moved away, or replaced by the rename of another one: a
\* deleted or moved event, for which DocumentWatcher has no handler.
Rename(f, c) ==
    /\ "rename" \in EditKinds /\ edits < MaxEdits
    /\ c # disk[f]
    /\ disk' = [disk EXCEPT ![f] = c]
    /\ edits' = edits + 1
    /\ missed' = missed \cup {f}
    /\ torn' = Torn(f)
    /\ UNCHANGED <<tables, queue, phase, conn, thread, faults>>

-----------------------------------------------------------------------------

Pass(t) ==
    \/ NextFile(t) \/ Select(t) \/ CheckAgain(t) \/ Reselect(t)
    \/ ReadContent(t) \/ Rehash(t) \/ Upsert(t) \/ Delete(t)
    \/ InsertChunk(t) \/ InsertRefused(t) \/ RetryEmbedding(t)
    \/ EmbeddingFails(t) \/ StatementFails(t) \/ EndPass(t)

OneShot(t) == BeginOneShot(t) \/ GiveUp(t) \/ ClearChunks(t) \/ ClearDocuments(t)

DaemonStep == StartDaemon \/ BeginFirstPass \/ StartWatching \/ Dispatch \/ Exit

Fault ==
    \/ Crash
    \/ \E t \in OneShots : CrashOneShot(t)
    \/ \E p \in Processes : LoseConnection(p)

Edit == \E f \in Files, c \in Content : Save(f, c) \/ Rename(f, c)

Next ==
    \/ \E t \in Threads : Pass(t)
    \/ \E t \in OneShots : OneShot(t)
    \/ \E t \in Triggers : TriggerProcessing(t)
    \/ DaemonStep
    \/ Interrupt
    \/ Fault
    \/ Edit

Spec == Init /\ [][Next]_vars

\* Threads are scheduled, and the container is restarted (restart: unless-stopped).
FairSpec ==
    /\ Spec
    /\ \A t \in Threads : WF_vars(Pass(t))
    /\ \A t \in OneShots : WF_vars(OneShot(t))
    /\ WF_vars(DaemonStep)

-----------------------------------------------------------------------------
(* Properties. *)

\* The tables and the locals of every thread have the shape the code gives them.
TypeOK ==
    /\ TablesTypeOK
    /\ disk \in [Files -> Content]
    /\ queue \in Seq(Files)
    /\ phase \in {"down", "starting", "watching", "stopping"}
    /\ conn \in [Processes -> BOOLEAN]
    /\ thread \in [Threads -> Frame]
    /\ edits \in 0..MaxEdits
    /\ faults \in 0..(MaxFaults + 1)
    /\ missed \subseteq Files
    /\ torn \subseteq Files

\* Thread t is between the upsert of document f and its last chunk.
Writing(t, f) == thread[t].file = f /\ thread[t].pc \in {"delete", "embed"}

\* All the chunks of one text are there, at least once.
Complete(f, c) == \A i \in 1..NChunks[c] : chunks[f][c][i] >= 1

\* However many /process threads, events and --force processes index a file at
\* the same time, none of them loses its chunks: unless something failed, a
\* document nobody is writing has every chunk of SOME text the file had.  The
\* last thread to reach the DELETE of process_document inserts all its chunks.
SomeVersionComplete ==
    faults = 0 =>
        \A f \in Files :
            \/ ~ Indexed(f)
            \/ \E t \in Threads : Writing(t, f) \/ thread[t].pc = "clearDocuments"
            \/ \E c \in Text : Complete(f, c)

\* Why: a thread at work on the row f now has will still delete its chunks and
\* insert its own, or has inserted the first of its own, and nothing but another
\* DELETE, whose thread then stands where this one stood, removes them.
AtWork(t, f) ==
    /\ Writing(t, f)
    /\ thread[t].id = documents[f].id
    /\ thread[t].pc = "embed" =>
         \A j \in 1..(thread[t].i - 1) : chunks[f][thread[t].content][j] >= 1

\* A thread of the daemon is alive only while the daemon is, the main thread
\* rests once the observer runs, and no connection is lost without a fault.
DaemonInv ==
    /\ phase # "starting" => thread[Main].pc = "idle"
    /\ phase = "down" => \A t \in DaemonThreads : thread[t].pc = "idle"
    /\ faults = 0 => (phase = "down" \/ conn[Daemon]) /\ \A p \in OneShots : conn[p]

\* The inductive form of SomeVersionComplete.
WorkInv ==
    /\ DaemonInv
    /\ faults = 0 =>
        \A f \in Files :
            \/ ~ Indexed(f)
            \/ \E t \in Threads : AtWork(t, f) \/ thread[t].pc = "clearDocuments"
            \/ \E c \in Text : Complete(f, c)

\* Two threads in one document can store a chunk twice, but copies do not pile up
\* from pass to pass, whatever fails and whoever empties the tables: there are
\* never more of them than threads that can be in the document at once, one of
\* the daemon's own two, the /process threads and the other processes.
CopiesBounded ==
    \A f \in Files, c \in Text, i \in Index :
        chunks[f][c][i] <= 1 + Cardinality(Triggers) + Cardinality(OneShots)

\* With no /process thread and no second process, whatever fails and wherever
\* the daemon is killed, the chunks of a document are the first chunks of one
\* text, each stored once: never two versions mixed, never a gap, never a copy.
FirstChunksOfOneVersion ==
    \A f \in Files : \E c \in Text, k \in 0..MaxChunks : chunks[f] = FirstChunks(c, k)

\* ... and unless something failed, all the chunks of the content recorded.
ExactUnlessFault ==
    faults = 0 =>
        \A f \in Files :
            \/ \E t \in Threads : Writing(t, f)
            \/ chunks[f] = IF Indexed(f)
                           THEN FirstChunks(documents[f].content, NChunks[documents[f].content])
                           ELSE NoChunks

\* The inductive form of the last two, for a daemon alone: at most one of its
\* two threads is in a document, and that one has stored its own chunks only.
SoleInv ==
    /\ DaemonInv
    /\ thread[Watcher].pc # "idle" => phase \in {"watching", "stopping"}
    /\ FirstChunksOfOneVersion
    /\ ExactUnlessFault
    /\ \A f \in Files : ~ Indexed(f) => chunks[f] = NoChunks
    /\ \A t \in Threads, f \in Files :
         Writing(t, f) =>
            /\ Refers(f, thread[t].id)
            /\ documents[f].content = thread[t].content
            /\ thread[t].pc = "embed" => chunks[f] = FirstChunks(thread[t].content, thread[t].i - 1)

\* An event for f waits for the observer.
Queued(f) == \E j \in DOMAIN queue : queue[j] = f

\* The row of f holds what is in the file: its hash, and the text with that hash,
\* unless the file changed between the two readings (which HashRace shows).
Recorded(f) ==
    /\ Indexed(f) /\ documents[f].hash = disk[f]
    /\ f \notin torn => documents[f].content = disk[f]

\* A file whose content is not the one recorded is still in front of the daemon:
\* listed by the pass, queued as an event, or in hand.  It holds from the first
\* listing on, for the changes an event or that listing reported and that did not
\* fall between the two readings of their file, while the connection lives, and
\* across embedding outages and restarts.
NoChangeForgotten ==
    phase = "watching" \/ (phase = "starting" /\ thread[Main].pc # "wait") =>
        \A f \in Files \ missed :
            \/ ~ conn[Daemon]
            \/ disk[f] \notin Text
            \/ Recorded(f)
            \/ Queued(f)
            \/ \E t \in {Main, Watcher} : thread[t].file = f \/ f \in thread[t].todo

\* Every change that was reported, and that did not fall between the two readings
\* of its file, is eventually recorded, text and hash, for good; but not by a
\* daemon that has lost its connection.
ChangesRecorded ==
    \A f \in Files :
        <>[](\/ f \in missed
             \/ phase # "down" /\ ~ conn[Daemon]
             \/ disk[f] \notin Text
             \/ Recorded(f))

\* No thread stays in a document, or a pass, for ever: the retries end, and an
\* error is swallowed by the loop it must not stop.
ThreadsComeBack ==
    \A t \in Threads : thread[t].pc \notin {"idle", "done"} ~> thread[t].pc \in {"idle", "done"}

\* How many steps a thread has left with its file, its chunks not counted.
StepsLeft == [idle |-> 0, done |-> 0, next |-> 1, embed |-> 2, delete |-> 3, upsert |-> 4,
              rehash |-> 5, read |-> 6, reselect |-> 7, check |-> 8, select |-> 9]

\* A thread at m is nearer to the end of its pass than at l: files are left
\* behind, or steps, or chunks, or attempts.  There is no endless chain of these.
Nearer(m, l) ==
    \/ m.todo \subseteq l.todo /\ m.todo # l.todo
    \/ m.todo = l.todo /\ StepsLeft[m.pc] < StepsLeft[l.pc]
    \/ /\ m.pc = "embed" /\ l.pc = "embed"
       /\ m.todo = l.todo /\ m.file = l.file /\ m.content = l.content
       /\ \/ l.i < m.i /\ m.i <= NChunks[m.content]
          \/ m.i = l.i /\ l.attempt < m.attempt /\ m.attempt <= MaxRetries

\* Why they come back: from the listing of a pass to its end a thread never goes
\* back to a file, a step, a chunk or an attempt, whatever it retries and
\* whatever other threads, saves and failures do.
PassesAdvance ==
    [][\A t \in Threads :
         /\ thread[t].pc \notin {"idle", "wait", "clearChunks", "clearDocuments", "done"}
         /\ thread'[t] # thread[t]
         => Nearer(thread'[t], thread[t])]_vars

-----------------------------------------------------------------------------
(* What the documents say and the code does not do. *)

\* document_processor.py:425, "Check if file has been processed and is up to
\* date": a document whose hash makes is_file_processed answer True has, once no
\* thread is writing it, all the chunks of the text recorded.
UpToDateMeansIndexed ==
    \A f \in Files :
        Indexed(f) /\ documents[f].hash = disk[f] =>
            \/ \E t \in Threads : Writing(t, f)
            \/ Complete(f, documents[f].content)

\* The observer runs, every event has been handled, and no pass is under way.
Resting == phase = "watching" /\ queue = <<>> /\ \A t \in DaemonThreads : thread[t].pc = "idle"

\* ... and the text recorded is the one in the file, once the daemon has handled
\* every event, of a file whose last change was one of them.
UpToDateMeansCurrent ==
    Resting =>
        \A f \in Files \ missed :
            Indexed(f) /\ documents[f].hash = disk[f] => documents[f].content = disk[f]

\* document_processor.py:486, "Delete existing chunks for this document", and
\* MEMORY_STORE_IMPLEMENTATION_GUIDE.md:161, "Avoiding Duplicates": no chunk of a
\* document is stored twice.
EachChunkOnce ==
    \A f \in Files, c \in Text, i \in Index : chunks[f][c][i] <= 1
=============================================================================
