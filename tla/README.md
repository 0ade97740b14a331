# A verification project for compute-cluster

compute-cluster is a home cluster and the programs that run on it. Most of the
repository configures other people's software (Helm charts, Ansible playbooks,
images, dotfiles). The code of its own falls in three groups: the **memory
store**, which keeps a searchable index of the markdown documentation; the
**cluster services** (collector, agent, log consumer, shared message queue);
and **command line tools**.

This project models the memory store in full: what is written to the two
tables, by whom, in which order, what a crash, an outage, a lost connection or a
badly timed save leaves behind, and what a search sees of it. Beside it stand
the message queue, the collector and the task list. Paths below are relative to the
repository root; `document_processor.py` is
`src/memory-store/services/processor/document_processor.py`.

## 1. Inventory

| part | code | state | operations | talks to |
|---|---|---|---|---|
| memory store tables | `src/memory-store/init.sql` | `documents`, `document_chunks`, the id sequence | one autocommitted statement at a time | written by the processor, read by the search service |
| document processor | `document_processor.py` | one connection per process; per thread the file, its hash, its content, the next chunk | a pass over all files, one file, one event, `/process`, `--mode process [--force]` | tables, embedding service, file system, watchdog |
| chunker | `document_processor.py:272-417` | loop variables | `chunk_markdown` | called by `process_document` |
| search service | `services/api/search_api.py` | a pool of connections; the requests under way | vector, text and hybrid search, `/stats`, start, stop | tables, embedding service |
| embedding service | `services/embedding-service/embedding_server.py` | the loaded model; the requests waiting for its one event loop | `/embeddings`, `/health` | called by the two above |
| memory store script | `test-local.sh` | none | starts containers; `documents --mode process [--force]` beside the daemon | runs the processor |
| message queue, pool | `src/internal/ipc/msgqueue.zig`, `src/cmd/pool/main.zig` | a System V queue, found by key and outliving the process | publish, done, next, deinit; a parent reads what its child writes | the kernel |
| memory-mapped buffer | `src/internal/ipc/mmap.zig` | a mapped file and one position | append, read, readIter | file system |
| collector, agent | `src/cmd/collector/*.go`, `src/cmd/run.go`, `src/cmd/agent/main.zig` | table `logs` | append, get, healthz, stop | PostgreSQL; the agent posts to it |
| log consumer | `src/internal/c/logconsumer/main.c`, `rmq.c` | a RabbitMQ channel | consume, signal handler | RabbitMQ |
| task list | `list-tasks.py` | a JSON state file | complete; show, next, find | file system |
| command line | `src/cmd/*.go` | none | one request or child process | search service, Ansible |
| charts, playbooks, dotfiles | `build/`, `bin/`, `.config/`, `.github/` | none | none of the program's own | |

What is hard, and what correct means, for each part with behaviour of its own:

- **Document processor.** Threads of one process (first pass, observer, one per
  `/process` request) and other processes run the same read-hash-read-write
  sequence on the same rows, with no lock and no transaction. Correct: the index
  ends up as the files are; a document that counts as processed is complete; no
  concurrent writer costs another its chunks; nothing that failed is taken for
  done; no thread stays in a pass for ever.
- **Chunker.** Two loops, one blind to the other's rules. Correct: no line lost,
  no block cut, overlaps and sizes as asked.
- **Message queue.** It outlives the processes. Correct: a reader gets what its
  writer published, in order, and ends.
- **Search and embedding service.** Searches read two tables in the middle of a
  rewrite, hold one of few connections, and compete with the indexer for a
  server that answers one request at a time. Correct: chunks of one version
  come under the title of another in a known window only; a connection comes back
  whatever fails; every request is answered and every rewrite ends, with or
  without the server.
- **Collector.** A client leaves, a statement fails after it was done, a stop
  or a kill comes in the middle. Correct: who is told ok has a row, and later
  reads hold it; a stop that had the time for it has cut nobody off.
- **Task list.** Commands load, change, empty and write one file. Correct: what is
  completed stays so, the current phase was earned, the file survives; a task
  is next when its dependencies are complete.

## 2. Modules

| module | models |
|---|---|
| `MemoryStore` | the tables and each statement run on them, as operators |
| `DocumentProcessor` | EXTENDS MemoryStore: the daemon, its threads, the one-shot processes, the editors of the files and the faults; all properties about the index |
| `MCDocumentProcessor` | values for its constants in the `.cfg` files |
| `DocumentProcessorProofs` | theorems for every value of the constants |
| `DaemonAloneProofs` | theorems about a daemon with no `/process` thread and no second process: what the index holds, and that no reported change is forgotten |
| `MessageQueue` | the queue of `msgqueue.zig`, one operator per system call |
| `Pool` | EXTENDS MessageQueue: runs of `cmd/pool/main.zig` that share the queue |
| `Mailbox` | abstract: what a message queue promises the programs that share it |
| `MailboxRefinement` | EXTENDS Pool: its heartbeats sent and read as a `Mailbox` |
| `MCPool` | EXTENDS MailboxRefinement: values for its constants |
| `PoolProofs` | theorems for every number of runs and every capacity |
| `Chunker` | `chunk_markdown` and the two functions it is made of |
| `MCChunker`, `ChunkerProofs` | values for its constants; its theorems, for every text, size and overlap |
| `DocumentIndex` | abstract: the index as its readers see it, rewritten by one writer at a time |
| `IndexRefinement` | EXTENDS DocumentProcessor: what its tables and threads are as a `DocumentIndex` |
| `IndexRefinementProofs` | a daemon alone implements `DocumentIndex` |
| `EmbeddingService` | the embedding server and the requests waiting in it, as operators |
| `SearchAPI` | EXTENDS DocumentIndex, EmbeddingService: the search service, its pool, its requests, and the indexer as its rival for the embedding service |
| `MCSearchAPI`, `SearchProofs` | values for its constants; its theorems |
| `Collector` | the collector and its clients (an agent is one that appends) |
| `MCCollector`, `CollectorProofs` | the symmetry of its clients; its theorems |
| `TaskTable` | the table of tasks of `list-tasks.py` |
| `TaskList` | the state file and the commands on it, for any table |
| `MCTaskList`, `TaskListProofs` | `TaskTable` as the constants of `TaskList`; its theorems |

How they compose: `DocumentProcessor` is shown to implement `DocumentIndex`
when a daemon is alone, and `SearchAPI` composes `DocumentIndex`, not the
processor, with the searches and the embedding service. What is shown of
searches is therefore shown of searches beside a daemon alone; with `/process`
threads the tables may hold mixed versions (`Duplicates`).

### DocumentProcessor and the code

The unit of atomicity is one access to something shared: one read of a file, or
one SQL statement (autocommit is on, line 218, so each is a transaction). A
thread is a record `thread[t]` with a program counter and the locals that
outlive a step: `todo` (the files left in the loop of `process_all_documents`),
`file`, `hash`, `content`, `id` (of the row), `i` (the chunk) and `attempt`.

| step of the code | lines | action |
|---|---|---|
| `main` starts; the connection is opened | 684-702 | `StartDaemon` |
| the wait for the embedding service ends, the pass lists the files | 770-797 | `BeginFirstPass`, `BeginOneShot`, `GiveUp` |
| `--force`, its two DELETEs | 743-747 | `ClearChunks`, `ClearDocuments` |
| next file of the pass and its first hash | 564-568, 426 | `NextFile` |
| the SELECT of `is_file_processed` | 428-437 | `Select` |
| `process_document`: hash and SELECT again | 445 | `CheckAgain`, `Reselect` |
| the content is read; blank ends here | 451-457 | `ReadContent` |
| the hash that will be stored | 463 | `Rehash` |
| INSERT ... ON CONFLICT | 472-484 | `Upsert` |
| DELETE of the old chunks | 487-488 | `Delete` |
| a chunk: its embedding, its INSERT | 517-542 | `InsertChunk`, `InsertRefused` |
| a request to the embedding service fails | 248-258 | `RetryEmbedding`, `EmbeddingFails` |
| a statement on a closed connection | 502-504, 580-582 | `StatementFails` |
| the pass ends; the observer starts | 799-809 | `StartWatching`; `EndPass` in the other threads |
| an event | 642-650 | `Dispatch` |
| `/process` | 137-165 | `TriggerProcessing` |
| Ctrl-C; the process ends, with its `/process` threads (142) wherever they are | 814-824 | `Interrupt`, `Exit` |

The world: `Save` (a file is written in place; while the observer runs, an event
is queued unless it repeats the last one, as watchdog's queue does), `Rename` (a
file is removed, or replaced by a rename: events the watcher has no handler
for), `Crash`, `CrashOneShot`, `LoseConnection`.

Data is abstracted to what the properties tell apart. A text is its identity
and its number of chunks; its hash is the text (MD5 collisions are left out);
`chunks[f][c][i]` counts the rows holding chunk `i` of text `c`, so that
duplicates and mixed versions are visible. The statistics a pass logs, titles,
embeddings and timestamps are left out. Sequence numbers burnt by ON CONFLICT
are left out: ids are compared only for equality.

Two history variables say which changes the properties except. `missed` are the
files whose last change no event reported and no later listing of the daemon saw;
`torn` those that changed between the two readings of the file, of its content
(453) and of the hash that is stored (463), for the row they have now. Both are
hazards of their own; the second has a violated run (`HashRace`). A row
is `Recorded` when its hash is that of the file and, but for the files of `torn`,
its text too. `NoChangeForgotten` and `ChangesRecorded` are about the other
files, and about a daemon that has its connection.

### DocumentIndex and the refinement

`recorded[f]` is the text in the row of `f`, `held[f]` the text and number of
its chunks, `writing[f]` what its writer does next. `Record` is the upsert
(472-484), `Clear` the DELETE (487-488), `Add` one INSERT (517-542), `Abandon`
any way a document is left unfinished (502-504, a kill). `IndexRefinement` maps
the tables of the processor to these: `HeldIn` reads the rows of a document as
the first `n` chunks of one text (rows that are not that map to a value no
abstract state has), `WritingIn` reads the program counters of the threads.

### Chunker and the code

A line is its kind (text, blank, header, fence, table row) and its width, and
the size of a run of lines is the number of their characters (`Width`, the
`len(line) + 1` the code adds up); a section or a chunk is a run of consecutive
lines. One step is one iteration of a
loop: `SplitLine`/`SplitEnd` (301-340), `WholeSection` (346-356), `OpenSection`
(358-366), `PartLine` (368-403), `CloseSection` (405-417).

### SearchAPI, EmbeddingService and the code

| step of the code | lines | action |
|---|---|---|
| `lifespan`: pool, tables, shutdown | `search_api.py` 66-109, 82-87 | `StartApi`, `StopApi`, `CloseApi` |
| a request comes | 285-345 | `Arrive` |
| `generate_embedding` | 111-137 | `AskVector`, `GetVector`, `NoVector` |
| `pool.acquire()` | 146, 169, 197, 345 | `Acquire` |
| the one statement of a search; the end of the `async with` | 147-160, 170-184, 198-238 | `Fetch` |
| the three statements of `/stats` | 347-359 | `Count` |
| a statement fails or times out | 162-164, 186-188, 240-242, 360-362 | `StatementFails` |
| the model is loaded | `embedding_server.py` 44-66 | `LoadModel` |
| `/embeddings` | 94-133 | `Post`, `Answer`, `EncodeStale` |
| a client waits no longer (30 s) | `search_api.py` 77, `document_processor.py` 234 | `TimeOut` |
| the indexer's chunk, with its retries | `document_processor.py` 220-258, 517-546 | `AskChunk`, `GetChunk`, `StoreChunk`, `RetryChunk`, `GiveUpChunk` |

`asking` are the clients whose request is in the server, `stale` counts the
requests of those who have gone: `encode` (112) holds the event loop, and does
their work too. `GiveUpChunk` follows the last attempt, or any answer that holds
no embedding, which is raised again at once (256-258). `halfway`, a history
variable, is the documents whose row the indexer has stored and whose old chunks
it has not yet deleted. A search may return any set of joined rows up to its limit: the
vector index is approximate, and ranking is left out. What `/stats` returns is
left out; its connection is not. The server has no fairness at all: it may be
down for good (`reload=True`, 174: docker sees the supervisor live) or never
answer.

### Collector and the code

A request goes from `handler` to `write` to its answer. `Statement` is the
INSERT, SELECT or ping at the database (`service.go` 32-133), `StatementFails`
is what the handler learns of it, before or after it is done (`handlers.go`
134-141, 87-100), `DriverRetries` is `database/sql` running a statement again
when lib/pq reports a broken connection, at most `MaxRepeats` times: two, as
`database/sql` makes three attempts. `WriteAnswer`
and `WriteFatal` are `MustWriteJSON` (`server.go` 36-48): a write to a client
that has gone ends the process if the answer does not fit in the buffers.
A stop has stages: `Stop` is the signal, and `Shutdown`, which closes the
listener (`run.go` 49-51); `Drained` and `Expire` are the two ways `Shutdown`
returns, with the last request or after three seconds (`server.go` 26-34);
handlers go on until `Exit`, half a second later (`run.go` 51-53), and those that
are not done by then are dropped. `Kill` and `Start` are the container's. Rows carry the client who appended them; hosts, limits and times
are left out.

### TaskList and the code

`--complete` is `Begin` (268-290: load, change), `Truncate` (200: `open(...,
'w')` empties the file) and `Save` (201: the dump and the close). A save onto a
file another command has filled since leaves the end of the longer one behind
the shorter: `Garbled`, chosen freely, as lengths are left out. History variables
say who could know what: `safe` and `since` which completions a save may undo,
`shared`, `clashed` and `crashed` how the file may have become unreadable. `Kill` ends a
command between any two steps. The reading commands are functions of what is
loaded: `IsNext`, `Status`, `NextTasks` (203-266). A dotted name is the sequence
of its parts, so that `directory_structure` and
`phase1_foundation.directory_structure` differ, as the strings do.

### MessageQueue, Pool and the code

The kernel keeps at most one queue under the key of a directory. `msqid` is its
id (0 if there is none), `messages` what is in it; a process that holds another
id holds a removed queue. `Open` is `init` (41-60), `Remove` is `deinit`
(63-67), `Send` is the `msgsnd` of `publish` and `done` (112-134), which blocks
on a full queue, and `Receive` the `msgrcv` of `next` (78-92), which blocks on an
empty one. In `Pool` a run is a parent and the child it forks; each system call
is a step: `OpenQueue`, `Fork`, `ForkFails`; the child's `Publish`, `Done`,
`PublishFails` (a removed queue ends it); the parent's `Read`, `ReadEnd`,
`ReadFails`, `WaitPid`, `RemoveQueue`. `KillParent` and `KillChild` end a
process between any two. Several runs are two programs started at once, or one
after the other. A heartbeat carries who sent it and when, so that order and
origin are visible; in the code they are all alike. A failing `msgget` or `ftok`
is left out: the run ends before it has done anything.

`Mailbox` is what is left of this for the programs that use it: `sent[w]` counts
what writer `w` has published, `received[r]` is what reader `r` was given.
`Deliver` hands any reader the next heartbeat of a writer, the first that nobody
has read; there are no ids, no capacity, no end marks and no removal. It promises
no reader the heartbeats of his own child, as the code does not.

## 3. What is checked

Runs that pass:

| run | properties | what it shows |
|---|---|---|
| `Daemon` | `TypeOK`, `FirstChunksOfOneVersion`, `ExactUnlessFault`, `NoChangeForgotten`, `ChangesRecorded`, `ImplementsIndex` | a daemon alone, two files, two edits, two faults of any kind (outage, lost connection, kill): two versions of a file are never mixed and no chunk is stored twice, wherever it fails; without a fault the chunks are exactly those of the text recorded; a reported change not yet recorded is always still queued, listed or in hand, and is recorded in the end, text and hash, unless the connection is gone or the change fell between the two readings of its file; every step is one of `DocumentIndex` |
| `Force` | `SomeVersionComplete`, `WorkInv`, `CopiesBounded` | first pass, observer, a `/process` thread and a `--force` process on one file: whatever the interleaving, a document nobody is writing has all the chunks of some text it had, a chunk has at most as many copies as threads that can be in a document at once (three here, and all three happen). `WorkInv` is the inductive invariant of the first |
| `PassesLive` | `PassesAdvance`, `ThreadsComeBack` | the same threads and one fault: a pass never goes back to a file, a step, a chunk or an attempt, and every pass ends, through retries, refused inserts, closed connections and kills |
| `Chunks` | `TypeOK`, `NothingLost`, `SizesTrue`, `PartsOverlap`, `CutsBetweenBlocks` | every text of up to seven lines: no line is lost, sizes are true, two parts share exactly the overlap if the first has more lines than that and nothing if it has not (parts of one line to seven occur), a chunk ends after a blank line or before a header, and outside the code blocks of the text if none of them holds a line like a header |
| `Pools` | `TypeOK`, `InOrderAndOnce`, `SoleRunComplete`, `NoQueueLeft`, `BlockedServed`, `ParentsEnd`, `ImplementsMailbox` | two runs on one queue, two faults: no heartbeat is read twice or out of order; a run that shared its queue with nobody reads all of its own; a queue is left only by a parent killed or unable to fork; a reader of an empty queue has a child that still publishes and a child that publishes has a reader, unless one was killed; every parent ends, unless a child was killed; every step is one of `Mailbox`: no heartbeat is read while an earlier one of the same child is not |
| `Tasks` | `TypeOK`, `CompletionKept`, `PhaseEarned`, `FileWhole` | two commands on the first two phases of the table, one kill: a completion is undone only by a command that had loaded the file before it was recorded, whatever order the tasks come in the current phase is earned, and the file is unreadable only during a write, after a command killed in one, or when the last to save had it open together with another |
| `Search` | `TypeOK`, `TitlesFitTexts`, `ConnectionsReturn`, `RequestsAnswered`, `WritersEnd` | two requests on a pool of one connection while a document is rewritten, the embedding service crashing, down or silent: an answer has chunks of one version under the title of another only between the upsert and the DELETE of that document, or after a writer that gave up there; no connection is lost, every request is answered, every rewrite ends |
| `Collector` | `TypeOK`, `AppendedOnce`, `ReadsWhatWasTold`, `ShutdownWaits` | three clients, kills, restarts, stops, lost results, statements repeated up to twice: who is told ok has a row (one more only for each time the driver repeated the INSERT), a read holds every row promised before it came, a stop cuts nobody off before its three seconds are over |

Runs whose property the code violates; each states what a comment or a document
says, and TLC prints the steps:

| run | property | what happens |
|---|---|---|
| `Outage` | `UpToDateMeansIndexed` | the row and its hash are committed before the chunks; an embedding failure leaves them, and `is_file_processed` (425, "processed and is up to date") answers True for ever |
| `HashRace` | `UpToDateMeansCurrent` | the observer reads a file (453) for the event of one save; the next save comes before it takes the hash (463): the old text is stored under the new hash, and the event of the second save finds it up to date |
| `Duplicates` | `EachChunkOnce` | two passes over one file both delete the old chunks (486) before either inserts: every chunk is stored twice |
| `AllDone` | `AllDoneIsTrue` | after the first completion no task is offered, and `--next` prints "All tasks completed!" (`list-tasks.py` 358): `directory_structure` is looked up as written (227), and recorded with its phase (275) |

More things the models show and no run is kept for:

- A removed or renamed file keeps its row for ever: nothing handles it (`Rename`).
- A daemon that has lost its connection records nothing more until it is
  restarted (217); `/health` reports it and no more.
- A file saved after the listing of the first pass and before the observer
  starts (806) makes no event and is not recorded, although the daemon "is ready,
  monitoring for changes" (807): these are the files of `missed`.
- A `/process` thread that read a file and its hash (453, 463) before a save may
  upsert (472) its old text over the new one the first pass has recorded: the
  older version stays, under its own hash, until the next change.
- A comment line in a code block is taken for a header (313). The section that
  starts there knows of no block (363), and is cut at a blank line inside it,
  against 343 "preserving code blocks and tables"; behind the closing fence text is
  taken for a block. `CutsBetweenBlocks` excepts such texts (`HeadersOutside`).
- `/process` threads are daemon threads (142): the process that ends leaves the
  document they are writing with chunks missing, as in `Outage`.
- With `CHUNK_OVERLAP` 0 the slice `[-0:]` (401) is the whole list: every part
  repeats the parts before it (`ChunkOverlap = 0` in `Chunks.cfg` violates
  `PartsOverlap`).
- A part may begin inside a code block: the lines it shares with the one before
  are counted (401), whatever they are.
- The phase of the task list may go back, or ahead of phases not begun, when
  tasks are completed out of order (286): `PhaseEarned` asks only that the one
  before the current is complete.
- Two runs of the pool at once read each other's heartbeats and end marks
  (`msgget` without IPC_EXCL, `msgqueue.zig` 48), where the test (205) expects as
  many messages as were published. `SoleRunComplete` excepts shared queues.
- `docker_integration` depends on `phase2_services.embedding_service`, which is
  no task of the table: it is never next.

**Bounds.** Two texts, one of a single chunk and one of two, are the least with
a first, a last and an only chunk, a changed version, and a version shorter or
longer than the one before. Every initial disk is tried. Two files are needed
for a pass that has one behind it and one in front (`Daemon`); where threads
compete, they do for one row, and one file suffices (the statements on two rows
commute, but for the two DELETEs of `--force`, which hit each row alike). Two
edits make a file change, and change back or change again under the same
thread. One fault stops a write anywhere; the second is the
fault during the recovery from the first. `MaxRetries` is 3 in the code; where
a retry is to be seen it is 2, and 1, no retry, in `Force`, where embeddings do not
fail: the bound only decides how long a request is repeated. Seven lines hold a section that is cut
twice, with an overlap of two lines; at a chunk size of 2 a part may have one
line, two, or more, so that it has none to share, or as many as the overlap, or
more. `HashRace` needs two saves, one for the event that is being handled, and no
fault. In `Pools` a child publishes three
heartbeats instead of four, and the queue holds four messages instead of the
thousand of a default kernel: as in the code it holds all that one child sends,
and it can still be full. Two runs are one that leaves something and one that
finds it, or two readers. In `Search` two requests and one connection (10 in the
code) make one wait for the other; one of a kind with an embedding and one
with several statements are all the shapes a request has; one document is enough
because a daemon alone writes one at a time, and answers are judged document by
document. `MaxStale` 2 stands for two or more abandoned requests; attempts are
the three of the code. In `Tasks` two phases of the table, with two tasks each, are what it takes to
earn one, and to leave it and go back; two commands overlap, and one is killed.
`AllDone` uses the whole table. In `Collector` a row told, a read that must hold
it and a third request under way at a kill or a stop are three clients, who are
alike (`SYMMETRY`, sound for invariants).

**Fairness** (`FairSpec`). Weak fairness of each thread's steps: threads of a
Python process and processes of a machine are scheduled, every request has a
timeout (line 234), and an enabled step here stays enabled until that thread
takes it or its process dies. Weak fairness of the daemon's own steps, its
restart included: `docker-compose.yml` restarts it (`restart:
unless-stopped`), and is not stopped for good. `InsertChunk` is not singled out: an embedding service that
never answers is allowed, and the retries must end. No fairness of edits, faults,
interrupts or requests.

In `Pool` each started process takes its steps; nobody has to start a run.

In `SearchAPI` each request and the writer go on by themselves: both clients of
the embedding service time out after 30 seconds (`search_api.py` 77,
`document_processor.py` 234), statements after 30 (`command_timeout`, 73). There
is no fairness of the embedding service and none of an answer.
`RequestsAnswered` rests on `Acquire` being weakly fair: with one connection
nobody can take it again and again before a waiting request, as each request is
made once; in the code the waiters of asyncpg's pool are a FIFO. No fairness is
assumed of the collector, whose properties are invariants.

`CHECK_DEADLOCK FALSE` is used for the chunker, whose loops end, for the pool,
whose runs do, and for the task list, whose file may become one that no command
can load. The others never deadlock: a process that is down can start.

## 4. What is proved

TLAPS proves, for every set of files and texts, every number of threads,
processes, edits and faults:

| theorem | statement | assumptions |
|---|---|---|
| `DocumentProcessorProofs!TypeCorrect` | `Spec => []TypeOK` | those of the constants |
| `DocumentProcessorProofs!NoChunkLost` | `Spec => []SomeVersionComplete` | those of the constants |
| `DaemonAloneProofs!FirstChunksAlways` | `Spec => []FirstChunksOfOneVersion` | `Triggers = {}`, `OneShots = {}` |
| `DaemonAloneProofs!ExactIndex` | `Spec => []ExactUnlessFault` | `Triggers = {}`, `OneShots = {}` |
| `DocumentProcessorProofs!WorkAlways` | `Spec => []WorkInv` | those of the constants |
| `DocumentProcessorProofs!CopiesLimited` | `Spec => []CopiesBounded` | `Triggers` and `OneShots` are finite |
| `DocumentProcessorProofs!PassesForward` | `Spec => PassesAdvance` | those of the constants |
| `DaemonAloneProofs!NothingForgotten` | `Spec => []NoChangeForgotten` | `Triggers = {}`, `OneShots = {}` |
| `IndexRefinementProofs!DaemonImplementsIndex` | `Spec => ImplementsIndex` | `Triggers = {}`, `OneShots = {}` |
| `PoolProofs!PoolTypes` | `Spec => []TypeOK` | those of the constants |
| `PoolProofs!QueuesRemoved` | `Spec => []NoQueueLeft` | those of the constants |
| `PoolProofs!OrderKept`, `SoleRunsComplete` | `Spec => []InOrderAndOnce`, `[]SoleRunComplete` | those of the constants |
| `PoolProofs!NobodyStuck` | `Spec => []BlockedServed` | those of the constants |
| `PoolProofs!PoolImplementsMailbox` | `Spec => ImplementsMailbox` | those of the constants |
| `ChunkerProofs!ChunkTypes`, `SizesKept` | `Spec => []TypeOK`, `[]SizesTrue` | those of the constants |
| `ChunkerProofs!TextCovered`, `BlocksWhole` | `Spec => []NothingLost`, `[]CutsBetweenBlocks` | those of the constants |
| `ChunkerProofs!OverlapKept` | `Spec => []PartsOverlap` | `ChunkOverlap # 0` |
| `SearchProofs!SearchTypes`, `ConnectionsKept` | `Spec => []TypeOK`, `[]ConnectionsReturn` | those of the constants |
| `SearchProofs!TitlesOfTexts` | `Spec => TitlesFitTexts` | those of the constants |
| `CollectorProofs!CollectorTypes`, `RowsWritten`, `PromisesRead`, `StopsWait` | `Spec => []TypeOK`, `[]AppendedOnce`, `[]ReadsWhatWasTold`, `[]ShutdownWaits` | those of the constants |
| `TaskListProofs!TaskTypes`, `CompletionsStay`, `PhasesEarned`, `FileKept` | `Spec => []TypeOK`, `[]CompletionKept`, `[]PhaseEarned`, `[]FileWhole` | those of the constants |

`TypeOK` of the processor alone is not inductive: a step uses locals that an earlier step
assigned. `TypeInv` adds which of them are assigned at which program counter.

`SomeVersionComplete` is not inductive either: that somebody is writing a
document says nothing about what remains when he leaves. `WorkInv` says that
somebody is *at work* on the row the document now has: he holds its present id,
and has inserted every chunk before `i` since his DELETE, none of which is lost,
or it is already complete. The interesting case is the second thread's DELETE:
it destroys what the first has inserted, and the second is then itself at work,
with nothing inserted and nothing missing. A thread whose row `--force` deleted
is not at work, and its inserts are refused; but then the document was removed,
and whoever inserts its row again is at work. That no connection is closed
without a fault is part of it (`DaemonInv`), or a thread could give up.

`Duplicates` shows that a chunk can be stored twice; `CopiesBounded` says how far
it goes. `CopyInv` counts, with the copies of a chunk, the threads that may still
insert it (`Inserting`: in the loop, at or before that chunk, with the present
id of the row). An INSERT trades one for the other; a thread joins them only by
its DELETE, which leaves no copy; an upsert keeps the id, so that nobody joins
by it, or finds no row, and then no chunks. So the sum never exceeds the number
of threads that can be in a document together, which is not all of them: Main
and Watcher never are, as the observer starts when the first pass is over.

`PassesAdvance` is the half of `ThreadsComeBack` that is within the prover's
reach. The order of `Nearer` (fewer files left, or as many and fewer steps left
with this one, or a later chunk, or a later attempt) has no endless chain, as
chunks and attempts are bounded; each step of a thread in a pass descends in
it, and no step of another moves it back. What is left to liveness is that the
thread is scheduled and always has a step to take.

`FirstChunksOfOneVersion` and `ExactUnlessFault` hold of a daemon alone because
its two threads are never in a document together: the observer starts when the
first pass is over. `SoleInv` says so, and that a thread in a document left
exactly the first `i - 1` chunks of its own content there.

`NoQueueLeft` is inductive over `TypeOK`: whoever removes a queue held it under
its present id, and whoever finds one under the key holds it from then on.

`NoChangeForgotten` holds of a thread in a document only while what it knows is
true. `PendingInv` says that a thread counts as having a change in hand when it
will read the file again, or has its present hash; in all other cases an event
of the change is in the queue behind it. A thread about to store a hash that is
no longer the file's would settle a change wrongly: `StoresTruth` says that an
event corrects it. That the text recorded is the file's too, but for the files of
`torn`, is `TornInv`: of a file that is not torn, the row has its own hash, a
thread about to hash it again holds the content it has now, and one about to
store it a content and a hash that agree. The theorem says nothing of the
changes that fell between two readings, nor of a connection that is lost.

The refinement is a step simulation: by `SoleInv` one thread at a time is in a
document and has left the first `i - 1` chunks of its own content, so `HeldIn`
reads the rows in one way (`OneReading`) and `WritingIn` finds one writer. An
upsert is `Record`, the DELETE `Clear`, an INSERT `Add`, every way out of a
document `Abandon`; all other steps leave the mapped state as it is.

`SearchInv` joins the account of the connections to what the index promises its
readers: a chunk belongs to a document that has a text, and is of the text
recorded unless the last writer of the document has recorded it and not cleared
it (`halfway`). This is about `DocumentIndex`, and so about searches beside a
daemon alone. `CollectorProofs` says of each
request what its row count must be for where it is and for how often its
statement was repeated, and that who had been told before a read came is stored
when its statement runs, as rows are never removed. In `SaveInv` a command under
way carries a state that will replace the file: it has every safe completion but
those recorded since it was loaded, its current phase was earned, and a command
that finds something in the file it has emptied had it open together with
another.

`InOrderAndOnce` needs to know of what is still in the queue: `OrderInv` says
that it is in order, published, and comes after all that has been read.
`SoleRunComplete` needs `Whole`: what a lone child has published is what its
parent has read, then what is in the queue, then the end mark if the child has
ended; and nobody else holds the queue's id (`Sole`).

That the pool implements `Mailbox` needs, beyond `OrderInv`, that nothing is
missing: `GapInv` says that what a child published before a heartbeat that is in
the queue has been read or comes before it there, and that of a child that still
publishes to the queue under the key everything has been read or is in it. A
child whose queue was removed publishes no more, so that a gap is never followed
by anything: what is read of a child is always a first part of what it published.

`BlockedServed` is absence of deadlock as an invariant, a matter of counting:
each child leaves one end mark and each reader takes one, whose ever it is. So
(`Balanced`) on a queue under the key the readers are at most the marks and the
children still publishing, and these at most the readers, but for those killed;
a queue newly made has nobody. No assumption on the capacity is needed, nor a
bound on the runs: those that have opened a queue are finitely many (`Opened`).

Of the chunker, `ChunkInv` says where each loop is. The sections still to be
chunked tile the text from the line after the last chunk (`Tiles`), each starts
with a header and holds no other; the chunks made are joined (`Joint`) and the
one being made may follow them (`Follows`); `in_code_block` is the parity of the
fences of the section so far, and with no header inside a block every section
starts outside one, so that it is the parity in the text. None of it depends on
a size, which only decides when a chunk ends. `SizeInv` adds what the sizes are:
while a section is cut, `current_size` is the number of characters from the first
line of the current part to the line before the next one. As a run of lines is a set of characters,
a line appended adds its own, and the overlap kept at a cut is counted again
from nothing (403), so that no sum has to be unfolded.

Only model-checked is what is out of the prover's reach, liveness:
`ChangesRecorded`, `ThreadsComeBack`, `ParentsEnd`, `RequestsAnswered`,
`WritersEnd`. Every invariant, action property and refinement of the
passing runs has its theorem. The four violated properties have none.

## 5. Not modelled

- Charts, playbooks, images and dotfiles: configuration of other software.
- `--mode search`, `/health`, `/models`, the command line: one request or one
  child process, and no state.
- The memory-mapped buffer: a library of one process with no caller but its
  test, so that nothing says in which order its operations may come.
- The log consumer: one loop that takes and prints messages that no program of
  the repository publishes.
- Inside what is modelled: similarity and rank, embeddings, titles, timestamps,
  notes of tasks, hosts and limits of the collector, the numbers of `/stats`.
- The triggers of `init.sql`, which fill a search column and a timestamp, and its
  search functions, which no program of the repository calls.

What could come next: what keeps a request of the search service from being
answered, as an invariant like `BlockedServed`; an abstract task list, in which a
completion is one step, that commands which do not overlap implement; and the
same index shared by two daemons.
