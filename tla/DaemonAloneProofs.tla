-------------------------- MODULE DaemonAloneProofs --------------------------
(***************************************************************************)
(* What is proved of a daemon alone: no /process thread, no second process *)
(* (Triggers = {} and OneShots = {}), and any number of files, texts,      *)
(* edits, crashes, embedding outages and lost connections.                 *)
(***************************************************************************)
EXTENDS DocumentProcessorProofs

\* What SoleInv says of one document.
SoleDocument(f) ==
    /\ \E c \in Text, k \in 0..MaxChunks : chunks[f] = FirstChunks(c, k)
    /\ faults = 0 =>
         \/ \E t \in Threads : Writing(t, f)
         \/ chunks[f] = IF Indexed(f)
                        THEN FirstChunks(documents[f].content, NChunks[documents[f].content])
                        ELSE NoChunks
    /\ ~ Indexed(f) => chunks[f] = NoChunks
    /\ \A t \in Threads :
         Writing(t, f) =>
            /\ Refers(f, thread[t].id)
            /\ documents[f].content = thread[t].content
            /\ thread[t].pc = "embed" => chunks[f] = FirstChunks(thread[t].content, thread[t].i - 1)

SoleThreads ==
    /\ DaemonInv
    /\ thread[Watcher].pc # "idle" => phase \in {"watching", "stopping"}

LEMMA SoleParts ==
    /\ SoleInv <=> SoleThreads /\ \A f \in Files : SoleDocument(f)
    /\ SoleInv' <=> SoleThreads' /\ \A f \in Files : SoleDocument(f)'
  BY DEF SoleInv, SoleThreads, SoleDocument, FirstChunksOfOneVersion, ExactUnlessFault

LEMMA NoChunksIsNone == \A c \in Text : FirstChunks(c, 0) = NoChunks
<1> SUFFICES ASSUME NEW c \in Text, NEW d \in Text, NEW i \in Index
             PROVE  FirstChunks(c, 0)[d][i] = NoChunks[d][i]
  BY DEF FirstChunks, NoChunks
<1> QED
  BY ChunksAssumption DEF FirstChunks, NoChunks, Index

\* One more row, the next one of the same text.
LEMMA NextChunk ==
    ASSUME NEW c \in Text, NEW i \in Index
    PROVE  [FirstChunks(c, i - 1) EXCEPT ![c][i] = @ + 1] = FirstChunks(c, i)
<1> DEFINE a == FirstChunks(c, i - 1)
           b == [a EXCEPT ![c][i] = @ + 1]
<1>1. a[c][i] = 0
  BY ChunksAssumption DEF FirstChunks, Index
<1>2. ASSUME NEW d \in Text, NEW j \in Index PROVE b[d][j] = FirstChunks(c, i)[d][j]
  <2>1. i \in Nat /\ j \in Nat
    BY ChunksAssumption DEF Index
  <2>2. CASE d = c /\ j = i
    BY <1>1, <2>1, <2>2 DEF FirstChunks
  <2>3. CASE ~ (d = c /\ j = i)
    BY <2>1, <2>3 DEF FirstChunks
  <2> QED
    BY <2>2, <2>3
<1>3. b = [d \in Text |-> [j \in Index |-> b[d][j]]]
  BY DEF FirstChunks
<1>4. FirstChunks(c, i) = [d \in Text |-> [j \in Index |-> FirstChunks(c, i)[d][j]]]
  BY DEF FirstChunks
<1> HIDE DEF a, b
<1>5. b = FirstChunks(c, i)
  BY <1>2, <1>3, <1>4
<1> QED
  BY <1>5 DEF a, b

\* Nobody else is in a document while a thread of the daemon is.
LEMMA OnlyOne ==
    ASSUME Triggers = {}, OneShots = {}, SoleThreads, NEW t \in Threads, thread[t].pc # "idle"
    PROVE  \A u \in Threads \ {t} : thread[u].pc = "idle"
  BY DEF SoleThreads, DaemonInv, Threads, DaemonThreads

LEMMA SoleInit == Init => SoleInv
<1> SUFFICES ASSUME Init PROVE SoleInv
  OBVIOUS
<1>1. \A f \in Files : ~ Indexed(f) /\ chunks[f] = NoChunks
  BY DEF Init, TablesInit, NoRow, Indexed
<1>2. \A t \in Threads : thread[t].pc \in {"idle", "wait"}
  BY DEF Init, At
<1>3. thread[Watcher].pc = "idle"
  BY ThreadsAssumption DEF Init, At, Threads, DaemonThreads
<1>4. \E c \in Text, k \in 0..MaxChunks : NoChunks = FirstChunks(c, k)
  <2>1. PICK c \in Text : TRUE
    BY TextAssumption
  <2>2. 0 \in 0..MaxChunks
    BY ChunksAssumption
  <2> QED
    BY <2>1, <2>2, NoChunksIsNone
<1>5. \A f \in Files : SoleDocument(f)
  BY <1>1, <1>2, <1>4 DEF SoleDocument, Writing
<1> QED
  BY <1>3, <1>5, WorkInit, SoleParts DEF WorkInv, SoleThreads

-----------------------------------------------------------------------------

\* A step that leaves the tables alone and starts no writing, and ends one only
\* by a fault, keeps what is said of every document.
LEMMA SoleQuiet ==
    ASSUME NEW f \in Files, SoleDocument(f), UNCHANGED tables, faults' = 0 => faults = 0,
           \A u \in Threads : \/ thread'[u] = thread[u]
                              \/ /\ thread'[u].pc \notin {"delete", "embed"}
                                 /\ faults' = 0 => thread[u].pc \notin {"delete", "embed"}
    PROVE  SoleDocument(f)'
<1>1. documents' = documents /\ chunks' = chunks
  BY DEF tables
<1>2. ASSUME NEW u \in Threads, Writing(u, f)' PROVE Writing(u, f) /\ thread'[u] = thread[u]
  BY <1>2 DEF Writing
<1>3. ASSUME faults' = 0, NEW u \in Threads, Writing(u, f) PROVE Writing(u, f)'
  BY <1>3 DEF Writing
<1> QED
  BY <1>1, <1>2, <1>3 DEF SoleDocument, Indexed, Refers

\* A thread of the pass or of the observer goes through a document: it finds
\* what it wrote before as it left it.
LEMMA SolePass ==
    ASSUME Triggers = {}, OneShots = {}, TypeInv, SoleInv, NEW t \in Threads, Pass(t),
           NEW f \in Files
    PROVE  SoleDocument(f)'
<1> DEFINE l == thread[t]
<1>0. /\ thread \in [Threads -> Frame] /\ TablesTypeOK /\ LocalsAssigned(l) /\ faults \in Nat
      /\ l \in Frame /\ SoleThreads /\ DaemonInv /\ SoleDocument(f)
  BY BoundsAssumption, SoleParts DEF TypeInv, TypeOK, SoleThreads
<1>a. l.pc \notin {"idle", "done", "wait"}
  BY DEF Pass, NextFile, Select, CheckAgain, Reselect, ReadContent, Rehash, Upsert, Delete,
         InsertChunk, InsertRefused, RetryEmbedding, EmbeddingFails, StatementFails, EndPass
<1>b. \A u \in Threads \ {t} : thread'[u] = thread[u] /\ thread[u].pc = "idle"
  <2>1. \A u \in Threads \ {t} : thread'[u] = thread[u]
    BY <1>0 DEF Pass, NextFile, Select, CheckAgain, Reselect, ReadContent, Rehash, Upsert, Delete,
         InsertChunk, InsertRefused, RetryEmbedding, EmbeddingFails, StatementFails, EndPass,
         Raise, Leave
  <2> QED
    BY <1>0, <1>a, <2>1, OnlyOne
<1>c. \A u \in Threads : Writing(u, f) \/ Writing(u, f)' => u = t
  BY <1>b DEF Writing
<1>l. Leave(t) => thread'[t].pc \in {"idle", "next"}
  BY <1>0 DEF Leave, At
<1>1. CASE NextFile(t) \/ Select(t) \/ CheckAgain(t) \/ Reselect(t) \/ ReadContent(t)
           \/ Rehash(t) \/ EndPass(t)
  <2>1. l.pc \notin {"delete", "embed"} /\ UNCHANGED <<tables, faults>>
    BY <1>1 DEF NextFile, Select, CheckAgain, Reselect, ReadContent, Rehash, EndPass, environment
  <2>2. thread'[t].pc \notin {"delete", "embed"}
    <3>1. NextFile(t) => thread'[t].pc \in {"next", "select"}
      <4> SUFFICES ASSUME NextFile(t) PROVE thread'[t].pc \in {"next", "select"}
        OBVIOUS
      <4>1. PICK g \in l.todo :
               thread' = [thread EXCEPT ![t] =
                   IF disk[g] = Absent THEN At("next", l.todo \ {g})
                   ELSE [At("select", l.todo \ {g}) EXCEPT !.file = g, !.hash = disk[g]]]
        BY DEF NextFile
      <4>2. CASE disk[g] = Absent
        BY <1>0, <4>1, <4>2 DEF At
      <4>3. CASE disk[g] # Absent
        BY <1>0, <4>1, <4>3 DEF At
      <4> QED
        BY <4>2, <4>3
    <3>2. CheckAgain(t) => thread'[t].pc \in {"idle", "next", "reselect"}
      BY <1>0, <1>l DEF CheckAgain, Frame
    <3>3. Select(t) \/ Reselect(t) => thread'[t].pc \in {"idle", "next", "check", "read"}
      BY <1>0, <1>l DEF Select, Reselect, Frame
    <3>4. ReadContent(t) \/ Rehash(t) => thread'[t].pc \in {"idle", "next", "rehash", "upsert"}
      BY <1>0, <1>l DEF ReadContent, Rehash, Frame
    <3>5. EndPass(t) => thread'[t].pc \in {"idle", "done"}
      BY <1>0 DEF EndPass, At
    <3> QED
      BY <1>1, <3>1, <3>2, <3>3, <3>4, <3>5
  <2> QED
    BY <1>0, <1>b, <2>1, <2>2, SoleQuiet
<1>2. CASE Upsert(t)
  <2>1. l.file \in Files /\ l.pc = "upsert" /\ faults' = faults /\ chunks' = chunks
    BY <1>0, <1>2 DEF Upsert, LocalsAssigned, InDocument, UpsertDocument, environment
  <2>2. CASE f = l.file
    <3>1. /\ documents'[f].id # 0 /\ documents'[f].content = l.content
      BY <1>0, <1>2, <2>2 DEF Upsert, UpsertDocument, TablesTypeOK, Indexed
    <3>2. /\ thread'[t].pc = "delete" /\ thread'[t].file = f /\ thread'[t].id = documents'[f].id
          /\ thread'[t].content = l.content
      BY <1>0, <1>2, <2>2 DEF Upsert, Frame
    <3>3. Writing(t, f)'
      BY <3>2 DEF Writing
    <3> QED
      BY <1>0, <1>c, <2>1, <3>1, <3>2, <3>3 DEF SoleDocument, Indexed, Refers
  <2>3. CASE f # l.file
    <3>1. documents'[f] = documents[f]
      BY <1>0, <1>2, <2>3 DEF Upsert, UpsertDocument, TablesTypeOK
    <3>2. ~ Writing(t, f) /\ ~ Writing(t, f)'
      BY <1>0, <1>2, <2>3 DEF Upsert, Writing, Frame
    <3> QED
      BY <1>0, <1>c, <2>1, <3>1, <3>2 DEF SoleDocument, Indexed, Refers
  <2> QED
    BY <2>2, <2>3
<1>3. CASE Delete(t)
  <2>1. /\ l.file \in Files /\ l.content \in Text /\ l.pc = "delete"
        /\ documents' = documents /\ faults' = faults
    BY <1>0, <1>3 DEF Delete, LocalsAssigned, InDocument, HasContent, DeleteChunks, environment
  <2>2. /\ thread'[t].pc = "embed" /\ thread'[t].file = l.file /\ thread'[t].id = l.id
        /\ thread'[t].i = 1 /\ thread'[t].content = l.content
    BY <1>0, <1>3 DEF Delete, Frame
  <2>3. CASE f = l.file
    <3>1. Writing(t, f) /\ Writing(t, f)'
      BY <2>1, <2>2, <2>3 DEF Writing
    <3>2. Refers(f, l.id) /\ documents[f].content = l.content
      BY <1>0, <3>1 DEF SoleDocument
    <3>3. chunks'[f] = FirstChunks(l.content, 0)
      <4>1. chunks'[f] = NoChunks
        BY <1>0, <1>3, <2>3, <3>2 DEF Delete, DeleteChunks, TablesTypeOK
      <4>2. FirstChunks(l.content, 0) = NoChunks
        BY <2>1, NoChunksIsNone
      <4> QED
        BY <4>1, <4>2
    <3>4. Refers(f, l.id)' /\ Indexed(f)'
      BY <2>1, <2>2, <3>2 DEF Refers, Indexed
    <3>5. 0 \in 0..MaxChunks /\ thread'[t].i - 1 = 0
      BY <2>2, ChunksAssumption
    <3> QED
      BY <1>c, <2>1, <2>2, <3>1, <3>2, <3>3, <3>4, <3>5 DEF SoleDocument
  <2>4. CASE f # l.file
    <3>1. chunks'[f] = chunks[f]
      BY <1>0, <1>3, <2>4 DEF Delete, DeleteChunks, TablesTypeOK
    <3>2. ~ Writing(t, f) /\ ~ Writing(t, f)'
      BY <2>2, <2>4 DEF Writing
    <3> QED
      BY <1>0, <1>c, <2>1, <3>1, <3>2 DEF SoleDocument, Indexed, Refers
  <2> QED
    BY <2>3, <2>4
<1>4. CASE InsertChunk(t)
  <2>1. /\ l.file \in Files /\ l.content \in Text /\ l.pc = "embed" /\ l.i \in 1..NChunks[l.content]
        /\ documents' = documents /\ faults' = faults
    BY <1>0, <1>4 DEF InsertChunk, LocalsAssigned, InDocument, HasContent, InsertChunkRow, environment
  <2>2. l.i \in Index /\ l.i \in 0..MaxChunks /\ l.i \in Nat
    BY <2>1, ChunksAssumption DEF Index
  <2>3. CASE f = l.file
    <3>1. Writing(t, f)
      BY <2>1, <2>3 DEF Writing
    <3>2. /\ Refers(f, l.id) /\ documents[f].content = l.content
          /\ chunks[f] = FirstChunks(l.content, l.i - 1)
      BY <1>0, <2>1, <3>1 DEF SoleDocument
    <3>3. chunks'[f] = [chunks[f] EXCEPT ![l.content][l.i] = @ + 1]
      BY <1>0, <1>4, <2>3 DEF InsertChunk, InsertChunkRow, TablesTypeOK
    <3>4. chunks'[f] = FirstChunks(l.content, l.i)
      <4>1. [FirstChunks(l.content, l.i - 1) EXCEPT ![l.content][l.i] = @ + 1]
              = FirstChunks(l.content, l.i)
        BY <2>1, <2>2, NextChunk
      <4>2. chunks'[f] = [FirstChunks(l.content, l.i - 1) EXCEPT ![l.content][l.i] = @ + 1]
        BY <3>2, <3>3
      <4> QED
        BY <4>1, <4>2
    <3>5. documents'[f].id = l.id /\ Indexed(f)' /\ documents'[f].content = l.content
      BY <2>1, <3>2 DEF Refers, Indexed
    <3>6. CASE l.i = NChunks[l.content]
      <4>1. ~ Writing(t, f)'
        BY <1>0, <1>4, <1>l, <3>6 DEF InsertChunk, Writing
      <4> QED
        BY <1>c, <2>1, <2>2, <3>4, <3>5, <3>6, <4>1 DEF SoleDocument
    <3>7. CASE l.i # NChunks[l.content]
      <4>1. /\ thread'[t].pc = "embed" /\ thread'[t].file = f /\ thread'[t].id = l.id
            /\ thread'[t].content = l.content /\ thread'[t].i = l.i + 1
        BY <1>0, <1>4, <2>1, <2>3, <3>7 DEF InsertChunk, Frame
      <4>2. Writing(t, f)' /\ thread'[t].i - 1 = l.i
        BY <2>2, <4>1 DEF Writing
      <4> QED
        BY <1>c, <2>1, <2>2, <3>4, <3>5, <4>1, <4>2 DEF SoleDocument, Refers
    <3> QED
      BY <3>6, <3>7
  <2>4. CASE f # l.file
    <3>1. chunks'[f] = chunks[f]
      BY <1>0, <1>4, <2>4 DEF InsertChunk, InsertChunkRow, TablesTypeOK
    <3>2. ~ Writing(t, f) /\ ~ Writing(t, f)'
      BY <1>0, <1>4, <1>l, <2>4 DEF InsertChunk, Writing, Frame
    <3> QED
      BY <1>0, <1>c, <2>1, <3>1, <3>2 DEF SoleDocument, Indexed, Refers
  <2> QED
    BY <2>3, <2>4
<1>5. CASE InsertRefused(t)
  <2>1. l.file \in Files /\ Writing(t, l.file) /\ ~ Refers(l.file, l.id)
    BY <1>0, <1>5 DEF InsertRefused, LocalsAssigned, InDocument, Writing
  <2>2. SoleDocument(l.file)
    BY <2>1, SoleParts
  <2> QED
    BY <2>1, <2>2 DEF SoleDocument
<1>6. CASE RetryEmbedding(t)
  <2>1. UNCHANGED <<tables, faults>>
    BY <1>6 DEF RetryEmbedding, environment
  <2>2. /\ thread'[t].pc = l.pc /\ thread'[t].file = l.file /\ thread'[t].id = l.id
        /\ thread'[t].content = l.content /\ thread'[t].i = l.i
    BY <1>0, <1>6 DEF RetryEmbedding, Frame
  <2> QED
    BY <1>0, <1>c, <2>1, <2>2 DEF SoleDocument, Writing, Indexed, Refers, tables
<1>7. CASE EmbeddingFails(t) \/ StatementFails(t)
  <2>1. UNCHANGED tables /\ thread'[t].pc \in {"idle", "next"}
    BY <1>7, <1>l DEF EmbeddingFails, StatementFails, Raise
  <2>2. faults' # 0
    <3>1. EmbeddingFails(t) => faults' # 0
      BY <1>0 DEF EmbeddingFails
    <3>2. StatementFails(t) => faults' # 0
      BY <1>0, <1>a, WorkConnected DEF StatementFails, Raise, environment
    <3> QED
      BY <1>7, <3>1, <3>2
  <2> QED
    BY <1>0, <1>b, <2>1, <2>2, SoleQuiet
<1> QED
  BY <1>1, <1>2, <1>3, <1>4, <1>5, <1>6, <1>7 DEF Pass

\* Everything else the world does to the daemon.
LEMMA SoleWorld ==
    ASSUME Triggers = {}, OneShots = {}, TypeInv, SoleInv,
           DaemonStep \/ Interrupt \/ Fault \/ Edit
    PROVE  SoleInv'
<1>0. /\ thread \in [Threads -> Frame] /\ faults \in Nat /\ SoleThreads /\ DaemonInv
      /\ \A f \in Files : SoleDocument(f)
      /\ Threads = {Main, Watcher} /\ DaemonThreads = Threads /\ Main # Watcher
  BY BoundsAssumption, SoleParts, ThreadsAssumption
     DEF TypeInv, TypeOK, SoleThreads, Threads, DaemonThreads
<1>q. ASSUME SoleThreads', UNCHANGED tables, faults' = 0 => faults = 0,
             \A u \in Threads : \/ thread'[u] = thread[u]
                                \/ /\ thread'[u].pc \notin {"delete", "embed"}
                                   /\ faults' = 0 => thread[u].pc \notin {"delete", "embed"}
      PROVE  SoleInv'
  BY <1>0, <1>q, SoleQuiet, SoleParts
<1>d. DaemonInv'
  BY <1>0, DaemonKept, WorldKept
<1>1. CASE StartDaemon \/ BeginFirstPass \/ StartWatching
  <2>1. /\ UNCHANGED <<tables, faults>> /\ thread'[Watcher] = thread[Watcher]
        /\ thread[Main].pc \notin {"delete", "embed"}
        /\ thread'[Main].pc \notin {"delete", "embed"}
    BY <1>0, <1>1 DEF StartDaemon, BeginFirstPass, StartWatching, DaemonInv, At
  <2>2. thread'[Watcher].pc # "idle" => phase' \in {"watching", "stopping"}
    BY <1>0, <1>1, <2>1 DEF StartDaemon, BeginFirstPass, StartWatching, SoleThreads
  <2> QED
    BY <1>0, <1>d, <1>q, <2>1, <2>2 DEF SoleThreads
<1>2. CASE Dispatch
  <2>1. /\ UNCHANGED <<tables, faults>> /\ thread'[Main] = thread[Main]
        /\ thread[Watcher].pc \notin {"delete", "embed"}
        /\ thread'[Watcher].pc \notin {"delete", "embed"} /\ phase' = "watching"
    BY <1>0, <1>2 DEF Dispatch, At
  <2> QED
    BY <1>0, <1>d, <1>q, <2>1 DEF SoleThreads
<1>3. CASE Exit \/ Crash
  <2>1. /\ UNCHANGED tables /\ \A u \in Threads : thread'[u].pc = "idle"
    BY <1>0, <1>3 DEF Exit, Crash, DaemonGone, At
  <2>2. faults' = 0 => faults = 0 /\ \A u \in Threads : thread[u].pc = "idle"
    BY <1>0, <1>3 DEF Exit, Crash, Passing, DaemonInv
  <2> QED
    BY <1>0, <1>d, <1>q, <2>1, <2>2 DEF SoleThreads
<1>4. CASE Interrupt \/ Edit
  <2>1. UNCHANGED <<tables, thread, faults>> /\ (phase' = phase \/ phase' = "stopping")
    BY <1>4 DEF Interrupt, Edit, Save, Rename
  <2> QED
    BY <1>0, <1>d, <1>q, <2>1 DEF SoleThreads
<1>5. ASSUME NEW p \in Processes, LoseConnection(p) PROVE SoleInv'
  <2>1. UNCHANGED <<tables, thread, phase>> /\ faults' # 0
    BY <1>0, <1>5 DEF LoseConnection
  <2> QED
    BY <1>0, <1>d, <1>q, <2>1 DEF SoleThreads
<1> QED
  BY <1>1, <1>2, <1>3, <1>4, <1>5 DEF DaemonStep, Fault

LEMMA SoleStep ==
    ASSUME Triggers = {}, OneShots = {}
    PROVE  TypeInv /\ SoleInv /\ [Next]_vars => SoleInv'
<1> SUFFICES ASSUME TypeInv, SoleInv, [Next]_vars PROVE SoleInv'
  OBVIOUS
<1>1. ASSUME NEW t \in Threads, Pass(t) PROVE SoleInv'
  <2>1. DaemonInv'
    BY <1>1, PassDaemonInv, SoleParts DEF SoleThreads
  <2>2. UNCHANGED phase /\ thread[t].pc # "idle" /\ \A u \in Threads \ {t} : thread'[u] = thread[u]
    BY <1>1 DEF Pass, NextFile, Select, CheckAgain, Reselect, ReadContent, Rehash, Upsert, Delete,
         InsertChunk, InsertRefused, RetryEmbedding, EmbeddingFails, StatementFails, EndPass,
         Raise, Leave, environment, TypeInv, TypeOK
  <2>3. SoleThreads'
    BY <2>1, <2>2, SoleParts DEF SoleThreads, Threads, DaemonThreads
  <2> QED
    BY <1>1, <2>3, SolePass, SoleParts
<1>2. CASE DaemonStep \/ Interrupt \/ Fault \/ Edit
  BY <1>2, SoleWorld
<1>3. CASE UNCHANGED vars
  BY <1>3, SoleParts DEF vars, SoleThreads, SoleDocument, DaemonInv, Writing, Indexed, Refers
<1> QED
  BY <1>1, <1>2, <1>3 DEF Next

\* A daemon alone never mixes two versions of a file, never skips a chunk and
\* never stores one twice, wherever it fails or is killed.
THEOREM FirstChunksAlways ==
    ASSUME Triggers = {}, OneShots = {}
    PROVE  Spec => []FirstChunksOfOneVersion
<1>1. SoleInv => FirstChunksOfOneVersion
  BY DEF SoleInv
<1>2. TypeInv /\ SoleInv /\ [Next]_vars => SoleInv'
  BY SoleStep
<1> QED
  BY <1>1, <1>2, TypeInit, TypeStep, SoleInit, PTL DEF Spec

\* ... and, as long as nothing failed, a document at rest has exactly the chunks
\* of the content recorded.
THEOREM ExactIndex ==
    ASSUME Triggers = {}, OneShots = {}
    PROVE  Spec => []ExactUnlessFault
<1>1. SoleInv => ExactUnlessFault
  BY DEF SoleInv
<1>2. TypeInv /\ SoleInv /\ [Next]_vars => SoleInv'
  BY SoleStep
<1> QED
  BY <1>1, <1>2, TypeInit, TypeStep, SoleInit, PTL DEF Spec

-----------------------------------------------------------------------------
(* No change that was reported is forgotten.  PendingInv is stronger than  *)
(* NoChangeForgotten in one way: a thread in a document counts only while  *)
(* what it knows of the file is what is there, or will be read again; if   *)
(* not, the event of the change is behind it.                              *)

\* From the first listing until the daemon stops.
Active == phase = "watching" \/ (phase = "starting" /\ thread[Main].pc # "wait")

\* Nothing is left to do for f, or the observer will be told.
Settled(f) ==
    \/ ~ conn[Daemon]
    \/ disk[f] \notin Text
    \/ Indexed(f) /\ documents[f].hash = disk[f]
    \/ Queued(f)

InHand(t, f) ==
    /\ thread[t].file = f
    /\ \/ thread[t].pc \in {"check", "read", "rehash"}
       \/ thread[t].pc \in {"select", "reselect", "upsert"} /\ thread[t].hash = disk[f]

InFront(t, f) == InHand(t, f) \/ f \in thread[t].todo

\* A hash about to be stored is that of the file, or an event will correct it.
StoresTruth(t, f) ==
    thread[t].file = f /\ thread[t].pc = "upsert" => thread[t].hash = disk[f] \/ Queued(f)

Pending(f) ==
    /\ Settled(f) \/ \E t \in {Main, Watcher} : InFront(t, f)
    /\ \A t \in {Main, Watcher} : StoresTruth(t, f)

\* The observer's thread makes no pass.
PendingInv ==
    /\ thread[Watcher].todo = {}
    /\ Active => \A f \in Files \ missed : Pending(f)

-----------------------------------------------------------------------------

LEMMA PendingInit == Init => PendingInv
  BY ThreadsAssumption DEF Init, PendingInv, Active, At, Threads, DaemonThreads

\* A thread goes on, and what it had in front of it still is, or is settled.
LEMMA PendingMove ==
  ASSUME NEW f \in Files, Pending(f), NEW t \in {Main, Watcher},
         documents' = documents, UNCHANGED <<disk, queue, conn>>,
         \A u \in {Main, Watcher} \ {t} : thread'[u] = thread[u],
         InFront(t, f) => InFront(t, f)' \/ Settled(f),
         StoresTruth(t, f)'
  PROVE  Pending(f)'
<1>1. Settled(f)' = Settled(f)
  BY DEF Settled, Indexed, Queued
<1>2. \A u \in {Main, Watcher} \ {t} : InFront(u, f) => InFront(u, f)'
  BY DEF InFront, InHand
<1>3. \A u \in {Main, Watcher} \ {t} : StoresTruth(u, f)'
  BY DEF Pending, StoresTruth, Queued
<1>4. Settled(f)' \/ \E u \in {Main, Watcher} : InFront(u, f)'
  <2>1. CASE Settled(f)
    BY <1>1, <2>1
  <2>2. ASSUME NEW u \in {Main, Watcher}, InFront(u, f) PROVE Settled(f)' \/ InFront(u, f)'
    BY <1>1, <1>2, <2>2
  <2> QED BY <2>1, <2>2 DEF Pending
<1> QED BY <1>3, <1>4 DEF Pending

LEMMA PendingPass ==
    ASSUME Triggers = {}, OneShots = {}, TypeInv, SoleInv, PendingInv, NEW t \in Threads, Pass(t)
    PROVE  PendingInv'
<1> DEFINE l == thread[t]
           m == thread'[t]
<1>0. /\ thread \in [Threads -> Frame] /\ TablesTypeOK /\ LocalsAssigned(l) /\ l \in Frame
      /\ SoleThreads /\ t \in {Main, Watcher} /\ Threads = {Main, Watcher} /\ Main # Watcher
      /\ disk \in [Files -> Content] /\ Files \subseteq Nat \ {0}
      /\ ProcessOf(t) = Daemon /\ 0 \notin Files
  BY SoleParts, ThreadsAssumption, FilesAssumption
     DEF TypeInv, TypeOK, Threads, DaemonThreads, ProcessOf
<1>1. /\ UNCHANGED <<disk, queue, phase, conn, missed>> /\ l.pc \notin {"wait", "idle"}
      /\ \A u \in Threads \ {t} : thread'[u] = thread[u]
  BY <1>0 DEF Pass, NextFile, Select, CheckAgain, Reselect, ReadContent, Rehash, Upsert, Delete,
         InsertChunk, InsertRefused, RetryEmbedding, EmbeddingFails, StatementFails, EndPass,
         Raise, Leave, environment
<1>l. Leave(t) => m.pc \in {"idle", "next"} /\ m.todo = l.todo /\ m.file = 0
  BY <1>0 DEF Leave, At
<1>2. Active' => Active
  BY <1>0, <1>1 DEF Active
\* Each step leaves what is in front of the thread there, or settles it.
<1>g. ASSUME NEW f \in Files, UNCHANGED tables,
             InFront(t, f) => InFront(t, f)' \/ Settled(f), StoresTruth(t, f)'
      PROVE  Pending(f) => Pending(f)'
  BY <1>0, <1>1, <1>g, PendingMove DEF tables
<1>3. CASE NextFile(t)
  <2>1. PICK h \in l.todo :
           thread' = [thread EXCEPT ![t] =
               IF disk[h] = Absent THEN At("next", l.todo \ {h})
               ELSE [At("select", l.todo \ {h}) EXCEPT !.file = h, !.hash = disk[h]]]
    BY <1>3 DEF NextFile
  <2>2. l.pc = "next" /\ UNCHANGED tables /\ m.todo = l.todo \ {h} /\ m.pc # "upsert"
    <3>1. l.pc = "next" /\ UNCHANGED tables
      BY <1>3 DEF NextFile
    <3>2. CASE disk[h] = Absent
      BY <1>0, <2>1, <3>1, <3>2 DEF At
    <3>3. CASE disk[h] # Absent
      BY <1>0, <2>1, <3>1, <3>3 DEF At
    <3> QED BY <3>2, <3>3
  <2>3. ASSUME NEW f \in Files, InFront(t, f) PROVE InFront(t, f)' \/ Settled(f)
    <3>1. f \in l.todo
      BY <2>2, <2>3 DEF InFront, InHand
    <3>2. CASE f # h
      BY <2>2, <3>1, <3>2 DEF InFront
    <3>3. CASE f = h /\ disk[f] = Absent
      BY <3>3, TextAssumption DEF Settled
    <3>4. CASE f = h /\ disk[f] # Absent
      <4>1. m.file = f /\ m.hash = disk[f] /\ m.pc = "select"
        BY <1>0, <2>1, <3>4 DEF At
      <4> QED BY <1>1, <4>1 DEF InFront, InHand
    <3> QED BY <3>2, <3>3, <3>4
  <2>4. \A f \in Files : Pending(f) => Pending(f)'
    BY <1>g, <2>2, <2>3 DEF StoresTruth
  <2>5. m.todo \subseteq l.todo
    BY <2>2
  <2> QED BY <1>0, <1>1, <1>2, <2>4, <2>5 DEF PendingInv
<1>4. CASE ~ NextFile(t)
  <2>1. \/ m.todo = l.todo
        \/ l.todo = {} /\ m.todo = {}
    BY <1>0, <1>4, <1>l DEF Pass, Select, CheckAgain, Reselect, ReadContent, Rehash, Upsert, Delete,
         InsertChunk, InsertRefused, RetryEmbedding, EmbeddingFails, StatementFails, EndPass,
         Raise, At, Frame
  <2>2. \A f \in Files : f \in l.todo => InFront(t, f)'
    BY <2>1 DEF InFront
  <2>3. ASSUME NEW f \in Files, Pending(f) PROVE Pending(f)'
    <3>1. CASE Select(t) \/ Reselect(t)
      <4>1. UNCHANGED tables /\ m.pc # "upsert"
        BY <1>0, <1>l, <3>1 DEF Select, Reselect, Frame
      <4>2. ASSUME InHand(t, f) PROVE InHand(t, f)' \/ Settled(f)
        <5>1. l.file = f /\ l.hash = disk[f]
          BY <3>1, <4>2 DEF InHand, Select, Reselect
        <5>2. CASE UpToDate(t)
          BY <5>1, <5>2 DEF UpToDate, Settled
        <5>3. CASE ~ UpToDate(t)
          <6>1. m.file = f /\ m.pc \in {"check", "read"}
            BY <1>0, <3>1, <5>1, <5>3 DEF Select, Reselect, Frame
          <6> QED BY <6>1 DEF InHand
        <5> QED BY <5>2, <5>3
      <4> QED BY <1>g, <2>2, <2>3, <4>1, <4>2 DEF InFront, StoresTruth
    <3>2. CASE CheckAgain(t) \/ ReadContent(t) \/ Rehash(t)
      <4>1. UNCHANGED tables
        BY <3>2 DEF CheckAgain, ReadContent, Rehash
      <4>2. CASE Leave(t) /\ disk[l.file] \notin Text
        <5>1. InHand(t, f) => Settled(f)
          BY <4>2 DEF InHand, Settled
        <5>2. StoresTruth(t, f)'
          BY <1>l, <4>2 DEF StoresTruth
        <5> QED BY <1>g, <2>2, <2>3, <4>1, <5>1, <5>2 DEF InFront
      <4>3. CASE /\ m.file = l.file
                 /\ m.pc = "rehash" \/ (m.pc \in {"reselect", "upsert"} /\ m.hash = disk[l.file])
        <5>1. InHand(t, f) => InHand(t, f)'
          BY <1>1, <4>3 DEF InHand
        <5>2. StoresTruth(t, f)'
          BY <1>1, <4>3 DEF StoresTruth
        <5> QED BY <1>g, <2>2, <2>3, <4>1, <5>1, <5>2 DEF InFront
      <4>4. CASE CheckAgain(t)
        BY <1>0, <4>2, <4>3, <4>4, TextAssumption DEF CheckAgain, Frame
      <4>5. CASE ReadContent(t)
        BY <1>0, <4>2, <4>3, <4>5 DEF ReadContent, Frame
      <4>6. CASE Rehash(t)
        BY <1>0, <4>2, <4>3, <4>6, TextAssumption DEF Rehash, Frame
      <4> QED BY <3>2, <4>4, <4>5, <4>6
    <3>3. CASE Upsert(t)
      <4>1. /\ l.pc = "upsert" /\ l.file \in Files /\ m.pc = "delete" /\ m.todo = l.todo
            /\ UpsertDocument(l.file, l.content, l.hash)
        BY <1>0, <3>3 DEF Upsert, LocalsAssigned, InDocument, Frame
      <4>2. \A u \in {Main, Watcher} : StoresTruth(u, f)'
        BY <1>0, <1>1, <2>3, <4>1 DEF Pending, StoresTruth, Queued
      <4>3. CASE l.file = f
        <5>1. documents'[f].hash = l.hash /\ Indexed(f)'
          BY <1>0, <4>1, <4>3 DEF UpsertDocument, TablesTypeOK, Indexed
        <5>2. l.hash = disk[f] \/ Queued(f)
          BY <1>0, <2>3, <4>1, <4>3 DEF Pending, StoresTruth
        <5>3. Settled(f)'
          BY <1>1, <5>1, <5>2 DEF Settled, Queued
        <5> QED BY <4>2, <5>3 DEF Pending
      <4>4. CASE l.file # f
        <5>1. documents'[f] = documents[f]
          BY <1>0, <4>1, <4>4 DEF UpsertDocument, TablesTypeOK
        <5>2. Settled(f) => Settled(f)'
          BY <1>1, <5>1 DEF Settled, Indexed, Queued
        <5>3. \A u \in {Main, Watcher} : InFront(u, f) => InFront(u, f)'
          BY <1>0, <1>1, <4>1, <4>4 DEF InFront, InHand
        <5> QED BY <2>3, <4>2, <5>2, <5>3 DEF Pending
      <4> QED BY <4>3, <4>4
    <3>4. CASE Delete(t) \/ InsertChunk(t)
      <4>1. /\ l.pc \in {"delete", "embed"} /\ documents' = documents
            /\ m.pc \notin {"upsert"}
        BY <1>0, <1>l, <3>4 DEF Delete, InsertChunk, DeleteChunks, InsertChunkRow, Frame
      <4>2. ~ InHand(t, f) /\ StoresTruth(t, f)'
        BY <4>1 DEF InHand, StoresTruth
      <4>3. InFront(t, f) => InFront(t, f)' \/ Settled(f)
        BY <2>2, <4>2 DEF InFront
      <4> QED BY <1>0, <1>1, <2>3, <4>1, <4>2, <4>3, PendingMove
    <3>5. CASE InsertRefused(t) \/ RetryEmbedding(t) \/ EmbeddingFails(t) \/ EndPass(t)
      <4>1. UNCHANGED tables /\ l.pc \in {"embed", "next"} /\ m.pc # "upsert"
        BY <1>0, <1>l, <3>5 DEF InsertRefused, RetryEmbedding, EmbeddingFails, EndPass, Raise, At, Frame
      <4>2. ~ InHand(t, f) /\ StoresTruth(t, f)'
        BY <4>1 DEF InHand, StoresTruth
      <4> QED BY <1>g, <2>2, <2>3, <4>1, <4>2 DEF InFront
    <3>6. CASE StatementFails(t)
      <4>1. UNCHANGED tables /\ Settled(f) /\ m.pc # "upsert"
        BY <1>0, <1>l, <3>6 DEF StatementFails, Raise, Connected, Settled
      <4> QED BY <1>g, <2>3, <4>1 DEF StoresTruth
    <3> QED BY <1>4, <3>1, <3>2, <3>3, <3>4, <3>5, <3>6 DEF Pass
  <2> QED BY <1>0, <1>1, <1>2, <2>1, <2>3 DEF PendingInv
<1> QED BY <1>3, <1>4

-----------------------------------------------------------------------------

\* An event stays queued until it is the first, and is then in the observer's hand.
LEMMA QueueFacts ==
  ASSUME queue \in Seq(Files), NEW f \in Files
  PROVE  /\ Queued(f) /\ queue # <<>> => Head(queue) = f \/ \E j \in DOMAIN Tail(queue) : Tail(queue)[j] = f
         /\ \A g \in Files : /\ \E j \in DOMAIN Append(queue, g) : Append(queue, g)[j] = g
                             /\ Queued(f) => \E j \in DOMAIN Append(queue, g) : Append(queue, g)[j] = f
         /\ queue # <<>> /\ queue[Len(queue)] = f => Queued(f)
<1>1. ASSUME NEW j \in DOMAIN queue, queue[j] = f, queue # <<>>, j # 1
      PROVE  j - 1 \in DOMAIN Tail(queue) /\ Tail(queue)[j - 1] = f
  BY <1>1
<1>2. Queued(f) /\ queue # <<>> => Head(queue) = f \/ \E j \in DOMAIN Tail(queue) : Tail(queue)[j] = f
  <2> SUFFICES ASSUME Queued(f), queue # <<>>, Head(queue) # f
               PROVE  \E j \in DOMAIN Tail(queue) : Tail(queue)[j] = f
    OBVIOUS
  <2>1. PICK j \in DOMAIN queue : queue[j] = f
    BY DEF Queued
  <2>2. j # 1
    BY <2>1
  <2> QED BY <1>1, <2>1, <2>2
<1>3. ASSUME NEW g \in Files
      PROVE  /\ \E j \in DOMAIN Append(queue, g) : Append(queue, g)[j] = g
             /\ Queued(f) => \E j \in DOMAIN Append(queue, g) : Append(queue, g)[j] = f
  <2>1. Len(queue) + 1 \in DOMAIN Append(queue, g) /\ Append(queue, g)[Len(queue) + 1] = g
    OBVIOUS
  <2>2. \A j \in DOMAIN queue : j \in DOMAIN Append(queue, g) /\ Append(queue, g)[j] = queue[j]
    OBVIOUS
  <2> QED BY <2>1, <2>2 DEF Queued
<1>4. queue # <<>> /\ queue[Len(queue)] = f => Queued(f)
  BY DEF Queued
<1> QED BY <1>2, <1>3, <1>4

LEMMA PendingWorld ==
    ASSUME Triggers = {}, OneShots = {}, TypeInv, SoleInv, PendingInv,
           DaemonStep \/ Interrupt \/ Fault \/ Edit
    PROVE  PendingInv'
<1>0. /\ thread \in [Threads -> Frame] /\ SoleThreads /\ DaemonInv /\ queue \in Seq(Files)
      /\ Threads = {Main, Watcher} /\ DaemonThreads = Threads /\ Main # Watcher
      /\ disk \in [Files -> Content] /\ Processes = {Daemon} /\ conn \in [Processes -> BOOLEAN]
  BY SoleParts, ThreadsAssumption DEF TypeInv, TypeOK, SoleThreads, Threads, DaemonThreads, Processes
<1>1. CASE StartDaemon
  BY <1>0, <1>1 DEF StartDaemon, PendingInv, Active, At
<1>2. CASE BeginFirstPass
  <2>1. /\ UNCHANGED <<tables, disk, queue, phase, conn>> /\ thread'[Watcher] = thread[Watcher]
        /\ thread'[Main] = At("next", Listing) /\ phase # "watching" /\ thread[Watcher].pc = "idle"
    BY <1>0, <1>2 DEF BeginFirstPass, SoleThreads, DaemonInv
  <2>2. ASSUME NEW f \in Files PROVE Pending(f)'
    <3>1. disk[f] \in Text => InFront(Main, f)'
      BY <1>0, <2>1, TextAssumption DEF InFront, At, Listing
    <3>2. disk[f] \notin Text => Settled(f)'
      BY <2>1 DEF Settled
    <3>3. \A t \in {Main, Watcher} : StoresTruth(t, f)'
      BY <2>1 DEF StoresTruth, At
    <3> QED BY <3>1, <3>2, <3>3 DEF Pending
  <2> QED BY <2>1, <2>2 DEF PendingInv
<1>3. CASE StartWatching
  <2>1. /\ UNCHANGED <<tables, disk, queue, conn, missed>> /\ thread'[Watcher] = thread[Watcher]
        /\ thread[Main].pc = "next" /\ thread[Main].todo = {} /\ thread'[Main] = At("idle", {})
        /\ phase = "starting"
    BY <1>0, <1>3 DEF StartWatching, DaemonInv
  <2>2. ASSUME NEW f \in Files, Pending(f) PROVE Pending(f)'
    <3>1. ~ InFront(Main, f) /\ StoresTruth(Main, f)'
      BY <2>1 DEF InFront, InHand, StoresTruth, At
    <3> QED BY <1>0, <2>1, <2>2, <3>1, PendingMove DEF tables
  <2> QED BY <2>1, <2>2 DEF PendingInv, Active
<1>4. CASE Dispatch
  <2>1. /\ UNCHANGED <<tables, disk, conn, missed, phase>> /\ thread'[Main] = thread[Main]
        /\ phase = "watching" /\ thread[Watcher].pc = "idle" /\ queue # <<>>
        /\ thread'[Watcher] = [At("check", {}) EXCEPT !.file = Head(queue)]
        /\ queue' = Tail(queue)
    BY <1>0, <1>4 DEF Dispatch
  <2>2. thread[Main].pc = "idle"
    BY <1>0, <2>1 DEF DaemonInv
  <2>3. /\ thread'[Watcher].pc = "check" /\ thread'[Watcher].file = Head(queue)
        /\ thread'[Watcher].todo = {}
    BY <2>1 DEF At
  <2>4. ASSUME NEW f \in Files, Pending(f) PROVE Pending(f)'
    <3>1. Queued(f) => Queued(f)' \/ InFront(Watcher, f)'
      BY <1>0, <2>1, <2>3, QueueFacts DEF Queued, InFront, InHand
    <3>2. Settled(f) => Settled(f)' \/ InFront(Watcher, f)'
      BY <2>1, <3>1 DEF Settled, tables, Indexed
    <3>3. InFront(Main, f) => InFront(Main, f)'
      BY <2>1 DEF InFront, InHand
    <3>4. ~ InFront(Watcher, f)
      BY <2>1 DEF InFront, InHand, PendingInv
    <3>5. \A t \in {Main, Watcher} : StoresTruth(t, f)'
      BY <2>1, <2>2, <2>3 DEF StoresTruth
    <3> QED BY <2>4, <3>2, <3>3, <3>4, <3>5 DEF Pending
  <2> QED BY <2>1, <2>3, <2>4 DEF PendingInv, Active
<1>5. CASE Exit \/ Crash
  BY <1>0, <1>5 DEF Exit, Crash, DaemonGone, PendingInv, Active, At
<1>6. CASE Interrupt
  BY <1>6 DEF Interrupt, PendingInv, Active
<1>7. ASSUME NEW p \in Processes, LoseConnection(p) PROVE PendingInv'
  <2>1. UNCHANGED <<tables, disk, queue, phase, thread, missed>> /\ ~ conn'[Daemon]
    BY <1>0, <1>7 DEF LoseConnection
  <2>2. ASSUME NEW f \in Files, Pending(f) PROVE Pending(f)'
    BY <2>1, <2>2 DEF Pending, Settled, StoresTruth, Queued
  <2> QED BY <2>1, <2>2 DEF PendingInv, Active
<1>8. ASSUME NEW g \in Files, NEW c \in Content, Save(g, c) \/ Rename(g, c) PROVE PendingInv'
  <2>1. /\ UNCHANGED <<tables, phase, conn, thread>> /\ \A f \in Files \ {g} : disk'[f] = disk[f]
        /\ missed \subseteq missed' \cup {g} /\ (phase # "watching" => g \in missed')
    BY <1>0, <1>8 DEF Save, Rename
  <2>2. ASSUME NEW f \in Files PROVE Queued(f) => Queued(f)'
    <3>1. queue' = queue \/ queue' = Append(queue, g)
      BY <1>8 DEF Save, Rename
    <3>2. CASE queue' = queue
      BY <3>2 DEF Queued
    <3>3. CASE queue' = Append(queue, g)
      BY <1>0, <3>3, QueueFacts DEF Queued
    <3> QED BY <3>1, <3>2, <3>3
  <2>3. g \in missed' \/ Queued(g)'
    <3>1. CASE Rename(g, c)
      BY <3>1 DEF Rename
    <3>2. CASE Save(g, c)
      <4>1. \/ g \in missed'
            \/ queue' = Append(queue, g)
            \/ queue' = queue /\ queue # <<>> /\ queue[Len(queue)] = g
        BY <3>2 DEF Save
      <4> QED BY <1>0, <4>1, QueueFacts DEF Queued
    <3> QED BY <1>8, <3>1, <3>2
  <2>4. ASSUME NEW f \in Files, f # g, Pending(f) PROVE Pending(f)'
    <3>1. disk'[f] = disk[f] /\ (Queued(f) => Queued(f)')
      BY <2>1, <2>2, <2>4
    <3>2. Settled(f) => Settled(f)'
      BY <2>1, <3>1 DEF Settled, Indexed, tables
    <3>3. \A t \in {Main, Watcher} : InFront(t, f) => InFront(t, f)'
      BY <2>1, <3>1 DEF InFront, InHand
    <3>4. \A t \in {Main, Watcher} : StoresTruth(t, f)'
      BY <2>1, <2>4, <3>1 DEF Pending, StoresTruth
    <3> QED BY <2>4, <3>2, <3>3, <3>4 DEF Pending
  <2>5. g \notin missed' => Pending(g)'
    BY <2>3 DEF Pending, Settled, StoresTruth
  <2>6. \A f \in Files \ missed' : f # g => f \in Files \ missed
    BY <2>1
  <2> QED BY <2>1, <2>4, <2>5, <2>6 DEF PendingInv, Active
<1> QED BY <1>1, <1>2, <1>3, <1>4, <1>5, <1>6, <1>7, <1>8 DEF DaemonStep, Fault, Edit

LEMMA PendingStep ==
    ASSUME Triggers = {}, OneShots = {}
    PROVE  TypeInv /\ SoleInv /\ PendingInv /\ [Next]_vars => PendingInv'
<1> SUFFICES ASSUME TypeInv, SoleInv, PendingInv, [Next]_vars PROVE PendingInv'
  OBVIOUS
<1>1. CASE UNCHANGED vars
  BY <1>1 DEF vars, PendingInv, Active, Pending, Settled, InFront, InHand, StoresTruth, Queued, Indexed
<1>2. CASE DaemonStep \/ Interrupt \/ Fault \/ Edit
  BY <1>2, PendingWorld
<1>3. ASSUME NEW t \in Threads, Pass(t) PROVE PendingInv'
  BY <1>3, PendingPass
<1> QED BY <1>1, <1>2, <1>3 DEF Next

-----------------------------------------------------------------------------
(* What is recorded has its own hash, unless a change fell in between.     *)

\* f is not torn: its row, and what a thread holds of it, is one reading.
Agrees(f) ==
    f \notin torn =>
        /\ Indexed(f) => documents[f].content = documents[f].hash
        /\ \A t \in Threads :
             thread[t].file = f =>
                /\ thread[t].pc = "rehash" => thread[t].content = disk[f]
                /\ thread[t].pc = "upsert" => thread[t].content = thread[t].hash

TornInv == \A f \in Files : Agrees(f)

LEMMA TornInit == Init => TornInv
  BY DEF Init, TablesInit, NoRow, Indexed, TornInv, Agrees, At

\* A step that writes no row, and brings no thread to its hash.
LEMMA TornQuiet ==
    ASSUME TornInv, UNCHANGED <<disk, torn>>,
           \A f \in Files : Indexed(f)' => Indexed(f) /\ documents'[f] = documents[f],
           \A t \in Threads : \/ thread'[t] = thread[t]
                              \/ thread'[t].pc \notin {"rehash", "upsert"}
    PROVE  TornInv'
  BY DEF TornInv, Agrees, Indexed

LEMMA TornPass ==
    ASSUME Triggers = {}, OneShots = {}, TypeInv, SoleInv, TornInv, NEW t \in Threads, Pass(t)
    PROVE  TornInv'
<1> DEFINE l == thread[t]
           m == thread'[t]
<1>0. /\ thread \in [Threads -> Frame] /\ TablesTypeOK /\ LocalsAssigned(l) /\ l \in Frame
      /\ SoleThreads
  BY SoleParts DEF TypeInv, TypeOK
<1>l. Leave(t) => m.pc \in {"idle", "next"}
  BY <1>0 DEF Leave, At
<1>u. \A u \in Threads \ {t} : thread'[u] = thread[u]
  BY <1>0 DEF Pass, NextFile, Select, CheckAgain, Reselect, ReadContent, Rehash, Upsert, Delete,
       InsertChunk, InsertRefused, RetryEmbedding, EmbeddingFails, StatementFails, EndPass,
       Raise, Leave
<1>q. ASSUME documents' = documents, UNCHANGED <<disk, torn>>, m.pc \notin {"rehash", "upsert"}
      PROVE  TornInv'
  BY <1>u, <1>q, TornQuiet DEF Indexed
<1>1. CASE NextFile(t)
  <2>1. PICK h \in l.todo :
           thread' = [thread EXCEPT ![t] =
               IF disk[h] = Absent THEN At("next", l.todo \ {h})
               ELSE [At("select", l.todo \ {h}) EXCEPT !.file = h, !.hash = disk[h]]]
    BY <1>1 DEF NextFile
  <2>2. m.pc \in {"next", "select"}
    BY <1>0, <2>1 DEF At
  <2> QED BY <1>1, <1>q, <2>2 DEF NextFile, tables, environment
<1>2. CASE Select(t) \/ CheckAgain(t) \/ Reselect(t) \/ EndPass(t)
  <2>1. m.pc \notin {"rehash", "upsert"}
    BY <1>0, <1>l, <1>2 DEF Select, CheckAgain, Reselect, EndPass, At, Frame
  <2> QED BY <1>2, <1>q, <2>1 DEF Select, CheckAgain, Reselect, EndPass, tables, environment
<1>3. CASE ReadContent(t)
  <2>1. CASE Leave(t)
    BY <1>3, <1>l, <1>q, <2>1 DEF ReadContent, tables, environment
  <2>2. CASE ~ Leave(t)
    <3>1. /\ m.pc = "rehash" /\ m.content = disk[l.file] /\ m.file = l.file
          /\ documents' = documents /\ UNCHANGED <<disk, torn>>
      BY <1>0, <1>3, <2>2 DEF ReadContent, Frame, tables, environment
    <3> QED BY <1>u, <3>1 DEF TornInv, Agrees, Indexed
  <2> QED BY <2>1, <2>2
<1>4. CASE Rehash(t)
  <2>1. CASE Leave(t)
    BY <1>4, <1>l, <1>q, <2>1 DEF Rehash, tables, environment
  <2>2. CASE ~ Leave(t)
    <3>1. /\ l.pc = "rehash" /\ m.pc = "upsert" /\ m.hash = disk[l.file] /\ m.file = l.file
          /\ m.content = l.content /\ documents' = documents /\ UNCHANGED <<disk, torn>>
      BY <1>0, <1>4, <2>2 DEF Rehash, Frame, tables, environment
    <3> QED BY <1>u, <3>1 DEF TornInv, Agrees, Indexed
  <2> QED BY <2>1, <2>2
<1>5. CASE Upsert(t)
  <2>1. /\ l.pc = "upsert" /\ l.file \in Files /\ m.pc = "delete" /\ disk' = disk
        /\ UpsertDocument(l.file, l.content, l.hash)
        /\ torn' = IF l.hash = l.content THEN torn \ {l.file} ELSE torn
    BY <1>0, <1>5 DEF Upsert, LocalsAssigned, InDocument, Frame
  <2>2. \A u \in Threads : thread'[u].pc \notin {"rehash", "upsert"}
    BY <1>0, <1>u, <2>1, OnlyOne
  <2>3. /\ documents'[l.file].content = l.content /\ documents'[l.file].hash = l.hash
        /\ \A f \in Files \ {l.file} : documents'[f] = documents[f]
    BY <1>0, <2>1 DEF UpsertDocument, TablesTypeOK, Indexed
  <2>4. l.file \notin torn => l.content = l.hash
    BY <2>1 DEF TornInv, Agrees
  <2>5. ASSUME NEW f \in Files PROVE Agrees(f)'
    <3>1. f = l.file /\ f \notin torn' => documents'[f].content = documents'[f].hash
      BY <2>1, <2>3, <2>4
    <3>2. f # l.file /\ f \notin torn' => (Indexed(f)' => documents'[f].content = documents'[f].hash)
      BY <2>1, <2>3 DEF TornInv, Agrees, Indexed
    <3> QED BY <2>2, <3>1, <3>2 DEF Agrees
  <2> QED BY <2>5 DEF TornInv
<1>6. CASE Delete(t) \/ InsertChunk(t) \/ InsertRefused(t) \/ RetryEmbedding(t)
           \/ EmbeddingFails(t) \/ StatementFails(t)
  <2>1. m.pc \notin {"rehash", "upsert"}
    BY <1>0, <1>l, <1>6 DEF Delete, InsertChunk, InsertRefused, RetryEmbedding, EmbeddingFails,
         StatementFails, Raise, Frame
  <2>2. documents' = documents /\ UNCHANGED <<disk, torn>>
    BY <1>6 DEF Delete, DeleteChunks, InsertChunk, InsertChunkRow, InsertRefused, RetryEmbedding,
         EmbeddingFails, StatementFails, Raise, tables, environment
  <2> QED BY <1>q, <2>1, <2>2
<1> QED BY <1>1, <1>2, <1>3, <1>4, <1>5, <1>6 DEF Pass

LEMMA TornWorld ==
    ASSUME Triggers = {}, OneShots = {}, TypeInv, SoleInv, TornInv,
           DaemonStep \/ Interrupt \/ Fault \/ Edit
    PROVE  TornInv'
<1>0. /\ thread \in [Threads -> Frame] /\ Threads = DaemonThreads
      /\ Threads = {Main, Watcher} /\ disk \in [Files -> Content]
  BY DEF TypeInv, TypeOK, Threads, DaemonThreads
<1>1. CASE StartDaemon \/ BeginFirstPass \/ StartWatching \/ Dispatch
  <2>1. UNCHANGED <<documents, disk, torn>>
    BY <1>1 DEF StartDaemon, BeginFirstPass, StartWatching, Dispatch, tables
  <2>2. \A t \in Threads : thread'[t] = thread[t] \/ thread'[t].pc \notin {"rehash", "upsert"}
    BY <1>0, <1>1 DEF StartDaemon, BeginFirstPass, StartWatching, Dispatch, At
  <2> QED BY <2>1, <2>2, TornQuiet DEF Indexed
<1>2. CASE Exit \/ Crash
  <2>1. UNCHANGED <<documents, disk, torn>> /\ \A t \in Threads : thread'[t].pc = "idle"
    BY <1>0, <1>2 DEF Exit, Crash, DaemonGone, At, tables
  <2> QED BY <2>1, TornQuiet DEF Indexed
<1>3. ASSUME Interrupt \/ \E p \in Processes : LoseConnection(p) PROVE TornInv'
  <2>1. UNCHANGED <<documents, disk, torn, thread>>
    BY <1>3 DEF Interrupt, LoseConnection, tables
  <2> QED BY <2>1, TornQuiet DEF Indexed
<1>4. ASSUME NEW g \in Files, NEW c \in Content, Save(g, c) \/ Rename(g, c) PROVE TornInv'
  <2>1. /\ UNCHANGED <<documents, thread>> /\ \A f \in Files \ {g} : disk'[f] = disk[f]
        /\ torn' = Torn(g)
    BY <1>0, <1>4 DEF Save, Rename, tables
  <2>2. torn \subseteq torn'
    BY <2>1 DEF Torn
  <2>3. \A t \in Threads : thread[t].file = g /\ thread[t].pc = "rehash" => g \in torn'
    BY <2>1 DEF Torn
  <2>4. ASSUME NEW f \in Files PROVE Agrees(f)'
    BY <2>1, <2>2, <2>3 DEF TornInv, Agrees, Indexed
  <2> QED BY <2>4 DEF TornInv
<1> QED BY <1>1, <1>2, <1>3, <1>4 DEF DaemonStep, Fault, Edit

LEMMA TornStep ==
    ASSUME Triggers = {}, OneShots = {}
    PROVE  TypeInv /\ SoleInv /\ TornInv /\ [Next]_vars => TornInv'
<1> SUFFICES ASSUME TypeInv, SoleInv, TornInv, [Next]_vars PROVE TornInv'
  OBVIOUS
<1>1. CASE UNCHANGED vars
  BY <1>1, TornQuiet DEF vars, Indexed
<1>2. CASE DaemonStep \/ Interrupt \/ Fault \/ Edit
  BY <1>2, TornWorld
<1>3. ASSUME NEW t \in Threads, Pass(t) PROVE TornInv'
  BY <1>3, TornPass
<1> QED BY <1>1, <1>2, <1>3 DEF Next

-----------------------------------------------------------------------------

\* Once a daemon without /process threads and without other processes has listed
\* its files, the last change of a file is recorded, text and hash, queued, or in
\* front of a thread, through any interleaving of edits, outages and restarts.  It
\* is said of the changes an event or that listing reported, while the connection
\* lives, and of the hash alone of one that fell between the two readings.
THEOREM NothingForgotten ==
    ASSUME Triggers = {}, OneShots = {}
    PROVE  Spec => []NoChangeForgotten
<1>1. PendingInv /\ TornInv => NoChangeForgotten
  <2> SUFFICES ASSUME PendingInv, TornInv, Active, NEW f \in Files \ missed,
                      conn[Daemon], disk[f] \in Text, ~ Queued(f)
               PROVE  \/ Recorded(f)
                      \/ \E t \in {Main, Watcher} : thread[t].file = f \/ f \in thread[t].todo
    BY DEF NoChangeForgotten, Active
  <2>1. Settled(f) \/ \E t \in {Main, Watcher} : InFront(t, f)
    BY DEF PendingInv, Pending
  <2>2. Settled(f) => Recorded(f)
    BY DEF Settled, Recorded, TornInv, Agrees
  <2> QED BY <2>1, <2>2 DEF InFront, InHand
<1>2. TypeInv /\ SoleInv /\ PendingInv /\ [Next]_vars => PendingInv'
  BY PendingStep
<1>3. TypeInv /\ SoleInv /\ [Next]_vars => SoleInv'
  BY SoleStep
<1>4. TypeInv /\ SoleInv /\ TornInv /\ [Next]_vars => TornInv'
  BY TornStep
<1> QED
  BY <1>1, <1>2, <1>3, <1>4, TypeInit, TypeStep, SoleInit, PendingInit, TornInit, PTL DEF Spec
=============================================================================
