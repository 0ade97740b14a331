------------------------ MODULE IndexRefinementProofs ------------------------
(***************************************************************************)
(* A daemon alone implements DocumentIndex, for any files, texts, edits,   *)
(* crashes, embedding outages and lost connections: every step of its      *)
(* threads is a step of the index or changes nothing readers can see.      *)
(***************************************************************************)
EXTENDS IndexRefinement, DaemonAloneProofs

\* What a thread with the locals l does to document f.
WritingAs(l, f) ==
    IF l.file # f THEN "no"
    ELSE IF l.pc = "delete" THEN "clear"
    ELSE IF l.pc = "embed" THEN "fill"
    ELSE "no"

-----------------------------------------------------------------------------
(* The chunks of one document, read as the first n of one text. *)

LEMMA NoneHeld == HeldIn(NoChunks) = [text |-> Absent, n |-> 0]
  BY DEF HeldIn

LEMMA OneReading ==
  ASSUME NEW c \in Text, NEW d \in Text, NEW k \in Index, NEW j \in Index,
         FirstChunks(c, k) = FirstChunks(d, j)
  PROVE  c = d /\ k = j
<1>1. k \in Nat /\ j \in Nat /\ k <= k /\ j <= j
  BY ChunksAssumption DEF Index
<1>2. FirstChunks(c, k)[c][k] = 1 /\ FirstChunks(d, j)[d][j] = 1
  BY <1>1 DEF FirstChunks
<1>3. FirstChunks(d, j)[c][k] = 1 /\ FirstChunks(c, k)[d][j] = 1
  BY <1>2
<1>4. c = d /\ k <= j
  BY <1>1, <1>3 DEF FirstChunks
<1>5. j <= k
  BY <1>1, <1>3 DEF FirstChunks
<1> QED BY <1>1, <1>4, <1>5

LEMMA SomeHeld ==
  ASSUME NEW c \in Text, NEW k \in Index
  PROVE  HeldIn(FirstChunks(c, k)) = [text |-> c, n |-> k]
<1> DEFINE rows == FirstChunks(c, k)
           r0 == [text |-> c, n |-> k]
           r1 == CHOOSE r \in [text : Text, n : Index] : rows = FirstChunks(r.text, r.n)
<1>1. rows # NoChunks
  <2>1. k \in Nat /\ 1 \in Index /\ 1 <= k
    BY ChunksAssumption DEF Index
  <2>2. FirstChunks(c, k)[c][1] = 1 /\ NoChunks[c][1] = 0
    BY <2>1 DEF FirstChunks, NoChunks
  <2> QED BY <2>2
<1>2. r0 \in [text : Text, n : Index] /\ rows = FirstChunks(r0.text, r0.n)
  OBVIOUS
<1>3. r1 \in [text : Text, n : Index] /\ rows = FirstChunks(r1.text, r1.n)
  BY <1>2
<1>4. r1 = r0
  <2>1. r1.text \in Text /\ r1.n \in Index /\ FirstChunks(r1.text, r1.n) = FirstChunks(c, k)
    BY <1>3
  <2>2. r1.text = c /\ r1.n = k
    BY <2>1, OneReading
  <2> HIDE DEF r1
  <2> QED BY <1>3, <2>2
<1>5. HeldIn(rows) = r1
  BY <1>1 DEF HeldIn
<1> QED BY <1>4, <1>5

-----------------------------------------------------------------------------
(* Who is writing. *)

LEMMA OneWriting ==
  ASSUME NEW t \in Threads, NEW f \in Files, \A u \in Threads \ {t} : thread[u].pc = "idle"
  PROVE  WritingIn(thread, f) = WritingAs(thread[t], f)
  BY DEF WritingIn, WritingAs

LEMMA OneWritingNext ==
  ASSUME NEW t \in Threads, NEW f \in Files, \A u \in Threads \ {t} : thread'[u].pc = "idle"
  PROVE  WritingIn(thread', f) = WritingAs(thread'[t], f)
  BY DEF WritingIn, WritingAs

\* What readers see changes with the tables and the writer only.
LEMMA IndexStays ==
  ASSUME documents' = documents, chunks' = chunks,
         \A f \in Files : WritingIn(thread', f) = WritingIn(thread, f)
  PROVE  UNCHANGED Abstract!index
  BY DEF Abstract!index

\* A writer that stops without a statement has abandoned its document, if any.
LEMMA WriterStops ==
  ASSUME NEW t \in Threads, documents' = documents, chunks' = chunks, LocalsAssigned(thread[t]),
         \A u \in Threads \ {t} : thread[u].pc = "idle",
         \A u \in Threads : thread'[u].pc \notin {"delete", "embed"}
  PROVE  [Abstract!Rewrite]_(Abstract!index)
<1> DEFINE g == thread[t].file
<1>1. \A f \in Files : WritingIn(thread', f) = "no"
  BY DEF WritingIn
<1>2. \A f \in Files : WritingIn(thread, f) = WritingAs(thread[t], f)
  BY OneWriting
<1>4. CASE thread[t].pc \in {"delete", "embed"}
  <2>1. g \in Files /\ WritingIn(thread, g) # "no" /\ \A f \in Files \ {g} : WritingIn(thread, f) = "no"
    BY <1>2, <1>4 DEF LocalsAssigned, InDocument, WritingAs
  <2>2. Abstract!Abandon(g)
    BY <1>1, <2>1 DEF Abstract!Abandon
  <2> QED BY <2>1, <2>2 DEF Abstract!Rewrite
<1>5. CASE thread[t].pc \notin {"delete", "embed"}
  <2>1. \A f \in Files : WritingIn(thread, f) = "no"
    BY <1>2, <1>5 DEF WritingAs
  <2> QED BY <1>1, <2>1, IndexStays
<1> QED BY <1>4, <1>5

-----------------------------------------------------------------------------

LEMMA IndexStarts == Init => Abstract!IndexInit
<1> SUFFICES ASSUME Init PROVE Abstract!IndexInit
  OBVIOUS
<1>1. \A f \in Files : documents[f].content = Absent
  BY DEF Init, TablesInit, NoRow
<1>2. \A f \in Files : HeldIn(chunks[f]) = [text |-> Absent, n |-> 0]
  BY NoneHeld DEF Init, TablesInit
<1>3. \A f \in Files : WritingIn(thread, f) = "no"
  BY DEF Init, At, WritingIn
<1> QED BY <1>1, <1>2, <1>3 DEF Abstract!IndexInit, Abstract!Nothing

\* A thread goes through a document.
LEMMA PassRewrites ==
    ASSUME Triggers = {}, OneShots = {}, TypeInv, SoleInv, NEW t \in Threads, Pass(t)
    PROVE  [Abstract!Rewrite]_(Abstract!index)
<1> DEFINE l == thread[t]
           g == thread[t].file
<1>0. /\ thread \in [Threads -> Frame] /\ TablesTypeOK /\ LocalsAssigned(l) /\ l \in Frame
      /\ SoleThreads /\ \A f \in Files : SoleDocument(f)
  BY SoleParts DEF TypeInv, TypeOK
<1>a. l.pc \notin {"idle", "done", "wait"}
  BY DEF Pass, NextFile, Select, CheckAgain, Reselect, ReadContent, Rehash, Upsert, Delete,
         InsertChunk, InsertRefused, RetryEmbedding, EmbeddingFails, StatementFails, EndPass
<1>b. \A u \in Threads \ {t} : thread'[u] = thread[u] /\ thread[u].pc = "idle"
  <2>1. \A u \in Threads \ {t} : thread'[u] = thread[u]
    BY <1>0 DEF Pass, NextFile, Select, CheckAgain, Reselect, ReadContent, Rehash, Upsert, Delete,
         InsertChunk, InsertRefused, RetryEmbedding, EmbeddingFails, StatementFails, EndPass,
         Raise, Leave
  <2> QED
    BY <1>0, <1>a, <2>1, OnlyOne
<1>w. \A f \in Files : WritingIn(thread, f) = WritingAs(l, f) /\ WritingIn(thread', f) = WritingAs(thread'[t], f)
  BY <1>b, OneWriting, OneWritingNext
<1>l. Leave(t) => thread'[t].pc \in {"idle", "next"}
  BY <1>0 DEF Leave, At
<1>1. CASE NextFile(t) \/ Select(t) \/ CheckAgain(t) \/ Reselect(t) \/ ReadContent(t)
           \/ Rehash(t) \/ EndPass(t)
  <2>1. UNCHANGED tables
    BY <1>1 DEF NextFile, Select, CheckAgain, Reselect, ReadContent, Rehash, EndPass
  <2>2. thread'[t].pc \notin {"delete", "embed"}
    <3>1. NextFile(t) => thread'[t].pc \in {"next", "select"}
      <4> SUFFICES ASSUME NextFile(t) PROVE thread'[t].pc \in {"next", "select"}
        OBVIOUS
      <4>1. PICK h \in l.todo :
               thread' = [thread EXCEPT ![t] =
                   IF disk[h] = Absent THEN At("next", l.todo \ {h})
                   ELSE [At("select", l.todo \ {h}) EXCEPT !.file = h, !.hash = disk[h]]]
        BY DEF NextFile
      <4>2. CASE disk[h] = Absent
        BY <1>0, <4>1, <4>2 DEF At
      <4>3. CASE disk[h] # Absent
        BY <1>0, <4>1, <4>3 DEF At
      <4> QED
        BY <4>2, <4>3
    <3>2. CheckAgain(t) => thread'[t].pc \in {"idle", "next", "reselect"}
      BY <1>0, <1>l DEF CheckAgain, Frame
    <3>3. Select(t) \/ Reselect(t) => thread'[t].pc \in {"idle", "next", "check", "read"}
      BY <1>0, <1>l DEF Select, Reselect, Frame
    <3>4. ReadContent(t) \/ Rehash(t) => thread'[t].pc \in {"idle", "next", "rehash", "upsert"}
      BY <1>0, <1>l DEF ReadContent, Rehash, Frame
    <3>5. EndPass(t) => thread'[t].pc \in {"idle", "done"}
      BY <1>0 DEF EndPass, At
    <3> QED
      BY <1>1, <3>1, <3>2, <3>3, <3>4, <3>5
  <2> QED BY <1>0, <1>b, <2>1, <2>2, WriterStops DEF tables
<1>2. CASE Upsert(t)
  <2>1. /\ g \in Files /\ l.content \in Text /\ l.pc = "upsert" /\ chunks' = chunks
        /\ UpsertDocument(g, l.content, l.hash)
    BY <1>0, <1>2 DEF Upsert, LocalsAssigned, InDocument, HasContent, UpsertDocument
  <2>2. documents'[g].content = l.content /\ \A f \in Files \ {g} : documents'[f] = documents[f]
    BY <1>0, <2>1 DEF UpsertDocument, TablesTypeOK
  <2>3. thread'[t].pc = "delete" /\ thread'[t].file = g
    BY <1>0, <1>2 DEF Upsert, Frame
  <2>4. \A f \in Files : WritingIn(thread, f) = "no" /\ WritingIn(thread', f) = IF f = g THEN "clear" ELSE "no"
    BY <1>w, <2>1, <2>3 DEF WritingAs
  <2>5. \A f \in Files : HeldIn(chunks'[f]) = HeldIn(chunks[f])
    BY <2>1
  <2>6. Abstract!Record(g, l.content)
    BY <2>1, <2>2, <2>4, <2>5 DEF Abstract!Record, Abstract!Quiet
  <2>7. \E c \in Text : Abstract!Record(g, c)
    BY <2>1, <2>6 DEF Abstract!Record
  <2> QED BY <2>1, <2>7 DEF Abstract!Rewrite
<1>3. CASE Delete(t)
  <2>1. /\ g \in Files /\ l.content \in Text /\ l.pc = "delete" /\ documents' = documents
        /\ DeleteChunks(g, l.id)
    BY <1>0, <1>3 DEF Delete, LocalsAssigned, InDocument, HasContent, DeleteChunks
  <2>2. Refers(g, l.id)
    BY <1>0, <2>1 DEF SoleDocument, Writing
  <2>3. chunks'[g] = NoChunks /\ \A f \in Files \ {g} : chunks'[f] = chunks[f]
    BY <1>0, <2>1, <2>2 DEF DeleteChunks, TablesTypeOK
  <2>4. HeldIn(chunks'[g]) = [text |-> Absent, n |-> 0]
    BY <2>3, NoneHeld
  <2>5. thread'[t].pc = "embed" /\ thread'[t].file = g
    BY <1>0, <1>3 DEF Delete, Frame
  <2>6. WritingIn(thread, g) = "clear" /\ \A f \in Files \ {g} : WritingIn(thread, f) = "no"
    BY <1>w, <2>1 DEF WritingAs
  <2>7. WritingIn(thread', g) = "fill" /\ \A f \in Files \ {g} : WritingIn(thread', f) = "no"
    BY <1>w, <2>1, <2>5 DEF WritingAs
  <2>8. [f \in Files |-> HeldIn(chunks'[f])] =
            [[f \in Files |-> HeldIn(chunks[f])] EXCEPT ![g] = [text |-> Absent, n |-> 0]]
    BY <2>1, <2>3, <2>4
  <2>9. [f \in Files |-> WritingIn(thread', f)] = [[f \in Files |-> WritingIn(thread, f)] EXCEPT ![g] = "fill"]
    BY <2>1, <2>6, <2>7
  <2>10. Abstract!Clear(g)
    BY <2>1, <2>6, <2>8, <2>9 DEF Abstract!Clear, Abstract!Nothing
  <2> QED BY <2>1, <2>10 DEF Abstract!Rewrite
<1>4. CASE InsertChunk(t)
  <2> DEFINE c == thread[t].content
             i == thread[t].i
  <2>1. /\ g \in Files /\ c \in Text /\ l.pc = "embed" /\ i \in 1..NChunks[c]
        /\ documents' = documents /\ InsertChunkRow(g, l.id, c, i)
    BY <1>0, <1>4 DEF InsertChunk, LocalsAssigned, InDocument, HasContent, InsertChunkRow
  <2>2. /\ i \in Index /\ i \in Nat /\ i > 0 /\ i <= NChunks[c] /\ i - 1 \in Nat
        /\ i - 1 # 0 => i - 1 \in Index
    BY <2>1, ChunksAssumption DEF Index
  <2>3. documents[g].content = c /\ chunks[g] = FirstChunks(c, i - 1)
    BY <1>0, <2>1 DEF SoleDocument, Writing
  <2>4. chunks'[g] = FirstChunks(c, i) /\ \A f \in Files \ {g} : chunks'[f] = chunks[f]
    <3>1. chunks'[g] = [chunks[g] EXCEPT ![c][i] = @ + 1] /\ \A f \in Files \ {g} : chunks'[f] = chunks[f]
      BY <1>0, <2>1 DEF InsertChunkRow, TablesTypeOK
    <3>2. [FirstChunks(c, i - 1) EXCEPT ![c][i] = @ + 1] = FirstChunks(c, i)
      BY <2>1, <2>2, NextChunk
    <3> HIDE DEF c, i
    <3>3. chunks'[g] = [FirstChunks(c, i - 1) EXCEPT ![c][i] = @ + 1]
      BY <2>3, <3>1
    <3> QED BY <3>1, <3>2, <3>3
  <2>5. HeldIn(chunks[g]).n = i - 1
    <3>1. CASE i - 1 = 0
      BY <2>1, <2>3, <3>1, NoChunksIsNone, NoneHeld
    <3>2. CASE i - 1 # 0
      BY <2>1, <2>2, <2>3, <3>2, SomeHeld
    <3> QED BY <3>1, <3>2
  <2>6. HeldIn(chunks'[g]) = [text |-> c, n |-> i]
    BY <2>1, <2>2, <2>4, SomeHeld
  <2>7. \A f \in Files \ {g} : HeldIn(chunks'[f]) = HeldIn(chunks[f])
    BY <2>4
  <2>8. WritingIn(thread, g) = "fill" /\ \A f \in Files \ {g} : WritingIn(thread, f) = "no"
    BY <1>w, <2>1 DEF WritingAs
  <2>9. /\ WritingIn(thread', g) = IF i = NChunks[c] THEN "no" ELSE "fill"
        /\ \A f \in Files \ {g} : WritingIn(thread', f) = "no"
    <3>1. CASE i = NChunks[c]
      <4>1. thread'[t].pc \in {"idle", "next"}
        BY <1>4, <1>l, <3>1 DEF InsertChunk
      <4>2. \A f \in Files : WritingIn(thread', f) = "no"
        BY <1>w, <4>1 DEF WritingAs
      <4> QED BY <2>1, <3>1, <4>2
    <3>2. CASE i # NChunks[c]
      <4>1. thread'[t].pc = "embed" /\ thread'[t].file = g
        BY <1>0, <1>4, <2>1, <3>2 DEF InsertChunk, Frame
      <4> QED BY <1>w, <2>1, <3>2, <4>1 DEF WritingAs
    <3> QED BY <3>1, <3>2
  <2> HIDE DEF c, i
  <2>10. HeldIn(chunks[g]).n + 1 = i
    BY <2>2, <2>5
  <2>11. [f \in Files |-> HeldIn(chunks'[f])] =
            [[f \in Files |-> HeldIn(chunks[f])] EXCEPT ![g] = [text |-> c, n |-> i]]
    BY <2>1, <2>6, <2>7
  <2>12. [f \in Files |-> WritingIn(thread', f)] =
            [[f \in Files |-> WritingIn(thread, f)] EXCEPT ![g] = IF i = NChunks[c] THEN "no" ELSE "fill"]
    BY <2>1, <2>8, <2>9
  <2>13. Abstract!Add(g)
    BY <2>1, <2>2, <2>3, <2>8, <2>10, <2>11, <2>12 DEF Abstract!Add
  <2> QED BY <2>1, <2>13 DEF Abstract!Rewrite
<1>5. CASE InsertRefused(t)
  <2>1. g \in Files /\ Writing(t, g) /\ ~ Refers(g, l.id)
    BY <1>0, <1>5 DEF InsertRefused, LocalsAssigned, InDocument, Writing
  <2> QED
    BY <1>0, <2>1 DEF SoleDocument
<1>6. CASE RetryEmbedding(t)
  <2>1. UNCHANGED tables
    BY <1>6 DEF RetryEmbedding
  <2>2. thread'[t].pc = l.pc /\ thread'[t].file = l.file
    BY <1>0, <1>6 DEF RetryEmbedding, Frame
  <2>3. \A f \in Files : WritingIn(thread', f) = WritingIn(thread, f)
    BY <1>w, <2>2 DEF WritingAs
  <2> QED BY <2>1, <2>3, IndexStays DEF tables
<1>7. CASE EmbeddingFails(t) \/ StatementFails(t)
  <2>1. UNCHANGED tables /\ thread'[t].pc \notin {"delete", "embed"}
    BY <1>7, <1>l DEF EmbeddingFails, StatementFails, Raise
  <2> QED BY <1>0, <1>b, <2>1, WriterStops DEF tables
<1> QED
  BY <1>1, <1>2, <1>3, <1>4, <1>5, <1>6, <1>7 DEF Pass

\* The world stops a writer, or does nothing a reader can see.
LEMMA WorldRewrites ==
    ASSUME Triggers = {}, OneShots = {}, TypeInv, SoleInv,
           DaemonStep \/ Interrupt \/ Fault \/ Edit
    PROVE  [Abstract!Rewrite]_(Abstract!index)
<1>0. /\ thread \in [Threads -> Frame] /\ SoleThreads /\ DaemonInv
      /\ Threads = {Main, Watcher} /\ DaemonThreads = Threads /\ Main # Watcher
      /\ \A t \in Threads : LocalsAssigned(thread[t])
  BY SoleParts, ThreadsAssumption DEF TypeInv, TypeOK, SoleThreads, Threads, DaemonThreads
<1>1. PICK t \in Threads : \A u \in Threads \ {t} : thread[u].pc = "idle"
  <2>1. thread[Main].pc = "idle" \/ thread[Watcher].pc = "idle"
    BY <1>0 DEF SoleThreads, DaemonInv
  <2> QED BY <1>0, <2>1
<1>2. CASE StartDaemon \/ BeginFirstPass \/ StartWatching
  <2>1. /\ UNCHANGED tables /\ thread'[Watcher] = thread[Watcher]
        /\ thread[Main].pc \notin {"delete", "embed"}
        /\ thread'[Main].pc \notin {"delete", "embed"}
        /\ thread[Watcher].pc = "idle"
    BY <1>0, <1>2 DEF StartDaemon, BeginFirstPass, StartWatching, DaemonInv, SoleThreads, At
  <2>2. \A u \in Threads : thread'[u].pc \notin {"delete", "embed"}
    BY <1>0, <2>1
  <2> QED BY <1>0, <1>1, <2>1, <2>2, WriterStops DEF tables
<1>3. CASE Dispatch
  <2>1. /\ UNCHANGED tables /\ thread'[Main] = thread[Main] /\ phase = "watching"
        /\ thread'[Watcher].pc \notin {"delete", "embed"}
    BY <1>0, <1>3 DEF Dispatch, At
  <2>2. thread[Main].pc = "idle"
    BY <1>0, <2>1 DEF DaemonInv
  <2>3. \A u \in Threads : thread'[u].pc \notin {"delete", "embed"}
    BY <1>0, <2>1, <2>2
  <2> QED BY <1>0, <1>1, <2>1, <2>3, WriterStops DEF tables
<1>4. CASE Exit \/ Crash
  <2>1. UNCHANGED tables /\ \A u \in Threads : thread'[u].pc = "idle"
    BY <1>0, <1>4 DEF Exit, Crash, DaemonGone, At
  <2> QED BY <1>0, <1>1, <2>1, WriterStops DEF tables
<1>5. CASE Interrupt \/ Edit \/ \E p \in Processes : LoseConnection(p)
  <2>1. UNCHANGED <<tables, thread>>
    BY <1>5 DEF Interrupt, Edit, Save, Rename, LoseConnection
  <2>2. \A f \in Files : WritingIn(thread', f) = WritingIn(thread, f)
    BY <2>1 DEF WritingIn
  <2> QED BY <2>1, <2>2, IndexStays DEF tables
<1> QED BY <1>2, <1>3, <1>4, <1>5 DEF DaemonStep, Fault

LEMMA IndexStep ==
    ASSUME Triggers = {}, OneShots = {}
    PROVE  TypeInv /\ SoleInv /\ [Next]_vars => [Abstract!Rewrite]_(Abstract!index)
<1> SUFFICES ASSUME TypeInv, SoleInv, [Next]_vars PROVE [Abstract!Rewrite]_(Abstract!index)
  OBVIOUS
<1>1. CASE UNCHANGED vars
  <2>1. \A f \in Files : WritingIn(thread', f) = WritingIn(thread, f)
    BY <1>1 DEF vars, WritingIn
  <2> QED BY <1>1, <2>1, IndexStays DEF vars
<1>2. CASE DaemonStep \/ Interrupt \/ Fault \/ Edit
  BY <1>2, WorldRewrites
<1>3. ASSUME NEW t \in Threads, Pass(t) PROVE [Abstract!Rewrite]_(Abstract!index)
  BY <1>3, PassRewrites
<1> QED BY <1>1, <1>2, <1>3 DEF Next

\* A daemon alone implements DocumentIndex: whatever fails, readers of the tables
\* see documents rewritten one at a time, the row, then the removal, then the
\* chunks of that row's text in order.
THEOREM DaemonImplementsIndex ==
    ASSUME Triggers = {}, OneShots = {}
    PROVE  Spec => ImplementsIndex
<1>1. Init => Abstract!IndexInit
  BY IndexStarts
<1>2. TypeInv /\ SoleInv /\ [Next]_vars => [Abstract!Rewrite]_(Abstract!index)
  BY IndexStep
<1>3. TypeInv /\ SoleInv /\ [Next]_vars => SoleInv'
  BY SoleStep
<1> QED
  BY <1>1, <1>2, <1>3, TypeInit, TypeStep, SoleInit, PTL
     DEF Spec, ImplementsIndex, Abstract!IndexSpec
=============================================================================
