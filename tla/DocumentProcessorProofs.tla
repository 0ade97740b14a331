----------------------- MODULE DocumentProcessorProofs -----------------------
(***************************************************************************)
(* What is proved of DocumentProcessor for every set of files, texts,      *)
(* threads and processes, and every bound on the edits and faults.         *)
(***************************************************************************)
EXTENDS DocumentProcessor, SequenceTheorems, FiniteSetTheorems, TLAPS

\* The program counters at which a thread has a document in hand, and those at
\* which it has read its content.
InDocument == {"select", "check", "reselect", "read", "rehash", "upsert", "delete", "embed"}
HasContent == {"rehash", "upsert", "delete", "embed"}

\* What TypeOK does not say of the locals of a thread: which are assigned where.
LocalsAssigned(l) ==
    /\ l.pc \in InDocument => l.file \in Files
    /\ l.pc \in HasContent => l.content \in Text
    /\ l.pc = "embed" => l.i \in 1..NChunks[l.content]

TypeInv == TypeOK /\ \A t \in Threads : LocalsAssigned(thread[t])

-----------------------------------------------------------------------------

LEMMA AtIsFrame ==
    ASSUME NEW pc \in PC \ InDocument, NEW todo \in SUBSET Files
    PROVE  At(pc, todo) \in Frame /\ LocalsAssigned(At(pc, todo))
  BY DEF At, Frame, Content, LocalsAssigned, InDocument, HasContent

\* Init establishes the type invariant.
LEMMA TypeInit == Init => TypeInv
<1> SUFFICES ASSUME Init PROVE TypeInv
  OBVIOUS
<1> USE DEF Init
<1>1. TablesTypeOK
  BY TextAssumption DEF TablesInit, TablesTypeOK, NoRow, Row, NoChunks
<1>2. thread \in [Threads -> Frame] /\ \A t \in Threads : LocalsAssigned(thread[t])
  BY AtIsFrame DEF PC, InDocument
<1> QED
  BY <1>1, <1>2, BoundsAssumption DEF TypeInv, TypeOK, Processes

\* One thread replaces its frame by a well-formed one, the others keep theirs.
LEMMA FrameStep ==
    ASSUME thread \in [Threads -> Frame], \A u \in Threads : LocalsAssigned(thread[u]),
           NEW t \in Threads, NEW l \in Frame, LocalsAssigned(l),
           thread' = [thread EXCEPT ![t] = l]
    PROVE  thread' \in [Threads -> Frame] /\ \A u \in Threads : LocalsAssigned(thread[u])'
  BY DEF LocalsAssigned

\* The statements keep the tables well formed.
LEMMA TablesStep ==
    ASSUME TablesTypeOK, NEW f \in Files, NEW c \in Text
    PROVE  /\ \A h \in Content : UpsertDocument(f, c, h) =>
                 TablesTypeOK' /\ documents'[f].id \in Nat
           /\ \A id \in Nat : DeleteChunks(f, id) => TablesTypeOK'
           /\ \A id \in Nat, i \in Index : InsertChunkRow(f, id, c, i) => TablesTypeOK'
<1>1. ASSUME NEW h \in Content, UpsertDocument(f, c, h)
      PROVE  TablesTypeOK' /\ documents'[f].id \in Nat
  BY <1>1 DEF UpsertDocument, TablesTypeOK, Row, Content
<1>2. ASSUME NEW id \in Nat, DeleteChunks(f, id) PROVE TablesTypeOK'
  BY <1>2 DEF DeleteChunks, TablesTypeOK, NoChunks
<1>3. ASSUME NEW id \in Nat, NEW i \in Index, InsertChunkRow(f, id, c, i)
      PROVE  TablesTypeOK'
  BY <1>3 DEF InsertChunkRow, TablesTypeOK
<1> QED
  BY <1>1, <1>2, <1>3

LEMMA ClearStep ==
    ASSUME TablesTypeOK
    PROVE  (DeleteAllChunks => TablesTypeOK') /\ (DeleteAllDocuments => TablesTypeOK')
  BY TextAssumption DEF DeleteAllChunks, DeleteAllDocuments, TablesTypeOK, NoRow, Row, NoChunks

\* process_document always returns to a well-formed frame.
LEMMA LeaveStep ==
    ASSUME TypeInv, NEW t \in Threads, Leave(t)
    PROVE  thread' \in [Threads -> Frame] /\ \A u \in Threads : LocalsAssigned(thread[u])'
<1> DEFINE pc == IF t = Watcher THEN "idle" ELSE "next"
<1>1. thread[t].todo \in SUBSET Files
  BY DEF TypeInv, TypeOK, Frame
<1>2. At(pc, thread[t].todo) \in Frame /\ LocalsAssigned(At(pc, thread[t].todo))
  BY <1>1, AtIsFrame DEF PC, InDocument
<1> QED
  BY <1>2, FrameStep DEF TypeInv, TypeOK, Leave

-----------------------------------------------------------------------------

\* The part of the type invariant that no step of a pass changes, and the part
\* it changes.
EnvironmentTypeOK ==
    /\ disk \in [Files -> Content]
    /\ queue \in Seq(Files)
    /\ phase \in {"down", "starting", "watching", "stopping"}
    /\ conn \in [Processes -> BOOLEAN]
    /\ edits \in 0..MaxEdits
    /\ faults \in 0..(MaxFaults + 1)
    /\ missed \subseteq Files
    /\ torn \subseteq Files

ThreadsTypeOK == thread \in [Threads -> Frame] /\ \A u \in Threads : LocalsAssigned(thread[u])

LEMMA TypeParts ==
    /\ TypeInv <=> TablesTypeOK /\ EnvironmentTypeOK /\ ThreadsTypeOK
    /\ TypeInv' <=> TablesTypeOK' /\ EnvironmentTypeOK' /\ ThreadsTypeOK'
  BY DEF TypeInv, TypeOK, EnvironmentTypeOK, ThreadsTypeOK

LEMMA Unchanged ==
    /\ EnvironmentTypeOK /\ UNCHANGED environment => EnvironmentTypeOK'
    /\ TablesTypeOK /\ UNCHANGED tables => TablesTypeOK'
  BY DEF EnvironmentTypeOK, environment, TablesTypeOK, tables, Row, Content

\* A step of process_document, or of the loop around it, keeps TypeInv.
LEMMA PassTyped == ASSUME TypeInv, NEW t \in Threads, Pass(t) PROVE TypeInv'
<1> DEFINE l == thread[t]
<1>0. /\ TablesTypeOK /\ EnvironmentTypeOK /\ ThreadsTypeOK
      /\ l \in Frame /\ LocalsAssigned(l)
  BY TypeParts DEF ThreadsTypeOK
<1>l. Leave(t) => ThreadsTypeOK'
  BY LeaveStep DEF ThreadsTypeOK
<1>f. ASSUME NEW k \in Frame, LocalsAssigned(k), thread' = [thread EXCEPT ![t] = k]
      PROVE  ThreadsTypeOK'
  BY <1>0, <1>f, FrameStep DEF ThreadsTypeOK
<1>d. \A f \in Files : disk[f] \in Content
  BY <1>0 DEF EnvironmentTypeOK
<1>1. CASE NextFile(t)
  <2> PICK f \in l.todo :
        thread' = [thread EXCEPT ![t] =
                IF disk[f] = Absent THEN At("next", l.todo \ {f})
                ELSE [At("select", l.todo \ {f}) EXCEPT !.file = f, !.hash = disk[f]]]
    BY <1>1 DEF NextFile
  <2>1. f \in Files /\ l.todo \ {f} \in SUBSET Files
    BY <1>0 DEF Frame
  <2>2. At("next", l.todo \ {f}) \in Frame /\ LocalsAssigned(At("next", l.todo \ {f}))
    BY <2>1, AtIsFrame DEF PC, InDocument
  <2>3. [At("select", l.todo \ {f}) EXCEPT !.file = f, !.hash = disk[f]] \in Frame
    BY <2>1, <1>d DEF At, Frame, PC, Content
  <2>4. LocalsAssigned([At("select", l.todo \ {f}) EXCEPT !.file = f, !.hash = disk[f]])
    BY <2>1 DEF At, LocalsAssigned, HasContent
  <2>5. ThreadsTypeOK'
    BY <2>2, <2>3, <2>4, <1>f
  <2> QED
    BY <1>0, <1>1, <2>5, TypeParts, Unchanged DEF NextFile
<1>2. CASE Select(t)
  <2>1. [l EXCEPT !.pc = "check"] \in Frame /\ (l.pc = "select" => LocalsAssigned([l EXCEPT !.pc = "check"]))
    BY <1>0 DEF Frame, PC, LocalsAssigned, InDocument, HasContent
  <2>2. ThreadsTypeOK'
    BY <1>2, <1>l, <1>f, <2>1 DEF Select
  <2> QED
    BY <1>0, <1>2, <2>2, TypeParts, Unchanged DEF Select
<1>3. CASE CheckAgain(t)
  <2>1. ASSUME l.pc = "check"
        PROVE  LET k == [l EXCEPT !.pc = "reselect", !.hash = disk[l.file]]
               IN  k \in Frame /\ LocalsAssigned(k)
    BY <1>0, <1>d, <2>1 DEF Frame, PC, LocalsAssigned, InDocument, HasContent
  <2>2. ThreadsTypeOK'
    BY <1>3, <1>l, <1>f, <2>1 DEF CheckAgain
  <2> QED
    BY <1>0, <1>3, <2>2, TypeParts, Unchanged DEF CheckAgain
<1>4. CASE Reselect(t)
  <2>1. ASSUME l.pc = "reselect"
        PROVE  LET k == [l EXCEPT !.pc = "read"] IN k \in Frame /\ LocalsAssigned(k)
    BY <1>0, <2>1 DEF Frame, PC, LocalsAssigned, InDocument, HasContent
  <2>2. ThreadsTypeOK'
    BY <1>4, <1>l, <1>f, <2>1 DEF Reselect
  <2> QED
    BY <1>0, <1>4, <2>2, TypeParts, Unchanged DEF Reselect
<1>5. CASE ReadContent(t)
  <2>1. ASSUME l.pc = "read", disk[l.file] \in Text
        PROVE  LET k == [l EXCEPT !.pc = "rehash", !.content = disk[l.file]]
               IN  k \in Frame /\ LocalsAssigned(k)
    BY <1>0, <2>1 DEF Frame, PC, LocalsAssigned, InDocument, HasContent
  <2>2. ThreadsTypeOK'
    BY <1>5, <1>l, <1>f, <2>1 DEF ReadContent
  <2> QED
    BY <1>0, <1>5, <2>2, TypeParts, Unchanged DEF ReadContent
<1>6. CASE Rehash(t)
  <2>1. ASSUME l.pc = "rehash"
        PROVE  LET k == [l EXCEPT !.pc = "upsert", !.hash = disk[l.file]]
               IN  k \in Frame /\ LocalsAssigned(k)
    BY <1>0, <1>d, <2>1 DEF Frame, PC, LocalsAssigned, InDocument, HasContent
  <2>2. ThreadsTypeOK'
    BY <1>6, <1>l, <1>f, <2>1 DEF Rehash
  <2> QED
    BY <1>0, <1>6, <2>2, TypeParts, Unchanged DEF Rehash
<1>7. CASE Upsert(t)
  <2>1. l.file \in Files /\ l.content \in Text /\ l.hash \in Content
    BY <1>0, <1>7 DEF Upsert, LocalsAssigned, InDocument, HasContent, Frame
  <2>2. TablesTypeOK' /\ documents'[l.file].id \in Nat
    BY <1>0, <1>7, <2>1, TablesStep DEF Upsert
  <2>3. LET k == [l EXCEPT !.pc = "delete", !.id = documents'[l.file].id]
        IN  k \in Frame /\ LocalsAssigned(k)
    BY <1>0, <2>1, <2>2 DEF Frame, PC, LocalsAssigned
  <2>4. ThreadsTypeOK'
    BY <1>7, <1>f, <2>3 DEF Upsert
  <2> QED
    BY <1>0, <1>7, <2>2, <2>4, TypeParts DEF Upsert, EnvironmentTypeOK, Content
<1>8. CASE Delete(t)
  <2>1. l.file \in Files /\ l.content \in Text /\ l.id \in Nat
    BY <1>0, <1>8 DEF Delete, LocalsAssigned, InDocument, HasContent, Frame
  <2>2. TablesTypeOK'
    BY <1>0, <1>8, <2>1, TablesStep DEF Delete
  <2>3. 1 \in 1..NChunks[l.content]
    BY <2>1, ChunksAssumption
  <2>4. LET k == [l EXCEPT !.pc = "embed", !.i = 1, !.attempt = 1]
        IN  k \in Frame /\ LocalsAssigned(k)
    BY <1>0, <2>1, <2>3 DEF Frame, PC, LocalsAssigned
  <2>5. ThreadsTypeOK'
    BY <1>8, <1>f, <2>4 DEF Delete
  <2> QED
    BY <1>0, <1>8, <2>2, <2>5, TypeParts, Unchanged DEF Delete
<1>9. CASE InsertChunk(t)
  <2>1. l.file \in Files /\ l.content \in Text /\ l.id \in Nat /\ l.i \in 1..NChunks[l.content]
    BY <1>0, <1>9 DEF InsertChunk, LocalsAssigned, InDocument, HasContent, Frame
  <2>2. NChunks[l.content] \in 1..MaxChunks /\ l.i \in Index
    BY <2>1, ChunksAssumption DEF Index
  <2>3. TablesTypeOK'
    BY <1>0, <1>9, <2>1, <2>2, TablesStep DEF InsertChunk
  <2>3a. l.i # NChunks[l.content] => l.i + 1 \in 1..NChunks[l.content] /\ l.i + 1 \in Nat
    BY <2>1, <2>2, ChunksAssumption
  <2>4. ASSUME l.i # NChunks[l.content]
        PROVE  LET k == [l EXCEPT !.i = l.i + 1, !.attempt = 1]
               IN  k \in Frame /\ LocalsAssigned(k)
    BY <1>0, <2>3a, <2>4 DEF Frame, LocalsAssigned
  <2>5. ThreadsTypeOK'
    BY <1>9, <1>l, <1>f, <2>4 DEF InsertChunk
  <2> QED
    BY <1>0, <1>9, <2>3, <2>5, TypeParts, Unchanged DEF InsertChunk
<1>10. CASE InsertRefused(t)
  BY <1>0, <1>10, <1>l, TypeParts, Unchanged DEF InsertRefused, Raise
<1>11. CASE RetryEmbedding(t)
  <2>1. LET k == [l EXCEPT !.attempt = @ + 1] IN k \in Frame /\ LocalsAssigned(k)
    BY <1>0 DEF Frame, LocalsAssigned
  <2>2. ThreadsTypeOK'
    BY <1>11, <1>f, <2>1 DEF RetryEmbedding
  <2> QED
    BY <1>0, <1>11, <2>2, TypeParts, Unchanged DEF RetryEmbedding
<1>12. CASE EmbeddingFails(t)
  <2>1. EnvironmentTypeOK'
    BY <1>0, <1>12, BoundsAssumption DEF EmbeddingFails, EnvironmentTypeOK, Content
  <2> QED
    BY <1>0, <1>12, <1>l, <2>1, TypeParts, Unchanged DEF EmbeddingFails
<1>13. CASE StatementFails(t)
  BY <1>0, <1>13, <1>l, TypeParts, Unchanged DEF StatementFails, Raise
<1>14. CASE EndPass(t)
  <2>1. \A pc \in {"done", "idle"} : At(pc, {}) \in Frame /\ LocalsAssigned(At(pc, {}))
    BY AtIsFrame DEF PC, InDocument
  <2>2. ThreadsTypeOK'
    BY <1>14, <1>f, <2>1 DEF EndPass
  <2> QED
    BY <1>0, <1>14, <2>2, TypeParts, Unchanged DEF EndPass
<1> QED
  BY <1>1, <1>2, <1>3, <1>4, <1>5, <1>6, <1>7, <1>8, <1>9, <1>10, <1>11, <1>12, <1>13, <1>14
     DEF Pass

\* A step of the daemon's life cycle, or of --mode process, keeps TypeInv.
LEMMA ProcessTyped ==
    ASSUME TypeInv,
           DaemonStep \/ Interrupt \/ (\E t \in OneShots : OneShot(t))
             \/ (\E t \in Triggers : TriggerProcessing(t))
    PROVE  TypeInv'
<1>0. TablesTypeOK /\ EnvironmentTypeOK /\ ThreadsTypeOK
  BY TypeParts
<1>a. \A pc \in {"idle", "wait", "clearChunks", "next", "done"}, S \in SUBSET Files :
        At(pc, S) \in Frame /\ LocalsAssigned(At(pc, S))
  BY AtIsFrame DEF PC, InDocument
<1>b. Listing \in SUBSET Files
  BY DEF Listing
<1>c. Main \in Threads /\ Watcher \in Threads /\ OneShots \subseteq Threads
        /\ Triggers \subseteq Threads /\ Daemon \in Processes
  BY DEF Threads, DaemonThreads, Processes
<1>f. ASSUME NEW t \in Threads, NEW k \in Frame, LocalsAssigned(k),
             thread' = [thread EXCEPT ![t] = k]
      PROVE  ThreadsTypeOK'
  BY <1>0, <1>f, FrameStep DEF ThreadsTypeOK
<1>g. DaemonGone => ThreadsTypeOK'
  <2>1. SUFFICES ASSUME DaemonGone PROVE ThreadsTypeOK'
    OBVIOUS
  <2> QED
    BY <1>0, <1>a, <2>1 DEF DaemonGone, ThreadsTypeOK, LocalsAssigned
<1>1. CASE StartDaemon
  <2>1. ThreadsTypeOK'
    BY <1>1, <1>a, <1>c, <1>f DEF StartDaemon
  <2>2. EnvironmentTypeOK'
    BY <1>0, <1>1, <1>c DEF StartDaemon, EnvironmentTypeOK, Content
  <2> QED
    BY <1>0, <1>1, <2>1, <2>2, TypeParts, Unchanged DEF StartDaemon
<1>2. CASE BeginFirstPass
  <2>1. ThreadsTypeOK'
    BY <1>2, <1>a, <1>b, <1>c, <1>f DEF BeginFirstPass
  <2>2. EnvironmentTypeOK'
    BY <1>0, <1>2 DEF BeginFirstPass, EnvironmentTypeOK, Content
  <2> QED
    BY <1>0, <1>2, <2>1, <2>2, TypeParts, Unchanged DEF BeginFirstPass
<1>3. CASE StartWatching
  <2>1. ThreadsTypeOK'
    BY <1>3, <1>a, <1>c, <1>f DEF StartWatching
  <2>2. EnvironmentTypeOK'
    BY <1>0, <1>3 DEF StartWatching, EnvironmentTypeOK, Content
  <2> QED
    BY <1>0, <1>3, <2>1, <2>2, TypeParts, Unchanged DEF StartWatching
<1>4. CASE Dispatch
  <2> DEFINE k == [At("check", {}) EXCEPT !.file = Head(queue)]
  <2>1. Head(queue) \in Files /\ Tail(queue) \in Seq(Files)
    BY <1>0, <1>4 DEF Dispatch, EnvironmentTypeOK
  <2>2. k \in Frame /\ LocalsAssigned(k)
    BY <2>1 DEF At, Frame, PC, Content, LocalsAssigned, HasContent
  <2>3. ThreadsTypeOK'
    BY <1>4, <1>c, <1>f, <2>2 DEF Dispatch
  <2>4. EnvironmentTypeOK'
    BY <1>0, <1>4, <2>1 DEF Dispatch, EnvironmentTypeOK, Content
  <2> QED
    BY <1>0, <1>4, <2>3, <2>4, TypeParts, Unchanged DEF Dispatch
<1>5. CASE Exit
  <2>1. EnvironmentTypeOK'
    BY <1>0, <1>5, <1>c, BoundsAssumption DEF Exit, DaemonGone, EnvironmentTypeOK, Content
  <2> QED
    BY <1>0, <1>5, <1>g, <2>1, TypeParts, Unchanged DEF Exit
<1>6. CASE Interrupt
  <2>1. EnvironmentTypeOK'
    BY <1>0, <1>6 DEF Interrupt, EnvironmentTypeOK, Content
  <2>2. ThreadsTypeOK'
    BY <1>0, <1>6 DEF Interrupt, ThreadsTypeOK, LocalsAssigned
  <2> QED
    BY <1>0, <1>6, <2>1, <2>2, TypeParts, Unchanged DEF Interrupt
<1>7. ASSUME NEW t \in OneShots, OneShot(t) PROVE TypeInv'
  <2>0. t \in Threads /\ thread[t] \in Frame /\ LocalsAssigned(thread[t])
    BY <1>0, <1>c DEF ThreadsTypeOK
  <2>1. CASE BeginOneShot(t)
    <3>1. ThreadsTypeOK'
      BY <2>0, <2>1, <1>a, <1>b, <1>f DEF BeginOneShot
    <3> QED
      BY <1>0, <2>1, <3>1, TypeParts, Unchanged DEF BeginOneShot
  <2>2. CASE GiveUp(t)
    <3>1. ThreadsTypeOK'
      BY <2>0, <2>2, <1>a, <1>f DEF GiveUp
    <3> QED
      BY <1>0, <2>2, <3>1, TypeParts, Unchanged DEF GiveUp
  <2>3. CASE ClearChunks(t)
    <3>1. LET k == [thread[t] EXCEPT !.pc = "clearDocuments"] IN k \in Frame /\ LocalsAssigned(k)
      BY <2>0 DEF Frame, PC, LocalsAssigned, InDocument, HasContent
    <3>2. ThreadsTypeOK'
      BY <2>0, <2>3, <3>1, <1>a, <1>f DEF ClearChunks
    <3> QED
      BY <1>0, <2>3, <3>2, TypeParts, Unchanged, ClearStep DEF ClearChunks
  <2>4. CASE ClearDocuments(t)
    <3>1. ThreadsTypeOK'
      BY <2>0, <2>4, <1>a, <1>b, <1>f DEF ClearDocuments
    <3> QED
      BY <1>0, <2>4, <3>1, TypeParts, Unchanged, ClearStep DEF ClearDocuments
  <2> QED
    BY <1>7, <2>1, <2>2, <2>3, <2>4 DEF OneShot
<1>8. ASSUME NEW t \in Triggers, TriggerProcessing(t) PROVE TypeInv'
  <2>1. ThreadsTypeOK'
    BY <1>8, <1>a, <1>b, <1>c, <1>f DEF TriggerProcessing
  <2> QED
    BY <1>0, <1>8, <2>1, TypeParts, Unchanged DEF TriggerProcessing
<1> QED
  BY <1>1, <1>2, <1>3, <1>4, <1>5, <1>6, <1>7, <1>8 DEF DaemonStep

\* So does a fault, and an edit.
LEMMA WorldTyped == ASSUME TypeInv, Fault \/ Edit PROVE TypeInv'
<1>0. TablesTypeOK /\ EnvironmentTypeOK /\ ThreadsTypeOK
  BY TypeParts
<1>a. \A pc \in {"idle", "done"} : At(pc, {}) \in Frame /\ LocalsAssigned(At(pc, {}))
  BY AtIsFrame DEF PC, InDocument
<1>t. UNCHANGED thread => ThreadsTypeOK'
  BY <1>0 DEF ThreadsTypeOK, LocalsAssigned
<1>n. \A f \in Files : Torn(f) \subseteq Files
  BY <1>0 DEF Torn, EnvironmentTypeOK
<1>1. CASE Crash
  <2>1. EnvironmentTypeOK'
    BY <1>0, <1>1, BoundsAssumption DEF Crash, DaemonGone, EnvironmentTypeOK, Content, Processes
  <2>2. ThreadsTypeOK'
    BY <1>0, <1>a, <1>1 DEF Crash, DaemonGone, ThreadsTypeOK, LocalsAssigned
  <2> QED
    BY <1>0, <1>1, <2>1, <2>2, TypeParts, Unchanged DEF Crash
<1>2. ASSUME NEW t \in OneShots, CrashOneShot(t) PROVE TypeInv'
  <2>1. EnvironmentTypeOK'
    BY <1>0, <1>2, BoundsAssumption DEF CrashOneShot, EnvironmentTypeOK, Content
  <2>2. ThreadsTypeOK'
    BY <1>0, <1>a, <1>2, FrameStep DEF CrashOneShot, ThreadsTypeOK, Threads
  <2> QED
    BY <1>0, <1>2, <2>1, <2>2, TypeParts, Unchanged DEF CrashOneShot
<1>3. ASSUME NEW p \in Processes, LoseConnection(p) PROVE TypeInv'
  <2>1. EnvironmentTypeOK'
    BY <1>0, <1>3, BoundsAssumption DEF LoseConnection, EnvironmentTypeOK, Content
  <2> QED
    BY <1>0, <1>3, <1>t, <2>1, TypeParts, Unchanged DEF LoseConnection
<1>4. ASSUME NEW f \in Files, NEW c \in Content, Save(f, c) PROVE TypeInv'
  <2>1. Append(queue, f) \in Seq(Files)
    BY <1>0 DEF EnvironmentTypeOK
  <2>2. /\ disk' \in [Files -> Content] /\ queue' \in Seq(Files)
        /\ missed' \subseteq Files /\ torn' \subseteq Files
    BY <1>0, <1>n, <1>4, <2>1 DEF Save, EnvironmentTypeOK
  <2>3. EnvironmentTypeOK'
    BY <1>0, <1>4, <2>2, BoundsAssumption DEF Save, EnvironmentTypeOK
  <2> QED
    BY <1>0, <1>4, <1>t, <2>3, TypeParts, Unchanged DEF Save
<1>5. ASSUME NEW f \in Files, NEW c \in Content, Rename(f, c) PROVE TypeInv'
  <2>1. EnvironmentTypeOK'
    BY <1>0, <1>n, <1>5, BoundsAssumption DEF Rename, EnvironmentTypeOK, Content
  <2> QED
    BY <1>0, <1>5, <1>t, <2>1, TypeParts, Unchanged DEF Rename
<1> QED
  BY <1>1, <1>2, <1>3, <1>4, <1>5 DEF Fault, Edit

\* Every step keeps the type invariant.
LEMMA TypeStep == TypeInv /\ [Next]_vars => TypeInv'
<1> SUFFICES ASSUME TypeInv, [Next]_vars PROVE TypeInv'
  OBVIOUS
<1>1. CASE Next
  BY <1>1, PassTyped, ProcessTyped, WorldTyped DEF Next
<1>2. CASE UNCHANGED vars
  BY <1>2 DEF vars, TypeInv, TypeOK, TablesTypeOK, LocalsAssigned
<1> QED
  BY <1>1, <1>2

\* The tables, the files and the locals of every thread keep their types,
\* whatever the threads do and whatever fails.
THEOREM TypeCorrect == Spec => []TypeOK
<1>1. TypeInv => TypeOK
  BY DEF TypeInv
<1> QED
  BY <1>1, TypeInit, TypeStep, PTL DEF Spec

-----------------------------------------------------------------------------

\* What stands in for the text of f in the rows that SomeVersionComplete speaks of.
Kept(f) ==
    \/ ~ Indexed(f)
    \/ \E t \in Threads : AtWork(t, f) \/ thread[t].pc = "clearDocuments"
    \/ \E c \in Text : Complete(f, c)

LEMMA WorkInit == Init => WorkInv
<1> SUFFICES ASSUME Init PROVE WorkInv
  OBVIOUS
<1>1. \A f \in Files : ~ Indexed(f)
  BY DEF Init, TablesInit, NoRow, Indexed
<1>2. \A t \in DaemonThreads : thread[t].pc = "idle"
  BY ThreadsAssumption DEF Init, At, Threads, DaemonThreads
<1>3. Main \in DaemonThreads /\ phase = "down" /\ \A p \in OneShots : conn[p]
  BY ThreadsAssumption DEF Init, DaemonThreads, Processes
<1> QED
  BY <1>1, <1>2, <1>3 DEF WorkInv, DaemonInv

\* A step that leaves the tables alone, and moves only threads that are not in
\* the middle of a document, keeps every document as it was.
LEMMA KeptStep ==
    ASSUME NEW f \in Files, Kept(f), UNCHANGED tables,
           \A u \in Threads :
             \/ thread'[u] = thread[u]
             \/ thread[u].pc \notin {"delete", "embed", "clearDocuments"}
    PROVE  Kept(f)'
  BY DEF Kept, AtWork, Writing, Indexed, Complete, tables

\* No step of a pass starts or ends a thread of the daemon by itself.
LEMMA PassDaemonInv ==
    ASSUME TypeInv, DaemonInv, NEW t \in Threads, Pass(t)
    PROVE  DaemonInv'
<1>1. thread[t].pc \notin {"idle", "done", "wait"} /\ UNCHANGED <<phase, conn>>
  BY DEF Pass, NextFile, Select, CheckAgain, Reselect, ReadContent, Rehash, Upsert, Delete,
         InsertChunk, InsertRefused, RetryEmbedding, EmbeddingFails, StatementFails, EndPass,
         Raise, environment
<1>2. \A u \in Threads \ {t} : thread'[u] = thread[u]
  BY DEF Pass, NextFile, Select, CheckAgain, Reselect, ReadContent, Rehash, Upsert, Delete,
         InsertChunk, InsertRefused, RetryEmbedding, EmbeddingFails, StatementFails, EndPass,
         Raise, Leave, TypeInv, TypeOK
<1>n. faults \in Nat
  BY BoundsAssumption DEF TypeInv, TypeOK
<1>e. EmbeddingFails(t) => faults' # 0
  BY <1>n DEF EmbeddingFails
<1>3. faults' = faults \/ faults' # 0
  BY <1>e DEF Pass, NextFile, Select, CheckAgain, Reselect, ReadContent, Rehash, Upsert, Delete,
         InsertChunk, InsertRefused, RetryEmbedding, StatementFails, EndPass, Raise, environment
<1>4. phase' # "starting" => thread'[Main].pc = "idle"
  BY <1>1, <1>2 DEF DaemonInv, DaemonThreads, Threads
<1>5. phase' = "down" => \A u \in DaemonThreads : thread'[u].pc = "idle"
  BY <1>1, <1>2 DEF DaemonInv, Threads
<1>6. faults' = 0 => (phase' = "down" \/ conn'[Daemon]) /\ \A p \in OneShots : conn'[p]
  BY <1>1, <1>3 DEF DaemonInv
<1> QED
  BY <1>4, <1>5, <1>6 DEF DaemonInv

\* While nothing has failed, a thread at work has its connection.
LEMMA WorkConnected ==
    ASSUME DaemonInv, faults = 0, NEW t \in Threads, thread[t].pc # "idle"
    PROVE  Connected(t)
  BY DEF DaemonInv, Connected, ProcessOf, Threads

\* The chunk of t, or of another thread, is one more row: no count goes down.
LEMMA InsertKept ==
    ASSUME TypeInv, NEW t \in Threads, InsertChunk(t), NEW f \in Files, Kept(f)
    PROVE  Kept(f)'
<1> DEFINE l == thread[t]
<1>0. /\ TablesTypeOK
      /\ l.file \in Files /\ l.content \in Text /\ l.i \in 1..NChunks[l.content]
  BY DEF InsertChunk, TypeInv, TypeOK, LocalsAssigned, InDocument, HasContent
<1>1. l.i \in Index /\ l.i \in Nat /\ \A c \in Text : 1..NChunks[c] \subseteq Index
  BY <1>0, ChunksAssumption DEF Index
<1>2. /\ \A c \in Text, i \in Index : chunks'[f][c][i] >= chunks[f][c][i]
      /\ chunks[f] \in [Text -> [Index -> Nat]]
      /\ chunks'[f] \in [Text -> [Index -> Nat]]
      /\ f = l.file => chunks'[f][l.content][l.i] >= 1
  <2>1. /\ chunks \in [Files -> [Text -> [Index -> Nat]]]
        /\ chunks' = [chunks EXCEPT ![l.file][l.content][l.i] = @ + 1]
    BY <1>0 DEF InsertChunk, InsertChunkRow, TablesTypeOK
  <2>2. \A c \in Text, i \in Index :
          /\ chunks[f][c][i] \in Nat
          /\ chunks'[f][c][i] = IF f = l.file /\ c = l.content /\ i = l.i
                                THEN chunks[f][c][i] + 1 ELSE chunks[f][c][i]
    BY <1>0, <1>1, <2>1
  <2>3. chunks' \in [Files -> [Text -> [Index -> Nat]]]
    BY <1>0, <1>1, <2>1
  <2>4. \A c \in Text, i \in Index : chunks'[f][c][i] >= chunks[f][c][i]
    BY <2>2
  <2>5. f = l.file => chunks'[f][l.content][l.i] >= 1
    BY <1>0, <1>1, <2>2
  <2> QED
    BY <2>1, <2>3, <2>4, <2>5
<1>3. \A c \in Text : Complete(f, c) => Complete(f, c)'
  BY <1>1, <1>2 DEF Complete
<1>4. documents' = documents /\ \A u \in Threads \ {t} : thread'[u] = thread[u]
  BY DEF InsertChunk, InsertChunkRow, Leave, TypeInv, TypeOK
<1>5. ASSUME NEW u \in Threads \ {t}, AtWork(u, f) PROVE AtWork(u, f)'
  <2>1. thread[u].content \in Text /\ (thread[u].pc = "embed" => thread[u].i \in 1..NChunks[thread[u].content])
    BY <1>5 DEF AtWork, Writing, TypeInv, LocalsAssigned, HasContent
  <2>2. thread[u].pc = "embed" =>
          \A j \in 1..(thread[u].i - 1) : j \in Index /\ chunks'[f][thread[u].content][j] >= 1
    <3> SUFFICES ASSUME thread[u].pc = "embed", NEW j \in 1..(thread[u].i - 1)
                 PROVE  j \in Index /\ chunks'[f][thread[u].content][j] >= 1
      OBVIOUS
    <3>1. chunks[f][thread[u].content][j] >= 1
      BY <1>5 DEF AtWork
    <3>2. NChunks[thread[u].content] \in Nat
      BY <2>1, ChunksAssumption
    <3>3. j \in Index
      BY <1>1, <2>1, <3>2
    <3> QED
      BY <1>2, <2>1, <3>1, <3>3
  <2> QED
    BY <1>4, <1>5, <2>2 DEF AtWork, Writing
<1>6. ASSUME AtWork(t, f) PROVE Kept(f)'
  <2>1. l.file = f /\ l.pc = "embed" /\ l.id = documents[f].id
    BY <1>6 DEF AtWork, Writing, InsertChunk
  <2>2. \A j \in 1..l.i : j \in Index /\ chunks'[f][l.content][j] >= 1
    <3> SUFFICES ASSUME NEW j \in 1..l.i
                 PROVE  j \in Index /\ chunks'[f][l.content][j] >= 1
      OBVIOUS
    <3>1. NChunks[l.content] \in Nat
      BY <1>0, ChunksAssumption
    <3>2. j \in Index
      BY <1>0, <1>1, <3>1
    <3>3. CASE j = l.i
      BY <1>2, <2>1, <3>2, <3>3
    <3>4. CASE j # l.i
      <4>1. j \in 1..(l.i - 1)
        BY <1>1, <3>4
      <4>2. chunks[f][l.content][j] >= 1
        BY <1>6, <2>1, <4>1 DEF AtWork
      <4> QED
        BY <1>0, <1>2, <3>2, <4>2
    <3> QED
      BY <3>3, <3>4
  <2>3. CASE l.i = NChunks[l.content]
    BY <1>0, <2>2, <2>3 DEF Kept, Complete
  <2>4. CASE l.i # NChunks[l.content]
    <3>1. /\ thread'[t].pc = "embed" /\ thread'[t].file = f /\ thread'[t].id = l.id
          /\ thread'[t].content = l.content /\ thread'[t].i = l.i + 1
      BY <2>1, <2>4 DEF InsertChunk, TypeInv, TypeOK, Frame
    <3>2. 1..(thread'[t].i - 1) = 1..l.i
      BY <1>1, <3>1
    <3>3. AtWork(t, f)'
      BY <1>4, <2>1, <2>2, <3>1, <3>2 DEF AtWork, Writing
    <3> QED
      BY <3>3 DEF Kept
  <2> QED
    BY <2>3, <2>4
<1>7. ASSUME NEW u \in Threads, thread[u].pc = "clearDocuments" PROVE Kept(f)'
  <2>1. u # t
    BY <1>7 DEF InsertChunk
  <2> QED
    BY <1>4, <1>7, <2>1 DEF Kept
<1> QED
  BY <1>3, <1>4, <1>5, <1>6, <1>7 DEF Kept, Indexed

\* Whatever a thread does in a pass, a document keeps all the chunks of some
\* text, or a thread that will give it all the chunks of one.
LEMMA PassKept ==
    ASSUME TypeInv, DaemonInv, NEW t \in Threads, Pass(t), faults = 0, faults' = 0,
           NEW f \in Files, Kept(f)
    PROVE  Kept(f)'
<1> DEFINE l == thread[t]
<1>0. thread \in [Threads -> Frame] /\ TablesTypeOK /\ LocalsAssigned(l)
  BY DEF TypeInv, TypeOK
<1>1. CASE NextFile(t) \/ Select(t) \/ CheckAgain(t) \/ Reselect(t) \/ ReadContent(t)
           \/ Rehash(t) \/ EndPass(t)
  <2>1. l.pc \notin {"delete", "embed", "clearDocuments"} /\ UNCHANGED tables
    BY <1>1 DEF NextFile, Select, CheckAgain, Reselect, ReadContent, Rehash, EndPass
  <2>2. \A u \in Threads \ {t} : thread'[u] = thread[u]
    BY <1>0, <1>1 DEF NextFile, Select, CheckAgain, Reselect, ReadContent, Rehash, EndPass, Leave
  <2> QED
    BY <2>1, <2>2, KeptStep
<1>2. CASE Upsert(t)
  <2>1. l.file \in Files
    BY <1>0, <1>2 DEF Upsert, LocalsAssigned, InDocument
  <2>2. \A u \in Threads \ {t} : thread'[u] = thread[u]
    BY <1>0, <1>2 DEF Upsert
  <2>3. CASE f = l.file
    <3>1. thread'[t].pc = "delete" /\ thread'[t].file = f /\ thread'[t].id = documents'[f].id
      BY <1>0, <1>2, <2>3 DEF Upsert, Frame
    <3> QED
      BY <3>1 DEF Kept, AtWork, Writing
  <2>4. CASE f # l.file
    <3>1. documents'[f] = documents[f] /\ chunks' = chunks
      BY <1>0, <1>2, <2>4 DEF Upsert, UpsertDocument, TablesTypeOK
    <3>2. l.pc = "upsert"
      BY <1>2 DEF Upsert
    <3> QED
      BY <2>2, <3>1, <3>2 DEF Kept, AtWork, Writing, Indexed, Complete
  <2> QED
    BY <2>3, <2>4
<1>3. CASE Delete(t)
  <2>1. l.pc = "delete" /\ documents' = documents
    BY <1>3 DEF Delete, DeleteChunks
  <2>2. \A u \in Threads \ {t} : thread'[u] = thread[u]
    BY <1>0, <1>3 DEF Delete
  <2>3. CASE f = l.file /\ Refers(f, l.id)
    <3>1. /\ thread'[t].pc = "embed" /\ thread'[t].file = f /\ thread'[t].id = l.id
          /\ thread'[t].i = 1
      BY <1>0, <1>3, <2>3 DEF Delete, Frame
    <3>2. AtWork(t, f)'
      BY <2>1, <2>3, <3>1 DEF AtWork, Writing, Refers
    <3> QED
      BY <3>2 DEF Kept
  <2>4. CASE ~ (f = l.file /\ Refers(f, l.id))
    <3>1. chunks'[f] = chunks[f]
      BY <1>0, <1>3, <2>4 DEF Delete, DeleteChunks, TablesTypeOK
    <3>2. ~ Indexed(f) \/ ~ AtWork(t, f)
      BY <2>4 DEF AtWork, Writing, Refers
    <3> QED
      BY <2>1, <2>2, <3>1, <3>2 DEF Kept, AtWork, Writing, Indexed, Complete
  <2> QED
    BY <2>3, <2>4
<1>4. CASE InsertChunk(t)
  BY <1>4, InsertKept
<1>5. CASE InsertRefused(t)
  <2>1. l.pc = "embed" /\ ~ Refers(l.file, l.id) /\ UNCHANGED tables
    BY <1>5 DEF InsertRefused, Raise
  <2>2. \A u \in Threads \ {t} : thread'[u] = thread[u]
    BY <1>0, <1>5 DEF InsertRefused, Raise, Leave
  <2>3. ~ Indexed(f) \/ ~ AtWork(t, f)
    BY <2>1 DEF AtWork, Writing, Refers
  <2> QED
    BY <2>1, <2>2, <2>3 DEF Kept, AtWork, Writing, Indexed, Complete, tables
<1>6. CASE RetryEmbedding(t)
  <2>1. UNCHANGED tables /\ \A u \in Threads \ {t} : thread'[u] = thread[u]
    BY <1>0, <1>6 DEF RetryEmbedding
  <2>2. /\ thread'[t].pc = l.pc /\ thread'[t].file = l.file /\ thread'[t].id = l.id
        /\ thread'[t].content = l.content /\ thread'[t].i = l.i
    BY <1>0, <1>6 DEF RetryEmbedding, Frame
  <2>3. \A u \in Threads :
          /\ thread'[u].pc = thread[u].pc /\ thread'[u].file = thread[u].file
          /\ thread'[u].id = thread[u].id /\ thread'[u].content = thread[u].content
          /\ thread'[u].i = thread[u].i
    BY <2>1, <2>2
  <2> QED
    BY <2>1, <2>3 DEF Kept, AtWork, Writing, Indexed, Complete, tables
<1>7. CASE EmbeddingFails(t)
  BY <1>7, BoundsAssumption DEF EmbeddingFails
<1>8. CASE StatementFails(t)
  BY <1>8, WorkConnected DEF StatementFails
<1> QED
  BY <1>1, <1>2, <1>3, <1>4, <1>5, <1>6, <1>7, <1>8 DEF Pass

\* So does --force: its first statement leaves the second to run, and that one
\* leaves no document.
LEMMA OneShotKept ==
    ASSUME TypeInv, DaemonInv, NEW t \in OneShots, OneShot(t)
    PROVE  DaemonInv' /\ \A f \in Files : faults = 0 /\ Kept(f) => Kept(f)'
<1>0. t \in Threads /\ t \notin DaemonThreads /\ Main \in DaemonThreads
  BY ThreadsAssumption DEF Threads, DaemonThreads
<1>1. UNCHANGED <<phase, conn, faults>> /\ \A u \in Threads \ {t} : thread'[u] = thread[u]
  BY DEF OneShot, BeginOneShot, GiveUp, ClearChunks, ClearDocuments, environment, TypeInv, TypeOK
<1>2. DaemonInv'
  BY <1>0, <1>1 DEF DaemonInv, Threads
<1>3. ASSUME NEW f \in Files, faults = 0, Kept(f) PROVE Kept(f)'
  <2>1. CASE BeginOneShot(t) \/ GiveUp(t)
    <3>1. UNCHANGED tables /\ thread[t].pc = "wait"
      BY <2>1 DEF BeginOneShot, GiveUp
    <3> QED
      BY <1>1, <1>3, <3>1, KeptStep
  <2>2. CASE ClearChunks(t)
    <3>1. thread'[t].pc = "clearDocuments"
      BY <1>0, <1>3, <2>2, WorkConnected DEF ClearChunks, TypeInv, TypeOK, Frame
    <3> QED
      BY <1>0, <3>1 DEF Kept
  <2>3. CASE ClearDocuments(t)
    <3>1. DeleteAllDocuments
      BY <1>0, <1>3, <2>3, WorkConnected DEF ClearDocuments
    <3> QED
      BY <3>1 DEF DeleteAllDocuments, NoRow, Kept, Indexed
  <2> QED
    BY <2>1, <2>2, <2>3 DEF OneShot
<1> QED
  BY <1>2, <1>3

\* Starting and ending the daemon, /process and an event move threads that are
\* in no document; an end that cuts one short is a fault.
LEMMA DaemonKept ==
    ASSUME TypeInv, DaemonInv,
           DaemonStep \/ Interrupt \/ \E t \in Triggers : TriggerProcessing(t)
    PROVE  DaemonInv' /\ \A f \in Files : faults' = 0 /\ Kept(f) => faults = 0 /\ Kept(f)'
<1>0. /\ Main \in DaemonThreads /\ Watcher \in DaemonThreads /\ Triggers \subseteq DaemonThreads
      /\ DaemonThreads \subseteq Threads /\ Main # Watcher /\ Main \notin Triggers
      /\ Daemon \in Processes /\ Daemon \notin OneShots /\ OneShots \subseteq Processes
      /\ thread \in [Threads -> Frame] /\ conn \in [Processes -> BOOLEAN] /\ faults \in Nat
  BY ThreadsAssumption, BoundsAssumption
     DEF DaemonThreads, Threads, Processes, TypeInv, TypeOK
<1>k. ASSUME UNCHANGED tables, faults' = 0 => faults = 0,
             \A u \in Threads : thread'[u] = thread[u]
                                \/ thread[u].pc \notin {"delete", "embed", "clearDocuments"}
      PROVE  \A f \in Files : faults' = 0 /\ Kept(f) => faults = 0 /\ Kept(f)'
  BY <1>k, KeptStep
<1>1. CASE StartDaemon
  <2>1. thread[Main].pc = "idle" /\ UNCHANGED <<tables, faults>>
    BY <1>1 DEF StartDaemon, DaemonInv
  <2>2. \A u \in Threads \ {Main} : thread'[u] = thread[u]
    BY <1>0, <1>1 DEF StartDaemon
  <2>3. DaemonInv'
    BY <1>0, <1>1, <2>1 DEF StartDaemon, DaemonInv
  <2> QED
    BY <1>k, <2>1, <2>2, <2>3
<1>2. CASE BeginFirstPass
  <2>1. thread[Main].pc = "wait" /\ phase = "starting" /\ UNCHANGED <<tables, faults, phase, conn>>
    BY <1>2 DEF BeginFirstPass, DaemonInv
  <2>2. \A u \in Threads \ {Main} : thread'[u] = thread[u]
    BY <1>0, <1>2 DEF BeginFirstPass
  <2>3. DaemonInv'
    BY <1>0, <2>1, <2>2 DEF DaemonInv
  <2> QED
    BY <1>k, <2>1, <2>2, <2>3
<1>3. CASE StartWatching
  <2>1. thread[Main].pc = "next" /\ phase = "starting" /\ phase' = "watching"
          /\ UNCHANGED <<tables, faults, conn>>
    BY <1>3 DEF StartWatching, DaemonInv
  <2>2. \A u \in Threads \ {Main} : thread'[u] = thread[u]
    BY <1>0, <1>3 DEF StartWatching
  <2>3. thread'[Main].pc = "idle"
    BY <1>0, <1>3 DEF StartWatching, At
  <2>4. DaemonInv'
    BY <1>0, <2>1, <2>2, <2>3 DEF DaemonInv
  <2> QED
    BY <1>k, <2>1, <2>2, <2>4
<1>4. CASE Dispatch
  <2>1. thread[Watcher].pc = "idle" /\ phase = "watching"
          /\ UNCHANGED <<tables, faults, conn, phase>>
    BY <1>4 DEF Dispatch
  <2>2. \A u \in Threads \ {Watcher} : thread'[u] = thread[u]
    BY <1>0, <1>4 DEF Dispatch
  <2>3. DaemonInv'
    BY <1>0, <2>1, <2>2 DEF DaemonInv
  <2> QED
    BY <1>k, <2>1, <2>2, <2>3
<1>5. CASE Exit
  <2>1. /\ phase' = "down" /\ UNCHANGED tables /\ \A p \in OneShots : conn'[p] = conn[p]
        /\ \A u \in Threads \ DaemonThreads : thread'[u] = thread[u]
        /\ \A u \in DaemonThreads : thread'[u].pc = "idle"
    BY <1>0, <1>5 DEF Exit, DaemonGone, At
  <2>2. faults' = 0 => faults = 0 /\ \A u \in DaemonThreads : thread[u].pc = "idle"
    BY <1>0, <1>5 DEF Exit, Passing, DaemonThreads, DaemonInv
  <2>3. DaemonInv'
    BY <1>0, <2>1, <2>2 DEF DaemonInv
  <2>4. ASSUME faults' = 0
        PROVE  \A u \in Threads : thread'[u] = thread[u]
                                \/ thread[u].pc \notin {"delete", "embed", "clearDocuments"}
    BY <2>1, <2>2, <2>4
  <2> QED
    BY <1>k, <2>1, <2>2, <2>3, <2>4
<1>6. CASE Interrupt
  <2>1. DaemonInv'
    BY <1>6 DEF Interrupt, DaemonInv
  <2> QED
    BY <1>k, <1>6, <2>1 DEF Interrupt
<1>7. ASSUME NEW t \in Triggers, TriggerProcessing(t)
      PROVE  DaemonInv' /\ \A f \in Files : faults' = 0 /\ Kept(f) => faults = 0 /\ Kept(f)'
  <2>1. thread[t].pc = "idle" /\ phase # "down" /\ UNCHANGED <<tables, faults, conn, phase>>
    BY <1>7 DEF TriggerProcessing, environment
  <2>2. \A u \in Threads \ {t} : thread'[u] = thread[u]
    BY <1>0, <1>7 DEF TriggerProcessing
  <2>3. DaemonInv'
    BY <1>0, <2>1, <2>2 DEF DaemonInv
  <2> QED
    BY <1>k, <2>1, <2>2, <2>3
<1> QED
  BY <1>1, <1>2, <1>3, <1>4, <1>5, <1>6, <1>7 DEF DaemonStep

\* A fault is counted, and an edit touches no table and no thread.
LEMMA WorldKept ==
    ASSUME TypeInv, DaemonInv, Fault \/ Edit
    PROVE  DaemonInv' /\ \A f \in Files : faults' = 0 /\ Kept(f) => faults = 0 /\ Kept(f)'
<1>0. /\ Main \in DaemonThreads /\ DaemonThreads \subseteq Threads /\ faults \in Nat
      /\ thread \in [Threads -> Frame] /\ OneShots \cap DaemonThreads = {}
  BY ThreadsAssumption, BoundsAssumption DEF DaemonThreads, Threads, TypeInv, TypeOK
<1>1. CASE Crash
  <2>1. /\ phase' = "down" /\ faults' # 0 /\ \A u \in DaemonThreads : thread'[u].pc = "idle"
    BY <1>0, <1>1 DEF Crash, DaemonGone, At
  <2> QED
    BY <1>0, <2>1 DEF DaemonInv
<1>2. ASSUME NEW t \in OneShots, CrashOneShot(t) PROVE DaemonInv' /\ faults' # 0
  <2>1. faults' # 0 /\ phase' = phase /\ \A u \in DaemonThreads : thread'[u] = thread[u]
    BY <1>0, <1>2 DEF CrashOneShot
  <2> QED
    BY <1>0, <2>1 DEF DaemonInv
<1>3. ASSUME NEW p \in Processes, LoseConnection(p) PROVE DaemonInv' /\ faults' # 0
  <2>1. faults' # 0 /\ phase' = phase /\ thread' = thread
    BY <1>0, <1>3 DEF LoseConnection
  <2> QED
    BY <2>1 DEF DaemonInv
<1>4. CASE Edit
  <2>1. UNCHANGED <<tables, phase, conn, thread, faults>>
    BY <1>4 DEF Edit, Save, Rename
  <2> QED
    BY <2>1, KeptStep DEF DaemonInv
<1> QED
  BY <1>1, <1>2, <1>3, <1>4 DEF Fault

\* The work invariant is inductive.
LEMMA WorkStep == TypeInv /\ WorkInv /\ [Next]_vars => WorkInv'
<1> SUFFICES ASSUME TypeInv, WorkInv, [Next]_vars PROVE WorkInv'
  OBVIOUS
<1>0. DaemonInv /\ (faults = 0 => \A f \in Files : Kept(f)) /\ faults \in Nat
  BY BoundsAssumption DEF WorkInv, Kept, TypeInv, TypeOK
<1>1. DaemonInv' /\ (faults' = 0 => \A f \in Files : Kept(f)') => WorkInv'
  BY DEF WorkInv, Kept
<1>2. ASSUME NEW t \in Threads, Pass(t) PROVE WorkInv'
  <2>1. faults' = 0 => faults = 0
    <3>1. EmbeddingFails(t) => faults' # 0
      BY <1>0 DEF EmbeddingFails
    <3> QED
      BY <1>2, <3>1 DEF Pass, NextFile, Select, CheckAgain, Reselect, ReadContent, Rehash, Upsert,
         Delete, InsertChunk, InsertRefused, RetryEmbedding, StatementFails, EndPass, Raise,
         environment
  <2> QED
    BY <1>0, <1>1, <1>2, <2>1, PassDaemonInv, PassKept
<1>3. ASSUME NEW t \in OneShots, OneShot(t) PROVE WorkInv'
  <2>1. faults' = faults
    BY <1>3 DEF OneShot, BeginOneShot, GiveUp, ClearChunks, ClearDocuments, environment
  <2> QED
    BY <1>0, <1>1, <1>3, <2>1, OneShotKept
<1>4. CASE DaemonStep \/ Interrupt \/ \E t \in Triggers : TriggerProcessing(t)
  <2>1. faults' = 0 => faults = 0
    BY <1>0, <1>4 DEF DaemonStep, StartDaemon, BeginFirstPass, StartWatching, Dispatch, Exit,
       Interrupt, TriggerProcessing, environment
  <2> QED
    BY <1>0, <1>1, <1>4, <2>1, DaemonKept
<1>5. CASE Fault \/ Edit
  <2>1. faults' = 0 => faults = 0
    BY <1>0, <1>5 DEF Fault, Edit, Crash, CrashOneShot, LoseConnection, Save, Rename
  <2> QED
    BY <1>0, <1>1, <1>5, <2>1, WorldKept
<1>6. CASE UNCHANGED vars
  BY <1>0, <1>6 DEF vars, WorkInv, DaemonInv, AtWork, Writing, Indexed, Complete
<1> QED
  BY <1>2, <1>3, <1>4, <1>5, <1>6 DEF Next

\* What keeps a document's chunks: a thread that will still insert all of its
\* own, or has, or is about to delete every document.
THEOREM WorkAlways == Spec => []WorkInv
  BY TypeInit, TypeStep, WorkInit, WorkStep, PTL DEF Spec

\* Any number of threads and processes may index the same files at the same
\* time, and any of them may delete everything first: unless something failed, a
\* document at rest has all the chunks of some text.
THEOREM NoChunkLost == Spec => []SomeVersionComplete
<1>1. WorkInv => SomeVersionComplete
  BY DEF WorkInv, SomeVersionComplete, AtWork
<1> QED
  BY <1>1, WorkAlways, PTL

-----------------------------------------------------------------------------
(* How many copies of a chunk there can be. *)

\* How many threads can be in one document at once.
Most == 1 + Cardinality(Triggers) + Cardinality(OneShots)

\* The threads that may still insert chunk j of text c for the row f now has.
Inserting(f, c, j) ==
    {t \in Threads : /\ thread[t].pc = "embed" /\ thread[t].file = f
                     /\ thread[t].content = c /\ thread[t].i <= j
                     /\ Refers(f, thread[t].id)}

WatcherInv == thread[Watcher].pc # "idle" => phase \in {"watching", "stopping"}

\* A copy takes the place of the thread that inserts it.
CopyInv ==
    /\ WatcherInv
    /\ \A f \in Files : ~ Indexed(f) => chunks[f] = NoChunks
    /\ \A f \in Files, c \in Text, j \in Index :
         chunks[f][c][j] + Cardinality(Inserting(f, c, j)) <= Most

\* What a step may do to the copies of one chunk, and to those who may add one.
Moved(f, c, j) ==
    \/ chunks'[f] = NoChunks
    \/ /\ chunks'[f][c][j] = chunks[f][c][j]
       /\ Inserting(f, c, j)' \subseteq Inserting(f, c, j)
    \/ /\ chunks'[f][c][j] = chunks[f][c][j] + 1
       /\ \E t \in Inserting(f, c, j) : Inserting(f, c, j)' \subseteq Inserting(f, c, j) \ {t}

\* The daemon's own two threads are never in a document together.
LEMMA MostThreads ==
    ASSUME IsFiniteSet(Triggers), IsFiniteSet(OneShots),
           NEW S \in SUBSET Threads, ~ ({Main, Watcher} \subseteq S)
    PROVE  IsFiniteSet(S) /\ Cardinality(S) \in Nat /\ Cardinality(S) <= Most /\ Most \in Nat
<1> DEFINE U == Triggers \cup OneShots
<1>1. /\ IsFiniteSet(U) /\ Cardinality(U) \in Nat
      /\ Cardinality(U) <= Cardinality(Triggers) + Cardinality(OneShots)
      /\ Cardinality(Triggers) \in Nat /\ Cardinality(OneShots) \in Nat
  <2>1. IsFiniteSet(Triggers \cap OneShots)
    BY FS_Subset
  <2>2. Cardinality(Triggers \cap OneShots) \in Nat
    BY <2>1, FS_CardinalityType
  <2>3. Cardinality(Triggers) \in Nat /\ Cardinality(OneShots) \in Nat
    BY FS_CardinalityType
  <2>4. /\ IsFiniteSet(U)
        /\ Cardinality(U) = Cardinality(Triggers) + Cardinality(OneShots)
                             - Cardinality(Triggers \cap OneShots)
    BY FS_Union
  <2>5. Cardinality(U) \in Nat
    BY <2>4, FS_CardinalityType
  <2> HIDE DEF U
  <2> QED
    BY <2>2, <2>3, <2>4, <2>5
<1> HIDE DEF U
<1>2. ASSUME NEW x, S \subseteq U \cup {x}
      PROVE  IsFiniteSet(S) /\ Cardinality(S) \in Nat /\ Cardinality(S) <= Cardinality(U) + 1
  <2>1. /\ IsFiniteSet(U \cup {x})
        /\ Cardinality(U \cup {x}) = Cardinality(U) \/ Cardinality(U \cup {x}) = Cardinality(U) + 1
    BY <1>1, FS_AddElement
  <2>2. IsFiniteSet(S) /\ Cardinality(S) <= Cardinality(U \cup {x})
    BY <1>2, <2>1, FS_Subset
  <2>3. Cardinality(S) \in Nat
    BY <2>2, FS_CardinalityType
  <2> QED
    BY <1>1, <2>1, <2>2, <2>3
<1>3. S \subseteq U \cup {Main} \/ S \subseteq U \cup {Watcher}
  BY DEF Threads, DaemonThreads, U
<1>4. IsFiniteSet(S) /\ Cardinality(S) \in Nat /\ Cardinality(S) <= Cardinality(U) + 1
  BY <1>2, <1>3
<1> QED
  BY <1>1, <1>4 DEF Most

\* Nothing is inserted, and no thread comes to the loop over the chunks.
LEMMA MovedOn ==
    ASSUME TypeInv, ThreadsTypeOK', NEW f \in Files, NEW c \in Text, NEW j \in Index,
           chunks'[f] = chunks[f],
           \A n \in Nat : Refers(f, n)' => Refers(f, n),
           \A u \in Threads :
             \/ thread'[u] = thread[u]
             \/ thread'[u].pc = "embed" /\ thread'[u].file = f /\ thread'[u].content = c =>
                  /\ thread[u].pc = "embed" /\ thread[u].file = f /\ thread[u].content = c
                  /\ thread'[u].id = thread[u].id /\ thread'[u].i >= thread[u].i
    PROVE  Moved(f, c, j)
<1>1. ASSUME NEW u \in Threads, u \in Inserting(f, c, j)' PROVE u \in Inserting(f, c, j)
  <2>1. /\ thread'[u].pc = "embed" /\ thread'[u].file = f /\ thread'[u].content = c
        /\ thread'[u].i <= j /\ Refers(f, thread[u].id)'
    BY <1>1 DEF Inserting
  <2>2. /\ thread[u].i \in Nat /\ thread'[u].i \in Nat /\ thread'[u].id \in Nat
        /\ j \in Nat
    BY DEF TypeInv, TypeOK, ThreadsTypeOK, Frame, Index
  <2>3. /\ thread[u].pc = "embed" /\ thread[u].file = f /\ thread[u].content = c
        /\ thread'[u].id = thread[u].id /\ thread'[u].i >= thread[u].i
    BY <2>1, <2>2
  <2>4. Refers(f, thread[u].id)
    <3>1. PICK n \in Nat : n = thread'[u].id
      BY <2>2
    <3>2. Refers(f, n)'
      BY <2>1, <3>1 DEF Refers, Indexed
    <3> QED
      BY <2>3, <3>1, <3>2
  <2> QED
    BY <2>1, <2>2, <2>3, <2>4 DEF Inserting
<1>2. Inserting(f, c, j)' \subseteq Inserting(f, c, j)
  BY <1>1 DEF Inserting
<1> QED
  BY <1>2 DEF Moved

LEMMA InsertMoved ==
    ASSUME TypeInv, TypeInv', NEW t \in Threads, InsertChunk(t),
           NEW f \in Files, NEW c \in Text, NEW j \in Index
    PROVE  Moved(f, c, j)
<1> DEFINE l == thread[t]
<1>0. /\ thread \in [Threads -> Frame] /\ chunks \in [Files -> [Text -> [Index -> Nat]]]
      /\ l.pc = "embed" /\ l.file \in Files /\ l.content \in Text /\ l.i \in 1..NChunks[l.content]
      /\ l.i \in Nat /\ j \in Nat
  <2>1. /\ thread \in [Threads -> Frame] /\ chunks \in [Files -> [Text -> [Index -> Nat]]]
        /\ l.pc = "embed" /\ LocalsAssigned(l)
    BY DEF InsertChunk, TypeInv, TypeOK, TablesTypeOK
  <2>2. l \in Frame
    BY <2>1
  <2>3. l.file \in Files /\ l.content \in Text /\ l.i \in 1..NChunks[l.content]
    BY <2>1 DEF LocalsAssigned, InDocument, HasContent
  <2>4. l.i \in Nat
    BY <2>2 DEF Frame
  <2>5. j \in Nat
    BY DEF Index
  <2> QED
    BY <2>1, <2>3, <2>4, <2>5
<1>1. l.i \in Index
  BY <1>0, ChunksAssumption DEF Index
<1>2. /\ documents' = documents /\ Refers(l.file, l.id)
      /\ chunks' = [chunks EXCEPT ![l.file][l.content][l.i] = @ + 1]
  BY DEF InsertChunk, InsertChunkRow
<1>3. /\ \A u \in Threads \ {t} : thread'[u] = thread[u]
      /\ \/ thread'[t].pc # "embed"
         \/ /\ thread'[t].pc = "embed" /\ thread'[t].file = l.file /\ thread'[t].id = l.id
            /\ thread'[t].content = l.content /\ thread'[t].i = l.i + 1
  BY <1>0 DEF InsertChunk, Leave, At, Frame
<1>4. \A n : Refers(f, n)' <=> Refers(f, n)
  BY <1>2 DEF Refers, Indexed
<1>5. Inserting(f, c, j)' \subseteq Inserting(f, c, j)
  <2>1. ASSUME NEW u \in Threads, u \in Inserting(f, c, j)' PROVE u \in Inserting(f, c, j)
    <3>1. /\ thread'[u].pc = "embed" /\ thread'[u].file = f /\ thread'[u].content = c
          /\ thread'[u].i <= j /\ Refers(f, thread[u].id)'
      BY <2>1 DEF Inserting
    <3>2. CASE u = t
      <4>1. /\ thread'[t].file = l.file /\ thread'[t].id = l.id
            /\ thread'[t].content = l.content /\ thread'[t].i = l.i + 1
        BY <1>3, <3>1, <3>2
      <4> QED
        BY <1>0, <1>2, <3>1, <3>2, <4>1 DEF Inserting
    <3>3. CASE u # t
      <4>1. thread'[u] = thread[u]
        BY <1>3, <3>3
      <4> QED
        BY <1>4, <3>1, <4>1 DEF Inserting, Refers, Indexed
    <3> QED
      BY <3>2, <3>3
  <2> QED
    BY <2>1 DEF Inserting
<1>6. CASE f = l.file /\ c = l.content /\ j = l.i
  <2>1. chunks'[f][c][j] = chunks[f][c][j] + 1
    BY <1>0, <1>1, <1>2, <1>6
  <2>2. t \in Inserting(f, c, j)
    BY <1>0, <1>2, <1>6 DEF Inserting
  <2>3. t \notin Inserting(f, c, j)'
    BY <1>0, <1>3, <1>6 DEF Inserting
  <2> QED
    BY <1>5, <2>1, <2>2, <2>3 DEF Moved
<1>7. CASE ~ (f = l.file /\ c = l.content /\ j = l.i)
  <2>1. chunks'[f][c][j] = chunks[f][c][j]
    BY <1>0, <1>1, <1>2, <1>7
  <2> QED
    BY <1>5, <2>1 DEF Moved
<1> QED
  BY <1>6, <1>7

LEMMA PassMoved ==
    ASSUME TypeInv, TypeInv', CopyInv, NEW t \in Threads, Pass(t),
           NEW f \in Files, NEW c \in Text, NEW j \in Index
    PROVE  Moved(f, c, j) /\ (~ Indexed(f) => chunks[f] = NoChunks)'
<1> DEFINE l == thread[t]
<1>0. /\ thread \in [Threads -> Frame] /\ ThreadsTypeOK'
      /\ documents \in [Files -> Row] /\ chunks \in [Files -> [Text -> [Index -> Nat]]]
      /\ ~ Indexed(f) => chunks[f] = NoChunks
  BY DEF TypeInv, TypeOK, TablesTypeOK, ThreadsTypeOK, CopyInv
<1>1. CASE Upsert(t)
  <2>1. /\ chunks' = chunks /\ thread'[t].pc = "delete"
        /\ \A u \in Threads \ {t} : thread'[u] = thread[u]
    BY <1>0, <1>1 DEF Upsert, UpsertDocument, Frame
  <2>2. Indexed(f) => documents'[f].id = documents[f].id
    BY <1>0, <1>1 DEF Upsert, UpsertDocument, Indexed
  <2>3. CASE Indexed(f)
    <3>1. Indexed(f)' /\ \A n \in Nat : Refers(f, n)' => Refers(f, n)
      BY <2>2, <2>3 DEF Refers, Indexed
    <3>2. Moved(f, c, j)
      BY <1>0, <2>1, <3>1, MovedOn
    <3> QED
      BY <3>1, <3>2
  <2>4. CASE ~ Indexed(f)
    BY <1>0, <2>1, <2>4 DEF Moved, NoChunks
  <2> QED
    BY <2>3, <2>4
<1>2. CASE Delete(t)
  <2>1. /\ documents' = documents
        /\ chunks' = [chunks EXCEPT ![l.file] = IF Refers(l.file, l.id) THEN NoChunks ELSE @]
        /\ thread' = [thread EXCEPT ![t].pc = "embed", ![t].i = 1, ![t].attempt = 1]
    BY <1>2 DEF Delete, DeleteChunks
  <2>2. (~ Indexed(f) => chunks[f] = NoChunks)'
    BY <1>0, <2>1 DEF Indexed, NoChunks
  <2>3. CASE f = l.file /\ Refers(f, l.id)
    BY <1>0, <2>1, <2>2, <2>3 DEF Moved, NoChunks
  <2>4. CASE ~ (f = l.file /\ Refers(f, l.id))
    <3>1. chunks'[f] = chunks[f]
      BY <1>0, <2>1, <2>4
    <3>2. \A n : Refers(f, n)' <=> Refers(f, n)
      BY <2>1 DEF Refers, Indexed
    <3>3. /\ \A u \in Threads \ {t} : thread'[u] = thread[u]
          /\ thread'[t].file = l.file /\ thread'[t].id = l.id
      BY <1>0, <2>1 DEF Frame
    <3>4. ASSUME NEW u \in Threads, u \in Inserting(f, c, j)' PROVE u \in Inserting(f, c, j)
      BY <2>1, <2>4, <3>2, <3>3, <3>4 DEF Inserting, Refers, Indexed
    <3>5. Inserting(f, c, j)' \subseteq Inserting(f, c, j)
      BY <3>4 DEF Inserting
    <3> QED
      BY <2>2, <3>1, <3>5 DEF Moved
  <2> QED
    BY <2>3, <2>4
<1>3. CASE InsertChunk(t)
  <2>1. Refers(l.file, l.id) /\ documents' = documents
    BY <1>3 DEF InsertChunk, InsertChunkRow
  <2>2. ~ Indexed(f) => chunks'[f] = chunks[f]
    BY <1>0, <1>3, <2>1 DEF InsertChunk, InsertChunkRow, Refers
  <2>3. (~ Indexed(f) => chunks[f] = NoChunks)'
    BY <1>0, <2>1, <2>2 DEF Indexed, NoChunks
  <2> QED
    BY <1>3, <2>3, InsertMoved
<1>4. CASE RetryEmbedding(t)
  <2>1. /\ UNCHANGED tables /\ \A u \in Threads \ {t} : thread'[u] = thread[u]
        /\ thread[t].pc = "embed" /\ thread'[t].file = thread[t].file
        /\ thread'[t].content = thread[t].content /\ thread'[t].id = thread[t].id
        /\ thread'[t].i = thread[t].i /\ thread[t].i \in Nat
    BY <1>0, <1>4 DEF RetryEmbedding, Frame
  <2>2. Moved(f, c, j)
    BY <1>0, <2>1, MovedOn DEF tables, Refers, Indexed
  <2> QED
    BY <1>0, <2>1, <2>2 DEF tables, Indexed, NoChunks
<1>5. CASE \/ NextFile(t) \/ Select(t) \/ CheckAgain(t) \/ Reselect(t) \/ ReadContent(t)
           \/ Rehash(t) \/ InsertRefused(t) \/ EmbeddingFails(t) \/ StatementFails(t) \/ EndPass(t)
  <2>1. UNCHANGED tables /\ \A u \in Threads \ {t} : thread'[u] = thread[u]
    BY <1>0, <1>5 DEF NextFile, Select, CheckAgain, Reselect, ReadContent, Rehash, InsertRefused,
       EmbeddingFails, StatementFails, EndPass, Raise, Leave
  <2>2. thread'[t].pc # "embed"
    <3>1. CASE NextFile(t)
      BY <1>0, <3>1 DEF NextFile, At
    <3>2. CASE Leave(t)
      BY <1>0, <3>2 DEF Leave, At
    <3>3. CASE Select(t) \/ CheckAgain(t) \/ Reselect(t) \/ ReadContent(t) \/ Rehash(t)
      BY <1>0, <3>2, <3>3 DEF Select, CheckAgain, Reselect, ReadContent, Rehash, Frame
    <3>4. CASE InsertRefused(t) \/ EmbeddingFails(t) \/ StatementFails(t)
      BY <3>2, <3>4 DEF InsertRefused, EmbeddingFails, StatementFails, Raise
    <3>5. CASE EndPass(t)
      BY <1>0, <3>5 DEF EndPass, At
    <3> QED
      BY <1>5, <3>1, <3>3, <3>4, <3>5
  <2>3. Moved(f, c, j)
    BY <1>0, <2>1, <2>2, MovedOn DEF tables, Refers, Indexed
  <2> QED
    BY <1>0, <2>1, <2>3 DEF tables, Indexed, NoChunks
<1> QED
  BY <1>1, <1>2, <1>3, <1>4, <1>5 DEF Pass

\* Outside of a pass no thread comes to the loop over the chunks.
LEMMA WorldMoved ==
    ASSUME TypeInv, TypeInv', CopyInv,
           \/ \E t \in OneShots : OneShot(t)
           \/ \E t \in Triggers : TriggerProcessing(t)
           \/ DaemonStep \/ Interrupt \/ Fault \/ Edit,
           NEW f \in Files, NEW c \in Text, NEW j \in Index
    PROVE  Moved(f, c, j) /\ (~ Indexed(f) => chunks[f] = NoChunks)'
<1>0. /\ thread \in [Threads -> Frame] /\ ThreadsTypeOK'
      /\ ~ Indexed(f) => chunks[f] = NoChunks
      /\ OneShots \subseteq Threads /\ Triggers \subseteq Threads
      /\ Main \in Threads /\ Watcher \in Threads
  BY DEF TypeInv, TypeOK, ThreadsTypeOK, CopyInv, Threads, DaemonThreads
<1>1. CASE DeleteAllChunks \/ DeleteAllDocuments
  BY <1>1 DEF DeleteAllChunks, DeleteAllDocuments, Moved, NoChunks
<1>2. CASE UNCHANGED tables
  <2>1. ASSUME NEW u \in Threads
        PROVE  thread'[u] = thread[u] \/ thread'[u].pc # "embed"
    <3>1. CASE \E t \in OneShots : OneShot(t)
      BY <1>0, <3>1 DEF OneShot, BeginOneShot, GiveUp, ClearChunks, ClearDocuments, At, Frame
    <3>2. CASE \E t \in Triggers : TriggerProcessing(t)
      BY <1>0, <3>2 DEF TriggerProcessing, At
    <3>3. CASE DaemonStep
      BY <1>0, <3>3 DEF DaemonStep, StartDaemon, BeginFirstPass, StartWatching, Dispatch, Exit,
         DaemonGone, At
    <3>4. CASE Interrupt \/ Edit
      BY <3>4 DEF Interrupt, Edit, Save, Rename
    <3>5. CASE Fault
      BY <1>0, <3>5 DEF Fault, Crash, CrashOneShot, LoseConnection, DaemonGone, At
    <3> QED
      BY <3>1, <3>2, <3>3, <3>4, <3>5
  <2>2. Moved(f, c, j)
    BY <1>0, <1>2, <2>1, MovedOn DEF tables, Refers, Indexed
  <2> QED
    BY <1>0, <1>2, <2>2 DEF tables, Indexed, NoChunks
<1>3. DeleteAllChunks \/ DeleteAllDocuments \/ UNCHANGED tables
  BY DEF OneShot, BeginOneShot, GiveUp, ClearChunks, ClearDocuments, TriggerProcessing, DaemonStep,
     StartDaemon, BeginFirstPass, StartWatching, Dispatch, Exit, Interrupt, Edit, Save, Rename,
     Fault, Crash, CrashOneShot, LoseConnection
<1> QED
  BY <1>1, <1>2, <1>3

LEMMA WatcherStep ==
    ASSUME TypeInv, DaemonInv, WatcherInv, [Next]_vars
    PROVE  WatcherInv'
<1>0. /\ thread \in [Threads -> Frame] /\ Watcher \in DaemonThreads /\ Watcher \in Threads
      /\ Watcher # Main /\ Watcher \notin Triggers /\ Watcher \notin OneShots
      /\ DaemonThreads \subseteq Threads
  BY ThreadsAssumption DEF TypeInv, TypeOK, Threads, DaemonThreads
<1>1. ASSUME NEW t \in Threads, Pass(t) PROVE WatcherInv'
  <2>1. UNCHANGED phase /\ thread[t].pc # "idle" /\ \A u \in Threads \ {t} : thread'[u] = thread[u]
    BY <1>1 DEF Pass, NextFile, Select, CheckAgain, Reselect, ReadContent, Rehash, Upsert, Delete,
         InsertChunk, InsertRefused, RetryEmbedding, EmbeddingFails, StatementFails, EndPass,
         Raise, Leave, environment, TypeInv, TypeOK
  <2> QED
    BY <1>0, <2>1 DEF WatcherInv
<1>2. CASE \/ \E t \in OneShots : OneShot(t) \/ CrashOneShot(t)
           \/ \E t \in Triggers : TriggerProcessing(t)
           \/ BeginFirstPass \/ Edit \/ \E p \in Processes : LoseConnection(p)
  <2>1. thread'[Watcher] = thread[Watcher] /\ phase' = phase
    BY <1>0, <1>2 DEF OneShot, BeginOneShot, GiveUp, ClearChunks, ClearDocuments, CrashOneShot,
       TriggerProcessing, BeginFirstPass, Edit, Save, Rename, LoseConnection, environment
  <2> QED
    BY <2>1 DEF WatcherInv
<1>3. CASE StartDaemon
  <2>1. thread'[Watcher] = thread[Watcher] /\ phase = "down"
    BY <1>0, <1>3 DEF StartDaemon
  <2> QED
    BY <1>0, <2>1 DEF WatcherInv, DaemonInv
<1>4. CASE StartWatching \/ Dispatch \/ Interrupt
  BY <1>4 DEF StartWatching, Dispatch, Interrupt, WatcherInv
<1>5. CASE Exit \/ Crash
  <2>1. thread'[Watcher].pc = "idle"
    BY <1>0, <1>5 DEF Exit, Crash, DaemonGone, At
  <2> QED
    BY <2>1 DEF WatcherInv
<1>6. CASE UNCHANGED vars
  BY <1>6 DEF vars, WatcherInv
<1> QED
  BY <1>1, <1>2, <1>3, <1>4, <1>5, <1>6 DEF Next, DaemonStep, Fault

LEMMA CopyStep ==
    ASSUME IsFiniteSet(Triggers), IsFiniteSet(OneShots)
    PROVE  TypeInv /\ WorkInv /\ CopyInv /\ [Next]_vars => CopyInv'
<1> SUFFICES ASSUME TypeInv, WorkInv, CopyInv, [Next]_vars PROVE CopyInv'
  OBVIOUS
<1>1. TypeInv' /\ DaemonInv' /\ DaemonInv /\ WatcherInv /\ WatcherInv'
  BY TypeStep, WorkStep, WatcherStep DEF WorkInv, CopyInv
<1>2. ASSUME NEW f \in Files, NEW c \in Text, NEW j \in Index
      PROVE  /\ (~ Indexed(f) => chunks[f] = NoChunks)'
             /\ chunks'[f][c][j] + Cardinality(Inserting(f, c, j)') <= Most
  <2>1. Moved(f, c, j) /\ (~ Indexed(f) => chunks[f] = NoChunks)'
    <3>1. CASE UNCHANGED vars
      BY <1>1, <3>1, MovedOn DEF vars, CopyInv, Indexed, Refers, NoChunks, TypeInv, TypeOK,
         ThreadsTypeOK
    <3> QED
      BY <1>1, <3>1, PassMoved, WorldMoved DEF Next
  <2> DEFINE S == Inserting(f, c, j)
             T == Inserting(f, c, j)'
  <2>2. /\ IsFiniteSet(S) /\ Cardinality(S) \in Nat
        /\ chunks[f][c][j] \in Nat /\ chunks[f][c][j] + Cardinality(S) <= Most
    <3>1. S \subseteq Threads /\ ~ ({Main, Watcher} \subseteq S)
      BY <1>1 DEF Inserting, DaemonInv, WatcherInv
    <3> QED
      BY <3>1, MostThreads DEF CopyInv, TypeInv, TypeOK, TablesTypeOK
  <2>3. IsFiniteSet(T) /\ Cardinality(T) \in Nat /\ Cardinality(T) <= Most /\ Most \in Nat
    <3>1. T \subseteq Threads /\ ~ ({Main, Watcher} \subseteq T)
      BY <1>1 DEF Inserting, DaemonInv, WatcherInv
    <3> QED
      BY <3>1, MostThreads
  <2> HIDE DEF S, T
  <2>4. CASE chunks'[f] = NoChunks
    BY <2>3, <2>4 DEF NoChunks, T
  <2>5. CASE chunks'[f][c][j] = chunks[f][c][j] /\ T \subseteq S
    <3>1. Cardinality(T) <= Cardinality(S)
      BY <2>2, <2>5, FS_Subset
    <3> QED
      BY <2>1, <2>2, <2>3, <2>5, <3>1 DEF T
  <2>6. CASE chunks'[f][c][j] = chunks[f][c][j] + 1 /\ \E t \in S : T \subseteq S \ {t}
    <3>1. PICK t \in S : T \subseteq S \ {t}
      BY <2>6
    <3>2. IsFiniteSet(S \ {t}) /\ Cardinality(S \ {t}) = Cardinality(S) - 1
      BY <2>2, FS_RemoveElement
    <3>3. Cardinality(T) <= Cardinality(S \ {t})
      BY <3>1, <3>2, FS_Subset
    <3> QED
      BY <2>1, <2>2, <2>3, <2>6, <3>2, <3>3 DEF T
  <2> QED
    BY <2>1, <2>4, <2>5, <2>6 DEF Moved, S, T
<1>3. \A f \in Files, c \in Text, j \in Index :
        (chunks[f][c][j] + Cardinality(Inserting(f, c, j)) <= Most)'
  BY <1>2 DEF Most
<1>4. \A f \in Files : (~ Indexed(f) => chunks[f] = NoChunks)'
  <2>1. \A f \in Files, c \in Text, j \in Index : (~ Indexed(f) => chunks[f] = NoChunks)'
    BY <1>2
  <2>2. CASE Index = {}
    <3>1. \A x, y \in [Text -> [Index -> Nat]] : x = y
      BY <2>2
    <3>2. chunks' \in [Files -> [Text -> [Index -> Nat]]] /\ NoChunks \in [Text -> [Index -> Nat]]
      BY <1>1 DEF TypeInv, TypeOK, TablesTypeOK, NoChunks
    <3> QED
      BY <3>1, <3>2 DEF NoChunks
  <2> QED
    BY <2>1, <2>2, TextAssumption
<1> QED
  BY <1>1, <1>3, <1>4 DEF CopyInv

\* However often the threads and processes of any number index a document, over
\* restarts, failures and --force, a chunk of it has at most as many copies as
\* threads that can be in the document at once.
THEOREM CopiesLimited ==
    ASSUME IsFiniteSet(Triggers), IsFiniteSet(OneShots)
    PROVE  Spec => []CopiesBounded
<1>1. Init => CopyInv
  <2> SUFFICES ASSUME Init PROVE CopyInv
    OBVIOUS
  <2>1. chunks = [f \in Files |-> NoChunks] /\ \A t \in Threads : thread[t].pc # "embed"
    BY DEF Init, TablesInit, At
  <2>2. WatcherInv
    BY ThreadsAssumption DEF Init, At, Threads, DaemonThreads, WatcherInv
  <2>3. ASSUME NEW f \in Files, NEW c \in Text, NEW j \in Index
        PROVE  chunks[f][c][j] + Cardinality(Inserting(f, c, j)) <= Most
    <3>1. Inserting(f, c, j) = {}
      BY <2>1 DEF Inserting
    <3>2. Cardinality({}) = 0 /\ Most \in Nat
      BY FS_EmptySet, MostThreads
    <3> QED
      BY <2>1, <3>1, <3>2 DEF NoChunks
  <2> QED
    BY <2>1, <2>2, <2>3 DEF CopyInv
<1>2. ASSUME TypeInv, WorkInv, CopyInv PROVE CopiesBounded
  <2> SUFFICES ASSUME NEW f \in Files, NEW c \in Text, NEW i \in Index
               PROVE  chunks[f][c][i] <= Most
    BY DEF CopiesBounded, Most
  <2>1. ~ ({Main, Watcher} \subseteq Inserting(f, c, i)) /\ Inserting(f, c, i) \subseteq Threads
    BY <1>2 DEF Inserting, DaemonInv, WorkInv, CopyInv, WatcherInv
  <2>2. Cardinality(Inserting(f, c, i)) \in Nat /\ Most \in Nat
    BY <2>1, MostThreads
  <2>3. chunks[f][c][i] \in Nat /\ chunks[f][c][i] + Cardinality(Inserting(f, c, i)) <= Most
    BY <1>2 DEF CopyInv, TypeInv, TypeOK, TablesTypeOK
  <2> QED
    BY <2>2, <2>3
<1>3. TypeInv /\ WorkInv /\ CopyInv /\ [Next]_vars => CopyInv'
  BY CopyStep
<1> QED
  BY <1>1, <1>2, <1>3, TypeInit, TypeStep, WorkInit, WorkStep, PTL DEF Spec

-----------------------------------------------------------------------------
(* A pass goes forward. *)

\* The frames of a thread that has a document, or only the loop over them.
Working == InDocument \cup {"next"}

LEMMA StepsOrdered ==
    /\ StepsLeft["idle"] = 0 /\ StepsLeft["done"] = 0 /\ StepsLeft["next"] = 1
    /\ StepsLeft["embed"] = 2 /\ StepsLeft["delete"] = 3 /\ StepsLeft["upsert"] = 4
    /\ StepsLeft["rehash"] = 5 /\ StepsLeft["read"] = 6 /\ StepsLeft["reselect"] = 7
    /\ StepsLeft["check"] = 8 /\ StepsLeft["select"] = 9
  BY DEF StepsLeft

\* Whoever leaves a file, or the pass, leaves something behind.
LEMMA LeftNearer ==
    ASSUME NEW l \in Frame, l.pc \in Working, NEW todo, todo \subseteq l.todo,
           NEW pc \in {"idle", "done", "next"}, pc = "next" => l.pc # "next" \/ todo # l.todo
    PROVE  Nearer(At(pc, todo), l)
<1>1. At(pc, todo).pc = pc /\ At(pc, todo).todo = todo
  BY DEF At
<1>2. CASE todo # l.todo
  BY <1>1, <1>2 DEF Nearer
<1>3. CASE todo = l.todo
  <2>1. StepsLeft[pc] < StepsLeft[l.pc]
    <3>1. CASE pc = "next"
      <4>1. l.pc \in InDocument
        BY <1>3, <3>1 DEF Working
      <4> QED
        BY <3>1, <4>1, StepsOrdered DEF InDocument
    <3>2. CASE pc \in {"idle", "done"}
      BY <3>2, StepsOrdered DEF InDocument, Working
    <3> QED
      BY <3>1, <3>2
  <2> QED
    BY <1>1, <1>3, <2>1 DEF Nearer
<1> QED
  BY <1>2, <1>3

\* Whoever takes the next step with his file.
LEMMA StepNearer ==
    ASSUME NEW l \in Frame, NEW m, m.todo = l.todo, StepsLeft[m.pc] < StepsLeft[l.pc]
    PROVE  Nearer(m, l)
  BY DEF Nearer

LEMMA PassNearer ==
    ASSUME TypeInv, NEW t \in Threads, Pass(t)
    PROVE  Nearer(thread'[t], thread[t]) /\ \A u \in Threads \ {t} : thread'[u] = thread[u]
<1> DEFINE l == thread[t]
<1>0. /\ thread \in [Threads -> Frame] /\ l \in Frame /\ LocalsAssigned(l)
      /\ l.todo \subseteq Files
  BY DEF TypeInv, TypeOK, Frame
<1>1. \A u \in Threads \ {t} : thread'[u] = thread[u]
  BY <1>0 DEF Pass, NextFile, Select, CheckAgain, Reselect, ReadContent, Rehash, Upsert, Delete,
     InsertChunk, InsertRefused, RetryEmbedding, EmbeddingFails, StatementFails, EndPass, Raise, Leave
<1> SUFFICES Nearer(thread'[t], l)
  BY <1>1
<1>2. CASE l.pc \in InDocument /\ Leave(t)
  <2>1. /\ thread'[t] = At(IF t = Watcher THEN "idle" ELSE "next", l.todo)
    BY <1>0, <1>2 DEF Leave
  <2>2. l.pc \in Working /\ l.pc # "next"
    BY <1>2 DEF Working, InDocument
  <2>3. CASE t = Watcher
    BY <1>0, <2>1, <2>2, <2>3, LeftNearer
  <2>4. CASE t # Watcher
    BY <1>0, <2>1, <2>2, <2>4, LeftNearer
  <2> QED
    BY <2>3, <2>4
<1>3. CASE NextFile(t)
  <2>1. PICK f \in l.todo :
          LET rest == l.todo \ {f} IN
          thread' = [thread EXCEPT ![t] =
              IF disk[f] = Absent THEN At("next", rest)
              ELSE [At("select", rest) EXCEPT !.file = f, !.hash = disk[f]]]
    BY <1>3 DEF NextFile
  <2>2. thread'[t].todo = l.todo \ {f}
    BY <1>0, <2>1 DEF At
  <2> QED
    BY <2>2 DEF Nearer
<1>4. CASE EndPass(t)
  <2>1. /\ l.pc = "next" /\ l.todo = {}
        /\ thread'[t] = At(IF t \in OneShots THEN "done" ELSE "idle", {})
    BY <1>0, <1>4 DEF EndPass
  <2>2. l.pc \in Working
    BY <2>1 DEF Working
  <2>3. CASE t \in OneShots
    BY <1>0, <2>1, <2>2, <2>3, LeftNearer
  <2>4. CASE t \notin OneShots
    BY <1>0, <2>1, <2>2, <2>4, LeftNearer
  <2> QED
    BY <2>3, <2>4
<1>5. CASE Select(t) \/ CheckAgain(t) \/ Reselect(t) \/ ReadContent(t) \/ Rehash(t)
  <2>1. l.pc \in InDocument
    BY <1>5 DEF Select, CheckAgain, Reselect, ReadContent, Rehash, InDocument
  <2>2. CASE ~ Leave(t)
    <3>1. thread'[t].todo = l.todo
      BY <1>0, <1>5, <2>2 DEF Select, CheckAgain, Reselect, ReadContent, Rehash, Frame
    <3>2. \/ l.pc = "select" /\ thread'[t].pc = "check"
          \/ l.pc = "check" /\ thread'[t].pc = "reselect"
          \/ l.pc = "reselect" /\ thread'[t].pc = "read"
          \/ l.pc = "read" /\ thread'[t].pc = "rehash"
          \/ l.pc = "rehash" /\ thread'[t].pc = "upsert"
      BY <1>0, <1>5, <2>2 DEF Select, CheckAgain, Reselect, ReadContent, Rehash, Frame
    <3>3. StepsLeft[thread'[t].pc] < StepsLeft[l.pc]
      BY <3>2, StepsOrdered
    <3> QED
      BY <1>0, <3>1, <3>3, StepNearer
  <2> QED
    BY <1>2, <2>1, <2>2
<1>6. CASE Upsert(t) \/ Delete(t)
  <2>1. thread'[t].todo = l.todo
    BY <1>0, <1>6 DEF Upsert, Delete, Frame
  <2>2. \/ l.pc = "upsert" /\ thread'[t].pc = "delete"
        \/ l.pc = "delete" /\ thread'[t].pc = "embed"
    BY <1>0, <1>6 DEF Upsert, Delete, Frame
  <2>3. StepsLeft[thread'[t].pc] < StepsLeft[l.pc]
    BY <2>2, StepsOrdered
  <2> QED
    BY <1>0, <2>1, <2>3, StepNearer
<1>7. CASE InsertChunk(t)
  <2>1. l.pc = "embed" /\ l.pc \in InDocument
    BY <1>7 DEF InsertChunk, InDocument
  <2>2. l.content \in Text /\ l.i \in 1..NChunks[l.content] /\ NChunks[l.content] \in Nat
    BY <1>0, <2>1, ChunksAssumption DEF LocalsAssigned, HasContent
  <2>3. CASE l.i # NChunks[l.content] /\ thread' = [thread EXCEPT ![t].i = l.i + 1, ![t].attempt = 1]
    <3>1. /\ thread'[t].pc = "embed" /\ thread'[t].todo = l.todo /\ thread'[t].file = l.file
          /\ thread'[t].content = l.content /\ thread'[t].i = l.i + 1
      BY <1>0, <2>1, <2>3 DEF Frame
    <3> QED
      BY <2>1, <2>2, <2>3, <3>1 DEF Nearer
  <2> QED
    BY <1>2, <1>7, <2>1, <2>3 DEF InsertChunk
<1>8. CASE RetryEmbedding(t)
  <2>1. l.pc = "embed" /\ l.attempt < MaxRetries /\ l.attempt \in Nat /\ MaxRetries \in Nat
    BY <1>0, <1>8, BoundsAssumption DEF RetryEmbedding, Frame
  <2>2. /\ thread'[t].pc = "embed" /\ thread'[t].todo = l.todo /\ thread'[t].file = l.file
        /\ thread'[t].content = l.content /\ thread'[t].i = l.i
        /\ thread'[t].attempt = l.attempt + 1
    BY <1>0, <1>8, <2>1 DEF RetryEmbedding, Frame
  <2> QED
    BY <2>1, <2>2 DEF Nearer
<1>9. CASE InsertRefused(t) \/ EmbeddingFails(t) \/ StatementFails(t)
  BY <1>2, <1>9 DEF InsertRefused, EmbeddingFails, StatementFails, Raise, InDocument
<1> QED
  BY <1>3, <1>4, <1>5, <1>6, <1>7, <1>8, <1>9 DEF Pass

\* Outside of a pass, a thread that is in one is left alone or ends.
LEMMA WorldNearer ==
    ASSUME TypeInv,
           \/ \E t \in OneShots : OneShot(t)
           \/ \E t \in Triggers : TriggerProcessing(t)
           \/ DaemonStep \/ Interrupt \/ Fault \/ Edit,
           DaemonInv,
           NEW u \in Threads, thread[u].pc \in Working, thread'[u] # thread[u]
    PROVE  Nearer(thread'[u], thread[u])
<1>0. /\ thread \in [Threads -> Frame] /\ thread[u] \in Frame
      /\ OneShots \subseteq Threads /\ Triggers \subseteq Threads
      /\ Main \in Threads /\ Watcher \in Threads
      /\ thread[u].pc \notin {"idle", "wait", "clearChunks", "clearDocuments", "done"}
  BY DEF TypeInv, TypeOK, Threads, DaemonThreads, Working, InDocument
<1>1. \E pc \in {"idle", "done"} : thread'[u] = At(pc, {})
  <2>1. CASE \E t \in OneShots : OneShot(t)
    BY <1>0, <2>1 DEF OneShot, BeginOneShot, GiveUp, ClearChunks, ClearDocuments
  <2>2. CASE \E t \in Triggers : TriggerProcessing(t)
    BY <1>0, <2>2 DEF TriggerProcessing
  <2>3. CASE StartDaemon \/ BeginFirstPass \/ Dispatch
    BY <1>0, <2>3, ThreadsAssumption DEF StartDaemon, BeginFirstPass, Dispatch, DaemonInv
  <2>4. CASE StartWatching
    BY <1>0, <2>4 DEF StartWatching
  <2>5. CASE Interrupt \/ Edit
    BY <2>5 DEF Interrupt, Edit, Save, Rename
  <2>6. CASE Exit \/ Fault
    BY <1>0, <2>6 DEF Exit, Fault, Crash, CrashOneShot, LoseConnection, DaemonGone
  <2> QED
    BY <2>1, <2>2, <2>3, <2>4, <2>5, <2>6 DEF DaemonStep
<1> QED
  BY <1>0, <1>1, LeftNearer

\* However many threads, edits, retries and faults: from its listing to its end a
\* pass never goes back, so that it has only so many steps to take.
THEOREM PassesForward == Spec => PassesAdvance
<1>1. ASSUME TypeInv, WorkInv, [Next]_vars
      PROVE  [\A t \in Threads :
                /\ thread[t].pc \notin {"idle", "wait", "clearChunks", "clearDocuments", "done"}
                /\ thread'[t] # thread[t]
                => Nearer(thread'[t], thread[t])]_vars
  <2> SUFFICES ASSUME ~ UNCHANGED vars, NEW u \in Threads,
                      thread[u].pc \notin {"idle", "wait", "clearChunks", "clearDocuments", "done"},
                      thread'[u] # thread[u]
               PROVE  Nearer(thread'[u], thread[u])
    OBVIOUS
  <2>1. thread[u].pc \in Working /\ DaemonInv
    BY <1>1 DEF TypeInv, TypeOK, Frame, PC, Working, InDocument, WorkInv
  <2>2. CASE \E t \in Threads : Pass(t)
    BY <1>1, <2>2, PassNearer
  <2>3. CASE ~ \E t \in Threads : Pass(t)
    BY <1>1, <2>1, <2>3, WorldNearer DEF Next
  <2> QED
    BY <2>2, <2>3
<1> QED
  BY <1>1, TypeInit, TypeStep, WorkInit, WorkStep, PTL DEF Spec, PassesAdvance
=============================================================================
