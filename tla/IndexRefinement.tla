--------------------------- MODULE IndexRefinement ---------------------------
(***************************************************************************)
(* A daemon alone implements DocumentIndex: the tables and the program     *)
(* counters of its threads, seen as an index that is rewritten by one      *)
(* writer at a time.                                                       *)
(***************************************************************************)
EXTENDS DocumentProcessor

\* The chunk rows of a document as the first n of one text.  Rows that are not
\* that are no value held can have.
HeldIn(rows) ==
    IF rows = NoChunks THEN [text |-> Absent, n |-> 0]
    ELSE IF \E c \in Text, k \in Index : rows = FirstChunks(c, k)
         THEN CHOOSE r \in [text : Text, n : Index] : rows = FirstChunks(r.text, r.n)
         ELSE [text |-> Absent, n |-> MaxChunks]

\* What the threads th are doing to document f.
WritingIn(th, f) ==
    IF \E t \in Threads : th[t].file = f /\ th[t].pc = "delete" THEN "clear"
    ELSE IF \E t \in Threads : th[t].file = f /\ th[t].pc = "embed" THEN "fill"
    ELSE "no"

Abstract == INSTANCE DocumentIndex WITH
    NoText   <- Absent,
    recorded <- [f \in Files |-> documents[f].content],
    held     <- [f \in Files |-> HeldIn(chunks[f])],
    writing  <- [f \in Files |-> WritingIn(thread, f)]

\* With no /process thread and no second process, whatever fails: readers of the
\* tables see an index that one writer at a time rewrites, the row first, then
\* the removal of the chunks, then the chunks of that row's text from the first.
ImplementsIndex == Abstract!IndexSpec
=============================================================================
