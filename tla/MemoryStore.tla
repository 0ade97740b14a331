----------------------------- MODULE MemoryStore -----------------------------
(***************************************************************************)
(* The two PostgreSQL tables of the memory store, init.sql: `documents`,   *)
(* whose rows are keyed by a UNIQUE file_path and carry a SERIAL id, and   *)
(* `document_chunks`, whose rows refer to a document by that id and go     *)
(* with it (ON DELETE CASCADE).  Each operator is ONE statement run with   *)
(* autocommit on: it is atomic, and nothing binds two of them together.    *)
(*                                                                         *)
(* A text is abstracted to its identity and the number of chunks it is cut *)
(* into; its MD5 is abstracted to the text itself (no two of the texts in  *)
(* play collide).                                                          *)
(***************************************************************************)
EXTENDS Naturals

CONSTANTS
    Files,      \* the paths under DOCS_PATH that end in .md, as positive numbers: their sort order
    Text,       \* the non-blank contents a file may have
    Blank,      \* a content that is empty once stripped
    Absent,     \* "there is no such file", and the hash or content of a local not yet assigned
    NChunks,    \* NChunks[c]: how many chunks chunk_markdown cuts text c into
    MaxChunks   \* the largest of these

ASSUME FilesAssumption == Files \subseteq Nat \ {0}

ASSUME TextAssumption ==
    Text # {} /\ Blank \notin Text /\ Absent \notin Text /\ Blank # Absent

\* chunk_markdown returns at least one chunk for a text that is not blank.
ASSUME ChunksAssumption == MaxChunks \in Nat /\ NChunks \in [Text -> 1..MaxChunks]

VARIABLES
    documents,  \* documents[f]: the row whose file_path is f, or NoRow
    chunks,     \* chunks[f][c][i]: how many rows hold chunk i of text c for the document f
    nextId      \* the next value of documents_id_seq

tables == <<documents, chunks, nextId>>

-----------------------------------------------------------------------------

Index == 1..MaxChunks

NoRow == [id |-> 0, content |-> Absent, hash |-> Absent]

Row == [id : Nat, content : Text \cup {Absent}, hash : Text \cup {Blank, Absent}]

NoChunks == [c \in Text |-> [i \in Index |-> 0]]

\* The rows that hold chunks 1..k of text c, each once, and nothing else.
FirstChunks(c, k) ==
    [d \in Text |-> [i \in Index |-> IF d = c /\ i <= k THEN 1 ELSE 0]]

\* SERIAL ids start at 1.
Indexed(f) == documents[f].id # 0

\* The foreign key: rows can be added under this id only while its document exists.
Refers(f, id) == Indexed(f) /\ documents[f].id = id

-----------------------------------------------------------------------------

TablesInit ==
    /\ documents = [f \in Files |-> NoRow]
    /\ chunks = [f \in Files |-> NoChunks]
    /\ nextId = 1

\* INSERT INTO documents ... ON CONFLICT (file_path) DO UPDATE: an existing row
\* keeps its id.  (The gaps a conflict leaves in the sequence are left out.)
UpsertDocument(f, content, hash) ==
    /\ documents' = [documents EXCEPT ![f] =
            [id |-> IF Indexed(f) THEN documents[f].id ELSE nextId,
             content |-> content, hash |-> hash]]
    /\ nextId' = IF Indexed(f) THEN nextId ELSE nextId + 1
    /\ UNCHANGED chunks

\* Mutant of DeleteChunks: the chunks of the version before stay.
DeleteNoChunks(f, id) == UNCHANGED tables

\* DELETE FROM document_chunks WHERE document_id = id: the rows of f if id is
\* still the id of its document, no row otherwise.
DeleteChunks(f, id) ==
    /\ chunks' = [chunks EXCEPT ![f] = IF Refers(f, id) THEN NoChunks ELSE @]
    /\ UNCHANGED <<documents, nextId>>

\* INSERT INTO document_chunks, when the foreign key holds.  Nothing makes
\* (document_id, chunk_index) unique.
InsertChunkRow(f, id, c, i) ==
    /\ Refers(f, id)
    /\ chunks' = [chunks EXCEPT ![f][c][i] = @ + 1]
    /\ UNCHANGED <<documents, nextId>>

\* DELETE FROM document_chunks
DeleteAllChunks ==
    /\ chunks' = [f \in Files |-> NoChunks]
    /\ UNCHANGED <<documents, nextId>>

\* DELETE FROM documents, with the cascade to the chunks.
DeleteAllDocuments ==
    /\ documents' = [f \in Files |-> NoRow]
    /\ chunks' = [f \in Files |-> NoChunks]
    /\ UNCHANGED nextId

TablesTypeOK ==
    /\ documents \in [Files -> Row]
    /\ chunks \in [Files -> [Text -> [Index -> Nat]]]
    /\ nextId \in Nat \ {0}
=============================================================================
