---------------------------- MODULE DocumentIndex ----------------------------
(***************************************************************************)
(* What the document processor promises those who read the memory store:   *)
(* the index as a search sees it, without threads, hashes or row ids.      *)
(*                                                                         *)
(* A document is rewritten by one writer at a time, in one order: its new  *)
(* text is recorded, its chunks go, the chunks of the text recorded come   *)
(* one by one from the first.  A writer may give up anywhere (a crash, an  *)
(* outage); what it leaves stays until the document is recorded again.     *)
(***************************************************************************)
EXTENDS Naturals

CONSTANTS
    Files,      \* the documents
    Text,       \* the texts a document may have
    NChunks,    \* NChunks[c]: how many chunks text c is cut into
    NoText      \* the text of a document that is not there

ASSUME IndexAssumption == NoText \notin Text /\ NChunks \in [Text -> Nat \ {0}]

VARIABLES
    recorded,   \* recorded[f]: the text in the row of document f
    held,       \* held[f]: chunks 1..n of one text, those stored for f
    writing     \* writing[f]: what the writer of f does next, or "no" writer

index == <<recorded, held, writing>>

-----------------------------------------------------------------------------

Nothing == [text |-> NoText, n |-> 0]

Quiet == \A f \in Files : writing[f] = "no"

IndexInit ==
    /\ recorded = [f \in Files |-> NoText]
    /\ held = [f \in Files |-> Nothing]
    /\ writing = [f \in Files |-> "no"]

\* The row is written; the chunks are still those of the version before.
Record(f, c) ==
    /\ Quiet
    /\ recorded' = [recorded EXCEPT ![f] = c]
    /\ writing' = [writing EXCEPT ![f] = "clear"]
    /\ UNCHANGED held

\* Mutant of Clear: the DELETE finds no rows, and the old chunks stay.
ClearNothing(f) ==
    /\ writing[f] = "clear"
    /\ writing' = [writing EXCEPT ![f] = "fill"]
    /\ UNCHANGED <<recorded, held>>

Clear(f) ==
    /\ writing[f] = "clear"
    /\ held' = [held EXCEPT ![f] = Nothing]
    /\ writing' = [writing EXCEPT ![f] = "fill"]
    /\ UNCHANGED recorded

\* One more chunk of the text recorded; after the last one the writer is done.
Add(f) ==
    /\ writing[f] = "fill"
    /\ LET n == held[f].n + 1 IN
        /\ n <= NChunks[recorded[f]]
        /\ held' = [held EXCEPT ![f] = [text |-> recorded[f], n |-> n]]
        /\ writing' = [writing EXCEPT ![f] = IF n = NChunks[recorded[f]] THEN "no" ELSE "fill"]
    /\ UNCHANGED recorded

\* The writer of f is gone.
Abandon(f) ==
    /\ writing[f] # "no"
    /\ writing' = [writing EXCEPT ![f] = "no"]
    /\ UNCHANGED <<recorded, held>>

Rewrite == \E f \in Files : (\E c \in Text : Record(f, c)) \/ Clear(f) \/ Add(f) \/ Abandon(f)

IndexSpec == IndexInit /\ [][Rewrite]_index

-----------------------------------------------------------------------------

IndexTypeOK ==
    /\ recorded \in [Files -> Text \cup {NoText}]
    /\ held \in [Files -> [text : Text \cup {NoText}, n : Nat]]
    /\ writing \in [Files -> {"no", "clear", "fill"}]
=============================================================================
