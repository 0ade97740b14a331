------------------------ MODULE MCDocumentProcessor ------------------------
(***************************************************************************)
(* Values for the constants of DocumentProcessor that a .cfg cannot write. *)
(***************************************************************************)
EXTENDS IndexRefinement, TLC

CONSTANTS short, long

\* One text is a single chunk, the other two.
MCText == {short, long}
MCNChunks == [c \in MCText |-> IF c = short THEN 1 ELSE 2]

\* The /process threads are interchangeable.
Symmetry == Permutations(Triggers)
=============================================================================
