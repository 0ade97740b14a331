----------------------------- MODULE MCSearchAPI -----------------------------
(***************************************************************************)
(* Values for the constants of SearchAPI that a .cfg cannot write.         *)
(***************************************************************************)
EXTENDS SearchAPI

CONSTANTS short, long

\* One text is a single chunk, the other two.
MCText == {short, long}
MCNChunks == [c \in MCText |-> IF c = short THEN 1 ELSE 2]
=============================================================================
