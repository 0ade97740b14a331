------------------------------ MODULE MCChunker ------------------------------
(***************************************************************************)
(* Values for the constants of Chunker: one line of each kind.             *)
(***************************************************************************)
EXTENDS Chunker

MCLine ==
    {[kind |-> "blank", width |-> 1]} \cup {[kind |-> k, width |-> 2] : k \in Kind \ {"blank"}}
=============================================================================
