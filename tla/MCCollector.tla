----------------------------- MODULE MCCollector -----------------------------
(***************************************************************************)
(* The clients of Collector are alike, and all its properties are          *)
(* invariants: one order of them is enough.                                *)
(***************************************************************************)
EXTENDS Collector, TLC

Alike == Permutations(Clients)
=============================================================================
