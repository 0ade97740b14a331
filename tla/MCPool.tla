------------------------------- MODULE MCPool -------------------------------
(***************************************************************************)
(* Values for the constants of Pool that a .cfg cannot write.              *)
(***************************************************************************)
EXTENDS MailboxRefinement, TLC

MCElem == Runs \X (1..Beats)

\* The runs are interchangeable (safety only).
Symmetry == Permutations(Runs)
=============================================================================
