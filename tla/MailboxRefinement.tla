-------------------------- MODULE MailboxRefinement --------------------------
(***************************************************************************)
(* The pool, on a queue that is bounded, may be removed under those who    *)
(* use it and found again by a later run, implements Mailbox.              *)
(***************************************************************************)
EXTENDS Pool

Promised == INSTANCE Mailbox

\* Whoever shares the queue, removes it, is killed or leaves messages behind:
\* readers get the heartbeats of a child one by one from its first, each once,
\* none before those published earlier and none skipped.
ImplementsMailbox == Promised!MailSpec
=============================================================================
