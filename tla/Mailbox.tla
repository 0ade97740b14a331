------------------------------- MODULE Mailbox -------------------------------
(***************************************************************************)
(* What a MessageQueue promises the programs that share one, without ids,  *)
(* capacity or end marks: a heartbeat goes to one of the readers, and what *)
(* they have read of a writer, all together, is what it published first,   *)
(* with nothing left out in between.                                       *)
(*                                                                         *)
(* It promises nobody that a heartbeat is read at all, and no reader those *)
(* of his own writer.                                                      *)
(***************************************************************************)
EXTENDS Naturals, Sequences

CONSTANTS
    Runs,       \* each has a writer and a reader
    Beats       \* how many heartbeats a writer has

VARIABLES
    sent,       \* sent[w]: how many writer w has published
    received    \* received[r]: what reader r has read, in order

mail == <<sent, received>>

\* Somebody has read heartbeat k of writer w.
Delivered(w, k) == \E r \in Runs : \E i \in DOMAIN received[r] : received[r][i] = <<w, k>>

MailInit ==
    /\ sent = [w \in Runs |-> 0]
    /\ received = [r \in Runs |-> <<>>]

Post(w) ==
    /\ sent[w] < Beats
    /\ sent' = [sent EXCEPT ![w] = @ + 1]
    /\ UNCHANGED received

\* The next heartbeat of w, to any reader.
Deliver(r, w, k) ==
    /\ k \in 1..sent[w]
    /\ ~ Delivered(w, k)
    /\ \A j \in 1..(k - 1) : Delivered(w, j)
    /\ received' = [received EXCEPT ![r] = Append(@, <<w, k>>)]
    /\ UNCHANGED sent

Exchange ==
    \E w \in Runs :
        \/ Post(w)
        \/ \E r \in Runs, k \in 1..Beats : Deliver(r, w, k)

MailSpec == MailInit /\ [][Exchange]_mail
=============================================================================
