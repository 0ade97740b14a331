---------------------------- MODULE MessageQueue ----------------------------
(***************************************************************************)
(* msgqueue.zig: the System V message queue a program finds under the key  *)
(* of its working directory, ftok(".", 1).  The queue belongs to the       *)
(* kernel: it is created by the first process that asks for it, shared     *)
(* with all that ask later, and stays, with the messages in it, until one  *)
(* of them removes it.  A process that knows the id of a removed queue     *)
(* gets errors from it.                                                    *)
(*                                                                         *)
(* Only one queue can be under the key at a time, so the messages of that  *)
(* one are kept; those of a removed queue are gone.                        *)
(***************************************************************************)
EXTENDS Naturals, Sequences

CONSTANTS
    Elem,       \* the values published
    EOQ,        \* the message of type 2, whose data is undefined
    Capacity    \* how many messages the kernel keeps in one queue

ASSUME CapacityAssumption == Capacity \in Nat \ {0}

ASSUME MarkAssumption == EOQ \notin Elem

VARIABLES
    msqid,      \* the id of the queue under the key, 0 if there is none
    messages,   \* what is in it, oldest first
    lastId      \* the last id given out

queue == <<msqid, messages, lastId>>

QueueInit ==
    /\ msqid = 0
    /\ messages = <<>>
    /\ lastId = 0

\* The queue a process holds the id of is still there.
Live(id) == id # 0 /\ id = msqid

\* init: msgget(key, IPC_CREAT) without IPC_EXCL takes whatever is there, and
\* creates a queue only if nothing is.  The id it returns is msqid'.
Open ==
    \/ msqid # 0 /\ UNCHANGED queue
    \/ /\ msqid = 0
       /\ msqid' = lastId + 1
       /\ lastId' = lastId + 1
       /\ messages' = <<>>

\* deinit: msgctl(IPC_RMID); on a queue already removed it only complains.
Remove(id) ==
    \/ /\ Live(id)
       /\ msqid' = 0
       /\ messages' = <<>>
       /\ UNCHANGED lastId
    \/ ~ Live(id) /\ UNCHANGED queue

\* Mutant of Send: a message that finds the queue full is dropped (IPC_NOWAIT).
SendOrDrop(id, m) ==
    /\ Live(id)
    /\ messages' = IF Len(messages) < Capacity THEN Append(messages, m) ELSE messages
    /\ UNCHANGED <<msqid, lastId>>

\* publish and done: msgsnd blocks while the queue is full.
Send(id, m) ==
    /\ Live(id)
    /\ Len(messages) < Capacity
    /\ messages' = Append(messages, m)
    /\ UNCHANGED <<msqid, lastId>>

\* Mutant of Receive: the message is read and stays.
ReceiveCopy(id, m) ==
    /\ Live(id)
    /\ messages # <<>>
    /\ m = Head(messages)
    /\ UNCHANGED queue

\* next: msgrcv with msgtyp 0 takes the oldest message m, whoever sent it and
\* whatever its type, and blocks while there is none.
Receive(id, m) ==
    /\ Live(id)
    /\ messages # <<>>
    /\ m = Head(messages)
    /\ messages' = Tail(messages)
    /\ UNCHANGED <<msqid, lastId>>

QueueTypeOK ==
    /\ lastId \in Nat
    /\ msqid \in 0..lastId
    /\ messages \in Seq(Elem \cup {EOQ})
    /\ Len(messages) <= Capacity
=============================================================================
