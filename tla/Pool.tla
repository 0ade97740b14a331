-------------------------------- MODULE Pool --------------------------------
(***************************************************************************)
(* cmd/pool/main.zig: a program that opens the message queue and forks; the *)
(* child publishes heartbeats and the end mark, the parent reads up to the *)
(* end mark, waits for the child and removes the queue.                    *)
(*                                                                         *)
(* Runs of it in one directory share one queue: at the same time, or one   *)
(* after another when a run did not get to remove it.                      *)
(***************************************************************************)
EXTENDS MessageQueue, FiniteSets

CONSTANTS
    Runs,       \* the runs of the program
    Beats,      \* how many heartbeats a child publishes, 4 in the code
    FaultKinds, \* which of "kill", "fork" (it fails) happen
    MaxFaults   \* bound: how many of them

ASSUME BeatsAssumption == Beats \in Nat \ {0} /\ MaxFaults \in Nat

\* A heartbeat, told from the others by who sent it and when.
ASSUME ElemAssumption == Elem = Runs \X (1..Beats)

VARIABLES
    parent,     \* parent[r]: where the parent of run r is
    child,      \* child[r]: where its child is
    id,         \* id[r]: the queue run r opened
    sent,       \* sent[r]: how many heartbeats the child has published
    received,   \* received[r]: what the reader has returned, in order
    faults,     \* faults so far (bounded by MaxFaults)
    shared      \* history: runs whose queue was not new or not theirs alone

processes == <<parent, child, id, sent, received, faults, shared>>

vars == <<queue, processes>>

-----------------------------------------------------------------------------

Init ==
    /\ QueueInit
    /\ parent = [r \in Runs |-> "init"]
    /\ child = [r \in Runs |-> "none"]
    /\ id = [r \in Runs |-> 0]
    /\ sent = [r \in Runs |-> 0]
    /\ received = [r \in Runs |-> <<>>]
    /\ faults = 0
    /\ shared = {}

OpenQueue(r) ==
    /\ parent[r] = "init"
    /\ Open
    /\ id' = [id EXCEPT ![r] = msqid']
    /\ parent' = [parent EXCEPT ![r] = "fork"]
    /\ shared' = IF msqid = 0 THEN shared
                 ELSE shared \cup {r} \cup {s \in Runs : id[s] = msqid}
    /\ UNCHANGED <<child, sent, received, faults>>

Fork(r) ==
    /\ parent[r] = "fork"
    /\ parent' = [parent EXCEPT ![r] = "read"]
    /\ child' = [child EXCEPT ![r] = "publish"]
    /\ UNCHANGED <<queue, id, sent, received, faults, shared>>

\* `try fork()` fails before the parent has deferred the removal of the queue.
ForkFails(r) ==
    /\ "fork" \in FaultKinds /\ faults < MaxFaults
    /\ faults' = faults + 1
    /\ parent[r] = "fork"
    /\ parent' = [parent EXCEPT ![r] = "dead"]
    /\ UNCHANGED <<queue, child, id, sent, received, shared>>

\* Mutant of Published: the end mark comes one heartbeat early.
PublishedButOne(r) == sent[r] + 1 >= Beats

\* The child has no heartbeat left to publish.
Published(r) == sent[r] = Beats

\* Mutant of Publish: the heartbeats have no end.
PublishOnAndOn(r) ==
    /\ child[r] = "publish"
    /\ Send(id[r], <<r, (sent[r] % Beats) + 1>>)
    /\ sent' = [sent EXCEPT ![r] = @ + 1]
    /\ UNCHANGED <<parent, child, id, received, faults, shared>>

Publish(r) ==
    /\ child[r] = "publish"
    /\ ~ Published(r)
    /\ Send(id[r], <<r, sent[r] + 1>>)
    /\ sent' = [sent EXCEPT ![r] = @ + 1]
    /\ UNCHANGED <<parent, child, id, received, faults, shared>>

Done(r) ==
    /\ child[r] = "publish"
    /\ Published(r)
    /\ Send(id[r], EOQ)
    /\ child' = [child EXCEPT ![r] = "exit"]
    /\ UNCHANGED <<parent, id, sent, received, faults, shared>>

\* publish or done on a removed queue, or one removed while it was blocked:
\* error.EOQ ends the child.
PublishFails(r) ==
    /\ child[r] = "publish"
    /\ ~ Live(id[r])
    /\ child' = [child EXCEPT ![r] = "exit"]
    /\ UNCHANGED <<queue, parent, id, sent, received, faults, shared>>

\* The reader returns the next heartbeat.
Read(r) ==
    /\ parent[r] = "read"
    /\ \E m \in Elem :
         /\ Receive(id[r], m)
         /\ received' = [received EXCEPT ![r] = Append(@, m)]
    /\ UNCHANGED <<parent, child, id, sent, faults, shared>>

\* Mutant of ReadEnd: a reader takes the end mark for a message.
ReadThrough(r) ==
    /\ parent[r] = "read"
    /\ Receive(id[r], EOQ)
    /\ UNCHANGED processes

\* ... or null, for an end mark, whose ever it is.
ReadEnd(r) ==
    /\ parent[r] = "read"
    /\ Receive(id[r], EOQ)
    /\ parent' = [parent EXCEPT ![r] = "wait"]
    /\ UNCHANGED <<child, id, sent, received, faults, shared>>

\* ... or null, for a queue that another parent has removed.
ReadFails(r) ==
    /\ parent[r] = "read"
    /\ ~ Live(id[r])
    /\ parent' = [parent EXCEPT ![r] = "wait"]
    /\ UNCHANGED <<queue, child, id, sent, received, faults, shared>>

\* Mutant of WaitPid: the parent returns without removing the queue.
WaitPidAndReturn(r) ==
    /\ parent[r] = "wait"
    /\ child[r] \in {"exit", "dead"}
    /\ parent' = [parent EXCEPT ![r] = "end"]
    /\ UNCHANGED <<queue, child, id, sent, received, faults, shared>>

WaitPid(r) ==
    /\ parent[r] = "wait"
    /\ child[r] \in {"exit", "dead"}
    /\ parent' = [parent EXCEPT ![r] = "remove"]
    /\ UNCHANGED <<queue, child, id, sent, received, faults, shared>>

\* defer mailbox.deinit()
RemoveQueue(r) ==
    /\ parent[r] = "remove"
    /\ Remove(id[r])
    /\ parent' = [parent EXCEPT ![r] = "end"]
    /\ UNCHANGED <<child, id, sent, received, faults, shared>>

KillParent(r) ==
    /\ "kill" \in FaultKinds /\ faults < MaxFaults
    /\ faults' = faults + 1
    /\ parent[r] \in {"fork", "read", "wait", "remove"}
    /\ parent' = [parent EXCEPT ![r] = "dead"]
    /\ UNCHANGED <<queue, child, id, sent, received, shared>>

KillChild(r) ==
    /\ "kill" \in FaultKinds /\ faults < MaxFaults
    /\ faults' = faults + 1
    /\ child[r] = "publish"
    /\ child' = [child EXCEPT ![r] = "dead"]
    /\ UNCHANGED <<queue, parent, id, sent, received, shared>>

-----------------------------------------------------------------------------

ParentStep(r) ==
    \/ OpenQueue(r) \/ Fork(r) \/ Read(r) \/ ReadEnd(r) \/ ReadFails(r)
    \/ WaitPid(r) \/ RemoveQueue(r)

ChildStep(r) == Publish(r) \/ Done(r) \/ PublishFails(r)

Fault(r) == ForkFails(r) \/ KillParent(r) \/ KillChild(r)

Next == \E r \in Runs : ParentStep(r) \/ ChildStep(r) \/ Fault(r)

Spec == Init /\ [][Next]_vars

\* Processes are scheduled; nobody has to start a run.
FairSpec ==
    /\ Spec
    /\ \A r \in Runs : WF_vars(parent[r] # "init" /\ ParentStep(r)) /\ WF_vars(ChildStep(r))

-----------------------------------------------------------------------------
(* Properties. *)

TypeOK ==
    /\ QueueTypeOK
    /\ parent \in [Runs -> {"init", "fork", "read", "wait", "remove", "end", "dead"}]
    /\ child \in [Runs -> {"none", "publish", "exit", "dead"}]
    /\ id \in [Runs -> 0..lastId]
    /\ sent \in [Runs -> 0..Beats]
    /\ received \in [Runs -> Seq(Elem)]
    /\ faults \in 0..MaxFaults
    /\ shared \subseteq Runs

\* However many runs share the queue, and whoever is killed, no heartbeat is
\* read twice, by one parent or by two, and a parent reads those of each child
\* in the order they were published.
InOrderAndOnce ==
    \A r, s \in Runs : \A i \in DOMAIN received[r], j \in DOMAIN received[s] :
        LET m == received[r][i]
            n == received[s][j]
        IN  /\ m = n => r = s /\ i = j
            /\ r = s /\ i < j /\ m[1] = n[1] => m[2] < n[2]

\* The parent is past its loop.
Finished(r) == parent[r] \in {"wait", "remove", "end"}

\* A run that found no queue and shared it with no other has read every
\* heartbeat of its child, and nothing else, once its loop ends.
SoleRunComplete ==
    \A r \in Runs \ shared :
        Finished(r) => received[r] = [k \in 1..Beats |-> <<r, k>>]

\* A queue outlives every run that opened it only if a parent was killed, or
\* could not fork.
NoQueueLeft ==
    msqid # 0 =>
        \E r \in Runs : id[r] = msqid /\ parent[r] \in {"fork", "read", "wait", "remove", "dead"}

\* Nobody waits for nobody: a parent that reads an empty queue shares it with a
\* child that still publishes, and a child that may have to wait for room with a
\* parent that still reads, unless one of those was killed.
BlockedServed ==
    /\ \A r \in Runs :
         parent[r] = "read" /\ Live(id[r]) /\ messages = <<>> =>
             \E s \in Runs : id[s] = msqid /\ child[s] \in {"publish", "dead"}
    /\ \A s \in Runs :
         child[s] = "publish" /\ Live(id[s]) =>
             \E r \in Runs : id[r] = msqid /\ parent[r] \in {"read", "dead"}

\* Every parent ends unless a child was killed before its end mark, whatever it
\* finds in the queue and whoever takes its messages: there is an end mark for
\* each reader, and a removed queue wakes those that are left.
ParentsEnd ==
    \A r \in Runs :
        parent[r] = "read" ~> \/ parent[r] \in {"end", "dead"}
                              \/ \E s \in Runs : child[s] = "dead"

=============================================================================
