------------------------------ MODULE PoolProofs ------------------------------
(***************************************************************************)
(* What is proved of Pool for any number of runs, heartbeats and faults    *)
(* and any capacity of the queue.                                          *)
(***************************************************************************)
EXTENDS MailboxRefinement, FiniteSetTheorems, TLAPS

LEMMA OpenTypes ==
    ASSUME QueueTypeOK, Open
    PROVE  QueueTypeOK' /\ lastId <= lastId' /\ msqid' # 0
<1>1. CASE msqid # 0 /\ UNCHANGED queue
  BY <1>1 DEF queue, QueueTypeOK
<1>2. CASE msqid = 0 /\ msqid' = lastId + 1 /\ lastId' = lastId + 1 /\ messages' = <<>>
  BY <1>2, CapacityAssumption DEF QueueTypeOK
<1> QED
  BY <1>1, <1>2 DEF Open

LEMMA SendTypes ==
    ASSUME QueueTypeOK, NEW i, NEW m \in Elem \cup {EOQ}, Send(i, m)
    PROVE  QueueTypeOK' /\ lastId' = lastId
  BY CapacityAssumption DEF QueueTypeOK, Send

LEMMA ReceiveTypes ==
    ASSUME QueueTypeOK, NEW i, NEW m \in Elem \cup {EOQ}, Receive(i, m)
    PROVE  QueueTypeOK' /\ lastId' = lastId
  BY CapacityAssumption DEF QueueTypeOK, Receive

LEMMA RemoveTypes ==
    ASSUME QueueTypeOK, NEW i, Remove(i)
    PROVE  QueueTypeOK' /\ lastId' = lastId
<1>1. CASE msqid' = 0 /\ messages' = <<>> /\ lastId' = lastId
  BY <1>1, CapacityAssumption DEF QueueTypeOK
<1>2. CASE UNCHANGED queue
  BY <1>2 DEF QueueTypeOK, queue
<1> QED
  BY <1>1, <1>2 DEF Remove

\* A process publishes no more than it has, and the ids it holds were given out.
LEMMA TypeInit == Init => TypeOK
  BY CapacityAssumption, BeatsAssumption DEF Init, QueueInit, TypeOK, QueueTypeOK

LEMMA TypeStep == TypeOK /\ [Next]_vars => TypeOK'
<1> SUFFICES ASSUME TypeOK, [Next]_vars PROVE TypeOK'
  OBVIOUS
<1> USE DEF TypeOK
<1>0. Beats \in Nat /\ MaxFaults \in Nat /\ lastId \in Nat
  BY BeatsAssumption DEF QueueTypeOK
<1>1. ASSUME NEW r \in Runs, OpenQueue(r) PROVE TypeOK'
  <2>1. QueueTypeOK' /\ lastId <= lastId'
    BY <1>1, OpenTypes DEF OpenQueue
  <2>2. \A n \in 0..lastId : n \in 0..lastId'
    BY <1>0, <2>1 DEF QueueTypeOK
  <2>3. id' \in [Runs -> 0..lastId']
    BY <1>1, <2>1, <2>2 DEF OpenQueue, QueueTypeOK
  <2> QED
    BY <1>1, <2>1, <2>3 DEF OpenQueue
<1>2. ASSUME NEW r \in Runs, Publish(r) PROVE TypeOK'
  <2>1. sent[r] + 1 \in 1..Beats
    BY <1>0, <1>2 DEF Publish, Published
  <2>2. <<r, sent[r] + 1>> \in Elem
    BY <2>1, ElemAssumption
  <2>3. QueueTypeOK' /\ lastId' = lastId
    BY <1>2, <2>2, SendTypes DEF Publish
  <2> QED
    BY <1>0, <1>2, <2>1, <2>3 DEF Publish
<1>3. ASSUME NEW r \in Runs, Done(r) PROVE TypeOK'
  <2>1. QueueTypeOK' /\ lastId' = lastId
    BY <1>3, SendTypes DEF Done
  <2> QED
    BY <1>3, <2>1 DEF Done
<1>4. ASSUME NEW r \in Runs, Read(r) PROVE TypeOK'
  <2>1. PICK m \in Elem : Receive(id[r], m) /\ received' = [received EXCEPT ![r] = Append(@, m)]
    BY <1>4 DEF Read
  <2>2. QueueTypeOK' /\ lastId' = lastId
    BY <2>1, ReceiveTypes
  <2>3. received' \in [Runs -> Seq(Elem)]
    BY <2>1
  <2> QED
    BY <1>4, <2>2, <2>3 DEF Read
<1>5. ASSUME NEW r \in Runs, ReadEnd(r) PROVE TypeOK'
  <2>1. QueueTypeOK' /\ lastId' = lastId
    BY <1>5, ReceiveTypes DEF ReadEnd
  <2> QED
    BY <1>5, <2>1 DEF ReadEnd
<1>6. ASSUME NEW r \in Runs, RemoveQueue(r) PROVE TypeOK'
  <2>1. QueueTypeOK' /\ lastId' = lastId
    BY <1>6, RemoveTypes DEF RemoveQueue
  <2> QED
    BY <1>6, <2>1 DEF RemoveQueue
<1>7. ASSUME NEW r \in Runs,
             Fork(r) \/ PublishFails(r) \/ ReadFails(r) \/ WaitPid(r) \/ Fault(r)
      PROVE  TypeOK'
  <2>1. QueueTypeOK' /\ lastId' = lastId
    BY <1>7 DEF Fork, PublishFails, ReadFails, WaitPid, Fault, ForkFails, KillParent, KillChild,
       queue, QueueTypeOK
  <2>2. faults' \in 0..MaxFaults
    BY <1>0, <1>7 DEF Fork, PublishFails, ReadFails, WaitPid, Fault, ForkFails, KillParent, KillChild
  <2> QED
    BY <1>7, <2>1, <2>2 DEF Fork, PublishFails, ReadFails, WaitPid, Fault, ForkFails, KillParent,
       KillChild
<1>8. CASE UNCHANGED vars
  BY <1>8 DEF vars, queue, processes, QueueTypeOK
<1> QED
  BY <1>1, <1>2, <1>3, <1>4, <1>5, <1>6, <1>7, <1>8 DEF Next, ParentStep, ChildStep

\* The queue and the locals of every process keep their shape.
THEOREM PoolTypes == Spec => []TypeOK
  BY TypeInit, TypeStep, PTL DEF Spec

-----------------------------------------------------------------------------

LEMMA QueueLeftStep == TypeOK /\ NoQueueLeft /\ [Next]_vars => NoQueueLeft'
<1> SUFFICES ASSUME TypeOK, NoQueueLeft, [Next]_vars, msqid' # 0 PROVE NoQueueLeft'
  BY DEF NoQueueLeft
<1> DEFINE Holds(r) == id[r] = msqid /\ parent[r] \in {"fork", "read", "wait", "remove", "dead"}
<1>0. /\ parent \in [Runs -> {"init", "fork", "read", "wait", "remove", "end", "dead"}]
      /\ id \in [Runs -> 0..lastId]
  BY DEF TypeOK
<1>1. ASSUME NEW r \in Runs, OpenQueue(r) PROVE NoQueueLeft'
  <2>1. id'[r] = msqid' /\ parent'[r] = "fork"
    BY <1>0, <1>1 DEF OpenQueue
  <2> QED
    BY <2>1 DEF NoQueueLeft
<1>2. ASSUME NEW r \in Runs, RemoveQueue(r) PROVE NoQueueLeft'
  <2>1. msqid' = msqid /\ id[r] # msqid
    BY <1>2 DEF RemoveQueue, Remove, Live, queue
  <2>2. PICK s \in Runs : Holds(s)
    BY <2>1 DEF NoQueueLeft
  <2> QED
    BY <1>0, <1>2, <2>1, <2>2 DEF RemoveQueue, NoQueueLeft
<1>3. ASSUME NEW r \in Runs,
             \/ Fork(r) \/ Publish(r) \/ Done(r) \/ PublishFails(r) \/ Read(r) \/ ReadEnd(r)
             \/ ReadFails(r) \/ WaitPid(r) \/ Fault(r)
      PROVE  NoQueueLeft'
  <2>1. msqid' = msqid /\ id' = id
    BY <1>3 DEF Fork, Publish, Done, PublishFails, Read, ReadEnd, ReadFails, WaitPid, Fault,
       ForkFails, KillParent, KillChild, Send, Receive, queue
  <2>2. PICK s \in Runs : Holds(s)
    BY <2>1 DEF NoQueueLeft
  <2>3. parent'[s] \in {"fork", "read", "wait", "remove", "dead"}
    BY <1>0, <1>3, <2>2 DEF Fork, Publish, Done, PublishFails, Read, ReadEnd, ReadFails, WaitPid,
       Fault, ForkFails, KillParent, KillChild
  <2> QED
    BY <2>1, <2>2, <2>3 DEF NoQueueLeft
<1>4. CASE UNCHANGED vars
  BY <1>4 DEF vars, queue, processes, NoQueueLeft
<1> QED
  BY <1>1, <1>2, <1>3, <1>4 DEF Next, ParentStep, ChildStep

\* A queue that is left behind was left by a parent that was killed or could not
\* fork; every other parent removes the queue it opened, or finds it removed.
THEOREM QueuesRemoved == Spec => []NoQueueLeft
<1>1. Init => NoQueueLeft
  BY DEF Init, QueueInit, NoQueueLeft
<1> QED
  BY <1>1, TypeInit, TypeStep, QueueLeftStep, PTL DEF Spec

-----------------------------------------------------------------------------
(* The order of the heartbeats. *)

\* Of one child, m was published before n.
Before(m, n) == m[1] = n[1] => m[2] < n[2]

\* What is in the queue is in order, was published, and comes after all that has
\* been read: a child sends to one queue only.
OrderInv ==
    /\ \A i, j \in DOMAIN messages :
         i < j /\ messages[i] # EOQ /\ messages[j] # EOQ => Before(messages[i], messages[j])
    /\ \A i \in DOMAIN messages : messages[i] # EOQ => messages[i][2] <= sent[messages[i][1]]
    /\ \A r \in Runs : \A i \in DOMAIN received[r] :
         /\ received[r][i][2] <= sent[received[r][i][1]]
         /\ \A j \in DOMAIN messages : messages[j] # EOQ => Before(received[r][i], messages[j])
    /\ InOrderAndOnce

\* Nothing is published or read, and the queue is as it was or empty.
LEMMA OrderStays ==
    ASSUME OrderInv, messages' = messages \/ messages' = <<>>, UNCHANGED <<sent, received>>
    PROVE  OrderInv'
<1>1. InOrderAndOnce'
  BY DEF OrderInv, InOrderAndOnce
<1>2. CASE messages' = messages
  BY <1>1, <1>2 DEF OrderInv
<1>3. CASE messages' = <<>>
  BY <1>1, <1>3 DEF OrderInv
<1> QED
  BY <1>2, <1>3

LEMMA OrderPublish ==
    ASSUME TypeOK, OrderInv, NEW r \in Runs, Publish(r)
    PROVE  OrderInv'
<1> DEFINE m == <<r, sent[r] + 1>>
<1>1. /\ messages \in Seq(Elem \cup {EOQ}) /\ received \in [Runs -> Seq(Elem)]
      /\ sent \in [Runs -> 0..Beats] /\ Beats \in Nat
  BY BeatsAssumption DEF TypeOK, QueueTypeOK
<1>2. messages' = Append(messages, m) /\ sent' = [sent EXCEPT ![r] = @ + 1] /\ received' = received
  BY DEF Publish, Send
<1>3. sent[r] + 1 \in 1..Beats
  BY <1>1 DEF Publish, Published
<1>4. m \in Elem /\ m # EOQ /\ m[1] = r /\ m[2] = sent[r] + 1
  BY <1>3, ElemAssumption, MarkAssumption
<1> HIDE DEF m
<1>5. \A i \in DOMAIN messages' :
        IF i = Len(messages) + 1 THEN messages'[i] = m
        ELSE i \in DOMAIN messages /\ messages'[i] = messages[i]
  BY <1>1, <1>2, <1>4
<1>6. \A s \in Runs : sent'[s] \in Nat /\ sent[s] \in Nat /\ sent[s] <= sent'[s]
  BY <1>1, <1>2
<1>7. \A e \in Elem : e[1] \in Runs /\ e[2] \in Nat
  BY ElemAssumption, BeatsAssumption
<1>8. \A e \in Elem : e[2] <= sent[e[1]] => e[2] <= sent'[e[1]] /\ Before(e, m)
  BY <1>4, <1>6, <1>7 DEF Before
<1>9. \A s \in Runs : \A i \in DOMAIN received[s] : received[s][i] \in Elem
  BY <1>1
<1>10. \A i \in DOMAIN messages : messages[i] # EOQ => messages[i] \in Elem
  BY <1>1
<1>11. m[2] <= sent'[m[1]]
  BY <1>1, <1>2, <1>4
<1>12. \A i \in DOMAIN messages' : i # Len(messages) + 1 => i < Len(messages) + 1
  BY <1>1, <1>5
<1>13. ASSUME NEW i \in DOMAIN messages', NEW j \in DOMAIN messages',
              i < j, messages'[i] # EOQ, messages'[j] # EOQ
       PROVE  Before(messages'[i], messages'[j])
  <2>1. i # Len(messages) + 1 /\ i \in DOMAIN messages /\ messages'[i] = messages[i]
    BY <1>1, <1>2, <1>5, <1>12, <1>13
  <2>2. CASE j = Len(messages) + 1
    BY <1>5, <1>8, <1>10, <1>13, <2>1, <2>2 DEF OrderInv
  <2>3. CASE j # Len(messages) + 1
    BY <1>5, <1>13, <2>1, <2>3 DEF OrderInv
  <2> QED BY <2>2, <2>3
<1>14. \A i \in DOMAIN messages' : messages'[i] # EOQ => messages'[i][2] <= sent'[messages'[i][1]]
  BY <1>5, <1>8, <1>10, <1>11 DEF OrderInv
<1>15. \A s \in Runs : \A i \in DOMAIN received[s] :
         /\ received[s][i][2] <= sent'[received[s][i][1]]
         /\ \A j \in DOMAIN messages' : messages'[j] # EOQ => Before(received[s][i], messages'[j])
  BY <1>5, <1>8, <1>9 DEF OrderInv
<1>16. InOrderAndOnce'
  BY <1>2 DEF OrderInv, InOrderAndOnce
<1> QED
  BY <1>2, <1>13, <1>14, <1>15, <1>16 DEF OrderInv

\* Whoever takes the oldest message, what is left comes after it.
LEMMA OrderReceive ==
    ASSUME TypeOK, OrderInv, NEW r \in Runs, NEW m \in Elem \cup {EOQ}, Receive(id[r], m)
    PROVE  /\ \A i \in DOMAIN messages' : i + 1 \in DOMAIN messages /\ messages'[i] = messages[i + 1]
           /\ 1 \in DOMAIN messages /\ m = messages[1]
           /\ \A i \in DOMAIN messages' : i \in Nat /\ i > 0
  BY DEF TypeOK, QueueTypeOK, Receive

LEMMA OrderRead ==
    ASSUME TypeOK, OrderInv, NEW r \in Runs, Read(r)
    PROVE  OrderInv'
<1>1. /\ messages \in Seq(Elem \cup {EOQ}) /\ received \in [Runs -> Seq(Elem)]
      /\ sent \in [Runs -> 0..Beats] /\ Beats \in Nat
  BY BeatsAssumption DEF TypeOK, QueueTypeOK
<1>2. PICK m \in Elem : Receive(id[r], m) /\ received' = [received EXCEPT ![r] = Append(@, m)]
  BY DEF Read
<1>3. /\ \A i \in DOMAIN messages' : i + 1 \in DOMAIN messages /\ messages'[i] = messages[i + 1]
      /\ 1 \in DOMAIN messages /\ m = messages[1]
      /\ \A i \in DOMAIN messages' : i \in Nat /\ i > 0
  BY <1>2, OrderReceive
<1>4. m # EOQ /\ m[1] \in Runs /\ m[2] \in Nat
  BY ElemAssumption, MarkAssumption, BeatsAssumption
<1>5. m[2] <= sent[m[1]]
  BY <1>3, <1>4 DEF OrderInv
<1>6. \A i \in DOMAIN messages' : messages'[i] # EOQ => Before(m, messages'[i])
  <2> TAKE i \in DOMAIN messages'
  <2>1. i + 1 \in DOMAIN messages /\ 1 < i + 1 /\ messages'[i] = messages[i + 1]
    BY <1>3
  <2> QED BY <1>3, <1>4, <2>1 DEF OrderInv
<1>7. \A s \in Runs : \A i \in DOMAIN received[s] : Before(received[s][i], m)
  BY <1>3, <1>4 DEF OrderInv
<1>8. \A s \in Runs : \A i \in DOMAIN received'[s] :
        IF s = r /\ i = Len(received[r]) + 1 THEN received'[s][i] = m
        ELSE i \in DOMAIN received[s] /\ received'[s][i] = received[s][i]
  BY <1>1, <1>2
<1>9. sent' = sent
  BY DEF Read
<1>10. \A i, j \in DOMAIN messages' :
         i < j /\ messages'[i] # EOQ /\ messages'[j] # EOQ => Before(messages'[i], messages'[j])
  <2> TAKE i, j \in DOMAIN messages'
  <2>1. i < j => i + 1 < j + 1
    BY <1>3
  <2> QED BY <1>3, <2>1 DEF OrderInv
<1>11. \A i \in DOMAIN messages' : messages'[i] # EOQ => messages'[i][2] <= sent[messages'[i][1]]
  BY <1>3 DEF OrderInv
<1>12. ASSUME NEW s \in Runs, NEW i \in DOMAIN received'[s]
       PROVE  /\ received'[s][i][2] <= sent[received'[s][i][1]]
              /\ \A j \in DOMAIN messages' : messages'[j] # EOQ => Before(received'[s][i], messages'[j])
  BY <1>3, <1>5, <1>6, <1>8 DEF OrderInv
<1>13. InOrderAndOnce'
  <2> SUFFICES ASSUME NEW s \in Runs, NEW u \in Runs,
                      NEW i \in DOMAIN received'[s], NEW j \in DOMAIN received'[u]
               PROVE  /\ received'[s][i] = received'[u][j] => s = u /\ i = j
                      /\ s = u /\ i < j /\ received'[s][i][1] = received'[u][j][1]
                           => received'[s][i][2] < received'[u][j][2]
    BY DEF InOrderAndOnce
  <2> DEFINE New(v, k) == v = r /\ k = Len(received[r]) + 1
  <2>0. \A v \in Runs : \A k \in DOMAIN received[v] :
          /\ received[v][k][2] \in Nat
          /\ k \in Nat /\ (v = r => k < Len(received[r]) + 1)
    <3> TAKE v \in Runs
    <3> TAKE k \in DOMAIN received[v]
    <3>1. received[v] \in Seq(Elem) /\ received[v][k] \in Elem
      BY <1>1
    <3>2. k \in 1..Len(received[v]) /\ Len(received[v]) \in Nat
      BY <3>1
    <3>3. \A e \in Elem : e[2] \in Nat
      BY ElemAssumption, BeatsAssumption
    <3> QED BY <3>1, <3>2, <3>3
  <2>1. CASE New(s, i) /\ New(u, j)
    <3>1. s = u /\ i = j /\ i \in Nat
      BY <2>1, <1>1
    <3> QED BY <3>1
  <2>2. CASE New(s, i) /\ ~ New(u, j)
    <3>1. j \in DOMAIN received[u] /\ received'[u][j] = received[u][j] /\ received'[s][i] = m
      BY <1>8, <2>2
    <3>2. Before(received[u][j], m) /\ received[u][j][2] \in Nat
      BY <1>7, <2>0, <3>1
    <3>3. received'[u][j] # m
      BY <1>4, <3>1, <3>2 DEF Before
    <3>4. s = u => ~ (i < j)
      BY <1>1, <2>0, <2>2, <3>1
    <3> QED BY <3>1, <3>3, <3>4
  <2>3. CASE ~ New(s, i) /\ New(u, j)
    <3>1. i \in DOMAIN received[s] /\ received'[s][i] = received[s][i] /\ received'[u][j] = m
      BY <1>8, <2>3
    <3>2. Before(received[s][i], m) /\ received[s][i][2] \in Nat
      BY <1>7, <2>0, <3>1
    <3> QED BY <1>4, <3>1, <3>2 DEF Before
  <2>4. CASE ~ New(s, i) /\ ~ New(u, j)
    BY <1>8, <2>4 DEF OrderInv, InOrderAndOnce
  <2> QED BY <2>1, <2>2, <2>3, <2>4
<1> QED
  BY <1>9, <1>10, <1>11, <1>12, <1>13 DEF OrderInv

\* An end mark is added, or taken.
LEMMA OrderDone ==
    ASSUME TypeOK, OrderInv, NEW r \in Runs, Done(r)
    PROVE  OrderInv'
<1>1. messages' = Append(messages, EOQ) /\ sent' = sent /\ received' = received
  BY DEF Done, Send
<1>2. messages \in Seq(Elem \cup {EOQ})
  BY DEF TypeOK, QueueTypeOK
<1>3. \A i \in DOMAIN messages' :
        messages'[i] # EOQ => i \in DOMAIN messages /\ messages'[i] = messages[i]
  BY <1>1, <1>2
<1>4. InOrderAndOnce'
  BY <1>1 DEF OrderInv, InOrderAndOnce
<1> QED
  BY <1>1, <1>3, <1>4 DEF OrderInv

LEMMA OrderReadEnd ==
    ASSUME TypeOK, OrderInv, NEW r \in Runs, ReadEnd(r)
    PROVE  OrderInv'
<1>1. /\ \A i \in DOMAIN messages' : i + 1 \in DOMAIN messages /\ messages'[i] = messages[i + 1]
      /\ \A i \in DOMAIN messages' : i \in Nat /\ i > 0
  BY OrderReceive DEF ReadEnd
<1>2. sent' = sent /\ received' = received
  BY DEF ReadEnd
<1>3. \A i, j \in DOMAIN messages' : i < j => i + 1 < j + 1
  BY <1>1
<1>4. InOrderAndOnce'
  BY <1>2 DEF OrderInv, InOrderAndOnce
<1> QED
  BY <1>1, <1>2, <1>3, <1>4 DEF OrderInv

LEMMA OrderStep == TypeOK /\ OrderInv /\ [Next]_vars => OrderInv'
<1> SUFFICES ASSUME TypeOK, OrderInv, [Next]_vars PROVE OrderInv'
  OBVIOUS
<1>1. ASSUME NEW r \in Runs,
             \/ OpenQueue(r) \/ Fork(r) \/ PublishFails(r) \/ ReadFails(r) \/ WaitPid(r)
             \/ RemoveQueue(r) \/ Fault(r)
      PROVE  OrderInv'
  <2>1. UNCHANGED <<sent, received>>
    BY <1>1 DEF OpenQueue, Fork, PublishFails, ReadFails, WaitPid, RemoveQueue, Fault, ForkFails,
       KillParent, KillChild
  <2>2. messages' = messages \/ messages' = <<>>
    BY <1>1 DEF OpenQueue, Open, Fork, PublishFails, ReadFails, WaitPid, RemoveQueue, Remove, Fault,
       ForkFails, KillParent, KillChild, queue
  <2> QED BY <2>1, <2>2, OrderStays
<1>2. CASE UNCHANGED vars
  BY <1>2, OrderStays DEF vars, queue, processes
<1> QED
  BY <1>1, <1>2, OrderPublish, OrderRead, OrderDone, OrderReadEnd DEF Next, ParentStep, ChildStep

\* No heartbeat is read twice, by one reader or by two, and none out of order,
\* however many runs share the queue and whoever is killed.
THEOREM OrderKept == Spec => []InOrderAndOnce
<1>1. Init => OrderInv
  BY DEF Init, QueueInit, OrderInv, InOrderAndOnce
<1>2. OrderInv => InOrderAndOnce
  BY DEF OrderInv
<1> QED
  BY <1>1, <1>2, TypeInit, TypeStep, OrderStep, PTL DEF Spec

-----------------------------------------------------------------------------
(* A run that shares its queue with nobody. *)

\* What the child of r has published is what its parent has read, then what is in
\* the queue, then the end mark if the child has ended.
Whole(r) ==
    /\ Len(received[r]) <= sent[r]
    /\ child[r] # "exit" => Len(received[r]) + Len(messages) = sent[r]
    /\ child[r] = "exit" => Len(received[r]) + Len(messages) = sent[r] + 1 /\ sent[r] = Beats
    /\ \A k \in DOMAIN received[r] : received[r][k] = <<r, k>>
    /\ \A k \in DOMAIN messages :
         messages[k] = IF Len(received[r]) + k <= sent[r] THEN <<r, Len(received[r]) + k>> ELSE EOQ

Unstarted(r) == sent[r] = 0 /\ received[r] = <<>> /\ child[r] = "none"

Complete(r) == received[r] = [k \in 1..Beats |-> <<r, k>>]

Sole(r) ==
    /\ id[r] # 0 => \A s \in Runs : id[s] = id[r] => s = r
    /\ parent[r] \in {"fork", "read", "wait", "remove"} => id[r] # 0 /\ msqid = id[r]
    /\ parent[r] \in {"init", "fork"} => Unstarted(r)
    /\ parent[r] = "fork" => messages = <<>>
    /\ parent[r] = "read" => Whole(r)
    /\ Finished(r) => Complete(r)

SoleInv == \A r \in Runs \ shared : Sole(r)

\* A step of another run that leaves the queue of r alone, if r still needs it.
LEMMA SoleStays ==
    ASSUME SoleInv, NEW r \in Runs \ shared, UNCHANGED id,
           parent'[r] = parent[r], child'[r] = child[r], sent'[r] = sent[r],
           received'[r] = received[r],
           parent[r] \in {"fork", "read", "wait", "remove"} => UNCHANGED <<msqid, messages>>
    PROVE  Sole(r)'
<1>1. Sole(r)
  BY DEF SoleInv
<1>2. Unstarted(r) => Unstarted(r)'
  BY DEF Unstarted
<1>3. parent[r] = "read" /\ Whole(r) => Whole(r)'
  BY DEF Whole
<1>4. Complete(r) => Complete(r)'
  BY DEF Complete
<1> QED
  BY <1>1, <1>2, <1>3, <1>4 DEF Sole, Finished

LEMMA SoleOpen ==
    ASSUME TypeOK, SoleInv, NEW s \in Runs, OpenQueue(s), NEW r \in Runs \ shared'
    PROVE  Sole(r)'
<1>0. /\ lastId \in Nat /\ msqid \in 0..lastId
      /\ id \in [Runs -> 0..lastId]
      /\ parent \in [Runs -> {"init", "fork", "read", "wait", "remove", "end", "dead"}]
  BY DEF TypeOK, QueueTypeOK
<1>1. r \notin shared /\ Sole(r)
  BY DEF OpenQueue, SoleInv
<1>2. /\ parent[s] = "init" /\ id' = [id EXCEPT ![s] = msqid']
      /\ parent' = [parent EXCEPT ![s] = "fork"]
      /\ UNCHANGED <<child, sent, received>>
  BY DEF OpenQueue
<1>3. CASE r = s
  <2>1. msqid = 0 /\ msqid' = lastId + 1 /\ messages' = <<>>
    BY <1>3 DEF OpenQueue, Open
  <2>2. \A u \in Runs : id'[u] = id'[r] => u = r
    BY <1>0, <1>2, <1>3, <2>1
  <2>3. id'[r] = msqid' /\ msqid' # 0 /\ parent'[r] = "fork"
    BY <1>0, <1>2, <1>3, <2>1
  <2>4. Unstarted(r)'
    BY <1>1, <1>2, <1>3 DEF Sole, Unstarted
  <2> QED BY <2>1, <2>2, <2>3, <2>4 DEF Sole, Finished
<1>4. CASE r # s
  <2>1. parent'[r] = parent[r] /\ id'[r] = id[r]
    BY <1>0, <1>2, <1>4
  <2>2. msqid # 0 => id[r] # msqid /\ msqid' = msqid
    BY <1>0, <1>4 DEF OpenQueue, Open, queue
  <2>3. id'[s] # id[r] \/ id[r] = 0
    <3>1. CASE msqid = 0
      <4>1. id'[s] = lastId + 1
        BY <1>0, <1>2, <3>1 DEF OpenQueue, Open
      <4> QED BY <1>0, <4>1
    <3>2. CASE msqid # 0
      BY <1>0, <1>2, <2>2, <3>2
    <3> QED BY <3>1, <3>2
  <2>4. id'[r] # 0 => \A u \in Runs : id'[u] = id'[r] => u = r
    BY <1>0, <1>1, <1>2, <2>1, <2>3 DEF Sole
  <2>5. parent[r] \notin {"fork", "read", "wait", "remove"}
    BY <1>0, <1>1, <2>2 DEF Sole
  <2>6. Unstarted(r) => Unstarted(r)'
    BY <1>2 DEF Unstarted
  <2>7. Complete(r) => Complete(r)'
    BY <1>2 DEF Complete
  <2> QED BY <1>1, <2>1, <2>4, <2>5, <2>6, <2>7 DEF Sole, Finished
<1> QED BY <1>3, <1>4

\* Who uses a queue that is there is the only one who holds it, or r does not.
LEMMA SoleHolder ==
    ASSUME SoleInv, NEW r \in Runs \ shared, NEW s \in Runs, s # r, Live(id[s])
    PROVE  parent[r] \notin {"fork", "read", "wait", "remove"}
  BY DEF SoleInv, Sole, Live

\* The lengths when one message is added.
LEMMA OneMore ==
    ASSUME NEW a \in Nat, NEW b \in Nat, NEW c \in Nat, a + b = c
    PROVE  a <= c + 1 /\ a <= c /\ a + (b + 1) = c + 1
  OBVIOUS

LEMMA SolePublish ==
    ASSUME TypeOK, SoleInv, NEW r \in Runs \ shared, Publish(r) \/ Done(r)
    PROVE  Sole(r)'
<1>0. /\ messages \in Seq(Elem \cup {EOQ}) /\ received[r] \in Seq(Elem)
      /\ sent \in [Runs -> 0..Beats] /\ Beats \in Nat /\ sent[r] \in Nat
      /\ child \in [Runs -> {"none", "publish", "exit", "dead"}]
  BY BeatsAssumption DEF TypeOK, QueueTypeOK
<1>1. Sole(r) /\ child[r] = "publish" /\ UNCHANGED <<parent, id, received, msqid>>
  BY DEF SoleInv, Publish, Done, Send
<1>2. parent[r] \notin {"init", "fork"}
  BY <1>1 DEF Sole, Unstarted
<1>3. ASSUME Whole(r) PROVE Whole(r)'
  <2>1. CASE Publish(r)
    <3>1. /\ messages' = Append(messages, <<r, sent[r] + 1>>) /\ sent'[r] = sent[r] + 1
          /\ child' = child
      BY <1>0, <2>1 DEF Publish, Send
    <3>2. Len(received[r]) + Len(messages) = sent[r]
      BY <1>1, <1>3 DEF Whole
    <3>3. /\ Len(messages') = Len(messages) + 1 /\ Len(messages) \in Nat
          /\ Len(received[r]) \in Nat /\ sent[r] \in Nat
      BY <1>0, <3>1
    <3>5. Len(received[r]) <= sent[r] + 1 /\ Len(received[r]) + (Len(messages) + 1) = sent[r] + 1
      <4> DEFINE a == Len(received[r])  b == Len(messages)  c == sent[r]
      <4>1. a \in Nat /\ b \in Nat /\ c \in Nat /\ a + b = c
        BY <3>2, <3>3
      <4> HIDE DEF a, b, c
      <4>2. a <= c + 1 /\ a + (b + 1) = c + 1
        BY <4>1, OneMore
      <4> QED BY <4>2 DEF a, b, c
    <3>4. ASSUME NEW k \in DOMAIN messages'
          PROVE  messages'[k] = <<r, Len(received[r]) + k>> /\ Len(received[r]) + k <= sent'[r]
      <4>1. k \in 1..Len(messages) + 1
        BY <1>0, <3>1
      <4>2. CASE k = Len(messages) + 1
        <5>1. messages'[k] = <<r, sent[r] + 1>>
          BY <1>0, <3>1, <4>2
        <5>2. Len(received[r]) + k = sent[r] + 1
          BY <3>5, <4>2
        <5> QED BY <3>1, <5>1, <5>2
      <4>3. CASE k \in DOMAIN messages
        <5>1. messages'[k] = messages[k] /\ k \in 1..Len(messages)
          BY <1>0, <3>1, <4>3
        <5>2. Len(received[r]) + k <= sent[r]
          BY <1>0, <3>2, <3>3, <5>1
        <5>3. messages[k] = <<r, Len(received[r]) + k>>
          BY <1>3, <4>3, <5>2 DEF Whole
        <5> QED BY <1>0, <3>1, <3>3, <5>1, <5>2, <5>3
      <4> QED BY <1>0, <3>3, <4>1, <4>2, <4>3
    <3>6. child'[r] # "exit"
      BY <1>1, <3>1
    <3>7. \A k \in DOMAIN received'[r] : received'[r][k] = <<r, k>>
      BY <1>1, <1>3 DEF Whole
    <3> QED BY <1>0, <1>1, <3>1, <3>3, <3>4, <3>5, <3>6, <3>7 DEF Whole
  <2>2. CASE Done(r)
    <3>1. /\ messages' = Append(messages, EOQ) /\ sent' = sent /\ child'[r] = "exit"
          /\ sent[r] = Beats
      BY <1>0, <2>2 DEF Done, Send, Published
    <3>2. Len(received[r]) + Len(messages) = sent[r]
      BY <1>1, <1>3 DEF Whole
    <3>3. /\ Len(messages') = Len(messages) + 1 /\ Len(messages) \in Nat
          /\ Len(received[r]) \in Nat /\ sent[r] \in Nat
      BY <1>0, <3>1
    <3>5. Len(received[r]) <= sent[r] + 1 /\ Len(received[r]) + (Len(messages) + 1) = sent[r] + 1
      <4> DEFINE a == Len(received[r])  b == Len(messages)  c == sent[r]
      <4>1. a \in Nat /\ b \in Nat /\ c \in Nat /\ a + b = c
        BY <3>2, <3>3
      <4> HIDE DEF a, b, c
      <4>2. a <= c + 1 /\ a + (b + 1) = c + 1
        BY <4>1, OneMore
      <4> QED BY <4>2 DEF a, b, c
    <3>4. ASSUME NEW k \in DOMAIN messages'
          PROVE  messages'[k] = IF Len(received[r]) + k <= sent[r] THEN <<r, Len(received[r]) + k>> ELSE EOQ
      <4>1. k \in 1..Len(messages) + 1
        BY <1>0, <3>1
      <4>2. CASE k = Len(messages) + 1
        <5>1. messages'[k] = EOQ
          BY <1>0, <3>1, <4>2
        <5>2. Len(received[r]) + k = sent[r] + 1
          BY <3>5, <4>2
        <5> QED BY <1>0, <5>1, <5>2
      <4>3. CASE k \in DOMAIN messages
        <5>1. messages'[k] = messages[k]
          BY <1>0, <3>1, <4>3
        <5> QED BY <1>3, <4>3, <5>1 DEF Whole
      <4> QED BY <1>0, <3>3, <4>1, <4>2, <4>3
    <3>6. Len(received[r]) + Len(messages') = sent'[r] + 1 /\ sent'[r] = Beats
      BY <3>1, <3>3, <3>5
    <3>7. received'[r] = received[r] /\ sent'[r] = sent[r] /\ Len(received[r]) <= sent[r]
      BY <1>1, <1>3, <3>1 DEF Whole
    <3>8. \A k \in DOMAIN received'[r] : received'[r][k] = <<r, k>>
      BY <1>1, <1>3 DEF Whole
    <3> QED BY <3>1, <3>4, <3>6, <3>7, <3>8 DEF Whole
  <2> QED BY <2>1, <2>2
<1>4. Complete(r) => Complete(r)'
  BY <1>1 DEF Complete
<1> QED BY <1>1, <1>2, <1>3, <1>4 DEF Sole, Finished

LEMMA SoleRead ==
    ASSUME TypeOK, SoleInv, NEW r \in Runs \ shared, Read(r) \/ ReadEnd(r)
    PROVE  Sole(r)'
<1>0. /\ messages \in Seq(Elem \cup {EOQ}) /\ received \in [Runs -> Seq(Elem)]
      /\ received[r] \in Seq(Elem)
      /\ sent \in [Runs -> 0..Beats] /\ Beats \in Nat /\ sent[r] \in Nat
      /\ parent \in [Runs -> {"init", "fork", "read", "wait", "remove", "end", "dead"}]
  BY BeatsAssumption DEF TypeOK, QueueTypeOK
<1>1. /\ Sole(r) /\ parent[r] = "read" /\ messages # <<>>
      /\ UNCHANGED <<id, msqid, child, sent>>
  BY DEF SoleInv, Read, ReadEnd, Receive
<1>2. Whole(r)
  BY <1>1 DEF Sole
<1>3. 1 \in DOMAIN messages /\ Len(messages) \in Nat \ {0} /\ Len(received[r]) \in Nat
  BY <1>0, <1>1
<1>4. Head(messages) = IF Len(received[r]) + 1 <= sent[r] THEN <<r, Len(received[r]) + 1>> ELSE EOQ
  BY <1>0, <1>2, <1>3 DEF Whole
<1>5. \A e \in Elem : e # EOQ
  BY MarkAssumption
<1>6. ASSUME Read(r) PROVE Sole(r)'
  <2>1. PICK m \in Elem : Receive(id[r], m) /\ received' = [received EXCEPT ![r] = Append(@, m)]
    BY <1>6 DEF Read
  <2>2. messages' = Tail(messages) /\ m = Head(messages) /\ m # EOQ
    BY <1>5, <2>1 DEF Receive
  <2>3. Len(received[r]) + 1 <= sent[r] /\ m = <<r, Len(received[r]) + 1>>
    BY <1>4, <2>2
  <2>4. received'[r] = Append(received[r], m) /\ Len(received'[r]) = Len(received[r]) + 1
    BY <1>0, <2>1
  <2>5. /\ Len(messages') = Len(messages) - 1
        /\ \A k \in DOMAIN messages' : k \in Nat /\ k + 1 \in DOMAIN messages /\ messages'[k] = messages[k + 1]
    BY <1>0, <1>1, <2>2
  <2>6. \A k \in DOMAIN received'[r] : received'[r][k] = <<r, k>>
    <3> TAKE k \in DOMAIN received'[r]
    <3>1. k = Len(received[r]) + 1 \/ k \in DOMAIN received[r]
      BY <1>0, <2>4
    <3>2. CASE k = Len(received[r]) + 1
      BY <1>0, <2>3, <2>4, <3>2
    <3>3. CASE k \in DOMAIN received[r]
      <4>1. received'[r][k] = received[r][k]
        BY <1>0, <2>4, <3>3
      <4> QED BY <1>2, <3>3, <4>1 DEF Whole
    <3> QED BY <3>1, <3>2, <3>3
  <2>7. \A k \in DOMAIN messages' :
          messages'[k] = IF Len(received'[r]) + k <= sent[r] THEN <<r, Len(received'[r]) + k>> ELSE EOQ
    <3> TAKE k \in DOMAIN messages'
    <3>1. Len(received'[r]) + k = Len(received[r]) + (k + 1)
      <4> DEFINE a == Len(received[r])
      <4>1. a \in Nat /\ k \in Nat /\ Len(received'[r]) = a + 1
        BY <1>3, <2>4, <2>5
      <4> HIDE DEF a
      <4>2. (a + 1) + k = a + (k + 1)
        BY <4>1
      <4> QED BY <4>1, <4>2 DEF a
    <3>2. messages[k + 1] = IF Len(received[r]) + (k + 1) <= sent[r]
                            THEN <<r, Len(received[r]) + (k + 1)>> ELSE EOQ
      BY <1>2, <2>5 DEF Whole
    <3> QED BY <2>5, <3>1, <3>2
  <2>8. Len(received'[r]) + Len(messages') = Len(received[r]) + Len(messages)
    BY <1>3, <2>4, <2>5
  <2>9. Whole(r)'
    BY <1>1, <1>2, <2>3, <2>4, <2>6, <2>7, <2>8 DEF Whole
  <2> QED BY <1>1, <1>6, <2>9 DEF Read, Sole, Finished
<1>7. ASSUME ReadEnd(r) PROVE Sole(r)'
  <2>1. Head(messages) = EOQ /\ received' = received /\ parent' = [parent EXCEPT ![r] = "wait"]
    BY <1>7 DEF ReadEnd, Receive
  <2>2. ~ (Len(received[r]) + 1 <= sent[r])
    <3>1. Len(received[r]) + 1 <= sent[r] => <<r, Len(received[r]) + 1>> \in Elem
      BY <1>0, <1>3, ElemAssumption
    <3> QED BY <1>4, <1>5, <2>1, <3>1
  <2>3. Len(received[r]) = sent[r] /\ sent[r] = Beats
    BY <1>0, <1>2, <1>3, <2>2 DEF Whole
  <2>4. received[r] = [k \in 1..Beats |-> <<r, k>>]
    <3>1. DOMAIN received[r] = 1..Beats /\ received[r] = [k \in DOMAIN received[r] |-> received[r][k]]
      BY <1>0, <2>3
    <3> QED BY <1>2, <3>1 DEF Whole
  <2>5. parent'[r] = "wait"
    BY <1>0, <2>1
  <2> QED BY <1>1, <2>1, <2>4, <2>5 DEF Sole, Finished, Complete
<1> QED BY <1>6, <1>7

LEMMA SoleOwn ==
    ASSUME TypeOK, SoleInv, NEW r \in Runs \ shared,
           Fork(r) \/ PublishFails(r) \/ ReadFails(r) \/ WaitPid(r) \/ RemoveQueue(r) \/ Fault(r)
    PROVE  Sole(r)'
<1>0. /\ parent \in [Runs -> {"init", "fork", "read", "wait", "remove", "end", "dead"}]
      /\ child \in [Runs -> {"none", "publish", "exit", "dead"}]
      /\ Beats \in Nat
  BY BeatsAssumption DEF TypeOK
<1>1. Sole(r) /\ UNCHANGED <<id, sent, received>>
  BY DEF SoleInv, Fork, PublishFails, ReadFails, WaitPid, RemoveQueue, Fault, ForkFails, KillParent,
     KillChild
<1>2. Complete(r) => Complete(r)'
  BY <1>1 DEF Complete
<1>3. CASE Fork(r)
  <2>1. /\ parent'[r] = "read" /\ child'[r] = "publish" /\ UNCHANGED <<msqid, messages>>
        /\ parent[r] = "fork"
    BY <1>0, <1>3 DEF Fork, queue
  <2>2. Whole(r)'
    BY <1>1, <2>1 DEF Sole, Unstarted, Whole
  <2> QED BY <1>1, <2>1, <2>2 DEF Sole, Finished
<1>4. CASE PublishFails(r)
  <2>1. parent[r] \in {"end", "dead"} /\ parent' = parent
    BY <1>0, <1>1, <1>4 DEF PublishFails, Sole, Live, Unstarted
  <2> QED BY <1>1, <1>2, <2>1 DEF Sole, Finished
<1>5. CASE ReadFails(r)
  BY <1>1, <1>5 DEF ReadFails, Sole, Live
<1>6. CASE WaitPid(r)
  <2>1. parent[r] = "wait" /\ parent'[r] = "remove" /\ UNCHANGED msqid
    BY <1>0, <1>6 DEF WaitPid, queue
  <2> QED BY <1>1, <1>2, <2>1 DEF Sole, Finished
<1>7. CASE RemoveQueue(r)
  <2>1. parent[r] = "remove" /\ parent'[r] = "end"
    BY <1>0, <1>7 DEF RemoveQueue
  <2> QED BY <1>1, <1>2, <2>1 DEF Sole, Finished
<1>8. CASE ForkFails(r) \/ KillParent(r)
  <2>1. parent'[r] = "dead"
    BY <1>0, <1>8 DEF ForkFails, KillParent
  <2> QED BY <1>1, <2>1 DEF Sole, Finished
<1>9. CASE KillChild(r)
  <2>1. /\ parent' = parent /\ UNCHANGED <<msqid, messages>>
        /\ child[r] = "publish" /\ child'[r] = "dead"
    BY <1>0, <1>9 DEF KillChild, queue
  <2>2. Whole(r) => Whole(r)'
    BY <1>1, <2>1 DEF Whole
  <2>3. ~ Unstarted(r)
    BY <2>1 DEF Unstarted
  <2> QED BY <1>1, <1>2, <2>1, <2>2, <2>3 DEF Sole, Finished
<1> QED
  BY <1>3, <1>4, <1>5, <1>6, <1>7, <1>8, <1>9 DEF Fault

LEMMA SoleStep == TypeOK /\ SoleInv /\ [Next]_vars => SoleInv'
<1> SUFFICES ASSUME TypeOK, SoleInv, [Next]_vars, NEW r \in Runs \ shared' PROVE Sole(r)'
  BY DEF SoleInv
<1>1. ASSUME NEW s \in Runs, OpenQueue(s) PROVE Sole(r)'
  BY <1>1, SoleOpen
<1>2. ASSUME NEW s \in Runs,
             \/ Fork(s) \/ Publish(s) \/ Done(s) \/ PublishFails(s) \/ Read(s) \/ ReadEnd(s)
             \/ ReadFails(s) \/ WaitPid(s) \/ RemoveQueue(s) \/ Fault(s)
      PROVE  Sole(r)'
  <2>1. shared' = shared /\ UNCHANGED id
    BY <1>2 DEF Fork, Publish, Done, PublishFails, Read, ReadEnd, ReadFails, WaitPid, RemoveQueue,
       Fault, ForkFails, KillParent, KillChild
  <2>2. CASE s = r
    BY <1>2, <2>1, <2>2, SolePublish, SoleRead, SoleOwn
  <2>3. CASE s # r
    <3>1. /\ parent'[r] = parent[r] /\ child'[r] = child[r] /\ sent'[r] = sent[r]
          /\ received'[r] = received[r]
      BY <1>2, <2>3 DEF TypeOK, Fork, Publish, Done, PublishFails, Read, ReadEnd, ReadFails, WaitPid,
         RemoveQueue, Fault, ForkFails, KillParent, KillChild
    <3>2. UNCHANGED <<msqid, messages>> \/ Live(id[s])
      BY <1>2 DEF Fork, Publish, Done, PublishFails, Read, ReadEnd, ReadFails, WaitPid,
         RemoveQueue, Remove, Fault, ForkFails, KillParent, KillChild, Send, Receive, queue
    <3>3. parent[r] \in {"fork", "read", "wait", "remove"} => UNCHANGED <<msqid, messages>>
      BY <2>1, <2>3, <3>2, SoleHolder
    <3> QED BY <2>1, <3>1, <3>3, SoleStays
  <2> QED BY <2>2, <2>3
<1>3. CASE UNCHANGED vars
  BY <1>3, SoleStays DEF vars, queue, processes
<1> QED
  BY <1>1, <1>2, <1>3 DEF Next, ParentStep, ChildStep

\* A run that found no queue, and whose queue nobody else found, has read every
\* heartbeat of its child, and no other, when its loop ends.
THEOREM SoleRunsComplete == Spec => []SoleRunComplete
<1>1. Init => SoleInv
  BY DEF Init, SoleInv, Sole, Unstarted, Finished
<1>2. SoleInv => SoleRunComplete
  BY DEF SoleInv, Sole, SoleRunComplete, Complete
<1> QED
  BY <1>1, <1>2, TypeInit, TypeStep, SoleStep, PTL DEF Spec

-----------------------------------------------------------------------------
(* The pool implements Mailbox. *)

\* Heartbeat j of w has been read, or is in the queue before place i.
ReadOrBefore(w, j, i) ==
    \/ Promised!Delivered(w, j)
    \/ \E h \in DOMAIN messages : h < i /\ messages[h] = <<w, j>>

\* What was published before a heartbeat in the queue has been read or comes
\* before it; and nothing is lost of a child whose queue is there, as long as it
\* publishes.
GapInv ==
    /\ \A i \in DOMAIN messages :
         messages[i] # EOQ =>
             \A j \in 1..(messages[i][2] - 1) : ReadOrBefore(messages[i][1], j, i)
    /\ \A w \in Runs :
         child[w] = "publish" /\ Live(id[w]) =>
             \A j \in 1..sent[w] : ReadOrBefore(w, j, Len(messages) + 1)
    /\ \A w \in Runs : parent[w] \in {"init", "fork"} => child[w] = "none"
    /\ \A w \in Runs : child[w] = "none" => sent[w] = 0

\* Nothing is published or read.
LEMMA GapStays ==
    ASSUME TypeOK, GapInv, UNCHANGED <<sent, received>>,
           messages' = messages \/ messages' = <<>>,
           \A w \in Runs :
             /\ parent'[w] \in {"init", "fork"} => child'[w] = "none"
             /\ child'[w] = "none" => sent[w] = 0
             /\ child'[w] = "publish" /\ Live(id[w])' =>
                  \/ sent[w] = 0
                  \/ child[w] = "publish" /\ Live(id[w]) /\ messages' = messages
    PROVE  GapInv'
<1>1. messages' = messages =>
        \A w, j, i : ReadOrBefore(w, j, i)' <=> ReadOrBefore(w, j, i)
  BY DEF ReadOrBefore, Promised!Delivered
<1>2. ASSUME NEW i \in DOMAIN messages', messages'[i] # EOQ,
             NEW j \in 1..(messages'[i][2] - 1)
      PROVE  ReadOrBefore(messages[i][1], j, i)'
  BY <1>1, <1>2 DEF GapInv
<1>3. ASSUME NEW w \in Runs, child'[w] = "publish", Live(id[w])', NEW j \in 1..sent'[w]
      PROVE  ReadOrBefore(w, j, Len(messages) + 1)'
  <2>1. sent[w] # 0
    BY <1>3
  <2>2. child[w] = "publish" /\ Live(id[w]) /\ messages' = messages
    BY <1>3, <2>1
  <2>3. ReadOrBefore(w, j, Len(messages) + 1)
    BY <1>3, <2>2 DEF GapInv
  <2> QED
    BY <1>1, <2>2, <2>3
<1> QED
  BY <1>2, <1>3 DEF GapInv

\* A message joins the queue: what was read, or in the queue before a place, is.
LEMMA GapAppend ==
    ASSUME TypeOK, NEW m, messages' = Append(messages, m), received' = received
    PROVE  /\ \A w, j, i : ReadOrBefore(w, j, i) => ReadOrBefore(w, j, i)'
           /\ \A i \in DOMAIN messages' :
                IF i = Len(messages) + 1 THEN messages'[i] = m
                ELSE i \in DOMAIN messages /\ messages'[i] = messages[i]
           /\ Len(messages') = Len(messages) + 1
           /\ Len(messages) + 1 \in DOMAIN messages'
           /\ Len(messages) \in Nat
<1>1. messages \in Seq(Elem \cup {EOQ})
  BY DEF TypeOK, QueueTypeOK
<1>2. /\ DOMAIN messages \subseteq DOMAIN messages'
      /\ \A i \in DOMAIN messages : messages'[i] = messages[i]
  BY <1>1
<1>3. \A w, j : Promised!Delivered(w, j)' <=> Promised!Delivered(w, j)
  BY DEF Promised!Delivered
<1>4. \A w, j, i : ReadOrBefore(w, j, i) => ReadOrBefore(w, j, i)'
  BY <1>2, <1>3 DEF ReadOrBefore
<1> QED
  BY <1>1, <1>4

LEMMA GapPublish ==
    ASSUME TypeOK, GapInv, NEW r \in Runs, Publish(r)
    PROVE  GapInv'
<1> DEFINE m == <<r, sent[r] + 1>>
<1>0. PICK p : p = Len(messages) + 1
  OBVIOUS
<1>1. /\ messages' = Append(messages, m) /\ sent' = [sent EXCEPT ![r] = @ + 1]
      /\ received' = received /\ UNCHANGED <<parent, child, id, msqid>>
      /\ child[r] = "publish" /\ Live(id[r])
  BY DEF Publish, Send
<1>2. /\ sent \in [Runs -> 0..Beats] /\ Beats \in Nat
      /\ messages \in Seq(Elem \cup {EOQ})
  BY BeatsAssumption DEF TypeOK, QueueTypeOK
<1>3. m[1] = r /\ m[2] = sent[r] + 1 /\ sent[r] \in Nat
  BY <1>2
<1> HIDE DEF m
<1>4. /\ \A w, j, i : ReadOrBefore(w, j, i) => ReadOrBefore(w, j, i)'
      /\ \A i \in DOMAIN messages' :
           IF i = Len(messages) + 1 THEN messages'[i] = m
           ELSE i \in DOMAIN messages /\ messages'[i] = messages[i]
      /\ Len(messages') = Len(messages) + 1
      /\ Len(messages) + 1 \in DOMAIN messages'
      /\ Len(messages) \in Nat
  BY <1>1, GapAppend
<1>5. \A j \in 1..sent[r] : ReadOrBefore(r, j, p)'
  BY <1>1, <1>4, <1>0 DEF GapInv
<1>6. ASSUME NEW i \in DOMAIN messages', messages'[i] # EOQ,
             NEW j \in 1..(messages'[i][2] - 1)
      PROVE  ReadOrBefore(messages[i][1], j, i)'
  <2>1. CASE i = p
    <3>1. messages'[i][1] = r /\ messages'[i][2] = sent[r] + 1
      BY <1>3, <1>4, <1>0, <2>1
    <3>2. j \in 1..sent[r]
      BY <1>3, <1>6, <3>1
    <3>3. ReadOrBefore(r, j, i)'
      BY <1>5, <2>1, <3>2
    <3> QED
      BY <3>1, <3>3
  <2>2. CASE i # p
    <3>1. i \in DOMAIN messages /\ messages'[i] = messages[i]
      BY <1>4, <1>0, <2>2
    <3>2. ReadOrBefore(messages[i][1], j, i)
      BY <1>6, <3>1 DEF GapInv
    <3> QED
      BY <1>4, <3>1, <3>2
  <2> QED
    BY <2>1, <2>2
<1>7. ASSUME NEW w \in Runs, child'[w] = "publish", Live(id[w])', NEW j \in 1..sent'[w]
      PROVE  ReadOrBefore(w, j, Len(messages) + 1)'
  <2>1. ASSUME NEW n \in Nat, ReadOrBefore(w, n, Len(messages) + 1)
        PROVE  ReadOrBefore(w, n, Len(messages) + 1)'
    <3>1. \A h \in DOMAIN messages' : h < Len(messages) + 1 => h < Len(messages') + 1
      BY <1>1, <1>2, <1>4
    <3>2. \A h \in DOMAIN messages : h \in DOMAIN messages' /\ messages'[h] = messages[h]
      BY <1>1, <1>2
    <3>3. Promised!Delivered(w, n)' <=> Promised!Delivered(w, n)
      BY <1>1 DEF Promised!Delivered
    <3> QED
      BY <2>1, <3>1, <3>2, <3>3 DEF ReadOrBefore
  <2>2. CASE j \in 1..sent[w]
    <3>1. child[w] = "publish" /\ Live(id[w])
      BY <1>1, <1>7 DEF Live
    <3>2. j \in Nat /\ ReadOrBefore(w, j, Len(messages) + 1)
      BY <2>2, <3>1 DEF GapInv
    <3> QED
      BY <2>1, <3>2
  <2>3. CASE j \notin 1..sent[w]
    <3>1. w = r /\ j = sent[r] + 1
      BY <1>1, <1>2, <1>7, <2>3
    <3>2. messages'[Len(messages) + 1] = <<w, j>>
      BY <1>4, <3>1 DEF m
    <3>3. Len(messages) + 1 < Len(messages') + 1
      BY <1>4
    <3> QED
      BY <1>4, <3>2, <3>3 DEF ReadOrBefore
  <2> QED
    BY <2>2, <2>3
<1>8. \A w \in Runs : child'[w] = "none" => sent'[w] = 0
  BY <1>1, <1>2 DEF GapInv
<1>9. \A w \in Runs : parent'[w] \in {"init", "fork"} => child'[w] = "none"
  BY <1>1 DEF GapInv
<1> QED
  BY <1>6, <1>7, <1>8, <1>9 DEF GapInv

LEMMA GapDone ==
    ASSUME TypeOK, GapInv, NEW r \in Runs, Done(r)
    PROVE  GapInv'
<1>1. /\ messages' = Append(messages, EOQ) /\ UNCHANGED <<sent, received, parent, id, msqid>>
      /\ child' = [child EXCEPT ![r] = "exit"]
      /\ child \in [Runs -> {"none", "publish", "exit", "dead"}]
  BY DEF Done, Send, TypeOK
<1>2. /\ \A w, j, i : ReadOrBefore(w, j, i) => ReadOrBefore(w, j, i)'
      /\ \A i \in DOMAIN messages' :
           IF i = Len(messages) + 1 THEN messages'[i] = EOQ
           ELSE i \in DOMAIN messages /\ messages'[i] = messages[i]
      /\ Len(messages') = Len(messages) + 1
      /\ Len(messages) \in Nat
  BY <1>1, GapAppend
<1>3. ASSUME NEW i \in DOMAIN messages', messages'[i] # EOQ,
             NEW j \in 1..(messages'[i][2] - 1)
      PROVE  ReadOrBefore(messages[i][1], j, i)'
  <2>1. i \in DOMAIN messages /\ messages'[i] = messages[i]
    BY <1>2, <1>3
  <2>2. ReadOrBefore(messages[i][1], j, i)
    BY <1>3, <2>1 DEF GapInv
  <2> QED
    BY <1>2, <2>1, <2>2
<1>4. ASSUME NEW w \in Runs, child'[w] = "publish", Live(id[w])', NEW j \in 1..sent'[w]
      PROVE  ReadOrBefore(w, j, Len(messages) + 1)'
  <2>1. child[w] = "publish" /\ Live(id[w]) /\ j \in 1..sent[w]
    BY <1>1, <1>4 DEF Live
  <2>2. ReadOrBefore(w, j, Len(messages) + 1)
    BY <2>1 DEF GapInv
  <2>3. /\ Promised!Delivered(w, j)' <=> Promised!Delivered(w, j)
        /\ \A h \in DOMAIN messages : h \in DOMAIN messages' /\ messages'[h] = messages[h]
        /\ \A h \in DOMAIN messages : h < Len(messages') + 1
    BY <1>1 DEF Promised!Delivered, TypeOK, QueueTypeOK
  <2> QED
    BY <2>2, <2>3 DEF ReadOrBefore
<1>5. \A w \in Runs : /\ child'[w] = "none" => sent'[w] = 0
                      /\ parent'[w] \in {"init", "fork"} => child'[w] = "none"
  BY <1>1 DEF GapInv, Done
<1> QED
  BY <1>3, <1>4, <1>5 DEF GapInv

\* The oldest message leaves the queue, and is read if it is a heartbeat.
LEMMA GapTaken ==
    ASSUME TypeOK, GapInv, NEW r \in Runs, NEW m \in Elem \cup {EOQ}, Receive(id[r], m),
           UNCHANGED <<child, id, sent>>,
           \/ m = EOQ /\ received' = received /\ parent' = [parent EXCEPT ![r] = "wait"]
           \/ /\ m \in Elem
              /\ received' = [received EXCEPT ![r] = Append(@, m)]
              /\ parent' = parent
    PROVE  GapInv'
<1>1. /\ messages \in Seq(Elem \cup {EOQ}) /\ received \in [Runs -> Seq(Elem)]
      /\ messages # <<>> /\ messages' = Tail(messages) /\ m = messages[1] /\ msqid' = msqid
      /\ parent \in [Runs -> {"init", "fork", "read", "wait", "remove", "end", "dead"}]
  BY DEF TypeOK, QueueTypeOK, Receive
<1>2. /\ \A i \in DOMAIN messages' : /\ i \in Nat /\ i + 1 \in DOMAIN messages
                                     /\ messages'[i] = messages[i + 1]
      /\ \A i \in DOMAIN messages : /\ i \in Nat
                                    /\ i # 1 => /\ i - 1 \in DOMAIN messages'
                                                /\ messages'[i - 1] = messages[i]
      /\ Len(messages') + 1 = Len(messages) /\ Len(messages) \in Nat
  BY <1>1
<1>3. ASSUME NEW w, NEW j, Promised!Delivered(w, j) PROVE Promised!Delivered(w, j)'
  <2>0. PICK s \in Runs : \E i \in DOMAIN received[s] : received[s][i] = <<w, j>>
    BY <1>3 DEF Promised!Delivered
  <2>1. PICK i \in DOMAIN received[s] : received[s][i] = <<w, j>>
    BY <2>0
  <2>2. received[s] \in Seq(Elem) /\ received[r] \in Seq(Elem)
    BY <1>1
  <2>3. \/ received'[s] = received[s]
        \/ \E e \in Elem : received'[s] = Append(received[s], e)
    BY <1>1
  <2>4. i \in DOMAIN received'[s] /\ received'[s][i] = <<w, j>>
    BY <2>1, <2>2, <2>3
  <2> QED
    BY <2>4 DEF Promised!Delivered
<1>4. ASSUME NEW w, NEW j, m = <<w, j>>, m # EOQ PROVE Promised!Delivered(w, j)'
  <2>1. received[r] \in Seq(Elem) /\ m \in Elem /\ received' = [received EXCEPT ![r] = Append(@, m)]
    BY <1>1, <1>4
  <2>2. received'[r] = Append(received[r], m)
    BY <1>1, <2>1
  <2>3. Len(received[r]) + 1 \in DOMAIN received'[r] /\ received'[r][Len(received[r]) + 1] = m
    BY <2>1, <2>2
  <2> QED
    BY <1>4, <2>3 DEF Promised!Delivered
<1>5. ASSUME NEW w \in Runs, NEW j \in Nat \ {0}, j <= Beats,
             NEW i \in Nat, ReadOrBefore(w, j, i + 1)
      PROVE  ReadOrBefore(w, j, i)'
  <2>1. CASE Promised!Delivered(w, j)
    BY <1>3, <2>1 DEF ReadOrBefore
  <2>2. ASSUME NEW h \in DOMAIN messages, h < i + 1, messages[h] = <<w, j>>
        PROVE  ReadOrBefore(w, j, i)'
    <3>1. CASE h = 1
      <4>1. m = <<w, j>> /\ m # EOQ
        BY <1>1, <1>5, <2>2, <3>1, ElemAssumption, MarkAssumption, BeatsAssumption
      <4> QED
        BY <1>4, <4>1 DEF ReadOrBefore
    <3>2. CASE h # 1
      <4>1. h - 1 \in DOMAIN messages' /\ messages'[h - 1] = <<w, j>> /\ h - 1 < i
        BY <1>2, <2>2, <3>2
      <4> QED
        BY <4>1 DEF ReadOrBefore
    <3> QED
      BY <3>1, <3>2
  <2> QED
    BY <1>5, <2>1, <2>2 DEF ReadOrBefore
<1>6. ASSUME NEW i \in DOMAIN messages', messages'[i] # EOQ,
             NEW j \in 1..(messages'[i][2] - 1)
      PROVE  ReadOrBefore(messages[i][1], j, i)'
  <2>1. i \in Nat /\ i + 1 \in DOMAIN messages /\ messages'[i] = messages[i + 1]
    BY <1>2
  <2>2. messages[i + 1] \in Elem
    BY <1>1, <1>6, <2>1
  <2>3. /\ messages[i + 1][1] \in Runs /\ messages[i + 1][2] \in 1..Beats
        /\ j \in Nat \ {0} /\ j <= Beats
    BY <1>6, <2>1, <2>2, ElemAssumption, BeatsAssumption
  <2>4. ReadOrBefore(messages[i + 1][1], j, i + 1)
    BY <1>6, <2>1 DEF GapInv
  <2>5. PICK w \in Runs : w = messages[i + 1][1]
    BY <2>3
  <2>6. ReadOrBefore(w, j, i)'
    BY <1>5, <2>1, <2>3, <2>4, <2>5
  <2> QED
    BY <2>1, <2>5, <2>6
<1>7. ASSUME NEW w \in Runs, child'[w] = "publish", Live(id[w])', NEW j \in 1..sent'[w]
      PROVE  ReadOrBefore(w, j, Len(messages) + 1)'
  <2>1. child[w] = "publish" /\ Live(id[w]) /\ j \in 1..sent[w]
    BY <1>1, <1>7 DEF Live
  <2>2. ReadOrBefore(w, j, Len(messages) + 1)
    BY <2>1 DEF GapInv
  <2>3. j \in Nat \ {0} /\ j <= Beats
    BY <2>1, BeatsAssumption DEF TypeOK
  <2>4. PICK n \in Nat : n = Len(messages)
    BY <1>2
  <2>5. ReadOrBefore(w, j, n)'
    BY <1>5, <2>2, <2>3, <2>4
  <2> QED
    BY <1>2, <2>4, <2>5
<1>8. \A w \in Runs : /\ child'[w] = "none" => sent'[w] = 0
                      /\ parent'[w] \in {"init", "fork"} => child'[w] = "none"
  BY <1>1 DEF GapInv
<1> QED
  BY <1>6, <1>7, <1>8 DEF GapInv

LEMMA GapStep == TypeOK /\ GapInv /\ [Next]_vars => GapInv'
<1> SUFFICES ASSUME TypeOK, GapInv, [Next]_vars PROVE GapInv'
  OBVIOUS
<1>0. /\ parent \in [Runs -> {"init", "fork", "read", "wait", "remove", "end", "dead"}]
      /\ child \in [Runs -> {"none", "publish", "exit", "dead"}]
      /\ id \in [Runs -> 0..lastId] /\ lastId \in Nat
      /\ \A w \in Runs : /\ parent[w] \in {"init", "fork"} => child[w] = "none"
                         /\ child[w] = "none" => sent[w] = 0
  BY DEF TypeOK, QueueTypeOK, GapInv
<1>1. ASSUME NEW r \in Runs, OpenQueue(r) PROVE GapInv'
  <2>1. /\ UNCHANGED <<sent, received, child>> /\ parent[r] = "init"
        /\ parent' = [parent EXCEPT ![r] = "fork"] /\ id' = [id EXCEPT ![r] = msqid']
    BY <1>1 DEF OpenQueue
  <2>2. \/ UNCHANGED <<msqid, messages>>
        \/ msqid' = lastId + 1 /\ messages' = <<>>
    BY <1>1 DEF OpenQueue, Open, queue
  <2>3. ASSUME NEW w \in Runs, child'[w] = "publish", Live(id[w])'
        PROVE  child[w] = "publish" /\ Live(id[w]) /\ messages' = messages
    <3>1. w # r /\ id'[w] = id[w]
      BY <1>0, <2>1, <2>3
    <3>2. msqid' # lastId + 1
      BY <1>0, <2>3, <3>1 DEF Live
    <3> QED
      BY <2>1, <2>2, <2>3, <3>1, <3>2 DEF Live
  <2> QED
    BY <1>0, <2>1, <2>2, <2>3, GapStays
<1>2. ASSUME NEW r \in Runs,
             Fork(r) \/ PublishFails(r) \/ ReadFails(r) \/ WaitPid(r) \/ Fault(r)
      PROVE  GapInv'
  <2>1. UNCHANGED <<sent, received, id, messages, msqid>>
    BY <1>2 DEF Fork, PublishFails, ReadFails, WaitPid, Fault, ForkFails, KillParent, KillChild, queue
  <2>2. ASSUME NEW w \in Runs
        PROVE  /\ parent'[w] \in {"init", "fork"} => child'[w] = "none"
               /\ child'[w] = "none" => sent[w] = 0
               /\ child'[w] = "publish" => sent[w] = 0 \/ child[w] = "publish"
    BY <1>0, <1>2 DEF Fork, PublishFails, ReadFails, WaitPid, Fault, ForkFails, KillParent, KillChild
  <2>3. \A w \in Runs : Live(id[w])' <=> Live(id[w])
    BY <2>1 DEF Live
  <2> QED
    BY <2>1, <2>2, <2>3, GapStays
<1>3. ASSUME NEW r \in Runs, RemoveQueue(r) PROVE GapInv'
  <2>1. /\ UNCHANGED <<sent, received, child, id>> /\ parent' = [parent EXCEPT ![r] = "end"]
    BY <1>3 DEF RemoveQueue
  <2>2. \/ UNCHANGED <<msqid, messages>>
        \/ msqid' = 0 /\ messages' = <<>>
    BY <1>3 DEF RemoveQueue, Remove, queue
  <2>3. \A w \in Runs : Live(id[w])' => Live(id[w]) /\ messages' = messages
    BY <2>1, <2>2 DEF Live
  <2> QED
    BY <1>0, <2>1, <2>2, <2>3, GapStays
<1>4. ASSUME NEW r \in Runs, Read(r) PROVE GapInv'
  <2>1. PICK m \in Elem : Receive(id[r], m) /\ received' = [received EXCEPT ![r] = Append(@, m)]
    BY <1>4 DEF Read
  <2> QED
    BY <1>4, <2>1, GapTaken DEF Read
<1>5. ASSUME NEW r \in Runs, ReadEnd(r) PROVE GapInv'
  BY <1>5, GapTaken DEF ReadEnd
<1>6. CASE UNCHANGED vars
  <2>1. UNCHANGED <<sent, received, parent, child, id, messages, msqid>>
    BY <1>6 DEF vars, queue, processes
  <2>2. \A w \in Runs : Live(id[w])' <=> Live(id[w])
    BY <2>1 DEF Live
  <2> QED
    BY <1>0, <2>1, <2>2, GapStays
<1> QED
  BY <1>1, <1>2, <1>3, <1>4, <1>5, <1>6, GapPublish, GapDone DEF Next, ParentStep, ChildStep

\* What a reader takes is the first heartbeat of its writer not read so far.
LEMMA ReadDelivers ==
    ASSUME TypeOK, OrderInv, GapInv, NEW r \in Runs, Read(r)
    PROVE  Promised!Exchange
<1>1. PICK m \in Elem : Receive(id[r], m) /\ received' = [received EXCEPT ![r] = Append(@, m)]
  BY DEF Read
<1>2. PICK w \in Runs, k \in 1..Beats : m = <<w, k>>
  BY ElemAssumption
<1>3. 1 \in DOMAIN messages /\ messages[1] = m /\ m # EOQ /\ m[1] = w /\ m[2] = k /\ k \in Nat \ {0}
  BY <1>1, <1>2, OrderReceive, MarkAssumption, BeatsAssumption
<1>4. k \in 1..sent[w]
  <2>1. k <= sent[w]
    BY <1>3 DEF OrderInv
  <2>2. sent[w] \in 0..Beats
    BY DEF TypeOK
  <2> QED
    BY <1>3, <2>1, <2>2, BeatsAssumption
<1>5. ~ Promised!Delivered(w, k)
  <2>1. ASSUME NEW s \in Runs, NEW i \in DOMAIN received[s], received[s][i] = <<w, k>> PROVE FALSE
    BY <1>3, <2>1 DEF OrderInv, Before
  <2> QED
    BY <2>1 DEF Promised!Delivered
<1>6. ASSUME NEW j \in 1..(k - 1) PROVE Promised!Delivered(w, j)
  <2>1. ReadOrBefore(w, j, 1)
    BY <1>3, <1>6 DEF GapInv
  <2>2. \A h \in DOMAIN messages : ~ (h < 1)
    BY DEF TypeOK, QueueTypeOK
  <2> QED
    BY <2>1, <2>2 DEF ReadOrBefore
<1>7. sent' = sent
  BY DEF Read
<1>8. Promised!Deliver(r, w, k)
  BY <1>1, <1>2, <1>4, <1>5, <1>6, <1>7 DEF Promised!Deliver
<1> QED
  BY <1>2, <1>8 DEF Promised!Exchange

LEMMA MailStep ==
    ASSUME TypeOK, OrderInv, GapInv, [Next]_vars
    PROVE  [Promised!Exchange]_(Promised!mail)
<1>1. ASSUME NEW r \in Runs, Publish(r) PROVE Promised!Exchange
  <2>1. sent[r] < Beats
    BY <1>1, BeatsAssumption DEF TypeOK, Publish, Published
  <2>2. Promised!Post(r)
    BY <1>1, <2>1 DEF Publish, Promised!Post
  <2> QED
    BY <2>2 DEF Promised!Exchange
<1>2. ASSUME NEW r \in Runs,
             \/ OpenQueue(r) \/ Fork(r) \/ Done(r) \/ PublishFails(r) \/ ReadEnd(r) \/ ReadFails(r)
             \/ WaitPid(r) \/ RemoveQueue(r) \/ Fault(r)
      PROVE  UNCHANGED Promised!mail
  BY <1>2 DEF Promised!mail, OpenQueue, Fork, Done, PublishFails, ReadEnd, ReadFails, WaitPid,
     RemoveQueue, Fault, ForkFails, KillParent, KillChild
<1>3. CASE UNCHANGED vars
  BY <1>3 DEF vars, processes, Promised!mail
<1> QED
  BY <1>1, <1>2, <1>3, ReadDelivers DEF Next, ParentStep, ChildStep

\* However many runs share the queue, find it or remove it, and whoever is killed,
\* what is read of a child is what it published first: each heartbeat once, in
\* order, with none left out before it.
THEOREM PoolImplementsMailbox == Spec => ImplementsMailbox
<1>1. Init => OrderInv /\ GapInv /\ Promised!MailInit
  BY DEF Init, QueueInit, OrderInv, InOrderAndOnce, GapInv, Live, Promised!MailInit
<1> QED
  BY <1>1, TypeInit, TypeStep, OrderStep, GapStep, MailStep, PTL
     DEF Spec, ImplementsMailbox, Promised!MailSpec

-----------------------------------------------------------------------------
(* Who waits for whom. *)

Opened == {r \in Runs : parent[r] # "init"}

\* Those who share the queue that is under the key now.
Readers == {r \in Runs : parent[r] = "read" /\ id[r] = msqid}

Writers == {r \in Runs : child[r] = "publish" /\ id[r] = msqid}

DeadParents == {r \in Runs : parent[r] = "dead" /\ id[r] = msqid}

DeadChildren == {r \in Runs : child[r] = "dead" /\ id[r] = msqid}

\* The end marks of a queue that holds q.
Marks(q) == {k \in DOMAIN q : q[k] = EOQ}

\* Each child leaves one end mark and each reader takes one: but for those that
\* were killed there are as many readers as marks and children to come.
Balanced ==
    /\ Cardinality(Readers)
         <= Cardinality(Marks(messages)) + Cardinality(Writers) + Cardinality(DeadChildren)
    /\ Cardinality(Marks(messages)) + Cardinality(Writers)
         <= Cardinality(Readers) + Cardinality(DeadParents)

ServedInv ==
    /\ IsFiniteSet(Opened)
    /\ \A r \in Runs : parent[r] \in {"init", "fork"} => child[r] = "none"
    /\ msqid # 0 => Balanced

Counted(S) == IsFiniteSet(S) /\ Cardinality(S) \in Nat

LEMMA PartCounted ==
    ASSUME NEW S, IsFiniteSet(S), NEW T \in SUBSET S
    PROVE  Counted(T)
<1>1. IsFiniteSet(T)
  BY FS_Subset
<1> QED
  BY <1>1, FS_CardinalityType DEF Counted

\* One more, or one less.
LEMMA OneAdded ==
    ASSUME NEW S, NEW x, Counted(S), x \notin S
    PROVE  Counted(S \cup {x}) /\ Cardinality(S \cup {x}) = Cardinality(S) + 1
<1>1. IsFiniteSet(S \cup {x}) /\ Cardinality(S \cup {x}) = Cardinality(S) + 1
  BY FS_AddElement DEF Counted
<1>2. Cardinality(S \cup {x}) \in Nat
  BY <1>1, FS_CardinalityType
<1> QED
  BY <1>1, <1>2 DEF Counted

LEMMA OneRemoved ==
    ASSUME NEW S, Counted(S), NEW x \in S
    PROVE  Counted(S \ {x}) /\ Cardinality(S \ {x}) = Cardinality(S) - 1
<1>1. IsFiniteSet(S \ {x}) /\ Cardinality(S \ {x}) = Cardinality(S) - 1
  BY FS_RemoveElement DEF Counted
<1>2. Cardinality(S \ {x}) \in Nat
  BY <1>1, FS_CardinalityType
<1> QED
  BY <1>1, <1>2 DEF Counted

LEMMA MarksCounted ==
    ASSUME NEW q \in Seq(Elem \cup {EOQ})
    PROVE  Counted(Marks(q)) /\ Marks(q) \subseteq 1..Len(q)
<1>1. IsFiniteSet(1..Len(q))
  BY FS_Interval
<1>2. Marks(q) \subseteq 1..Len(q)
  BY DEF Marks
<1> QED
  BY <1>1, <1>2, PartCounted

LEMMA MarkSent ==
    ASSUME NEW q \in Seq(Elem \cup {EOQ}), NEW m \in Elem \cup {EOQ}
    PROVE  Marks(Append(q, m)) = IF m = EOQ THEN Marks(q) \cup {Len(q) + 1} ELSE Marks(q)
<1>1. /\ DOMAIN Append(q, m) = 1..(Len(q) + 1) /\ DOMAIN q = 1..Len(q) /\ Len(q) \in Nat
      /\ Append(q, m)[Len(q) + 1] = m /\ \A k \in 1..Len(q) : Append(q, m)[k] = q[k]
  OBVIOUS
<1>2. ASSUME NEW k PROVE k \in Marks(Append(q, m)) <=> k \in Marks(q) \/ (k = Len(q) + 1 /\ m = EOQ)
  BY <1>1 DEF Marks
<1>3. CASE m = EOQ
  BY <1>2, <1>3
<1>4. CASE m # EOQ
  BY <1>2, <1>4
<1> QED
  BY <1>3, <1>4

\* A message is taken: the end marks that are left move up.
LEMMA MarkTaken ==
    ASSUME NEW q \in Seq(Elem \cup {EOQ}), q # <<>>
    PROVE  Cardinality(Marks(Tail(q))) =
             IF Head(q) = EOQ THEN Cardinality(Marks(q)) - 1 ELSE Cardinality(Marks(q))
<1> DEFINE S == Marks(Tail(q))
           T == Marks(q) \ {1}
           f == [k \in S |-> k + 1]
<1>1. /\ Len(q) \in Nat \ {0} /\ DOMAIN q = 1..Len(q) /\ Head(q) = q[1]
      /\ Tail(q) \in Seq(Elem \cup {EOQ}) /\ DOMAIN Tail(q) = 1..(Len(q) - 1)
      /\ \A k \in 1..(Len(q) - 1) : Tail(q)[k] = q[k + 1]
  OBVIOUS
<1>2. \A k \in S : k \in Nat /\ k + 1 \in T
  BY <1>1 DEF Marks
<1>3. ASSUME NEW n \in T PROVE n - 1 \in S /\ (n - 1) + 1 = n
  BY <1>1 DEF Marks
<1> HIDE DEF S, T
<1>4. f \in Injection(S, T)
  BY <1>2 DEF Injection, IsInjective
<1>5. f \in Surjection(S, T)
  BY <1>2, <1>3 DEF Surjection
<1>6. ExistsBijection(S, T)
  BY <1>4, <1>5 DEF ExistsBijection, Bijection
<1>7. Counted(S) /\ Counted(Marks(q))
  BY <1>1, MarksCounted DEF S
<1>8. Cardinality(T) = Cardinality(S)
  BY <1>6, <1>7, FS_Bijection DEF Counted
<1>9. 1 \in Marks(q) <=> Head(q) = EOQ
  BY <1>1 DEF Marks
<1>10. Cardinality(T) = IF Head(q) = EOQ THEN Cardinality(Marks(q)) - 1 ELSE Cardinality(Marks(q))
  BY <1>7, <1>9, FS_RemoveElement DEF Counted, T
<1> QED
  BY <1>8, <1>10 DEF S

LEMMA ProcessesCounted ==
    ASSUME TypeOK, ServedInv
    PROVE  Counted(Readers) /\ Counted(Writers) /\ Counted(DeadParents) /\ Counted(DeadChildren)
           /\ Counted(Marks(messages))
<1>1. /\ Readers \subseteq Opened /\ Writers \subseteq Opened
      /\ DeadParents \subseteq Opened /\ DeadChildren \subseteq Opened
  BY DEF ServedInv, Opened, Readers, Writers, DeadParents, DeadChildren
<1>2. Counted(Marks(messages))
  BY MarksCounted DEF TypeOK, QueueTypeOK
<1> QED
  BY <1>1, <1>2, PartCounted DEF ServedInv

\* The new queue of an empty key has nobody yet.
LEMMA BalanceOpen ==
    ASSUME TypeOK, ServedInv, NEW r \in Runs, OpenQueue(r)
    PROVE  Balanced'
<1>0. /\ DOMAIN parent = Runs /\ id \in [Runs -> 0..lastId] /\ lastId \in Nat
      /\ child[r] = "none" /\ parent[r] = "init" /\ UNCHANGED child
      /\ parent' = [parent EXCEPT ![r] = "fork"] /\ id' = [id EXCEPT ![r] = msqid']
  BY DEF OpenQueue, TypeOK, QueueTypeOK, ServedInv
<1>1. CASE msqid # 0 /\ UNCHANGED queue
  <2>1. Readers' = Readers /\ DeadParents' = DeadParents
    BY <1>0, <1>1 DEF Readers, DeadParents, queue
  <2>2. Writers' = Writers /\ DeadChildren' = DeadChildren
    BY <1>0, <1>1 DEF Writers, DeadChildren, queue
  <2> QED
    BY <1>1, <2>1, <2>2 DEF Balanced, ServedInv, queue
<1>2. CASE msqid' = lastId + 1 /\ messages' = <<>>
  <2>1. \A s \in Runs \ {r} : id'[s] # msqid'
    BY <1>0, <1>2
  <2>2. parent'[r] = "fork" /\ child'[r] = "none"
    BY <1>0
  <2>3. Readers' = {} /\ DeadParents' = {} /\ Writers' = {} /\ DeadChildren' = {}
    BY <2>1, <2>2 DEF Readers, DeadParents, Writers, DeadChildren
  <2>4. Marks(messages)' = {}
    BY <1>2 DEF Marks
  <2>5. Cardinality({}) = 0
    BY FS_EmptySet
  <2> QED
    BY <2>3, <2>4, <2>5 DEF Balanced
<1> QED
  BY <1>1, <1>2 DEF OpenQueue, Open

\* A fork adds a reader and a writer.
LEMMA BalanceFork ==
    ASSUME TypeOK, ServedInv, NEW r \in Runs, Fork(r), msqid # 0
    PROVE  Balanced'
<1>0. /\ parent[r] = "fork" /\ child[r] = "none" /\ UNCHANGED <<queue, id>> /\ Balanced
      /\ parent' = [parent EXCEPT ![r] = "read"] /\ child' = [child EXCEPT ![r] = "publish"]
      /\ DOMAIN parent = Runs /\ DOMAIN child = Runs
  BY DEF Fork, TypeOK, ServedInv
<1>1. DeadParents' = DeadParents /\ DeadChildren' = DeadChildren
  BY <1>0 DEF DeadParents, DeadChildren, queue
<1>2. CASE id[r] = msqid
  <2>1. r \notin Readers /\ r \notin Writers
    BY <1>0 DEF Readers, Writers
  <2>2. Readers' = Readers \cup {r} /\ Writers' = Writers \cup {r}
    BY <1>0, <1>2 DEF Readers, Writers, queue
  <2>3. /\ Cardinality(Readers') = Cardinality(Readers) + 1
        /\ Cardinality(Writers') = Cardinality(Writers) + 1
    BY <2>1, <2>2, OneAdded, ProcessesCounted
  <2> QED
    BY <1>0, <1>1, <2>3, ProcessesCounted DEF Balanced, Counted, queue
<1>3. CASE id[r] # msqid
  <2>1. Readers' = Readers /\ Writers' = Writers
    BY <1>0, <1>3 DEF Readers, Writers, queue
  <2> QED
    BY <1>0, <1>1, <2>1 DEF Balanced, queue
<1> QED
  BY <1>2, <1>3

\* The processes stay where they are; a heartbeat is no end mark.
LEMMA BalancePublish ==
    ASSUME TypeOK, ServedInv, NEW r \in Runs, Publish(r) \/ Read(r), msqid # 0
    PROVE  Balanced'
<1>0. /\ UNCHANGED <<msqid, parent, child, id>> /\ Balanced
      /\ messages \in Seq(Elem \cup {EOQ})
  BY DEF Publish, Send, Read, Receive, TypeOK, QueueTypeOK, ServedInv
<1>1. Cardinality(Marks(messages)') = Cardinality(Marks(messages))
  <2>1. CASE Publish(r)
    <3>1. sent[r] + 1 \in 1..Beats
      BY <2>1, BeatsAssumption DEF Publish, Published, TypeOK
    <3>2. PICK m \in Elem : messages' = Append(messages, m)
      BY <2>1, <3>1, ElemAssumption DEF Publish, Send
    <3>3. Marks(messages)' = Marks(messages)
      <4>1. m # EOQ
        BY MarkAssumption
      <4>2. Marks(Append(messages, m)) = Marks(messages)
        BY <1>0, <4>1, MarkSent
      <4> QED
        BY <3>2, <4>2
    <3> QED
      BY <3>3
  <2>2. CASE Read(r)
    <3>1. messages # <<>> /\ Head(messages) # EOQ /\ messages' = Tail(messages)
      BY <2>2, MarkAssumption DEF Read, Receive
    <3>2. Cardinality(Marks(Tail(messages))) = Cardinality(Marks(messages))
      BY <1>0, <3>1, MarkTaken
    <3> QED
      BY <3>1, <3>2
  <2> QED
    BY <2>1, <2>2
<1>2. Readers' = Readers /\ Writers' = Writers /\ DeadParents' = DeadParents
      /\ DeadChildren' = DeadChildren
  BY <1>0 DEF Readers, Writers, DeadParents, DeadChildren
<1> QED
  BY <1>0, <1>1, <1>2 DEF Balanced

\* A child that is done becomes an end mark.
LEMMA BalanceDone ==
    ASSUME TypeOK, ServedInv, NEW r \in Runs, Done(r)
    PROVE  Balanced'
<1>0. /\ child[r] = "publish" /\ id[r] = msqid /\ msqid # 0 /\ DOMAIN child = Runs
      /\ UNCHANGED <<msqid, parent, id>> /\ child' = [child EXCEPT ![r] = "exit"]
      /\ messages \in Seq(Elem \cup {EOQ}) /\ messages' = Append(messages, EOQ)
  BY DEF Done, Send, Live, TypeOK, QueueTypeOK
<1>1. Balanced
  BY <1>0 DEF ServedInv
<1>2. Readers' = Readers /\ DeadParents' = DeadParents /\ DeadChildren' = DeadChildren
  BY <1>0 DEF Readers, DeadParents, DeadChildren
<1>3. Cardinality(Writers') = Cardinality(Writers) - 1
  <2>1. r \in Writers /\ Writers' = Writers \ {r}
    BY <1>0 DEF Writers
  <2> QED
    BY <2>1, OneRemoved, ProcessesCounted
<1>4. Cardinality(Marks(messages)') = Cardinality(Marks(messages)) + 1
  <2>1. Marks(messages)' = Marks(messages) \cup {Len(messages) + 1}
    <3>1. Marks(Append(messages, EOQ)) = Marks(messages) \cup {Len(messages) + 1}
      BY <1>0, MarkSent
    <3> QED
      BY <1>0, <3>1
  <2>2. Len(messages) + 1 \notin Marks(messages)
    BY <1>0, MarksCounted
  <2> QED
    BY <2>1, <2>2, OneAdded, ProcessesCounted
<1> QED
  BY <1>1, <1>2, <1>3, <1>4, ProcessesCounted DEF Balanced, Counted

\* A reader leaves with an end mark.
LEMMA BalanceReadEnd ==
    ASSUME TypeOK, ServedInv, NEW r \in Runs, ReadEnd(r)
    PROVE  Balanced'
<1>0. /\ parent[r] = "read" /\ id[r] = msqid /\ msqid # 0 /\ DOMAIN parent = Runs
      /\ UNCHANGED <<msqid, child, id>> /\ parent' = [parent EXCEPT ![r] = "wait"]
      /\ messages \in Seq(Elem \cup {EOQ}) /\ messages # <<>> /\ Head(messages) = EOQ
      /\ messages' = Tail(messages)
  BY DEF ReadEnd, Receive, Live, TypeOK, QueueTypeOK
<1>1. Balanced
  BY <1>0 DEF ServedInv
<1>2. Writers' = Writers /\ DeadParents' = DeadParents /\ DeadChildren' = DeadChildren
  BY <1>0 DEF Writers, DeadParents, DeadChildren
<1>3. Cardinality(Readers') = Cardinality(Readers) - 1
  <2>1. r \in Readers /\ Readers' = Readers \ {r}
    BY <1>0 DEF Readers
  <2> QED
    BY <2>1, OneRemoved, ProcessesCounted
<1>4. Cardinality(Marks(messages)') = Cardinality(Marks(messages)) - 1
  BY <1>0, MarkTaken
<1> QED
  BY <1>1, <1>2, <1>3, <1>4, ProcessesCounted DEF Balanced, Counted

\* Who is killed may have been one of those that were counted.
LEMMA BalanceKill ==
    ASSUME TypeOK, ServedInv, NEW r \in Runs, KillParent(r) \/ ForkFails(r) \/ KillChild(r),
           msqid # 0
    PROVE  Balanced'
<1>0. UNCHANGED <<queue, id>> /\ Balanced /\ DOMAIN parent = Runs /\ DOMAIN child = Runs
  BY DEF KillParent, ForkFails, KillChild, TypeOK, ServedInv
<1>1. CASE KillParent(r) \/ ForkFails(r)
  <2>1. /\ parent[r] # "dead" /\ parent' = [parent EXCEPT ![r] = "dead"] /\ UNCHANGED child
    BY <1>1 DEF KillParent, ForkFails
  <2>2. Writers' = Writers /\ DeadChildren' = DeadChildren
    BY <1>0, <2>1 DEF Writers, DeadChildren, queue
  <2>3. CASE id[r] = msqid
    <3>1. r \notin DeadParents /\ DeadParents' = DeadParents \cup {r}
      BY <1>0, <2>1, <2>3 DEF DeadParents, queue
    <3>2. Cardinality(DeadParents') = Cardinality(DeadParents) + 1
      BY <3>1, OneAdded, ProcessesCounted
    <3>3. Readers' = Readers \ {r}
      BY <1>0, <2>1 DEF Readers, queue
    <3>4. Cardinality(Readers') \in {Cardinality(Readers), Cardinality(Readers) - 1}
      <4>1. CASE r \in Readers
        BY <3>3, <4>1, OneRemoved, ProcessesCounted
      <4>2. CASE r \notin Readers
        <5>1. Readers' = Readers
          BY <3>3, <4>2
        <5> QED
          BY <5>1
      <4> QED
        BY <4>1, <4>2
    <3> QED
      BY <1>0, <2>2, <3>2, <3>4, ProcessesCounted DEF Balanced, Counted, queue
  <2>4. CASE id[r] # msqid
    <3>1. Readers' = Readers /\ DeadParents' = DeadParents
      BY <1>0, <2>1, <2>4 DEF Readers, DeadParents, queue
    <3> QED
      BY <1>0, <2>2, <3>1 DEF Balanced, queue
  <2> QED
    BY <2>3, <2>4
<1>2. CASE KillChild(r)
  <2>1. child[r] = "publish" /\ child' = [child EXCEPT ![r] = "dead"] /\ UNCHANGED parent
    BY <1>2 DEF KillChild
  <2>2. Readers' = Readers /\ DeadParents' = DeadParents
    BY <1>0, <2>1 DEF Readers, DeadParents, queue
  <2>3. CASE id[r] = msqid
    <3>1. /\ r \in Writers /\ Writers' = Writers \ {r}
          /\ r \notin DeadChildren /\ DeadChildren' = DeadChildren \cup {r}
      BY <1>0, <2>1, <2>3 DEF Writers, DeadChildren, queue
    <3>2. /\ Cardinality(Writers') = Cardinality(Writers) - 1
          /\ Cardinality(DeadChildren') = Cardinality(DeadChildren) + 1
      BY <3>1, OneAdded, OneRemoved, ProcessesCounted
    <3> QED
      BY <1>0, <2>2, <3>2, ProcessesCounted DEF Balanced, Counted, queue
  <2>4. CASE id[r] # msqid
    <3>1. Writers' = Writers /\ DeadChildren' = DeadChildren
      BY <1>0, <2>1, <2>4 DEF Writers, DeadChildren, queue
    <3> QED
      BY <1>0, <2>2, <3>1 DEF Balanced, queue
  <2> QED
    BY <2>3, <2>4
<1> QED
  BY <1>1, <1>2

LEMMA ServedStep == TypeOK /\ ServedInv /\ [Next]_vars => ServedInv'
<1> SUFFICES ASSUME TypeOK, ServedInv, [Next]_vars PROVE ServedInv'
  OBVIOUS
<1>0. DOMAIN parent = Runs /\ DOMAIN child = Runs
  BY DEF TypeOK
<1>1. /\ IsFiniteSet(Opened)' /\ \A r \in Runs : parent'[r] \in {"init", "fork"} => child'[r] = "none"
  <2>1. ASSUME NEW r \in Runs, ParentStep(r) \/ ChildStep(r) \/ Fault(r)
        PROVE  /\ Opened' \subseteq Opened \cup {r}
               /\ \A s \in Runs : parent'[s] \in {"init", "fork"} => child'[s] = "none"
    <3>1. /\ \A s \in Runs \ {r} : parent'[s] = parent[s] /\ child'[s] = child[s]
      BY <1>0, <2>1 DEF ParentStep, ChildStep, Fault, OpenQueue, Fork, Read, ReadEnd, ReadFails,
         WaitPid, RemoveQueue, Publish, Done, PublishFails, ForkFails, KillParent, KillChild
    <3>2. parent'[r] \in {"init", "fork"} => child'[r] = "none"
      BY <1>0, <2>1 DEF ServedInv, ParentStep, ChildStep, Fault, OpenQueue, Fork, Read, ReadEnd,
         ReadFails, WaitPid, RemoveQueue, Publish, Done, PublishFails, ForkFails, KillParent,
         KillChild
    <3> QED
      BY <3>1, <3>2 DEF ServedInv, Opened
  <2>2. CASE UNCHANGED vars
    BY <2>2 DEF vars, processes, ServedInv, Opened
  <2>3. ASSUME NEW r \in Runs, Opened' \subseteq Opened \cup {r} PROVE IsFiniteSet(Opened')
    <3>1. IsFiniteSet(Opened \cup {r})
      BY FS_AddElement DEF ServedInv
    <3> QED
      BY <2>3, <3>1, FS_Subset
  <2> QED
    BY <2>1, <2>2, <2>3 DEF Next
<1>2. msqid' # 0 => Balanced'
  <2> SUFFICES ASSUME msqid' # 0 PROVE Balanced'
    OBVIOUS
  <2>1. ASSUME NEW r \in Runs, OpenQueue(r) \/ Done(r) \/ ReadEnd(r) PROVE Balanced'
    BY <2>1, BalanceOpen, BalanceDone, BalanceReadEnd
  <2>2. ASSUME NEW r \in Runs, Fork(r) \/ Publish(r) \/ Read(r) \/ Fault(r) PROVE Balanced'
    <3>1. msqid # 0
      BY <2>2 DEF Fork, Publish, Send, Read, Receive, Fault, KillParent, ForkFails, KillChild, queue
    <3> QED
      BY <2>2, <3>1, BalanceFork, BalancePublish, BalanceKill DEF Fault
  <2>3. ASSUME NEW r \in Runs,
               PublishFails(r) \/ ReadFails(r) \/ WaitPid(r) \/ RemoveQueue(r) \/ UNCHANGED vars
        PROVE  Balanced'
    <3>1. UNCHANGED <<queue, id>> /\ Balanced
      BY <2>3 DEF PublishFails, ReadFails, WaitPid, RemoveQueue, Remove, ServedInv, vars, processes,
         queue
    <3>2. Readers' = Readers /\ DeadParents' = DeadParents
      BY <1>0, <2>3, <3>1 DEF PublishFails, ReadFails, WaitPid, RemoveQueue, Live, Readers,
         DeadParents, vars, processes, queue
    <3>3. Writers' = Writers /\ DeadChildren' = DeadChildren
      BY <1>0, <2>3, <3>1 DEF PublishFails, ReadFails, WaitPid, RemoveQueue, Live, Writers,
         DeadChildren, vars, processes, queue
    <3> QED
      BY <3>1, <3>2, <3>3 DEF Balanced, queue
  <2>4. CASE UNCHANGED vars
    BY <2>4 DEF vars, queue, processes, ServedInv, Balanced, Readers, Writers, DeadParents, DeadChildren
  <2> QED
    BY <2>1, <2>2, <2>3, <2>4 DEF Next, ParentStep, ChildStep
<1> QED
  BY <1>1, <1>2 DEF ServedInv

\* No parent waits for a message, and no child for room, that nobody is there to
\* give: not with any number of runs, nor with any capacity of the queue.
THEOREM NobodyStuck == Spec => []BlockedServed
<1>1. Init => ServedInv
  <2> SUFFICES ASSUME Init PROVE ServedInv
    OBVIOUS
  <2>1. Opened = {} /\ msqid = 0
    BY DEF Init, QueueInit, Opened
  <2> QED
    BY <2>1, FS_EmptySet DEF Init, ServedInv
<1>2. ASSUME TypeOK, ServedInv PROVE BlockedServed
  <2>0. /\ Counted(Readers) /\ Counted(Writers) /\ Counted(DeadParents) /\ Counted(DeadChildren)
        /\ Counted(Marks(messages)) /\ Cardinality({}) = 0
    BY <1>2, ProcessesCounted, FS_EmptySet
  <2>1. ASSUME NEW r \in Runs, parent[r] = "read", Live(id[r]), messages = <<>>
        PROVE  \E s \in Runs : id[s] = msqid /\ child[s] \in {"publish", "dead"}
    <3>1. r \in Readers /\ Balanced /\ Marks(messages) = {}
      BY <1>2, <2>1 DEF Readers, Live, ServedInv, Marks
    <3>2. Cardinality(Readers) # 0
      BY <2>0, <3>1, FS_EmptySet DEF Counted
    <3>3. Cardinality(Writers) # 0 \/ Cardinality(DeadChildren) # 0
      BY <2>0, <3>1, <3>2 DEF Balanced, Counted
    <3>4. Writers # {} \/ DeadChildren # {}
      BY <2>0, <3>3
    <3> QED
      BY <3>4 DEF Writers, DeadChildren
  <2>2. ASSUME NEW s \in Runs, child[s] = "publish", Live(id[s])
        PROVE  \E r \in Runs : id[r] = msqid /\ parent[r] \in {"read", "dead"}
    <3>1. s \in Writers /\ Balanced
      BY <1>2, <2>2 DEF Writers, Live, ServedInv
    <3>2. Cardinality(Writers) # 0
      BY <2>0, <3>1, FS_EmptySet DEF Counted
    <3>3. Cardinality(Readers) # 0 \/ Cardinality(DeadParents) # 0
      BY <2>0, <3>1, <3>2 DEF Balanced, Counted
    <3>4. Readers # {} \/ DeadParents # {}
      BY <2>0, <3>3
    <3> QED
      BY <3>4 DEF Readers, DeadParents
  <2> QED
    BY <2>1, <2>2 DEF BlockedServed
<1> QED
  BY <1>1, <1>2, TypeInit, TypeStep, ServedStep, PTL DEF Spec
=============================================================================
