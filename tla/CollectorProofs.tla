--------------------------- MODULE CollectorProofs ---------------------------
(***************************************************************************)
(* Theorems about the collector for any number of clients.                 *)
(*                                                                         *)
(* What a client has been told rests on what its handler has seen: a       *)
(* handler that is about to answer ok has its row, or has read every row   *)
(* its client had been promised.  Rows are never removed and an answer is  *)
(* never taken back, so both stay true until the answer is written.        *)
(***************************************************************************)
EXTENDS Collector, TLAPS

\* The request answered ok, or about to be.
Good(r) == r.pc = "ok" \/ (r.pc = "write" /\ r.status = "ok")

\* A request and the n rows of its client, whose statement was run again k times.
RowSound(r, n, k) ==
    /\ r.kind # "append" => n = 0
    /\ n <= 1 + k
    /\ r.pc \in {"new", "handler"} => n <= k
    /\ r.pc = "new" => r.kind = "none"
    /\ r.pc = "write" => r.status \in {"ok", "error"}
    /\ r.kind = "append" /\ Good(r) => n > 0

\* A reader and the rows its client had been promised.
ReadSound(r) == r.kind = "get" /\ Good(r) => r.before \subseteq r.read

IInv ==
    /\ TypeOK
    /\ \A c \in Clients :
        /\ RowSound(req[c], rows[c], again[c])
        /\ ReadSound(req[c])
        /\ req[c].before \subseteq Told
    /\ ShutdownWaits

LEMMA InitInv == Init => IInv
  BY CollectorAssumption DEF Init, IInv, TypeOK, RowSound, ReadSound, Good, New, Request, UnderWay, Told, Kinds, ShutdownWaits

\* Who has been told has a row.
LEMMA ToldStored == IInv => Told \subseteq Stored
  BY DEF IInv, TypeOK, RowSound, Good, Told, Stored

\* A step of one handler keeps the invariant if what it makes of its own request
\* and rows is sound: it has not been answered, so nobody else relied on it.
LEMMA OneRequest ==
  ASSUME IInv, NEW c \in Clients, NEW r \in Request, Becomes(c, r),
         req[c].pc \in {"new", "handler", "write"},
         r.pc \in {"handler", "write"} => server \notin {"drained", "down"},
         server' = server, gone' = gone,
         NEW n \in Nat, rows' = [rows EXCEPT ![c] = n],
         NEW k \in 0..MaxRepeats, again' = [again EXCEPT ![c] = k],
         RowSound(r, n, k), ReadSound(r), r.before \subseteq Told
  PROVE  IInv'
<1>1. /\ req' \in [Clients -> Request] /\ req'[c] = r
      /\ \A d \in Clients \ {c} : req'[d] = req[d]
  BY DEF IInv, TypeOK, Becomes
<1>2. /\ rows' \in [Clients -> Nat] /\ rows'[c] = n
      /\ \A d \in Clients \ {c} : rows'[d] = rows[d]
  BY DEF IInv, TypeOK
<1>3. /\ again' \in [Clients -> 0..MaxRepeats] /\ again'[c] = k
      /\ \A d \in Clients \ {c} : again'[d] = again[d]
  BY DEF IInv, TypeOK
<1>4. TypeOK'
  <2>1. server' = "down" => UnderWay' = {}
    BY <1>1 DEF IInv, TypeOK, UnderWay
  <2> QED BY <1>1, <1>2, <1>3, <2>1 DEF IInv, TypeOK
<1>5. Told \subseteq Told'
  BY <1>1 DEF Told
<1>6. ASSUME NEW d \in Clients
      PROVE  /\ RowSound(req[d], rows[d], again[d])'
             /\ ReadSound(req[d])' /\ (req[d].before \subseteq Told)'
  <2>1. CASE d = c
    BY <2>1, <1>1, <1>2, <1>3, <1>5 DEF RowSound, ReadSound, Good
  <2>2. CASE d # c
    BY <2>2, <1>1, <1>2, <1>3, <1>5 DEF IInv, RowSound, ReadSound, Good
  <2> QED BY <2>1, <2>2
<1>7. ShutdownWaits'
  BY <1>1 DEF IInv, ShutdownWaits, UnderWay
<1> QED BY <1>4, <1>6, <1>7 DEF IInv

\* The end of the process, in whatever way: nobody is told anything.
LEMMA EndInv ==
  ASSUME IInv, server' = "down", req' = Dropped, UNCHANGED <<rows, gone, again>>
  PROVE  IInv'
<1> DEFINE gone_(c) == [req[c] EXCEPT !.pc = "none"]
<1>1. \A c \in Clients : req[c] \in Request /\ gone_(c) \in Request
  BY DEF IInv, TypeOK, Request
<1>2. \A c \in Clients : req'[c] = IF c \in UnderWay THEN gone_(c) ELSE req[c]
  BY DEF Dropped
<1>3. \A c \in Clients : /\ gone_(c).pc = "none" /\ gone_(c).kind = req[c].kind
                         /\ gone_(c).before = req[c].before
  BY <1>1 DEF Request
<1>4. req' \in [Clients -> Request]
  BY <1>1 DEF Dropped
<1> HIDE DEF gone_
<1>5. TypeOK' /\ Told' = Told
  BY <1>2, <1>3, <1>4 DEF IInv, TypeOK, UnderWay, Told
<1>6. ASSUME NEW c \in Clients
      PROVE  /\ RowSound(req[c], rows[c], again[c])'
             /\ ReadSound(req[c])' /\ (req[c].before \subseteq Told)'
  BY <1>2, <1>3, <1>5 DEF IInv, RowSound, ReadSound, Good
<1>7. ShutdownWaits'
  BY DEF ShutdownWaits
<1> QED BY <1>5, <1>6, <1>7 DEF IInv

LEMMA StepInv == IInv /\ [Next]_vars => IInv'
<1> SUFFICES ASSUME IInv, [Next]_vars PROVE IInv'
  OBVIOUS
<1>t. \A c \in Clients : req[c] \in Request /\ rows[c] \in Nat /\ again[c] \in 0..MaxRepeats
  BY DEF IInv, TypeOK
<1>s. \A c \in Clients : RowSound(req[c], rows[c], again[c]) /\ ReadSound(req[c]) /\ req[c].before \subseteq Told
  BY DEF IInv
<1>u. \A c \in Clients : rows = [rows EXCEPT ![c] = rows[c]] /\ again = [again EXCEPT ![c] = again[c]]
  BY DEF IInv, TypeOK
<1>w. \A c \in Clients : req[c].pc \in {"handler", "write"} => server \notin {"drained", "down"}
  BY DEF IInv, TypeOK, ShutdownWaits, UnderWay
<1>a. ASSUME NEW c \in Clients, NEW kind \in Kinds, Arrive(c, kind) PROVE IInv'
  <2> DEFINE r == [New EXCEPT !.pc = "handler", !.kind = kind, !.before = Told]
  <2>1. r \in Request /\ r.pc = "handler" /\ r.kind = kind /\ r.before = Told
    BY DEF New, Request, Told, Kinds
  <2>2. RowSound(r, rows[c], again[c]) /\ ReadSound(r)
    BY <2>1, <1>a, <1>t, <1>s DEF Arrive, RowSound, ReadSound, Good, Kinds
  <2>3. Becomes(c, r)
    BY <1>a DEF Arrive
  <2> HIDE DEF r
  <2> QED BY <1>a, <1>t, <1>u, <2>1, <2>2, <2>3, OneRequest DEF Arrive
<1>b. ASSUME NEW c \in Clients, Reject(c) PROVE IInv'
  <2>0. req[c] \in Request
    BY <1>t
  <2> DEFINE r == [req[c] EXCEPT !.pc = "write", !.status = "error"]
  <2>1. r \in Request /\ r.pc = "write" /\ r.status = "error" /\ r.kind = req[c].kind /\ r.before = req[c].before
    BY <2>0 DEF Request
  <2>2. RowSound(r, rows[c], again[c]) /\ ReadSound(r)
    BY <2>1, <1>b, <1>t, <1>s DEF Reject, RowSound, ReadSound, Good
  <2>3. Becomes(c, r)
    BY <1>b DEF Reject
  <2> HIDE DEF r
  <2> QED BY <1>b, <1>t, <1>s, <1>u, <1>w, <2>1, <2>2, <2>3, OneRequest DEF Reject
<1>c. ASSUME NEW c \in Clients, Statement(c) PROVE IInv'
  <2> DEFINE r == [req[c] EXCEPT !.pc = "write", !.status = "ok",
                            !.read = IF req[c].kind = "get" THEN Stored ELSE {}]
             n == IF req[c].kind = "append" THEN rows[c] + 1 ELSE rows[c]
  <2>0. req[c] \in Request /\ rows[c] \in Nat /\ rows = [rows EXCEPT ![c] = rows[c]]
    BY <1>t, <1>u
  <2>1. /\ r \in Request /\ r.pc = "write" /\ r.status = "ok" /\ r.kind = req[c].kind /\ r.before = req[c].before
        /\ r.kind = "get" => r.read = Stored
  <3> DEFINE m == IF req[c].kind = "get" THEN Stored ELSE {}
  <3>1. m \in SUBSET Clients
    BY DEF Stored
  <3>2. req[c].kind = "get" => m = Stored
    OBVIOUS
  <3> HIDE DEF m
  <3> QED BY <2>0, <3>1, <3>2 DEF Request
  <2>2. n \in Nat /\ rows' = [rows EXCEPT ![c] = n]
    <3>1. CASE req[c].kind = "append"
      BY <3>1, <2>0, <1>c DEF Statement
    <3>2. CASE req[c].kind # "append"
      BY <3>2, <2>0, <1>c DEF Statement
    <3> QED BY <3>1, <3>2
  <2>3. RowSound(r, n, again[c])
    BY <2>1, <1>c, <1>t, <1>s DEF Statement, RowSound, Good
  <2>4. ReadSound(r)
    BY <2>1, <1>s, ToldStored DEF ReadSound
  <2>5. Becomes(c, r)
    BY <1>c DEF Statement
  <2> HIDE DEF r, n
  <2>6. again[c] \in 0..MaxRepeats /\ again = [again EXCEPT ![c] = again[c]]
    BY <1>t, <1>u
  <2> QED BY <1>c, <1>s, <1>w, <2>1, <2>2, <2>3, <2>4, <2>5, <2>6, OneRequest DEF Statement
<1>d. ASSUME NEW c \in Clients, StatementFails(c) PROVE IInv'
  <2>0. req[c] \in Request
    BY <1>t
  <2> DEFINE r == [req[c] EXCEPT !.pc = "write", !.status = "error", !.read = {}]
  <2>1. r \in Request /\ r.pc = "write" /\ r.status = "error" /\ r.kind = req[c].kind /\ r.before = req[c].before
    BY <2>0 DEF Request
  <2>2. RowSound(r, rows[c], again[c]) /\ ReadSound(r)
    BY <2>1, <1>d, <1>t, <1>s DEF StatementFails, Waiting, RowSound, ReadSound, Good
  <2>3. Becomes(c, r)
    BY <1>d DEF StatementFails
  <2> HIDE DEF r
  <2> QED BY <1>d, <1>t, <1>s, <1>u, <1>w, <2>1, <2>2, <2>3, OneRequest DEF StatementFails, Waiting
<1>e. ASSUME NEW c \in Clients, DriverRetries(c) PROVE IInv'
  <2>0. req[c] \in Request
    BY <1>t
  <2> DEFINE r == [req[c] EXCEPT !.pc = "handler", !.status = "none"]
  <2>1. r \in Request /\ r.pc = "handler" /\ r.kind = req[c].kind /\ r.before = req[c].before
    BY <2>0 DEF Request
  <2>2. RowSound(r, rows[c], again[c] + 1) /\ ReadSound(r)
    BY <2>1, <1>e, <1>t, <1>s DEF DriverRetries, Waiting, RowSound, ReadSound, Good
  <2>3. Becomes(c, r) /\ again' = [again EXCEPT ![c] = again[c] + 1]
    BY <1>e DEF DriverRetries
  <2>4. again[c] + 1 \in 0..MaxRepeats
    BY <1>e, <1>t, CollectorAssumption DEF DriverRetries
  <2> HIDE DEF r
  <2> QED BY <1>e, <1>t, <1>s, <1>u, <1>w, <2>1, <2>2, <2>3, <2>4, OneRequest DEF DriverRetries, Waiting
<1>f. ASSUME NEW c \in Clients, WriteAnswer(c) PROVE IInv'
  <2> DEFINE p == IF c \in gone THEN "none" ELSE req[c].status
             r == [req[c] EXCEPT !.pc = p]
  <2>0. p \in {"none", "ok", "error"} /\ (p = "ok" => req[c].status = "ok")
    BY <1>f, <1>s DEF WriteAnswer, RowSound
  <2>1. r \in Request /\ r.pc = p /\ r.kind = req[c].kind /\ r.before = req[c].before /\ r.read = req[c].read
    BY <1>t, <2>0 DEF Request
  <2>2. RowSound(r, rows[c], again[c]) /\ ReadSound(r)
    BY <2>0, <2>1, <1>f, <1>t, <1>s DEF WriteAnswer, RowSound, ReadSound, Good
  <2>3. Becomes(c, r)
    BY <1>f DEF WriteAnswer
  <2> HIDE DEF r, p
  <2> QED BY <1>f, <1>t, <1>s, <1>u, <2>0, <2>1, <2>2, <2>3, OneRequest DEF WriteAnswer
<1>h. ASSUME UNCHANGED <<rows, req, again>>, gone' \subseteq Clients,
             \/ server' = server \/ server' \in {"up", "stopping", "expired"}
             \/ server' = "drained" /\ UnderWay = {} PROVE IInv'
  <2>1. TypeOK' /\ Told' = Told /\ ShutdownWaits'
    BY <1>h DEF IInv, TypeOK, UnderWay, Told, ShutdownWaits
  <2> QED BY <1>h, <1>s, <2>1 DEF IInv
<1>i. CASE Next
  <2>1. ASSUME NEW c \in Clients, Handle(c) PROVE IInv'
    BY <2>1, <1>b, <1>c, <1>d, <1>e, <1>f, EndInv DEF Handle, WriteFatal
  <2>2. ASSUME NEW c \in Clients, LeaveEarly(c) PROVE IInv'
    BY <2>2, <1>h DEF LeaveEarly, IInv, TypeOK, UnderWay
  <2>3. CASE Stop \/ Drained \/ Expire \/ Start
    BY <2>3, <1>h DEF Stop, Drained, Expire, Start, IInv, TypeOK
  <2>4. CASE Exit \/ Kill
    BY <2>4, EndInv DEF Exit, Kill
  <2> QED BY <1>i, <1>a, <2>1, <2>2, <2>3, <2>4 DEF Next
<1>j. CASE UNCHANGED vars
  BY <1>j, <1>h DEF vars, IInv, TypeOK
<1> QED BY <1>i, <1>j

LEMMA Invariant == Spec => []IInv
  BY InitInv, StepInv, PTL DEF Spec

\* Any number of clients: the collector and its requests keep their shape, and
\* no request outlives the process.
THEOREM CollectorTypes == Spec => []TypeOK
<1>1. IInv => TypeOK
  BY DEF IInv
<1> QED BY <1>1, Invariant, PTL

\* Who is told that his row is written has it; only the driver writes it again.
THEOREM RowsWritten == Spec => []AppendedOnce
<1>1. IInv => AppendedOnce
  <2> SUFFICES ASSUME IInv, NEW c \in Clients
               PROVE  /\ rows[c] <= IF req[c].kind # "append" THEN 0 ELSE 1 + again[c]
                      /\ c \in Told => rows[c] > 0
    BY DEF AppendedOnce
  <2>1. rows[c] \in Nat /\ again[c] \in Nat /\ RowSound(req[c], rows[c], again[c])
    BY DEF IInv, TypeOK
  <2> QED BY <2>1 DEF RowSound, Good, Told
<1> QED BY <1>1, Invariant, PTL

\* A read holds the rows that were promised before it came.
THEOREM PromisesRead == Spec => []ReadsWhatWasTold
<1>1. IInv => ReadsWhatWasTold
  BY DEF IInv, ReadSound, Good, ReadsWhatWasTold
<1> QED BY <1>1, Invariant, PTL

\* A stop that ends before its three seconds cuts off no request.
THEOREM StopsWait == Spec => []ShutdownWaits
<1>1. IInv => ShutdownWaits
  BY DEF IInv
<1> QED BY <1>1, Invariant, PTL
=============================================================================
