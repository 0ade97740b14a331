------------------------------ MODULE Collector ------------------------------
(***************************************************************************)
(* The collector (src/cmd/collector, `cluster run collector`) and those    *)
(* who call it: an agent posts the kernel version of its host once and     *)
(* ends; others read the rows, or ask whether the database answers.        *)
(*                                                                         *)
(* A handler waits for the database as long as its client does: there is   *)
(* no timeout but that of Stop.  A client makes one request.  A row is the *)
(* client that appended it; limits, hosts and times are left out.          *)
(***************************************************************************)
EXTENDS Naturals

CONSTANTS
    Clients,
    MaxRepeats      \* how often database/sql runs one statement again (maxBadConnRetries)

ASSUME CollectorAssumption == MaxRepeats \in Nat

Kinds == {"append", "get", "healthz"}

VARIABLES
    server,     \* "up"; "stopping" in Shutdown; "drained" or "expired" when it has returned; "down"
    rows,       \* rows[c]: how many rows of table logs client c has appended
    req,        \* req[c]: where the request of c is, its kind and status, what it read
    gone,       \* clients who closed their connection before the answer
    again       \* again[c]: how often the driver ran the statement of c again

vars == <<server, rows, req, gone, again>>

New == [pc |-> "new", kind |-> "none", status |-> "none", read |-> {}, before |-> {}]

UnderWay == {c \in Clients : req[c].pc \in {"handler", "write"}}

Stored == {c \in Clients : rows[c] > 0}

\* The clients who have been told that their row is written.
Told == {c \in Clients : req[c].kind = "append" /\ req[c].pc = "ok"}

\* What becomes of the requests under way when the process ends.
Dropped == [c \in Clients |-> IF c \in UnderWay THEN [req[c] EXCEPT !.pc = "none"] ELSE req[c]]

Request ==
    [pc : {"new", "handler", "write", "ok", "error", "none"},
     kind : Kinds \cup {"none"}, status : {"none", "ok", "error"},
     read : SUBSET Clients, before : SUBSET Clients]

\* The request of c is r from here on.
Becomes(c, r) == req' = [req EXCEPT ![c] = r]

Init ==
    /\ server = "up"
    /\ rows = [c \in Clients |-> 0]
    /\ req = [c \in Clients |-> New]
    /\ gone = {}
    /\ again = [c \in Clients |-> 0]

-----------------------------------------------------------------------------
(* The handlers. *)

\* Mutant of Arrive: the listener is closed by the end of the process.
ArriveUntilTheEnd(c, kind) ==
    /\ server # "down" /\ req[c].pc = "new"
    /\ Becomes(c, [New EXCEPT !.pc = "handler", !.kind = kind, !.before = Told])
    /\ UNCHANGED <<server, rows, gone, again>>

\* The connection of c is accepted; Shutdown counts it as active from here on.
Arrive(c, kind) ==
    /\ server = "up" /\ req[c].pc = "new"
    /\ Becomes(c, [New EXCEPT !.pc = "handler", !.kind = kind, !.before = Told])
    /\ UNCHANGED <<server, rows, gone, again>>

\* A method that is not allowed, no host, no body, a body that is not JSON.
Reject(c) ==
    /\ req[c].pc = "handler"
    /\ Becomes(c, [req[c] EXCEPT !.pc = "write", !.status = "error"])
    /\ UNCHANGED <<server, rows, gone, again>>

\* Mutant of Statement: reads go to a replica.
StatementOnReplica(c) ==
    /\ req[c].pc = "handler"
    /\ \E seen \in SUBSET Stored :
        Becomes(c, [req[c] EXCEPT !.pc = "write", !.status = "ok",
                                !.read = IF req[c].kind = "get" THEN seen ELSE {}])
    /\ rows' = IF req[c].kind = "append" THEN [rows EXCEPT ![c] = @ + 1] ELSE rows
    /\ UNCHANGED <<server, gone, again>>

\* The INSERT of Append, the SELECT of Read and Since, or the ping, at the
\* database; the handler may yet learn that it failed (StatementFails).
Statement(c) ==
    /\ req[c].pc = "handler"
    /\ rows' = IF req[c].kind = "append" THEN [rows EXCEPT ![c] = @ + 1] ELSE rows
    /\ Becomes(c, [req[c] EXCEPT !.pc = "write", !.status = "ok",
                            !.read = IF req[c].kind = "get" THEN Stored ELSE {}])
    /\ UNCHANGED <<server, gone, again>>

\* The handler waits for the database, whether the statement is done or not.
Waiting(c) == req[c].pc = "handler" \/ (req[c].pc = "write" /\ req[c].status = "ok")

\* Mutant of StatementFails: the handler tries once more.
StatementRetried(c) ==
    /\ Waiting(c)
    /\ Becomes(c, [req[c] EXCEPT !.pc = "handler", !.status = "none"])
    /\ UNCHANGED <<server, rows, gone, again>>

\* The statement fails, its connection is lost, or its context is cancelled when
\* the client goes: before the database has done it, or after.
StatementFails(c) ==
    /\ Waiting(c)
    /\ Becomes(c, [req[c] EXCEPT !.pc = "write", !.status = "error", !.read = {}])
    /\ UNCHANGED <<server, rows, gone, again>>

\* The database closes the connection, before it has done the statement or
\* after, and database/sql, which is told ErrBadConn, runs it again, up to
\* MaxRepeats times.  (A query that is run again is the query run later.)
DriverRetries(c) ==
    /\ Waiting(c) /\ req[c].kind = "append" /\ again[c] < MaxRepeats
    /\ Becomes(c, [req[c] EXCEPT !.pc = "handler", !.status = "none"])
    /\ again' = [again EXCEPT ![c] = @ + 1]
    /\ UNCHANGED <<server, rows, gone>>

\* MustWriteJSON.
WriteAnswer(c) ==
    /\ req[c].pc = "write"
    /\ Becomes(c, [req[c] EXCEPT !.pc = IF c \in gone THEN "none" ELSE req[c].status])
    /\ UNCHANGED <<server, rows, gone, again>>

\* The same for rows that do not fit in the buffers of net/http, and a client
\* that has gone: the Write fails, and klog.Fatalf ends the process.
WriteFatal(c) ==
    /\ req[c].pc = "write" /\ c \in gone
    /\ req[c].kind = "get" /\ req[c].status = "ok"
    /\ server' = "down"
    /\ req' = Dropped
    /\ UNCHANGED <<rows, gone, again>>

-----------------------------------------------------------------------------
(* The process, and the clients. *)

\* A signal; Shutdown closes the listener, and waits.
Stop ==
    /\ server = "up"
    /\ server' = "stopping"
    /\ UNCHANGED <<rows, req, gone, again>>

\* Shutdown has seen the last connection idle.
Drained ==
    /\ server = "stopping" /\ UnderWay = {}
    /\ server' = "drained"
    /\ UNCHANGED <<rows, req, gone, again>>

\* Its context ends, after three seconds; the handlers go on.
Expire ==
    /\ server = "stopping"
    /\ server' = "expired"
    /\ UNCHANGED <<rows, req, gone, again>>

\* Mutant of Exit: main returns and the handlers go on.
ExitInBackground ==
    /\ server \in {"drained", "expired"}
    /\ server' = "down"
    /\ UNCHANGED <<rows, req, gone, again>>

\* Half a second later main returns, and with it whatever is under way.
Exit ==
    /\ server \in {"drained", "expired"}
    /\ server' = "down"
    /\ req' = Dropped
    /\ UNCHANGED <<rows, gone, again>>

\* The process is killed, and started again; the table stays.
Kill ==
    /\ server # "down"
    /\ server' = "down"
    /\ req' = Dropped
    /\ UNCHANGED <<rows, gone, again>>

Start ==
    /\ server = "down"
    /\ server' = "up"
    /\ UNCHANGED <<rows, req, gone, again>>

LeaveEarly(c) ==
    /\ c \in UnderWay \ gone
    /\ gone' = gone \cup {c}
    /\ UNCHANGED <<server, rows, req, again>>

Handle(c) ==
    \/ Reject(c) \/ Statement(c) \/ StatementFails(c) \/ DriverRetries(c)
    \/ WriteAnswer(c) \/ WriteFatal(c)

Next ==
    \/ \E c \in Clients, kind \in Kinds : Arrive(c, kind)
    \/ \E c \in Clients : Handle(c) \/ LeaveEarly(c)
    \/ Stop \/ Drained \/ Expire \/ Exit \/ Kill \/ Start

Spec == Init /\ [][Next]_vars

-----------------------------------------------------------------------------
(* Properties. *)

\* The parts keep their shape, and no request outlives the process.
TypeOK ==
    /\ server \in {"up", "stopping", "drained", "expired", "down"}
    /\ rows \in [Clients -> Nat]
    /\ req \in [Clients -> Request]
    /\ gone \subseteq Clients
    /\ again \in [Clients -> 0..MaxRepeats]
    /\ server = "down" => UnderWay = {}

\* An agent that is told ok has its row.  It has more only if the driver ran its
\* statement again, one more each time: whatever fails, no handler does.  Who
\* appended nothing has none.
AppendedOnce ==
    \A c \in Clients :
        /\ rows[c] <= IF req[c].kind # "append" THEN 0 ELSE 1 + again[c]
        /\ c \in Told => rows[c] > 0

\* A read that is answered holds every row whose agent had been told so before
\* the read came (of those it asked for: host, minutes and limit are left out),
\* through restarts of the collector.
ReadsWhatWasTold ==
    \A c \in Clients : req[c].kind = "get" /\ req[c].pc = "ok" => req[c].before \subseteq req[c].read

\* A stop that ends before its three seconds has let every request accepted
\* before it run to its answer: until main returns nothing is under way that its
\* return would cut off, nor does anything new come.
ShutdownWaits == server = "drained" => UnderWay = {}
=============================================================================
