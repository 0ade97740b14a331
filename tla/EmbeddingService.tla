--------------------------- MODULE EmbeddingService ---------------------------
(***************************************************************************)
(* embedding_server.py: one model, one event loop.                         *)
(*                                                                         *)
(* model.encode is called in an async handler and does not yield: one text *)
(* is encoded at a time, and /health answers nobody meanwhile.  A client   *)
(* whose request has timed out is gone, but its request is still in the    *)
(* server and will be encoded.  uvicorn accepts connections after lifespan *)
(* has loaded the model, so the answer 503 is never given; both clients    *)
(* send one text, so neither is 400.                                       *)
(***************************************************************************)
EXTENDS Naturals

CONSTANT MaxStale   \* bound: abandoned requests counted; MaxStale stands for as many or more

ASSUME StaleAssumption == MaxStale \in Nat

VARIABLES
    server,     \* "down": no process, or the model is loading; "up"
    asking,     \* the clients whose request is in the server
    stale       \* requests in the server that nobody waits for

service == <<server, asking, stale>>

ServiceInit == server = "down" /\ asking = {} /\ stale = 0

\* lifespan
LoadModel ==
    /\ server = "down"
    /\ server' = "up"
    /\ UNCHANGED <<asking, stale>>

\* A client posts its text.
Post(c) ==
    /\ server = "up"
    /\ asking' = asking \cup {c}
    /\ UNCHANGED <<server, stale>>

\* generate_embeddings: the text of c is encoded, or encode raises (500); c gets
\* the answer.  Requests that came during one encode are taken in any order.
Answer(c) ==
    /\ c \in asking
    /\ asking' = asking \ {c}
    /\ UNCHANGED <<server, stale>>

\* The same for a client that has gone.
EncodeStale ==
    /\ stale > 0
    /\ \/ stale' = stale - 1
       \/ stale = MaxStale /\ stale' = stale
    /\ UNCHANGED <<server, asking>>

\* Nobody accepts the connection.
Refused ==
    /\ server = "down"
    /\ UNCHANGED service

\* The connection of c, which has posted, was closed by the end of the server.
Closed(c) ==
    /\ c \notin asking
    /\ UNCHANGED service

\* Mutant of TimeOut: a client waits as long as the server lives.
NoTimeOut(c) == Closed(c)

\* c waits no longer; its request stays.
TimeOut(c) ==
    /\ c \in asking
    /\ asking' = asking \ {c}
    /\ stale' = IF stale < MaxStale THEN stale + 1 ELSE stale
    /\ UNCHANGED server

\* The process ends; who waits sees its connection closed.
CrashServer ==
    /\ server = "up"
    /\ server' = "down"
    /\ asking' = {}
    /\ stale' = 0
=============================================================================
