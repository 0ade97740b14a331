----------------------------- MODULE SearchProofs -----------------------------
(***************************************************************************)
(* Theorems about the searches, for any documents and texts, any number of *)
(* requests and any pool.                                                  *)
(*                                                                         *)
(* TypeOK needs the account of the connections (none is given back twice)  *)
(* and what the index promises those who join its tables: a chunk belongs  *)
(* to a document that has a text.  That titles fit texts needs more of the *)
(* index: the chunks of a document are of the text recorded for it, unless *)
(* its last writer has recorded it and not cleared them.                   *)
(***************************************************************************)
EXTENDS SearchAPI, FiniteSetTheorems, TLAPS

Joinable(f) ==
    /\ held[f].n > 0 => held[f].text \in Text /\ recorded[f] \in Text
    /\ writing[f] # "no" => recorded[f] \in Text
    /\ held[f].n > 0 /\ f \notin halfway => held[f].text = recorded[f]

IndexInv == IndexTypeOK /\ halfway \subseteq Files /\ \A f \in Files : Joinable(f)

SearchInv ==
    /\ TypeOK
    /\ IndexInv
    /\ ConnectionsReturn

HoldingPC == {"query", "count", "count_chunks", "latest"}

-----------------------------------------------------------------------------
(* The index. *)

LEMMA IndexStart == IndexInit /\ halfway = {} => IndexInv
  BY DEF IndexInit, IndexInv, IndexTypeOK, Joinable, Nothing

LEMMA RecordKept ==
  ASSUME IndexInv, NEW g \in Files, RecordRow(g)
  PROVE  IndexInv'
<1>1. PICK c \in Text : Record(g, c)
  BY DEF RecordRow
<1>2. /\ recorded' = [recorded EXCEPT ![g] = c] /\ held' = held
      /\ writing' = [writing EXCEPT ![g] = "clear"] /\ halfway' = halfway \cup {g}
  BY <1>1 DEF Record, RecordRow
<1>3. \A f \in Files : Joinable(f)'
  BY <1>2 DEF IndexInv, IndexTypeOK, Joinable
<1> QED BY <1>2, <1>3 DEF IndexInv, IndexTypeOK

LEMMA ClearKept ==
  ASSUME IndexInv, NEW g \in Files, ClearRows(g)
  PROVE  IndexInv'
<1>1. /\ held' = [held EXCEPT ![g] = Nothing] /\ recorded' = recorded
      /\ writing' = [writing EXCEPT ![g] = "fill"] /\ writing[g] # "no"
      /\ halfway' = halfway \ {g}
  BY DEF Clear, ClearRows
<1>2. Nothing \in [text : Text \cup {NoText}, n : Nat] /\ Nothing.n = 0
  BY DEF Nothing
<1>3. \A f \in Files : Joinable(f)'
  BY <1>1, <1>2 DEF IndexInv, IndexTypeOK, Joinable
<1> QED BY <1>1, <1>2, <1>3 DEF IndexInv, IndexTypeOK

LEMMA AddKept ==
  ASSUME IndexInv, NEW g \in Files, Add(g),
         UNCHANGED halfway
  PROVE  IndexInv'
<1> DEFINE n == held[g].n + 1
           new == [text |-> recorded[g], n |-> n]
           next == IF n = NChunks[recorded[g]] THEN "no" ELSE "fill"
<1>1. /\ held' = [held EXCEPT ![g] = new] /\ recorded' = recorded
      /\ writing' = [writing EXCEPT ![g] = next] /\ writing[g] # "no"
  BY DEF Add
<1>2. recorded[g] \in Text
  BY <1>1 DEF IndexInv, Joinable
<1>3. new \in [text : Text \cup {NoText}, n : Nat] /\ new.text = recorded[g]
  BY <1>2 DEF IndexInv, IndexTypeOK
<1>4. next \in {"no", "fill"}
  OBVIOUS
<1> HIDE DEF new, next
<1>5. \A f \in Files : Joinable(f)'
  BY <1>1, <1>2, <1>3, <1>4 DEF IndexInv, IndexTypeOK, Joinable
<1> QED BY <1>1, <1>3, <1>4, <1>5 DEF IndexInv, IndexTypeOK

LEMMA AbandonKept ==
  ASSUME IndexInv, NEW g \in Files, Abandon(g),
         UNCHANGED halfway
  PROVE  IndexInv'
<1>1. writing' = [writing EXCEPT ![g] = "no"] /\ recorded' = recorded /\ held' = held
  BY DEF Abandon
<1> QED BY <1>1 DEF IndexInv, IndexTypeOK, Joinable

\* One read of the two tables gives rows that fit together.
LEMMA JoinFits ==
  ASSUME IndexInv, NEW x \in Joined
  PROVE  x \in Row /\ (x.title = x.text \/ x.file \in halfway)
<1>1. PICK f \in Files : \E i \in 1..held[f].n :
              x = [file |-> f, title |-> recorded[f], text |-> held[f].text, i |-> i]
  BY DEF Joined
<1>2. PICK i \in 1..held[f].n :
              x = [file |-> f, title |-> recorded[f], text |-> held[f].text, i |-> i]
  BY <1>1
<1>3. held[f].n \in Nat /\ i \in Nat \ {0} /\ held[f].n > 0
  BY DEF IndexInv, IndexTypeOK
<1>4. recorded[f] \in Text /\ held[f].text \in Text
  BY <1>3 DEF IndexInv, Joinable
<1>5. held[f].text = recorded[f] \/ f \in halfway
  BY <1>3 DEF IndexInv, Joinable
<1> QED BY <1>2, <1>3, <1>4, <1>5 DEF Row

-----------------------------------------------------------------------------
(* The requests. *)

LEMMA HoldingFinite == IsFiniteSet(Holding) /\ Cardinality(Holding) \in Nat
<1>1. Holding \in SUBSET Requests
  BY DEF Holding
<1> QED BY <1>1, SearchAssumption, FS_Subset, FS_CardinalityType

\* Request r, which goes to pc, has one connection more or less if its place says so.
Accounted(r, pc) ==
    /\ (pc \in HoldingPC <=> r \in Holding) => free' = free
    /\ pc \in HoldingPC /\ r \notin Holding => free' = free - 1
    /\ pc \notin HoldingPC /\ r \in Holding => free' = free + 1

\* A request goes on, and takes or gives back one connection as its place says.
LEMMA RequestMoves ==
  ASSUME SearchInv, NEW r \in Requests, NEW x \in Request, req' = [req EXCEPT ![r] = x],
         UNCHANGED <<store, server, api, writer, attempt>>,
         stale' \in 0..MaxStale, asking' \subseteq asking \cup {r}, r \in asking' => x.pc = "asked",
         free' \in Nat, Accounted(r, x.pc)
  PROVE  SearchInv'
<1>1. req' \in [Requests -> Request] /\ req'[r] = x /\ \A q \in Requests \ {r} : req'[q] = req[q]
  BY DEF SearchInv, TypeOK
<1>2. Holding' = IF x.pc \in HoldingPC THEN Holding \cup {r} ELSE Holding \ {r}
  <2>1. \A q \in Requests : q \in Holding' <=> IF q = r THEN x.pc \in HoldingPC ELSE q \in Holding
    BY <1>1 DEF Holding, HoldingPC
  <2>2. Holding' \subseteq Requests /\ Holding \subseteq Requests
    BY DEF Holding
  <2> QED BY <2>1, <2>2
<1>3. Cardinality(Holding') = Cardinality(Holding) + (IF x.pc \in HoldingPC THEN 1 ELSE 0)
                                                   - (IF r \in Holding THEN 1 ELSE 0)
  <2>1. CASE x.pc \in HoldingPC
    <3>1. Cardinality(Holding \cup {r}) =
            IF r \in Holding THEN Cardinality(Holding) ELSE Cardinality(Holding) + 1
      BY HoldingFinite, FS_AddElement
    <3> QED BY <1>2, <2>1, <3>1, HoldingFinite
  <2>2. CASE x.pc \notin HoldingPC
    <3>1. Cardinality(Holding \ {r}) =
            IF r \in Holding THEN Cardinality(Holding) - 1 ELSE Cardinality(Holding)
      BY HoldingFinite, FS_RemoveElement
    <3> QED BY <1>2, <2>2, <3>1, HoldingFinite
  <2> QED BY <2>1, <2>2
<1>4. Cardinality(Holding') \in Nat
  <2>1. Holding' \in SUBSET Requests
    BY DEF Holding
  <2> QED BY <2>1, SearchAssumption, FS_Subset, FS_CardinalityType
<1>5. ConnectionsReturn' /\ free' \in 0..PoolSize
  <2>1. free \in Nat /\ free + Cardinality(Holding) = PoolSize
    BY SearchAssumption DEF SearchInv, TypeOK, ConnectionsReturn
  <2>2. free' + Cardinality(Holding') = PoolSize
    <3>1. /\ free \in Nat /\ free' \in Nat /\ PoolSize \in Nat
          /\ Cardinality(Holding) \in Nat /\ Cardinality(Holding') \in Nat
      BY <1>4, <2>1, HoldingFinite, SearchAssumption
    <3>2. CASE x.pc \in HoldingPC <=> r \in Holding
      <4>1. Cardinality(Holding') = Cardinality(Holding)
        BY <1>3, <3>1, <3>2
      <4>2. free' = free
        BY <3>2 DEF Accounted
      <4> QED BY <2>1, <4>1, <4>2
    <3>3. CASE x.pc \in HoldingPC /\ r \notin Holding
      <4>1. Cardinality(Holding') = Cardinality(Holding) + 1
        BY <1>3, <3>1, <3>3
      <4>2. free' = free - 1
        BY <3>3 DEF Accounted
      <4> QED BY <2>1, <3>1, <4>1, <4>2
    <3>4. CASE x.pc \notin HoldingPC /\ r \in Holding
      <4>1. Cardinality(Holding') = Cardinality(Holding) - 1
        BY <1>3, <3>1, <3>4
      <4>2. free' = free + 1
        BY <3>4 DEF Accounted
      <4> QED BY <2>1, <3>1, <4>1, <4>2
    <3> QED BY <3>2, <3>3, <3>4
  <2> QED BY <1>4, <2>2, SearchAssumption DEF ConnectionsReturn
<1>6. TypeOK'
  <2>1. asking' \subseteq {q \in Requests : req'[q].pc = "asked"}
                          \cup (IF writer' = "asked" THEN {Indexer} ELSE {})
    <3> SUFFICES ASSUME NEW q \in asking'
                 PROVE  q \in {p \in Requests : req'[p].pc = "asked"}
                              \cup (IF writer = "asked" THEN {Indexer} ELSE {})
      OBVIOUS
    <3>1. CASE q = r
      BY <1>1, <3>1
    <3>2. CASE q # r
      BY <1>1, <3>2 DEF SearchInv, TypeOK
    <3> QED BY <3>1, <3>2
  <2> QED BY <1>1, <1>5, <2>1 DEF SearchInv, TypeOK, IndexTypeOK, store, index
<1>7. IndexInv'
  BY DEF SearchInv, IndexInv, IndexTypeOK, Joinable, store, index
<1> QED BY <1>5, <1>6, <1>7 DEF SearchInv

\* The same when only the place changes.
LEMMA RequestGoes ==
  ASSUME SearchInv, NEW r \in Requests, NEW pc, Goto(r, pc),
         pc \in Final \cup {"embed", "asked", "acquire"} \cup HoldingPC,
         UNCHANGED <<store, server, api, writer, attempt>>,
         stale' \in 0..MaxStale, asking' \subseteq asking \cup {r}, r \in asking' => pc = "asked",
         free' \in Nat, Accounted(r, pc)
  PROVE  SearchInv'
<1> DEFINE x == [req[r] EXCEPT !.pc = pc]
<1>1. req[r] \in Request
  BY DEF SearchInv, TypeOK
<1>2. x \in Request /\ x.pc = pc /\ x.rows = req[r].rows
  BY <1>1 DEF Request, HoldingPC
<1>3. req' = [req EXCEPT ![r] = x]
  BY DEF Goto
<1> HIDE DEF x
<1> QED BY <1>1, <1>2, <1>3, RequestMoves

\* Nothing of the requests or the pool changes.
LEMMA WriterMoves ==
  ASSUME SearchInv, UNCHANGED <<free, req>>, IndexInv',
         server' \in {"down", "up"}, stale' \in 0..MaxStale, api' \in {"down", "up", "stopping"},
         asking' \subseteq asking \cup {Indexer}, Indexer \in asking' => writer' = "asked",
         writer' \in {"ready", "asked", "embedded"}, attempt' \in 1..MaxAttempts
  PROVE  SearchInv'
<1>1. asking' \subseteq {r \in Requests : req'[r].pc = "asked"}
                        \cup (IF writer' = "asked" THEN {Indexer} ELSE {})
  BY DEF SearchInv, TypeOK
<1> QED BY <1>1 DEF SearchInv, TypeOK, ConnectionsReturn, Holding, IndexInv

-----------------------------------------------------------------------------

LEMMA SearchStart == Init => SearchInv
<1> SUFFICES ASSUME Init PROVE SearchInv
  OBVIOUS
<1>1. NewRequest \in Request /\ NewRequest.pc = "new" /\ NewRequest.rows = {}
  BY DEF NewRequest, Request, Final
<1>2. req \in [Requests -> Request] /\ \A r \in Requests : req[r] = NewRequest
  BY <1>1 DEF Init
<1>3. Holding = {}
  BY <1>1, <1>2 DEF Holding
<1>4. ConnectionsReturn
  BY <1>3, FS_EmptySet, SearchAssumption DEF Init, ConnectionsReturn
<1>6. free \in 0..PoolSize /\ attempt \in 1..MaxAttempts /\ stale \in 0..MaxStale
  BY SearchAssumption, StaleAssumption DEF Init, ServiceInit
<1>7. TypeOK
  BY <1>2, <1>6, IndexStart DEF IndexInv, Init, ServiceInit, TypeOK
<1> QED BY <1>4, <1>7, IndexStart DEF SearchInv, Init

LEMMA ApiStep ==
  ASSUME SearchInv, StartApi \/ StopApi \/ CloseApi PROVE SearchInv'
<1>1. /\ UNCHANGED <<store, service, free, req, writer, attempt>>
      /\ api' \in {"down", "up", "stopping"}
  BY DEF StartApi, StopApi, CloseApi
<1>2. IndexInv'
  BY <1>1 DEF SearchInv, TypeOK, IndexInv, IndexTypeOK, Joinable, store, index
<1>3. Indexer \in asking => writer = "asked"
  BY SearchAssumption DEF SearchInv, TypeOK
<1> QED BY <1>1, <1>2, <1>3, WriterMoves DEF service, SearchInv, TypeOK

LEMMA CrashStep == ASSUME SearchInv, CrashApi PROVE SearchInv'
<1> DEFINE lost == Cardinality(asking \cap Requests)
           gone == [NewRequest EXCEPT !.pc = "failed"]
<1>1. /\ UNCHANGED <<store, server, writer, attempt>> /\ api' = "down" /\ free' = PoolSize
      /\ req' = [r \in Requests |-> IF r \in UnderWay THEN gone ELSE req[r]]
      /\ asking' = asking \ Requests
      /\ stale' = IF stale + lost > MaxStale THEN MaxStale ELSE stale + lost
  BY DEF CrashApi
<1>2. lost \in Nat
  <2>1. asking \cap Requests \in SUBSET Requests
    OBVIOUS
  <2> QED BY <2>1, SearchAssumption, FS_Subset, FS_CardinalityType
<1>3. stale' \in 0..MaxStale
  BY <1>1, <1>2, StaleAssumption DEF SearchInv, TypeOK
<1>4. gone \in Request /\ gone.pc = "failed" /\ gone.rows = {}
  BY DEF NewRequest, Request, Final
<1> HIDE DEF gone, lost
<1>5. req' \in [Requests -> Request]
  BY <1>1, <1>4 DEF SearchInv, TypeOK
<1>6. \A r \in Requests : req'[r].pc \in Final
  BY <1>1, <1>4 DEF Final, UnderWay
<1>7. Holding' = {}
  BY <1>6 DEF Holding, Final
<1>8. ConnectionsReturn' /\ free' \in 0..PoolSize
  BY <1>1, <1>7, FS_EmptySet, SearchAssumption DEF ConnectionsReturn
<1>9. IndexInv'
  BY <1>1 DEF SearchInv, TypeOK, IndexInv, IndexTypeOK, Joinable, store, index
<1>10. asking' \subseteq {r \in Requests : req'[r].pc = "asked"}
                         \cup (IF writer' = "asked" THEN {Indexer} ELSE {})
  BY <1>1 DEF SearchInv, TypeOK
<1>11. TypeOK'
  BY <1>1, <1>3, <1>5, <1>8, <1>9, <1>10 DEF SearchInv, IndexInv, TypeOK
<1> QED BY <1>8, <1>9, <1>11 DEF SearchInv

LEMMA ArriveStep ==
  ASSUME SearchInv, NEW r \in Requests, NEW kind \in Kinds, Arrive(r, kind) PROVE SearchInv'
<1> DEFINE x == [NewRequest EXCEPT !.kind = kind, !.pc = IF NeedsVector(kind) THEN "embed" ELSE "acquire"]
<1>1. /\ UNCHANGED <<store, service, api, free, writer, attempt>> /\ req[r].pc = "new"
      /\ req' = [req EXCEPT ![r] = x]
  BY DEF Arrive
<1>2. x \in Request /\ x.pc \in {"embed", "acquire"} /\ x.rows = {}
  BY DEF NewRequest, Request
<1> HIDE DEF x
<1>3. r \notin Holding /\ r \notin asking
  BY <1>1, SearchAssumption DEF Holding, SearchInv, TypeOK
<1>4. free' \in Nat /\ stale' \in 0..MaxStale
  BY <1>1 DEF SearchInv, TypeOK, service
<1> QED BY <1>1, <1>2, <1>3, <1>4, RequestMoves DEF service, HoldingPC, Accounted

LEMMA RequestStepKeeps ==
  ASSUME SearchInv, NEW r \in Requests, RequestStep(r) \/ GetVector(r) PROVE SearchInv'
<1>0. /\ free \in Nat /\ stale \in 0..MaxStale /\ MaxStale \in Nat /\ Indexer # r
      /\ r \in asking => req[r].pc = "asked"
      /\ r \in Holding <=> req[r].pc \in HoldingPC
  BY SearchAssumption, StaleAssumption DEF SearchInv, TypeOK, Holding, HoldingPC
<1>1. CASE AskVector(r) \/ GetVector(r) \/ NoVector(r)
  <2>1. /\ UNCHANGED <<store, server, api, free, writer, attempt>> /\ r \notin Holding
        /\ \E pc \in {"asked", "acquire", "failed"} :
             /\ Goto(r, pc)
             /\ asking' \subseteq asking \cup {r} /\ stale' \in 0..MaxStale
             /\ r \in asking' => pc = "asked"
    BY <1>0, <1>1 DEF AskVector, GetVector, NoVector, Post, Refused, Answer, TimeOut, Closed,
                      service, HoldingPC
  <2> QED BY <1>0, <2>1, RequestGoes DEF Final, HoldingPC, Accounted
<1>2. CASE Acquire(r)
  <2>1. /\ UNCHANGED <<store, service, api, writer, attempt>> /\ r \notin Holding /\ r \notin asking
        /\ free > 0
        /\ \/ \E pc \in {"count", "query"} : Goto(r, pc) /\ free' = free - 1
           \/ Goto(r, "failed") /\ free' = free
    BY <1>0, <1>2 DEF Acquire, HoldingPC
  <2> QED BY <1>0, <2>1, RequestGoes DEF Final, HoldingPC, service, Accounted
<1>3. CASE Fetch(r)
  <2>1. PICK rows \in SUBSET Joined : req' = [req EXCEPT ![r].pc = "ok", ![r].rows = rows]
    BY <1>3 DEF Fetch
  <2>2. /\ UNCHANGED <<store, service, api, writer, attempt>> /\ req[r].pc = "query"
        /\ free' = free + 1
    BY <1>3 DEF Fetch
  <2> DEFINE x == [req[r] EXCEPT !.pc = "ok", !.rows = rows]
  <2>3. rows \in SUBSET Row
    BY JoinFits DEF SearchInv
  <2>4. x \in Request /\ x.pc = "ok" /\ x.rows = rows
    <3>1. req[r] \in Request
      BY DEF SearchInv, TypeOK
    <3> QED BY <2>3, <3>1 DEF Request, Final
  <2>5. req' = [req EXCEPT ![r] = x]
    BY <2>1
  <2> HIDE DEF x
  <2>6. r \in Holding /\ r \notin asking
    BY <1>0, <2>2 DEF HoldingPC
  <2>7. UNCHANGED <<store, server, asking, stale, api, writer, attempt>>
    BY <2>2 DEF service
  <2>8. /\ free' \in Nat
        /\ Accounted(r, x.pc)
    BY <1>0, <2>2, <2>4, <2>6 DEF HoldingPC, Accounted
  <2> QED BY <1>0, <2>3, <2>4, <2>5, <2>6, <2>7, <2>8, RequestMoves
<1>4. CASE Count(r) \/ StatementFails(r)
  <2>1. /\ UNCHANGED <<store, service, api, writer, attempt>> /\ r \in Holding /\ r \notin asking
        /\ \/ \E pc \in {"count_chunks", "latest"} : Goto(r, pc) /\ free' = free
           \/ \E pc \in {"ok", "failed"} : Goto(r, pc) /\ free' = free + 1
    BY <1>0, <1>4 DEF Count, StatementFails, HoldingPC
  <2> QED BY <1>0, <2>1, RequestGoes DEF Final, HoldingPC, service, Accounted
<1> QED BY <1>1, <1>2, <1>3, <1>4 DEF RequestStep

LEMMA WriterStepKeeps ==
  ASSUME SearchInv,
         \/ RecordOrClear \/ AskChunk \/ GetChunk \/ StoreChunk
         \/ RetryChunk \/ GiveUpChunk \/ WriterDies \/ ServerStep
  PROVE  SearchInv'
<1>0. /\ IndexInv
      /\ server \in {"down", "up"} /\ stale \in 0..MaxStale /\ MaxStale \in Nat
      /\ writer \in {"ready", "asked", "embedded"} /\ attempt \in 1..MaxAttempts
      /\ Indexer \in asking => writer = "asked"
      /\ api \in {"down", "up", "stopping"} /\ MaxAttempts \in Nat \ {0}
  BY SearchAssumption, StaleAssumption DEF SearchInv, TypeOK
<1>i. UNCHANGED store => IndexInv'
  BY <1>0 DEF IndexInv, IndexTypeOK, Joinable, store, index
<1>1. CASE RecordOrClear
  <2>1. IndexInv'
    BY <1>0, <1>1, RecordKept, ClearKept DEF RecordOrClear
  <2> QED BY <1>0, <1>1, <2>1, WriterMoves DEF RecordOrClear, service, Others
<1>2. CASE AskChunk \/ GetChunk
  <2>1. /\ UNCHANGED <<store, free, req, api, server, stale, attempt>>
        /\ asking' \subseteq asking \cup {Indexer}
        /\ Indexer \in asking' => writer' = "asked"
        /\ writer' \in {"asked", "embedded"}
    BY <1>2 DEF AskChunk, GetChunk, Post, Answer, Others
  <2>2. IndexInv'
    BY <1>i, <2>1
  <2>3. /\ server' \in {"down", "up"} /\ stale' \in 0..MaxStale /\ attempt' \in 1..MaxAttempts
        /\ api' \in {"down", "up", "stopping"} /\ writer' \in {"ready", "asked", "embedded"}
    BY <1>0, <2>1
  <2> QED BY <2>1, <2>2, <2>3, WriterMoves
<1>3. CASE StoreChunk
  <2>1. IndexInv'
    BY <1>0, <1>3, AddKept DEF StoreChunk
  <2>2. Indexer \notin asking /\ 1 \in 1..MaxAttempts
    BY <1>0, <1>3 DEF StoreChunk
  <2> QED BY <1>0, <1>3, <2>1, <2>2, WriterMoves DEF StoreChunk, service, Others
<1>4. CASE RetryChunk \/ GiveUpChunk
  <2>1. Unanswered /\ writer' = "ready" /\ UNCHANGED Others /\ attempt' \in 1..MaxAttempts
    BY <1>0, <1>4 DEF RetryChunk, GiveUpChunk, Unanswered
  <2>2. /\ asking' \subseteq asking /\ Indexer \notin asking' /\ server' = server
        /\ stale' \in 0..MaxStale
    BY <1>0, <2>1 DEF Unanswered, Refused, Answer, TimeOut, Closed, service
  <2>3. IndexInv'
    <3>1. CASE RetryChunk
      BY <1>i, <3>1 DEF RetryChunk
    <3>2. CASE GiveUpChunk
      BY <1>0, <3>2, AbandonKept DEF GiveUpChunk
    <3> QED BY <1>4, <3>1, <3>2
  <2> QED BY <1>0, <2>1, <2>2, <2>3, WriterMoves DEF Others
<1>5. CASE WriterDies
  <2>1. IndexInv'
    BY <1>0, <1>5, AbandonKept DEF WriterDies
  <2>2. /\ asking' \subseteq asking /\ Indexer \notin asking' /\ server' = server
        /\ stale' \in 0..MaxStale
    BY <1>0, <1>5 DEF WriterDies, TimeOut, service
  <2>3. 1 \in 1..MaxAttempts
    BY <1>0
  <2> QED BY <1>0, <1>5, <2>1, <2>2, <2>3, WriterMoves DEF WriterDies, Others
<1>6. CASE ServerStep
  <2>1. /\ UNCHANGED <<store, free, req, api, writer, attempt>> /\ asking' \subseteq asking
        /\ server' \in {"down", "up"} /\ stale' \in 0..MaxStale
    BY <1>0, <1>6 DEF ServerStep, LoadModel, EncodeStale, CrashServer, Others
  <2> QED BY <1>0, <1>i, <2>1, WriterMoves
<1> QED BY <1>1, <1>2, <1>3, <1>4, <1>5, <1>6

LEMMA SearchStep == SearchInv /\ [Next]_vars => SearchInv'
<1> SUFFICES ASSUME SearchInv, [Next]_vars PROVE SearchInv'
  OBVIOUS
<1>1. CASE UNCHANGED vars
  BY <1>1 DEF vars, store, index, IndexInv, service, SearchInv, TypeOK, IndexTypeOK, Joinable, ConnectionsReturn,
              Holding
<1> QED BY <1>1, ApiStep, CrashStep, ArriveStep, RequestStepKeeps, WriterStepKeeps DEF Next

LEMMA SearchAlways == Spec => []SearchInv
  BY SearchStart, SearchStep, PTL DEF Spec

\* The parts keep their shape, and the server works only for those who wait.
THEOREM SearchTypes == Spec => []TypeOK
<1>1. SearchInv => TypeOK
  BY DEF SearchInv
<1> QED BY <1>1, SearchAlways, PTL

\* While one writer rewrites the documents, a search returns the text of one
\* version under the title of another only between the upsert and the DELETE, or
\* after a writer that gave up there.
THEOREM TitlesOfTexts == Spec => TitlesFitTexts
<1> DEFINE Fits(r) == \A x \in req'[r].rows \ req[r].rows : x.title = x.text \/ x.file \in halfway
<1>1. SearchInv /\ [Next]_vars => [\A r \in Requests : Fits(r)]_vars
  <2> SUFFICES ASSUME SearchInv, Next, NEW r \in Requests PROVE Fits(r)
    OBVIOUS
  <2>0. req \in [Requests -> Request] /\ NewRequest.rows = {}
    BY DEF SearchInv, TypeOK, NewRequest
  <2>1. ASSUME NEW q \in Requests, Fetch(q) PROVE Fits(r)
    <3>1. PICK rows \in SUBSET Joined : req' = [req EXCEPT ![q].pc = "ok", ![q].rows = rows]
      BY <2>1 DEF Fetch
    <3>2. req'[r].rows \ req[r].rows \subseteq Joined
      BY <2>0, <3>1 DEF Request
    <3> QED BY <3>2, JoinFits DEF SearchInv
  <2>2. ASSUME NEW q \in Requests, NEW pc, Goto(q, pc) PROVE Fits(r)
    BY <2>0, <2>2 DEF Goto, Request
  <2>3. ASSUME NEW q \in Requests,
               AskVector(q) \/ GetVector(q) \/ NoVector(q) \/ Acquire(q) \/ Count(q) \/ StatementFails(q)
        PROVE  Fits(r)
    <3>1. \E pc \in Final \cup {"asked", "acquire", "query"} \cup HoldingPC : Goto(q, pc)
      BY <2>3 DEF AskVector, GetVector, NoVector, Acquire, Count, StatementFails, Final, HoldingPC
    <3> QED BY <2>2, <3>1
  <2>4. ASSUME NEW q \in Requests, NEW kind \in Kinds, Arrive(q, kind) PROVE Fits(r)
    BY <2>0, <2>4 DEF Arrive, NewRequest, Request
  <2>5. CASE CrashApi
    BY <2>0, <2>5 DEF CrashApi, NewRequest
  <2>6. ASSUME UNCHANGED req PROVE Fits(r)
    BY <2>6
  <2>7. CASE StartApi \/ StopApi \/ CloseApi \/ ServerStep
    BY <2>6, <2>7 DEF StartApi, StopApi, CloseApi, ServerStep, Others
  <2>8. CASE RecordOrClear \/ AskChunk \/ GetChunk \/ StoreChunk \/ RetryChunk \/ GiveUpChunk \/ WriterDies
    BY <2>6, <2>8 DEF RecordOrClear, AskChunk, GetChunk, StoreChunk, RetryChunk, GiveUpChunk,
                      WriterDies, Others
  <2> QED BY <2>1, <2>3, <2>4, <2>5, <2>7, <2>8 DEF Next, RequestStep
<1> QED BY <1>1, SearchAlways, PTL DEF Spec, TitlesFitTexts

\* No connection of the pool is lost or given back twice, however requests end.
THEOREM ConnectionsKept == Spec => []ConnectionsReturn
<1>1. SearchInv => ConnectionsReturn
  BY DEF SearchInv
<1> QED BY <1>1, SearchAlways, PTL
=============================================================================
