------------------------ MODULE ServerInboundProofs ------------------------
(***************************************************************************)
(* Proofs that the inbound path of the server keeps its invariants for any *)
(* number of servers and messages, any sizes of chunks and limits and any  *)
(* number of crashes, and that the results of its messages follow the      *)
(* contract of the datastore.                                              *)
(***************************************************************************)
EXTENDS ServerInbound, FiniteSetTheorems, TLAPS

\* What a contact has finished is in the datastore: the link between a chunk
\* that was stored earlier and the success the client is told at the end.
StoredSoFar ==
    \A w \in Handlers : \A m \in contact[w] \ (Unstored \cup rest[w]) :
        job[w][m] = "out" => db[m].result # "absent"

\* A row that tryStoreMessage and trySetMessageResult leave is well formed,
\* present, and pending iff it has no result.
LEMMA StoreRowFacts ==
    ASSUME NEW row \in Row, NEW m \in Msgs, NEW r \in Outcome,
           row.sched # "no" <=> row.result = "none"
    PROVE  /\ StoreRow(row, m, r) \in Row
           /\ StoreRow(row, m, r).result # "absent"
           /\ StoreRow(row, m, r).sched # "no" <=> StoreRow(row, m, r).result = "none"
  BY DEF StoreRow, tryStoreMessage, trySetMessageResult, Row, Outcome

\* The transaction of StoreMessages keeps the tables well formed, forgets no
\* message, and leaves every message of the transaction stored.
LEMMA StoreMessagesFacts ==
    ASSUME db \in [Msgs -> Row], PendingIffUnprocessed,
           NEW J, \A m \in DOMAIN J : J[m] \in Outcome,
           StoreMessages(J)
    PROVE  /\ db' \in [Msgs -> Row]
           /\ PendingIffUnprocessed'
           /\ \A m \in Msgs : db[m].result # "absent" => db'[m].result # "absent"
           /\ \A m \in Msgs \cap DOMAIN J : db'[m].result # "absent"
<1>1. \A m \in Msgs : /\ db'[m] = IF m \in DOMAIN J THEN StoreRow(db[m], m, J[m]) ELSE db[m]
                      /\ db[m] \in Row
                      /\ db[m].sched # "no" <=> db[m].result = "none"
  BY DEF StoreMessages, PendingIffUnprocessed
<1>2. \A m \in Msgs \cap DOMAIN J :
         /\ db'[m] \in Row /\ db'[m].result # "absent"
         /\ db'[m].sched # "no" <=> db'[m].result = "none"
  BY <1>1, StoreRowFacts
<1>3. \A m \in Msgs \ DOMAIN J : db'[m] = db[m]
  BY <1>1
<1>4. db' \in [Msgs -> Row]
  BY <1>1, <1>2, <1>3 DEF StoreMessages
<1> QED
  BY <1>1, <1>2, <1>3, <1>4 DEF PendingIffUnprocessed

\* Handlers and loopers are different workers, each of one server.
LEMMA WorkerFacts ==
    /\ Handlers \cap Loopers = {}
    /\ Handlers \subseteq Workers /\ Loopers \subseteq Workers
    /\ \A w \in Workers : w[1] \in Servers
  BY DEF Handlers, Loopers, Workers

\* There are finitely many calls a server can have in progress.
LEMMA FiniteCalls ==
    ASSUME NEW s, NEW J
    PROVE  IsFiniteSet(InCall(s, J)) /\ IsFiniteSet(InCall(s, J)')
<1>1. IsFiniteSet(Handlers) /\ IsFiniteSet(Loopers)
  BY InboundAssumption, FS_Product, FS_Singleton DEF Handlers, Loopers
<1>2. IsFiniteSet(Workers \X ServerMsgs)
  <2>1. IsFiniteSet(Workers)
    BY <1>1, FS_Union DEF Workers
  <2> QED
    BY <2>1, InboundAssumption, FS_Product
<1>3. InCall(s, J) \subseteq Workers \X ServerMsgs /\ InCall(s, J)' \subseteq Workers \X ServerMsgs
  BY DEF InCall
<1> QED
  BY <1>2, <1>3, FS_Subset

-----------------------------------------------------------------------------

\* The inductive invariant.  AckedIsStored needs StoredSoFar, the type of the
\* counter and CallsBounded need ParallelismExact.
IndInv ==
    /\ TypeOK
    /\ PendingIffUnprocessed
    /\ StoredSoFar
    /\ AckedIsStored
    /\ ParallelismExact
    /\ CallsBounded

\* An empty datastore and idle workers satisfy the inductive invariant.
LEMMA InitInd == Init => IndInv
<1> SUFFICES ASSUME Init PROVE IndInv
  OBVIOUS
<1> USE WorkerFacts
<1>1. TypeOK
  BY InboundAssumption DEF Init, TypeOK, Row, NoRow, Outcome, NoJob, JobState
<1>2. PendingIffUnprocessed /\ StoredSoFar /\ AckedIsStored
  BY DEF Init, PendingIffUnprocessed, StoredSoFar, AckedIsStored, NoRow
<1>3. \A s \in Servers : InCall(s, Counted) = {} /\ InCall(s, {"running"}) = {}
  BY DEF Init, InCall, NoJob, Counted
<1>4. ParallelismExact /\ CallsBounded
  <2>1. \A s \in Servers : /\ Cardinality(InCall(s, Counted)) = 0
                           /\ Cardinality(InCall(s, {"running"})) = 0
    BY <1>3, FS_EmptySet
  <2> QED
    BY <2>1, InboundAssumption DEF ParallelismExact, CallsBounded, Init
<1> QED
  BY <1>1, <1>2, <1>4 DEF IndInv

\* A step that neither makes nor ends a call leaves the counters right.
LEMMA CallsUnchanged ==
    ASSUME ParallelismExact, CallsBounded, parallelism' = parallelism,
           \A w \in Workers, m \in ServerMsgs, k \in Counted :
               job'[w][m] = k <=> job[w][m] = k
    PROVE  ParallelismExact' /\ CallsBounded'
<1>1. \A s \in Servers : /\ InCall(s, Counted)' = InCall(s, Counted)
                         /\ InCall(s, {"running"})' = InCall(s, {"running"})
  BY DEF InCall, Counted
<1> QED
  BY <1>1 DEF ParallelismExact, CallsBounded

\* processMessage counts a call before it compares the counter with the limit.
LEMMA BeginProcessCounts ==
    ASSUME TypeOK, ParallelismExact, CallsBounded,
           NEW w \in Workers, NEW m \in ServerMsgs, BeginProcess(w, m)
    PROVE  ParallelismExact' /\ CallsBounded'
<1> USE WorkerFacts
<1> DEFINE c == <<w, m>>
<1>1. c \notin InCall(w[1], Counted)
  BY DEF InCall, BeginProcess, Counted
<1>2. InCall(w[1], Counted)' = InCall(w[1], Counted) \cup {c}
  BY DEF InCall, BeginProcess, Counted, TypeOK
<1>3. \A s \in Servers \ {w[1]} : /\ InCall(s, Counted)' = InCall(s, Counted)
                                 /\ InCall(s, {"running"})' = InCall(s, {"running"})
  BY DEF InCall, BeginProcess, Counted, TypeOK
<1>4. ParallelismExact'
  <2>1. Cardinality(InCall(w[1], Counted)') = Cardinality(InCall(w[1], Counted)) + 1
    BY <1>1, <1>2, FiniteCalls, FS_AddElement
  <2> QED
    BY <2>1, <1>3 DEF ParallelismExact, BeginProcess, TypeOK
<1>5. Cardinality(InCall(w[1], {"running"})') <= MaxParallelism
  <2>1. CASE parallelism'[w[1]] > MaxParallelism
    <3>1. InCall(w[1], {"running"})' = InCall(w[1], {"running"})
      BY <2>1 DEF InCall, BeginProcess, Counted, TypeOK
    <3> QED
      BY <3>1 DEF CallsBounded
  <2>2. CASE ~(parallelism'[w[1]] > MaxParallelism)
    <3>1. InCall(w[1], {"running"})' \subseteq InCall(w[1], Counted)'
      BY DEF InCall, Counted
    <3>2. Cardinality(InCall(w[1], {"running"})') <= Cardinality(InCall(w[1], Counted)')
      BY <3>1, FiniteCalls, FS_Subset
    <3>3. Cardinality(InCall(w[1], Counted)') = parallelism'[w[1]]
      BY <1>4 DEF ParallelismExact
    <3>4. /\ Cardinality(InCall(w[1], {"running"})') \in Nat
          /\ Cardinality(InCall(w[1], Counted)') \in Nat
      BY FiniteCalls, FS_CardinalityType
    <3> QED
      BY <2>2, <3>2, <3>3, <3>4, InboundAssumption
  <2> QED
    BY <2>1, <2>2
<1> QED
  BY <1>3, <1>4, <1>5 DEF CallsBounded

\* ... and takes it off the counter exactly once.
LEMMA EndProcessCounts ==
    ASSUME TypeOK, ParallelismExact, CallsBounded,
           NEW w \in Workers, NEW m \in ServerMsgs, NEW r \in Outcome, EndProcess(w, m, r)
    PROVE  ParallelismExact' /\ CallsBounded' /\ parallelism' \in [Servers -> Nat]
<1> USE WorkerFacts
<1> DEFINE c == <<w, m>>
<1>1. c \in InCall(w[1], Counted)
  BY DEF InCall, EndProcess
<1>2. InCall(w[1], Counted)' = InCall(w[1], Counted) \ {c}
  BY DEF InCall, EndProcess, Counted, Outcome, TypeOK
<1>3. InCall(w[1], {"running"})' \subseteq InCall(w[1], {"running"})
  BY DEF InCall, EndProcess, Outcome, TypeOK
<1>4. \A s \in Servers \ {w[1]} : /\ InCall(s, Counted)' = InCall(s, Counted)
                                 /\ InCall(s, {"running"})' = InCall(s, {"running"})
  BY DEF InCall, EndProcess, Counted, TypeOK
<1>5. Cardinality(InCall(w[1], Counted)') = Cardinality(InCall(w[1], Counted)) - 1
  <2>1. IsFiniteSet(InCall(w[1], Counted))
    BY FiniteCalls
  <2>2. Cardinality(InCall(w[1], Counted) \ {c}) = Cardinality(InCall(w[1], Counted)) - 1
    BY <1>1, <2>1, FS_RemoveElement
  <2> QED
    BY <1>2, <2>2
<1>6. ParallelismExact'
  BY <1>4, <1>5 DEF ParallelismExact, EndProcess, TypeOK
<1>7. CallsBounded'
  <2>1. /\ Cardinality(InCall(w[1], {"running"})') <= Cardinality(InCall(w[1], {"running"}))
        /\ Cardinality(InCall(w[1], {"running"})') \in Nat
        /\ Cardinality(InCall(w[1], {"running"})) \in Nat
    BY <1>3, FiniteCalls, FS_Subset, FS_CardinalityType
  <2> QED
    BY <2>1, <1>4, InboundAssumption DEF CallsBounded
<1>8. parallelism' \in [Servers -> Nat]
  <2>1. \A s \in Servers : Cardinality(InCall(s, Counted)') \in Nat
    BY FiniteCalls, FS_CardinalityType
  <2>2. \A s \in Servers : parallelism'[s] \in Nat
    BY <2>1, <1>6 DEF ParallelismExact
  <2> QED
    BY <2>2 DEF EndProcess, TypeOK
<1> QED
  BY <1>6, <1>7, <1>8

-----------------------------------------------------------------------------

\* A chunk takes its messages from the contact and starts no call by itself.
LEMMA StartChunkFacts ==
    ASSUME TypeOK, NEW w \in Workers
    PROVE  \A todo \in SUBSET ServerMsgs : \A C \in SUBSET todo :
             StartChunk(w, todo, C) =>
               /\ rest' \in [Workers -> SUBSET ServerMsgs]
               /\ job' \in [Workers -> [ServerMsgs -> JobState]]
               /\ rest'[w] = todo \ C
               /\ \A m \in ServerMsgs : job'[w][m] = IF m \in C THEN "new" ELSE "out"
               /\ \A v \in Workers \ {w} : rest'[v] = rest[v] /\ job'[v] = job[v]
  BY DEF StartChunk, TypeOK, JobState

\* handleMessagesFromClient only starts goroutines for messages of its contact.
LEMMA ContactInd ==
    ASSUME IndInv, NEW w \in Handlers, NEW B \in SUBSET ServerMsgs,
           handleMessagesFromClient(w, B)
    PROVE  IndInv'
<1> USE WorkerFacts DEF IndInv
<1>1. PICK C \in SUBSET (B \ Unstored) : StartChunk(w, B \ Unstored, C)
  BY DEF handleMessagesFromClient
<1>2. /\ rest' \in [Workers -> SUBSET ServerMsgs]
      /\ job' \in [Workers -> [ServerMsgs -> JobState]]
      /\ rest'[w] = (B \ Unstored) \ C
      /\ \A m \in ServerMsgs : job'[w][m] = IF m \in C THEN "new" ELSE "out"
      /\ \A v \in Workers \ {w} : rest'[v] = rest[v] /\ job'[v] = job[v]
  <2> DEFINE todo == B \ Unstored
  <2>1. TypeOK /\ w \in Workers /\ todo \in SUBSET ServerMsgs
    OBVIOUS
  <2>2. C \in SUBSET todo /\ StartChunk(w, todo, C)
    BY <1>1
  <2>3. rest'[w] = todo \ C => rest'[w] = (B \ Unstored) \ C
    OBVIOUS
  <2> HIDE DEF todo, IndInv
  <2>4. /\ rest' \in [Workers -> SUBSET ServerMsgs]
        /\ job' \in [Workers -> [ServerMsgs -> JobState]]
        /\ rest'[w] = todo \ C
        /\ \A m \in ServerMsgs : job'[w][m] = IF m \in C THEN "new" ELSE "out"
        /\ \A v \in Workers \ {w} : rest'[v] = rest[v] /\ job'[v] = job[v]
    BY <2>1, <2>2, StartChunkFacts
  <2> QED
    BY <2>3, <2>4
<1>3. /\ db' = db /\ outbox' = outbox /\ parallelism' = parallelism /\ crashes' = crashes
      /\ contact' = [contact EXCEPT ![w] = B]
      /\ job[w] = NoJob
  BY DEF handleMessagesFromClient, Idle
<1>4. TypeOK'
  BY <1>2, <1>3 DEF TypeOK
<1>5. PendingIffUnprocessed' /\ AckedIsStored'
  BY <1>3 DEF PendingIffUnprocessed, AckedIsStored
<1>6. StoredSoFar'
  <2> SUFFICES ASSUME NEW v \in Handlers, NEW m \in contact'[v] \ (Unstored \cup rest'[v]),
                      job'[v][m] = "out"
               PROVE  db[m].result # "absent"
    BY <1>3 DEF StoredSoFar
  <2>1. CASE v = w
    <3>1. contact'[w] = B
      BY <1>3 DEF TypeOK
    <3> QED
      BY <2>1, <3>1, <1>2
  <2>2. CASE v # w
    <3>1. contact'[v] = contact[v]
      BY <2>2, <1>3 DEF TypeOK
    <3> QED
      BY <2>2, <3>1, <1>2 DEF StoredSoFar
  <2> QED
    BY <2>1, <2>2
<1>7. ParallelismExact' /\ CallsBounded'
  <2>1. \A v \in Workers, m \in ServerMsgs, k \in Counted : job'[v][m] = k <=> job[v][m] = k
    BY <1>2, <1>3 DEF NoJob, Counted
  <2> QED
    BY <2>1, <1>3, CallsUnchanged
<1> QED
  BY <1>4, <1>5, <1>6, <1>7

\* messageLooper.processMessages only takes messages that are pending.
LEMMA LooperInd ==
    ASSUME IndInv, NEW w \in Loopers, processMessages(w)
    PROVE  IndInv'
<1> USE WorkerFacts DEF IndInv
<1>1. PICK B \in SUBSET ServerMsgs :
         /\ UpTo(LooperLimit, DueIn(ServerMsgs), B)
         /\ Reschedule(B)
         /\ job' = [job EXCEPT ![w] = [m \in ServerMsgs |-> IF m \in B THEN "new" ELSE "out"]]
  BY DEF processMessages
<1>2. /\ outbox' = outbox /\ contact' = contact /\ rest' = rest
      /\ parallelism' = parallelism /\ crashes' = crashes /\ job[w] = NoJob
  BY DEF processMessages, Idle
<1>3. /\ db' \in [Msgs -> Row]
      /\ \A m \in Msgs : /\ db'[m].result = db[m].result
                         /\ db'[m].sched # "no" <=> db[m].sched # "no"
  <2>1. \A m \in B : m \in Msgs /\ db[m].sched = "due"
    BY <1>1 DEF UpTo, DueIn, Msgs
  <2> QED
    BY <1>1, <2>1 DEF Reschedule, TypeOK, Row
<1>4. TypeOK'
  BY <1>1, <1>2, <1>3 DEF TypeOK, JobState
<1>5. PendingIffUnprocessed' /\ AckedIsStored'
  BY <1>2, <1>3 DEF PendingIffUnprocessed, AckedIsStored, Msgs
<1>6. StoredSoFar'
  <2>1. \A v \in Handlers : job'[v] = job[v] /\ contact[v] \subseteq Msgs
    BY <1>1 DEF TypeOK, Msgs
  <2> QED
    BY <1>2, <1>3, <2>1 DEF StoredSoFar
<1>7. ParallelismExact' /\ CallsBounded'
  <2>1. \A v \in Workers, m \in ServerMsgs, k \in Counted : job'[v][m] = k <=> job[v][m] = k
    BY <1>1, <1>2 DEF NoJob, Counted, TypeOK
  <2> QED
    BY <2>1, <1>2, CallsUnchanged
<1> QED
  BY <1>4, <1>5, <1>6, <1>7

\* The steps of a message's own goroutine.
LEMMA GoroutineInd ==
    ASSUME IndInv, NEW w \in Workers, NEW m \in ServerMsgs, NEW r \in Outcome,
           UnknownService(w, m) \/ BeginProcess(w, m) \/ EndProcess(w, m, r)
    PROVE  IndInv'
<1> USE WorkerFacts DEF IndInv
<1>1. /\ db' = db /\ outbox' = outbox /\ contact' = contact /\ rest' = rest /\ crashes' = crashes
      /\ \E k \in JobState \ {"out"} : job' = [job EXCEPT ![w][m] = k]
      /\ job[w][m] # "out"
  BY DEF UnknownService, BeginProcess, EndProcess, JobState, Counted, Outcome
<1>2. PendingIffUnprocessed' /\ AckedIsStored'
  BY <1>1 DEF PendingIffUnprocessed, AckedIsStored
<1>3. StoredSoFar'
  <2>1. \A v \in Handlers, n \in ServerMsgs : job'[v][n] = "out" => job[v][n] = "out"
    BY <1>1 DEF TypeOK
  <2>2. \A v \in Handlers : contact[v] \subseteq ServerMsgs
    BY DEF TypeOK
  <2> QED
    BY <1>1, <2>1, <2>2 DEF StoredSoFar
<1>4. job' \in [Workers -> [ServerMsgs -> JobState]]
  BY <1>1 DEF TypeOK
<1>5. ParallelismExact' /\ CallsBounded' /\ parallelism' \in [Servers -> Nat]
  <2>1. CASE UnknownService(w, m)
    <3>1. \A v \in Workers, n \in ServerMsgs, k \in Counted : job'[v][n] = k <=> job[v][n] = k
      BY <2>1 DEF UnknownService, Counted, TypeOK
    <3> QED
      BY <2>1, <3>1, CallsUnchanged DEF UnknownService, TypeOK
  <2>2. CASE BeginProcess(w, m)
    <3>1. parallelism' \in [Servers -> Nat]
      BY <2>2 DEF BeginProcess, TypeOK
    <3> QED
      BY <2>2, <3>1, BeginProcessCounts
  <2>3. CASE EndProcess(w, m, r)
    BY <2>3, EndProcessCounts
  <2> QED
    BY <2>1, <2>2, <2>3
<1>6. TypeOK'
  BY <1>1, <1>4, <1>5 DEF TypeOK
<1> QED
  BY <1>2, <1>3, <1>5, <1>6

\* The outcomes a finished worker stores are outcomes, and a handler that has
\* finished stores everything it had a goroutine for.
LEMMA ResultsFacts ==
    ASSUME TypeOK, NEW w \in Workers, NEW R \in SUBSET Outcome
    PROVE  /\ DOMAIN Results(w, R) = {m \in ServerMsgs : job[w][m] \in R}
           /\ \A m \in DOMAIN Results(w, R) : Results(w, R)[m] \in Outcome
  BY DEF Results, TypeOK

\* The end of HandleNewMessages: after the last chunk everything the contact
\* brought, apart from the batched messages, is stored.
LEMMA HandlerInd ==
    ASSUME IndInv, NEW w \in Handlers, NEW told \in BOOLEAN, HandleNewMessages(w, told)
    PROVE  IndInv'
<1> USE WorkerFacts DEF IndInv
<1>1. /\ Finished(w) /\ StoreMessages(Results(w, Outcome))
      /\ parallelism' = parallelism /\ crashes' = crashes
  BY DEF HandleNewMessages
<1>2. /\ db' \in [Msgs -> Row]
      /\ PendingIffUnprocessed'
      /\ \A m \in Msgs : db[m].result # "absent" => db'[m].result # "absent"
      /\ \A m \in ServerMsgs : job[w][m] \in Outcome => db'[m].result # "absent"
  <2>1. /\ DOMAIN Results(w, Outcome) = {m \in ServerMsgs : job[w][m] \in Outcome}
        /\ \A m \in DOMAIN Results(w, Outcome) : Results(w, Outcome)[m] \in Outcome
    BY ResultsFacts
  <2>2. db \in [Msgs -> Row]
    BY DEF TypeOK
  <2> HIDE DEF IndInv
  <2>3. /\ db' \in [Msgs -> Row]
        /\ PendingIffUnprocessed'
        /\ \A m \in Msgs : db[m].result # "absent" => db'[m].result # "absent"
        /\ \A m \in Msgs \cap DOMAIN Results(w, Outcome) : db'[m].result # "absent"
    BY <1>1, <2>1, <2>2, StoreMessagesFacts DEF IndInv
  <2> QED
    BY <2>1, <2>3 DEF Msgs
<1>3. \A m \in contact[w] \ (Unstored \cup rest[w]) : db'[m].result # "absent"
  <2> SUFFICES ASSUME NEW m \in contact[w] \ (Unstored \cup rest[w])
               PROVE  db'[m].result # "absent"
    OBVIOUS
  <2>1. m \in ServerMsgs /\ m \in Msgs
    BY DEF TypeOK, Msgs
  <2>2. job[w][m] \in {"out"} \cup Outcome
    BY <1>1, <2>1 DEF Finished
  <2>3. job[w][m] = "out" => db[m].result # "absent"
    BY DEF StoredSoFar
  <2> QED
    BY <1>2, <2>1, <2>2, <2>3
<1>4. \A m \in ServerMsgs, k \in Counted : job[w][m] # k
  BY <1>1 DEF Finished, Counted, Outcome
<1>5. CASE rest[w] # {}
  <2>1. PICK C \in SUBSET rest[w] : StartChunk(w, rest[w], C)
    BY <1>5 DEF HandleNewMessages
  <2>2. outbox' = outbox /\ contact' = contact
    BY <1>5 DEF HandleNewMessages
  <2>3. /\ rest' \in [Workers -> SUBSET ServerMsgs]
        /\ job' \in [Workers -> [ServerMsgs -> JobState]]
        /\ rest'[w] = rest[w] \ C
        /\ \A m \in ServerMsgs : job'[w][m] = IF m \in C THEN "new" ELSE "out"
        /\ \A v \in Workers \ {w} : rest'[v] = rest[v] /\ job'[v] = job[v]
    <3>1. TypeOK /\ w \in Workers /\ rest[w] \in SUBSET ServerMsgs
      BY DEF TypeOK
    <3> QED
      BY <2>1, <3>1, StartChunkFacts
  <2>4. TypeOK'
    BY <1>1, <1>2, <2>2, <2>3 DEF TypeOK
  <2>5. AckedIsStored'
    BY <1>2, <2>2 DEF AckedIsStored, Msgs
  <2>6. StoredSoFar'
    <3> SUFFICES ASSUME NEW v \in Handlers, NEW m \in contact[v] \ (Unstored \cup rest'[v]),
                        job'[v][m] = "out"
                 PROVE  db'[m].result # "absent"
      BY <2>2 DEF StoredSoFar
    <3>1. m \in ServerMsgs /\ m \in Msgs
      BY DEF TypeOK, Msgs
    <3>2. CASE v = w
      BY <3>1, <3>2, <2>3, <1>3
    <3>3. CASE v # w
      BY <3>1, <3>3, <2>3, <1>2 DEF StoredSoFar
    <3> QED
      BY <3>2, <3>3
  <2>7. ParallelismExact' /\ CallsBounded'
    <3>1. \A v \in Workers, m \in ServerMsgs, k \in Counted : job'[v][m] = k <=> job[v][m] = k
      BY <1>4, <2>3 DEF Counted
    <3> QED
      BY <1>1, <3>1, CallsUnchanged
  <2> QED
    BY <1>2, <2>4, <2>5, <2>6, <2>7
<1>6. CASE rest[w] = {}
  <2>1. /\ contact' = [contact EXCEPT ![w] = {}]
        /\ job' = [job EXCEPT ![w] = NoJob]
        /\ outbox' = IF told THEN outbox \ contact[w] ELSE outbox
        /\ rest' = rest
    BY <1>6 DEF HandleNewMessages
  <2>2. NoJob \in [ServerMsgs -> JobState]
    BY DEF NoJob, JobState
  <2>3. TypeOK'
    BY <1>1, <1>2, <2>1, <2>2 DEF TypeOK
  <2>4. AckedIsStored'
    BY <1>2, <1>3, <1>6, <2>1 DEF AckedIsStored, Msgs
  <2>5. StoredSoFar'
    <3> SUFFICES ASSUME NEW v \in Handlers, NEW m \in contact'[v] \ (Unstored \cup rest[v]),
                        job'[v][m] = "out"
                 PROVE  db'[m].result # "absent"
      BY <2>1 DEF StoredSoFar
    <3>1. v # w /\ contact'[v] = contact[v] /\ job'[v] = job[v]
      BY <2>1 DEF TypeOK
    <3>2. m \in Msgs
      BY <3>1 DEF TypeOK, Msgs
    <3> QED
      BY <1>2, <3>1, <3>2 DEF StoredSoFar
  <2>6. ParallelismExact' /\ CallsBounded'
    <3>1. \A v \in Workers, m \in ServerMsgs, k \in Counted : job'[v][m] = k <=> job[v][m] = k
      BY <1>4, <2>1 DEF Counted, NoJob, TypeOK
    <3> QED
      BY <1>1, <3>1, CallsUnchanged
  <2> QED
    BY <1>2, <2>3, <2>4, <2>5, <2>6
<1> QED
  BY <1>5, <1>6

\* A worker that gives up what it was doing, with or without storing results.
LEMMA DropInd ==
    ASSUME IndInv, NEW w \in Workers,
           StoreFails(w) \/ ProcessMessages(w)
    PROVE  IndInv'
<1> USE WorkerFacts DEF IndInv
<1>1. /\ Finished(w)
      /\ outbox' = outbox /\ parallelism' = parallelism /\ crashes' = crashes
      /\ job' = [job EXCEPT ![w] = NoJob]
      /\ \/ /\ w \in Loopers
            /\ StoreMessages(Results(w, {"ok", "failed"}))
            /\ contact' = contact /\ rest' = rest
         \/ /\ db' = db
            /\ contact' = [contact EXCEPT ![w] = {}]
            /\ rest' = [rest EXCEPT ![w] = {}]
  BY DEF StoreFails, ProcessMessages
<1>2. /\ db' \in [Msgs -> Row]
      /\ PendingIffUnprocessed'
      /\ \A m \in Msgs : db[m].result # "absent" => db'[m].result # "absent"
  <2>1. CASE StoreMessages(Results(w, {"ok", "failed"}))
    <3>1. \A m \in DOMAIN Results(w, {"ok", "failed"}) : Results(w, {"ok", "failed"})[m] \in Outcome
      BY ResultsFacts DEF Outcome
    <3>2. db \in [Msgs -> Row] /\ PendingIffUnprocessed
      BY DEF TypeOK
    <3> HIDE DEF IndInv
    <3> QED
      BY <2>1, <3>1, <3>2, StoreMessagesFacts
  <2>2. CASE db' = db
    BY <2>2 DEF TypeOK, PendingIffUnprocessed
  <2> QED
    BY <1>1, <2>1, <2>2
<1>3. TypeOK'
  BY <1>1, <1>2 DEF TypeOK, NoJob, JobState
<1>4. AckedIsStored'
  BY <1>1, <1>2 DEF AckedIsStored, Msgs
<1>5. StoredSoFar'
  <2> SUFFICES ASSUME NEW v \in Handlers, NEW m \in contact'[v] \ (Unstored \cup rest'[v]),
                      job'[v][m] = "out"
               PROVE  db'[m].result # "absent"
    BY DEF StoredSoFar
  <2>1. v # w /\ contact'[v] = contact[v] /\ rest'[v] = rest[v] /\ job'[v] = job[v]
    BY <1>1 DEF TypeOK
  <2>2. m \in Msgs
    BY <2>1 DEF TypeOK, Msgs
  <2> QED
    BY <1>2, <2>1, <2>2 DEF StoredSoFar
<1>6. ParallelismExact' /\ CallsBounded'
  <2>1. \A v \in Workers, m \in ServerMsgs, k \in Counted : job'[v][m] = k <=> job[v][m] = k
    BY <1>1 DEF Finished, Outcome, Counted, NoJob, TypeOK
  <2> QED
    BY <1>1, <2>1, CallsUnchanged
<1> QED
  BY <1>2, <1>3, <1>4, <1>5, <1>6

\* A crash empties what the workers of one server hold, and its counter.
LEMMA CrashInd ==
    ASSUME IndInv, NEW s \in Servers, Crash(s)
    PROVE  IndInv'
<1> USE WorkerFacts DEF IndInv
<1>1. TypeOK'
  BY InboundAssumption DEF Crash, TypeOK, NoJob, JobState
<1>2. PendingIffUnprocessed' /\ AckedIsStored'
  BY DEF Crash, PendingIffUnprocessed, AckedIsStored
<1>3. StoredSoFar'
  BY DEF Crash, StoredSoFar, TypeOK
<1>4. InCall(s, Counted)' = {} /\ InCall(s, {"running"})' = {}
  BY DEF Crash, InCall, Counted, NoJob
<1>5. \A t \in Servers \ {s} : /\ InCall(t, Counted)' = InCall(t, Counted)
                              /\ InCall(t, {"running"})' = InCall(t, {"running"})
  BY DEF Crash, InCall
<1>6. /\ Cardinality(InCall(s, Counted)') = 0 /\ Cardinality(InCall(s, {"running"})') = 0
  BY <1>4, FS_EmptySet
<1>7. ParallelismExact'
  BY <1>5, <1>6 DEF ParallelismExact, Crash, TypeOK
<1>8. CallsBounded'
  BY <1>5, <1>6, InboundAssumption DEF CallsBounded
<1> QED
  BY <1>1, <1>2, <1>3, <1>7, <1>8

\* The clock only turns a later due time into a passed one.
LEMMA TickInd ==
    ASSUME IndInv, Tick
    PROVE  IndInv'
<1> USE WorkerFacts DEF IndInv
<1>1. PICK m \in ServerMsgs : BecomesDue(m)
  BY DEF Tick
<1>2. /\ db' \in [Msgs -> Row]
      /\ \A n \in Msgs : /\ db'[n].result = db[n].result
                         /\ db'[n].sched # "no" <=> db[n].sched # "no"
  BY <1>1 DEF BecomesDue, TypeOK, Row, Msgs
<1>3. TypeOK' /\ PendingIffUnprocessed' /\ AckedIsStored'
  BY <1>2 DEF Tick, TypeOK, PendingIffUnprocessed, AckedIsStored, Msgs
<1>4. StoredSoFar'
  <2>1. \A v \in Handlers : contact[v] \subseteq Msgs
    BY DEF TypeOK, Msgs
  <2> QED
    BY <1>2, <2>1 DEF Tick, StoredSoFar
<1>5. ParallelismExact' /\ CallsBounded'
  BY CallsUnchanged DEF Tick
<1> QED
  BY <1>3, <1>4, <1>5

\* Every step of the inbound path preserves the inductive invariant.
LEMMA StepInd == IndInv /\ [Next]_vars => IndInv'
<1> SUFFICES ASSUME IndInv, [Next]_vars PROVE IndInv'
  OBVIOUS
<1>1. ASSUME NEW w \in Handlers, NEW B \in SUBSET ServerMsgs, handleMessagesFromClient(w, B)
      PROVE  IndInv'
  BY <1>1, ContactInd
<1>2. ASSUME NEW w \in Loopers, processMessages(w) PROVE IndInv'
  BY <1>2, LooperInd
<1>3. ASSUME NEW w \in Workers, Work(w) PROVE IndInv'
  <2>1. ASSUME NEW m \in ServerMsgs, UnknownService(w, m) \/ BeginProcess(w, m) PROVE IndInv'
    BY <2>1, GoroutineInd DEF Outcome
  <2>2. ASSUME NEW m \in ServerMsgs, NEW r \in Outcome, EndProcess(w, m, r) PROVE IndInv'
    BY <2>2, GoroutineInd
  <2>3. ASSUME NEW told \in BOOLEAN, HandleNewMessages(w, told) PROVE IndInv'
    BY <2>3, HandlerInd DEF HandleNewMessages
  <2>4. CASE StoreFails(w) \/ ProcessMessages(w)
    BY <2>4, DropInd
  <2> QED
    BY <1>3, <2>1, <2>2, <2>3, <2>4 DEF Work
<1>4. ASSUME NEW s \in Servers, Crash(s) PROVE IndInv'
  BY <1>4, CrashInd
<1>5. CASE Tick
  BY <1>5, TickInd
<1>6. CASE UNCHANGED vars
  BY <1>6 DEF IndInv, vars, TypeOK, PendingIffUnprocessed, StoredSoFar, AckedIsStored,
              ParallelismExact, CallsBounded, InCall
<1> QED
  BY <1>1, <1>2, <1>3, <1>4, <1>5, <1>6 DEF Next

\* All of it together: every reachable state satisfies the inductive invariant.
THEOREM Invariance == Spec => []IndInv
  BY InitInd, StepInd, PTL DEF Spec

\* The counters of the load shedder never underflow, rows and jobs keep their
\* shape.
THEOREM TypeCorrect == Spec => []TypeOK
  BY Invariance, PTL DEF IndInv

\* A message the client was told to forget is in the datastore, for any number of
\* servers, chunks, retries and crashes.
THEOREM AckedMessagesAreStored == Spec => []AckedIsStored
  BY Invariance, PTL DEF IndInv

\* A message is eligible for processing iff it has no result.
THEOREM EligibleIffUnprocessed == Spec => []PendingIffUnprocessed
  BY Invariance, PTL DEF IndInv

\* A service never has more calls open than its maxParallelism, and its counter
\* is exact.
THEOREM LoadShedding == Spec => [](CallsBounded /\ ParallelismExact)
  BY Invariance, PTL DEF IndInv

-----------------------------------------------------------------------------
(* The results of messages follow the contract of StoreMessages. *)

\* One transaction of StoreMessages is one step of the contract.
LEMMA StoreMessagesContract ==
    ASSUME db \in [Msgs -> Row], NEW J, \A m \in DOMAIN J : J[m] \in Outcome,
           StoreMessages(J)
    PROVE  \A m \in Msgs : Lifecycle!Allowed(db[m].result, db'[m].result)
<1>1. \A row \in Row, m \in Msgs, r \in Outcome :
         Lifecycle!Allowed(row.result, StoreRow(row, m, r).result)
  BY DEF Lifecycle!Allowed, StoreRow, tryStoreMessage, trySetMessageResult, Row, Outcome
<1>2. \A m \in Msgs : /\ db[m] \in Row
                      /\ db'[m] = IF m \in DOMAIN J THEN StoreRow(db[m], m, J[m]) ELSE db[m]
  BY DEF StoreMessages
<1>3. \A m \in Msgs \ DOMAIN J : Lifecycle!Allowed(db[m].result, db'[m].result)
  BY <1>2 DEF Lifecycle!Allowed
<1>4. \A m \in Msgs \cap DOMAIN J : Lifecycle!Allowed(db[m].result, db'[m].result)
  BY <1>1, <1>2
<1> QED
  BY <1>3, <1>4

\* Every step of the inbound path is a step of the contract or changes no result.
LEMMA StepContract ==
    ASSUME IndInv, [Next]_vars
    PROVE  \A m \in Msgs : Lifecycle!Allowed(db[m].result, db'[m].result)
<1> USE WorkerFacts
<1>1. TypeOK /\ db \in [Msgs -> Row]
  BY DEF IndInv, TypeOK
<1>2. CASE \A m \in Msgs : db'[m].result = db[m].result
  BY <1>2 DEF Lifecycle!Allowed
<1>3. ASSUME NEW w \in Handlers, NEW told \in BOOLEAN, HandleNewMessages(w, told)
      PROVE  \A m \in Msgs : Lifecycle!Allowed(db[m].result, db'[m].result)
  <2>1. \A m \in DOMAIN Results(w, Outcome) : Results(w, Outcome)[m] \in Outcome
    BY <1>1, ResultsFacts
  <2> QED
    BY <1>1, <1>3, <2>1, StoreMessagesContract DEF HandleNewMessages
<1>4. ASSUME NEW w \in Loopers, ProcessMessages(w)
      PROVE  \A m \in Msgs : Lifecycle!Allowed(db[m].result, db'[m].result)
  <2>1. \A m \in DOMAIN Results(w, {"ok", "failed"}) : Results(w, {"ok", "failed"})[m] \in Outcome
    BY <1>1, ResultsFacts DEF Outcome
  <2> QED
    BY <1>1, <1>4, <2>1, StoreMessagesContract DEF ProcessMessages
<1>5. ASSUME NEW w \in Loopers, processMessages(w)
      PROVE  \A m \in Msgs : db'[m].result = db[m].result
  BY <1>1, <1>5 DEF processMessages, Reschedule, Row
<1>6. ASSUME NEW w \in Workers, Work(w)
      PROVE  \A m \in Msgs : Lifecycle!Allowed(db[m].result, db'[m].result)
  <2>1. \/ db' = db
        \/ w \in Handlers /\ \E told \in BOOLEAN : HandleNewMessages(w, told)
        \/ w \in Loopers /\ ProcessMessages(w)
    BY <1>6 DEF Work, UnknownService, BeginProcess, EndProcess, StoreFails,
                HandleNewMessages, ProcessMessages
  <2> QED
    BY <1>2, <1>3, <1>4, <2>1
<1>7. CASE Tick
  <2>1. \A m \in Msgs : db'[m].result = db[m].result
    BY <1>1, <1>7 DEF Tick, BecomesDue, Row, Msgs
  <2> QED
    BY <1>2, <2>1
<1>8. ASSUME NEW w \in Handlers, NEW B \in SUBSET ServerMsgs, handleMessagesFromClient(w, B)
      PROVE  db' = db
  BY <1>8 DEF handleMessagesFromClient
<1>9. ASSUME NEW s \in Servers, Crash(s) PROVE db' = db
  BY <1>9 DEF Crash
<1>10. CASE UNCHANGED vars
  BY <1>10, <1>2 DEF vars
<1> QED
  BY <1>2, <1>5, <1>6, <1>7, <1>8, <1>9, <1>10 DEF Next

\* Whatever attempts at a message overlap, its recorded result only moves as
\* StoreMessages promises.
THEOREM Refinement == Spec => ResultsFollowContract
<1>1. Init => Lifecycle!LInit
  BY DEF Init, Lifecycle!LInit, NoRow
<1>2. IndInv /\ IndInv' /\ [Next]_vars => [Lifecycle!LNext]_([m \in Msgs |-> db[m].result])
  <2> SUFFICES ASSUME IndInv, IndInv', [Next]_vars PROVE Lifecycle!LNext
    OBVIOUS
  <2>1. db \in [Msgs -> Row] /\ db' \in [Msgs -> Row]
    BY DEF IndInv, TypeOK
  <2>2. \A m \in Msgs : Lifecycle!Allowed(db[m].result, db'[m].result)
    BY StepContract
  <2> QED
    BY <2>1, <2>2 DEF Lifecycle!LNext, Row, Outcome
<1> QED
  BY <1>1, <1>2, Invariance, PTL DEF Spec, ResultsFollowContract, Lifecycle!LSpec

\* No looper of any server reserves a message that has a result.
THEOREM SettledIsNotRetried == Spec => NoReservationOfSettled
<1> DEFINE P == \A w \in Loopers, m \in ServerMsgs :
                   job[w][m] = "out" /\ job'[w][m] = "new" => db[m].result = "none"
<1>1. IndInv /\ [Next]_vars => [P]_vars
  <2> SUFFICES ASSUME IndInv, Next, NEW w \in Loopers, NEW m \in ServerMsgs,
                      job[w][m] = "out", job'[w][m] = "new"
               PROVE  db[m].result = "none"
    OBVIOUS
  <2> USE WorkerFacts
  <2>1. TypeOK /\ PendingIffUnprocessed
    BY DEF IndInv
  <2>2. \A v \in Workers, n \in ServerMsgs, r \in Outcome :
           UnknownService(v, n) \/ BeginProcess(v, n) \/ EndProcess(v, n, r) => job'[w][m] # "new"
    BY <2>1 DEF UnknownService, BeginProcess, EndProcess, Outcome, Counted, TypeOK
  <2>3. \A v \in Workers : StoreFails(v) \/ ProcessMessages(v) => job'[w][m] # "new"
    BY <2>1 DEF StoreFails, ProcessMessages, NoJob, TypeOK
  <2>4. \A v \in Workers, told \in BOOLEAN : HandleNewMessages(v, told) => job'[w][m] # "new"
    BY <2>1 DEF HandleNewMessages, StartChunk, NoJob, TypeOK
  <2>5. \A v \in Handlers, B \in SUBSET ServerMsgs :
           handleMessagesFromClient(v, B) => job'[w][m] # "new"
    BY <2>1 DEF handleMessagesFromClient, StartChunk, TypeOK
  <2>6. \A s \in Servers : Crash(s) => job'[w][m] # "new"
    BY <2>1 DEF Crash, NoJob, TypeOK
  <2>7. Tick => job'[w][m] # "new"
    BY DEF Tick
  <2>8. PICK v \in Loopers : processMessages(v)
    <3>1. \A v \in Workers : ~Work(v)
      BY <2>2, <2>3, <2>4 DEF Work, Outcome
    <3> QED
      BY <3>1, <2>5, <2>6, <2>7 DEF Next
  <2>9. db[m].sched = "due"
    <3>1. PICK B \in SUBSET ServerMsgs :
             /\ UpTo(LooperLimit, DueIn(ServerMsgs), B)
             /\ job' = [job EXCEPT ![v] = [n \in ServerMsgs |-> IF n \in B THEN "new" ELSE "out"]]
      BY <2>8 DEF processMessages
    <3>2. m \in B
      BY <2>1, <3>1 DEF TypeOK
    <3> QED
      BY <3>1, <3>2 DEF UpTo, DueIn
  <2> QED
    BY <2>1, <2>9 DEF PendingIffUnprocessed, Msgs
<1> QED
  BY <1>1, Invariance, PTL DEF Spec, NoReservationOfSettled
=============================================================================
