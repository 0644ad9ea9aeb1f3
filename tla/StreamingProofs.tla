--------------------------- MODULE StreamingProofs ---------------------------
(***************************************************************************)
(* Proofs that the client answers for every message exactly once and that  *)
(* acknowledgements and the end of a stream keep their order on every      *)
(* connection, for any messages, capacities and number of batches.         *)
(* The inductive invariant says what the client holds and how              *)
(* acknowledgements, goroutines and batches on their way add up.           *)
(***************************************************************************)
EXTENDS Streaming, FiniteSetTheorems, TLAPS, SequenceTheorems

\* Where the client is with its connection decides what it can hold.
ClientShape ==
    /\ con # "dial" => toSend = {}
    /\ con = "dial" => wcnt = 1 /\ rcnt = 1 /\ ~serverDone /\ up = <<>>
    /\ con # "up" => writer = "off" /\ reader = "off" /\ \A i \in Indices : pending[i] = {}
    /\ \A i \in Indices : i >= wcnt => pending[i] = {}
    /\ writer = "loaded" => wcnt > 1

\* Every message is in exactly one place of the client.
OnePlace ==
    /\ \A m \in Msgs : \/ m \in outbox \/ m \in acked \/ m \in toSend
                       \/ \E i \in Indices : m \in pending[i]
    /\ outbox \cap acked = {} /\ outbox \cap toSend = {} /\ acked \cap toSend = {}
    /\ \A i \in Indices : /\ pending[i] \cap outbox = {}
                          /\ pending[i] \cap acked = {}
                          /\ pending[i] \cap toSend = {}
    /\ \A i, j \in Indices : i # j => pending[i] \cap pending[j] = {}

\* The server has answered on this connection, or still works for it.
Established == con = "up" \/ ~ServerGone \/ down # <<>>

\* The places of q that hold a member of V.
Where(q, V) == {k \in DOMAIN q : q[k] \in V}
Acks(q) == Where(q, Indices)
Active == {i \in Indices : procs[i].st # "none"}
Waiting == {i \in Indices : procs[i].st = "new"}

\* Acknowledgements that were read, are on their way or will be sent are no more
\* than the batches the server has read, and those no more than were written.
Counted ==
    Established =>
        /\ rcnt - 1 + Cardinality(Acks(down)) + Cardinality(Acks(out)) + Cardinality(Active) <= scnt
        /\ scnt + Len(up) + (IF writer = "loaded" THEN 1 ELSE 0) <= wcnt - 1

\* The goroutines of readLoop and the batches that wait for them.
ProcsShape ==
    /\ Cardinality(Waiting) = Len(batchCh)
    /\ \A i \in Indices : i > scnt => procs[i].st = "none"
    /\ writeL = "off" => readL = "off" /\ notifyL = "off" /\ out = <<>> /\ Active = {}

\* DoneSending was read, is on its way or is yet to come, but only once.
DoneCounted ==
    Established =>
        Cardinality(Dones(out)) + Cardinality(Dones(down))
            + (IF serverDone THEN 1 ELSE 0) + (IF notifyL # "off" THEN 1 ELSE 0) <= 1

IndInv == TypeOK /\ ClientShape /\ OnePlace /\ Counted /\ ProcsShape /\ DoneCounted

-----------------------------------------------------------------------------
(* Counting in queues. *)

\* Finitely many places.
LEMMA WhereFinite ==
    ASSUME NEW S, NEW q \in Seq(S), NEW V
    PROVE  IsFiniteSet(Where(q, V)) /\ Cardinality(Where(q, V)) \in Nat
<1>1. Where(q, V) \subseteq 1..Len(q) /\ Len(q) \in Nat
  BY DEF Where
<1>2. IsFiniteSet(1..Len(q))
  BY <1>1, FS_Interval
<1>3. IsFiniteSet(Where(q, V))
  BY <1>1, <1>2, FS_Subset, Zenon
<1> QED
  BY <1>3, FS_CardinalityType, Zenon

\* Nothing is in an empty queue.
LEMMA WhereEmpty ==
    ASSUME NEW V
    PROVE  Cardinality(Where(<<>>, V)) = 0
<1>1. Where(<<>>, V) = {}
  BY DEF Where
<1> QED
  BY <1>1, FS_EmptySet, Zenon

\* Sending adds one place if what is sent is in V.
LEMMA WhereAppend ==
    ASSUME NEW S, NEW q \in Seq(S), NEW x \in S, NEW V
    PROVE  Cardinality(Where(Append(q, x), V)) =
             Cardinality(Where(q, V)) + (IF x \in V THEN 1 ELSE 0)
<1> DEFINE n == Len(q) + 1
<1>1. n \notin Where(q, V)
  BY DEF Where
<1>2. CASE x \in V
  <2>1. Where(Append(q, x), V) = Where(q, V) \cup {n}
    BY <1>2 DEF Where
  <2> QED
    BY <1>1, <1>2, <2>1, WhereFinite, FS_AddElement, Zenon
<1>3. CASE x \notin V
  <2>1. Where(Append(q, x), V) = Where(q, V)
    BY <1>3 DEF Where
  <2> QED
    BY <1>3, <2>1, WhereFinite
<1> QED
  BY <1>2, <1>3, Zenon

\* Receiving takes the first place away.
LEMMA WhereTail ==
    ASSUME NEW S, NEW q \in Seq(S), q # <<>>, NEW V
    PROVE  Cardinality(Where(Tail(q), V)) =
             Cardinality(Where(q, V)) - (IF Head(q) \in V THEN 1 ELSE 0)
<1> DEFINE R == {k \in 2..Len(q) : q[k] \in V}
           W == Where(Tail(q), V)
           f == [k \in W |-> k + 1]
<1>1. /\ Tail(q) \in Seq(S) /\ Len(Tail(q)) = Len(q) - 1 /\ Len(q) \in Nat /\ Len(q) >= 1
      /\ \A k \in 1..Len(q) - 1 : Tail(q)[k] = q[k + 1]
  OBVIOUS
<1>2. W = {k \in 1..Len(q) - 1 : q[k + 1] \in V}
  BY <1>1 DEF Where
<1>3. f \in Bijection(W, R)
  <2>1. f \in [W -> R]
    BY <1>1, <1>2
  <2>2. \A a, b \in W : f[a] = f[b] => a = b
    BY <1>1, <1>2
  <2>3. \A r \in R : \E a \in W : f[a] = r
    <3> SUFFICES ASSUME NEW r \in R PROVE r - 1 \in W /\ f[r - 1] = r
      BY Zenon
    <3> QED
      BY <1>1, <1>2
  <2> QED
    BY <2>1, <2>2, <2>3, Zenon DEF Bijection, Injection, Surjection, IsInjective
<1>4. IsFiniteSet(W) /\ Cardinality(W) \in Nat
  BY <1>1, WhereFinite, Zenon
<1>5. IsFiniteSet(R) /\ Cardinality(R) = Cardinality(W)
  BY <1>3, <1>4, FS_Bijection, Zenon DEF ExistsBijection
<1>6. 1 \notin R /\ Head(q) = q[1]
  BY <1>1
<1>7. CASE Head(q) \in V
  <2>1. Where(q, V) = R \cup {1}
    BY <1>1, <1>6, <1>7 DEF Where
  <2>2. Cardinality(R \cup {1}) = Cardinality(R) + 1
    BY <1>5, <1>6, FS_AddElement, Zenon
  <2> QED
    BY <1>4, <1>5, <1>7, <2>1, <2>2
<1>8. CASE Head(q) \notin V
  <2>1. Where(q, V) = R
    BY <1>1, <1>6, <1>8 DEF Where
  <2> QED
    BY <1>4, <1>5, <1>8, <2>1
<1> QED
  BY <1>7, <1>8, Zenon

-----------------------------------------------------------------------------
(* Types. *)

\* The numbers of places, of goroutines and of batches are natural numbers.
LEMMA Sizes ==
    ASSUME TypeOK
    PROVE  /\ Cardinality(Acks(down)) \in Nat /\ Cardinality(Acks(out)) \in Nat
           /\ Cardinality(Dones(down)) \in Nat /\ Cardinality(Dones(out)) \in Nat
           /\ IsFiniteSet(Active) /\ Cardinality(Active) \in Nat
           /\ IsFiniteSet(Waiting) /\ Cardinality(Waiting) \in Nat
           /\ Len(up) \in Nat /\ Len(batchCh) \in Nat
<1>1. down \in Seq(Indices \cup {Data, Done}) /\ out \in Seq(Indices \cup {Data, Done})
  BY Zenon DEF TypeOK
<1>2. Dones(down) = Where(down, {Done}) /\ Dones(out) = Where(out, {Done})
  BY Zenon DEF Dones, Where
<1>3. IsFiniteSet(Indices)
  BY StreamingAssumption, FS_Interval DEF Indices
<1>4. IsFiniteSet(Active) /\ IsFiniteSet(Waiting)
  BY <1>3, FS_Subset, Zenon DEF Active, Waiting
<1> QED
  BY <1>1, <1>2, <1>4, WhereFinite, FS_CardinalityType DEF Acks, TypeOK

\* What the client has of its own keeps its type ...
ClientType ==
    /\ outbox \subseteq Msgs /\ acked \subseteq Msgs /\ toSend \subseteq Msgs
    /\ con \in {"none", "dial", "up"} /\ pending \in [Indices -> SUBSET Msgs]
    /\ cctx \in BOOLEAN /\ serverDone \in BOOLEAN /\ writingDone \in BOOLEAN
    /\ writer \in {"off", "run", "loaded", "stepped"}
    /\ reader \in {"off", "run", "waiting", "closing"}
    /\ wcnt \in 1..MaxBatches + 1 /\ rcnt \in 1..MaxBatches + 1

\* ... and so does the server, and what is on its way.
ServerType ==
    /\ sctx \in BOOLEAN /\ stored \subseteq Msgs
    /\ batchCh \in Seq(SUBSET Msgs) /\ Len(batchCh) <= MaxPerClientBatchProcessors
    /\ out \in Seq(Indices \cup {Data, Done}) /\ Len(out) <= OutCap
    /\ readL \in {"off", "run"} /\ notifyL \in {"off", "run", "data", "done"}
    /\ writeL \in {"off", "run", "draining"}
    /\ scnt \in 0..MaxBatches /\ procs \in [Indices -> Proc] /\ ndata \in 0..MaxData

NetType ==
    /\ link \in BOOLEAN /\ faults \in 0..MaxFaults
    /\ up \in Seq(SUBSET Msgs) /\ down \in Seq(Indices \cup {Data, Done})

\* The three together are the type invariant of the stream.
LEMMA TypeParts == TypeOK <=> ClientType /\ ServerType /\ NetType
  BY Zenon DEF TypeOK, ClientType, ServerType, NetType

\* The initial states satisfy the invariant.
LEMMA InitInd == Init => IndInv
<1> SUFFICES ASSUME Init PROVE IndInv
  BY Zenon
<1>1. TypeOK
  <2>1. ClientType
    <3>1. cctx \in BOOLEAN /\ serverDone \in BOOLEAN /\ writingDone \in BOOLEAN
      BY Zenon DEF Init
    <3>2. wcnt \in 1..MaxBatches + 1 /\ rcnt \in 1..MaxBatches + 1
      BY StreamingAssumption DEF Init
    <3>3. pending \in [Indices -> SUBSET Msgs]
      BY Zenon DEF Init
    <3> QED
      BY <3>1, <3>2, <3>3, Zenon DEF Init, ClientType
  <2>2. procs \in [Indices -> Proc]
    BY Zenon DEF Init, Proc, NoProc
  <2>3. ServerType
    <3>1. sctx \in BOOLEAN
      BY Zenon DEF Init
    <3>2. scnt \in 0..MaxBatches /\ ndata \in 0..MaxData
      BY StreamingAssumption DEF Init
    <3>3. batchCh \in Seq(SUBSET Msgs) /\ Len(batchCh) <= MaxPerClientBatchProcessors
      BY StreamingAssumption DEF Init
    <3>4. out \in Seq(Indices \cup {Data, Done}) /\ Len(out) <= OutCap
      BY StreamingAssumption DEF Init
    <3> QED
      BY <2>2, <3>1, <3>2, <3>3, <3>4, Zenon DEF Init, ServerType
  <2>4. NetType
    <3>1. link \in BOOLEAN
      BY Zenon DEF Init
    <3>2. faults \in 0..MaxFaults
      BY StreamingAssumption DEF Init
    <3>3. up \in Seq(SUBSET Msgs) /\ down \in Seq(Indices \cup {Data, Done})
      BY DEF Init
    <3> QED
      BY <3>1, <3>2, <3>3, Zenon DEF NetType
  <2> QED
    BY <2>1, <2>3, <2>4, TypeParts, Zenon
<1>2. ClientShape /\ OnePlace
  BY Zenon DEF Init, ClientShape, OnePlace
<1>3. Active = {} /\ Waiting = {}
  BY Zenon DEF Init, Active, Waiting, NoProc
<1>4. ProcsShape
  BY <1>3, FS_EmptySet, Zenon DEF Init, ProcsShape, NoProc
<1>5. Counted /\ DoneCounted
  BY Zenon DEF Init, Counted, DoneCounted, Established, ServerGone
<1> QED
  BY <1>1, <1>2, <1>4, <1>5, Zenon DEF IndInv

-----------------------------------------------------------------------------
(* Types are kept. *)

\* The steps in which the client moves messages.
Moves == \/ \E B \in SUBSET Msgs : connect(B) \/ groupMessages(B)
         \/ Connected \/ ConnectFails \/ NackPending \/ ReadAck

\* The steps of the client in which messages stay where they are.
Stays == \/ WriteBatch \/ WriterStops \/ StepDown \/ ReadData \/ ReadDone \/ WriterDone
         \/ ReaderStops \/ ClientStop

\* The steps of the server and of the network.
Others == Server \/ Break \/ \E i \in Indices : ProcessFails(i)

\* Every step of the stream is of one of the three kinds.
LEMMA NextParts == Next => Moves \/ Stays \/ Others
  BY Zenon DEF Next, Client, Moves, Stays, Others

\* The server and the network leave the client alone ...
LEMMA OthersFrame == Others => UNCHANGED clientVars
  BY Zenon DEF Others, Server, Break, ProcessFails, initialPoll, ReadBatch, ReadLoopEnds, TakeBatch,
         processOne, SendAck, NotifyData, NotifyDone, NotifySend, NotifyStops, ServerStop,
         WriteOne, WriteFails, WriteCancelled, Drain, StreamOver

\* ... as the client leaves the server alone.
LEMMA ClientFrame == Moves \/ Stays => UNCHANGED serverVars
  BY Zenon DEF Moves, Stays, connect, groupMessages, Connected, ConnectFails, NackPending, ReadAck,
         WriteBatch, WriterStops, StepDown, ReadData, ReadDone, WriterDone, ReaderStops, ClientStop

\* Only some steps of the client move messages.
LEMMA StaysFrame ==
    Stays => UNCHANGED <<outbox, acked, toSend, pending, con, wcnt, rcnt>>
  BY Zenon DEF Stays, clientVars, WriteBatch, WriterStops, StepDown, ReadData, ReadDone, WriterDone,
         ReaderStops, ClientStop

\* The client reads an acknowledgement only while a batch is out.
LEMMA AckHasBatch ==
    ASSUME IndInv, ReadAck
    PROVE  /\ rcnt \in Indices /\ rcnt < wcnt /\ Head(down) \in Indices /\ con = "up"
           /\ down # <<>> /\ Established /\ Cardinality(Acks(down)) >= 1
<1>1. TypeOK /\ ClientShape /\ Counted /\ down # <<>> /\ Head(down) > 0
  BY Zenon DEF IndInv, ReadAck
<1>2. con = "up" /\ Established
  BY <1>1, Zenon DEF ReadAck, ClientShape, Established
<1>3. Head(down) \in Indices \cup {Data, Done}
  BY <1>1 DEF TypeOK
<1>4. Head(down) \in Indices
  BY <1>1, <1>3 DEF Data, Done
<1>5. Cardinality(Where(Tail(down), Indices)) = Cardinality(Acks(down)) - 1
  BY <1>1, <1>4, WhereTail, Zenon DEF TypeOK, Acks
<1>6. Cardinality(Where(Tail(down), Indices)) \in Nat
  <2>1. Tail(down) \in Seq(Indices \cup {Data, Done})
    BY <1>1 DEF TypeOK
  <2> QED
    BY <2>1, WhereFinite, Zenon
<1>7. Cardinality(Acks(down)) >= 1
  BY <1>1, <1>5, <1>6, Sizes
<1>8. rcnt - 1 + Cardinality(Acks(down)) + Cardinality(Acks(out)) + Cardinality(Active) <= scnt
  BY <1>1, <1>2, Zenon DEF Counted
<1>9. scnt + Len(up) <= wcnt - 1
  BY <1>1, <1>2 DEF Counted, TypeOK
<1>10. rcnt \in Nat /\ wcnt \in Nat /\ scnt \in Nat /\ rcnt >= 1 /\ wcnt <= MaxBatches + 1
  BY <1>1, StreamingAssumption DEF TypeOK
<1>11. rcnt < wcnt
  BY <1>1, <1>7, <1>8, <1>9, <1>10, Sizes, SMTT(20)
<1>12. rcnt \in Indices
  BY <1>10, <1>11, StreamingAssumption DEF Indices
<1> QED
  BY <1>1, <1>2, <1>4, <1>7, <1>11, <1>12, Zenon

\* The client's part of the type invariant.
LEMMA ClientTypeInd ==
    ASSUME IndInv, Next
    PROVE  ClientType'
<1>1. ClientType
  BY TypeParts, Zenon DEF IndInv
<1>2. CASE Others
  BY <1>1, <1>2, OthersFrame, Zenon DEF ClientType, clientVars
<1>3. CASE Stays
  <2>1. CASE WriteBatch
    BY <1>1, <2>1, Zenon DEF ClientType, WriteBatch
  <2>2. CASE WriterStops
    BY <1>1, <2>2, Zenon DEF ClientType, WriterStops
  <2>3. CASE StepDown
    BY <1>1, <2>3, Zenon DEF ClientType, StepDown
  <2>4. CASE ReadData
    BY <1>1, <2>4, Zenon DEF ClientType, ReadData, clientVars
  <2>5. CASE ReadDone
    BY <1>1, <2>5, Zenon DEF ClientType, ReadDone
  <2>6. CASE WriterDone
    BY <1>1, <2>6, Zenon DEF ClientType, WriterDone
  <2>7. CASE ReaderStops
    BY <1>1, <2>7, Zenon DEF ClientType, ReaderStops
  <2>8. CASE ClientStop
    BY <1>1, <2>8, Zenon DEF ClientType, ClientStop
  <2> QED
    BY <1>3, <2>1, <2>2, <2>3, <2>4, <2>5, <2>6, <2>7, <2>8, Zenon DEF Stays
<1>4. ASSUME NEW B \in SUBSET Msgs, connect(B) PROVE ClientType'
  <2>1. cctx' \in BOOLEAN /\ serverDone' \in BOOLEAN /\ writingDone' \in BOOLEAN
    BY <1>4, Zenon DEF connect
  <2>2. wcnt' \in 1..MaxBatches + 1 /\ rcnt' \in 1..MaxBatches + 1
    BY <1>4, StreamingAssumption DEF connect
  <2>3. pending' \in [Indices -> SUBSET Msgs]
    BY <1>4, Zenon DEF connect
  <2> QED
    BY <1>1, <1>4, <2>1, <2>2, <2>3, Zenon DEF connect, ClientType
<1>5. ASSUME NEW B \in SUBSET Msgs, groupMessages(B) PROVE ClientType'
  <2>1. wcnt \in Indices
    BY <1>1, <1>5, StreamingAssumption DEF groupMessages, ClientType, Indices
  <2>2. wcnt' \in 1..MaxBatches + 1
    BY <1>5, <2>1, StreamingAssumption DEF groupMessages, Indices
  <2>3. pending' \in [Indices -> SUBSET Msgs]
    BY <1>1, <1>5, <2>1, Zenon DEF groupMessages, ClientType
  <2> QED
    BY <1>1, <1>5, <2>2, <2>3, Zenon DEF groupMessages, ClientType
<1>6. CASE Connected
  BY <1>1, <1>6, Zenon DEF ClientType, Connected
<1>7. CASE ConnectFails
  BY <1>1, <1>7, Zenon DEF ClientType, ConnectFails
<1>8. CASE NackPending
  BY <1>1, <1>8, Zenon DEF ClientType, NackPending
<1>9. CASE ReadAck
  <2>1. rcnt \in Indices
    BY <1>9, AckHasBatch, Zenon
  <2>2. rcnt' \in 1..MaxBatches + 1
    BY <1>9, <2>1, StreamingAssumption DEF ReadAck, Indices
  <2>3. acked' \subseteq Msgs /\ pending' \in [Indices -> SUBSET Msgs]
    BY <1>1, <1>9, <2>1, Zenon DEF ReadAck, ClientType
  <2>4. cctx' \in BOOLEAN /\ reader' \in {"off", "run", "waiting", "closing"}
    BY <1>1, <1>9, Zenon DEF ReadAck, ClientType
  <2> QED
    BY <1>1, <1>9, <2>2, <2>3, <2>4, Zenon DEF ReadAck, ClientType
<1> QED
  BY <1>2, <1>3, <1>4, <1>5, <1>6, <1>7, <1>8, <1>9, NextParts, Zenon DEF Moves

\* The server reads no more batches than the client has written, so there is a
\* goroutine that is not there yet.
LEMMA ReadHasRoom ==
    ASSUME IndInv, ReadBatch
    PROVE  scnt + 1 \in Indices /\ procs[scnt + 1].st = "none"
<1>1. TypeOK /\ ProcsShape /\ Counted /\ up # <<>> /\ Established
  BY Zenon DEF IndInv, ReadBatch, Established, ServerGone
<1>2. Len(up) >= 1 /\ scnt \in Nat /\ wcnt \in Nat /\ wcnt <= MaxBatches + 1
  BY <1>1, StreamingAssumption DEF TypeOK
<1>3. scnt + Len(up) <= wcnt - 1
  BY <1>1, <1>2, Sizes DEF Counted
<1>4. scnt + 1 \in Indices
  BY <1>1, <1>2, <1>3, Sizes, StreamingAssumption DEF Indices
<1> QED
  BY <1>1, <1>2, <1>4 DEF ProcsShape

\* A goroutine that waits for a batch will find one.
LEMMA TakeHasBatch ==
    ASSUME IndInv, NEW i \in Indices, TakeBatch(i)
    PROVE  batchCh # <<>> /\ Head(batchCh) \subseteq Msgs
<1>1. TypeOK /\ Cardinality(Waiting) = Len(batchCh) /\ i \in Waiting
  BY Zenon DEF IndInv, ProcsShape, TakeBatch, Waiting
<1>2. Cardinality(Waiting) # 0
  BY <1>1, Sizes, FS_EmptySet, Zenon
<1> QED
  BY <1>1, <1>2 DEF TypeOK

\* The goroutines and what waits for them keep their types.
LEMMA ProcsType ==
    ASSUME IndInv, Others
    PROVE  /\ procs' \in [Indices -> Proc]
           /\ batchCh' \in Seq(SUBSET Msgs) /\ Len(batchCh') <= MaxPerClientBatchProcessors
<1>1. /\ TypeOK /\ procs \in [Indices -> Proc] /\ batchCh \in Seq(SUBSET Msgs)
      /\ Len(batchCh) \in Nat /\ Len(batchCh) <= MaxPerClientBatchProcessors
  BY SMTT(20) DEF IndInv, TypeOK
<1>2. CASE UNCHANGED <<procs, batchCh>>
  BY <1>1, <1>2, Zenon
<1>3. CASE initialPoll
  BY <1>3, StreamingAssumption DEF initialPoll, Proc, NoProc
<1>4. CASE ReadBatch
  <2>1. scnt + 1 \in Indices /\ Head(up) \in SUBSET Msgs
    BY <1>1, <1>4, ReadHasRoom DEF ReadBatch, TypeOK
  <2>2. procs' \in [Indices -> Proc]
    BY <1>1, <1>4, <2>1, Zenon DEF ReadBatch, Proc
  <2> QED
    BY <1>1, <1>4, <2>1, <2>2, StreamingAssumption DEF ReadBatch
<1>5. ASSUME NEW i \in Indices, TakeBatch(i)
      PROVE  /\ procs' \in [Indices -> Proc]
             /\ batchCh' \in Seq(SUBSET Msgs) /\ Len(batchCh') <= MaxPerClientBatchProcessors
  <2>1. batchCh # <<>> /\ Head(batchCh) \subseteq Msgs
    BY <1>5, TakeHasBatch, Zenon
  <2>2. procs' \in [Indices -> Proc]
    BY <1>1, <1>5, <2>1, Zenon DEF TakeBatch, Proc
  <2> QED
    BY <1>1, <1>5, <2>1, <2>2, StreamingAssumption DEF TakeBatch
<1>6. ASSUME NEW i \in Indices, processOne(i) \/ SendAck(i) \/ ProcessFails(i)
      PROVE  procs' \in [Indices -> Proc] /\ batchCh' = batchCh
  BY <1>1, <1>6 DEF processOne, SendAck, ProcessFails, Proc, NoProc
<1> QED
  BY <1>1, <1>2, <1>3, <1>4, <1>5, <1>6, Zenon
     DEF Others, Server, Break, serverVars, ReadLoopEnds, NotifyData, NotifyDone, NotifySend,
         NotifyStops, ServerStop, WriteOne, WriteFails, WriteCancelled, Drain, StreamOver

\* The queues keep their types and the channel its capacity.
LEMMA QueuesType ==
    ASSUME IndInv, Next
    PROVE  /\ out' \in Seq(Indices \cup {Data, Done}) /\ Len(out') <= OutCap
           /\ up' \in Seq(SUBSET Msgs) /\ down' \in Seq(Indices \cup {Data, Done})
<1> DEFINE T == Indices \cup {Data, Done}
<1>1. /\ out \in Seq(T) /\ Len(out) \in Nat /\ Len(out) <= OutCap
      /\ up \in Seq(SUBSET Msgs) /\ down \in Seq(T) /\ pending \in [Indices -> SUBSET Msgs]
  BY SMTT(20) DEF IndInv, TypeOK
<1>2. out' \in Seq(T) /\ Len(out') <= OutCap
  <2>1. CASE UNCHANGED out
    BY <1>1, <2>1, Zenon
  <2>2. CASE out' = <<>>
    BY <2>2, StreamingAssumption
  <2>3. CASE out # <<>> /\ out' = Tail(out)
    BY <1>1, <2>3, StreamingAssumption
  <2>4. ASSUME NEW x \in T, Len(out) < OutCap, out' = Append(out, x)
        PROVE  out' \in Seq(T) /\ Len(out') <= OutCap
    BY <1>1, <2>4, StreamingAssumption
  <2>5. CASE NotifySend
    BY <2>4, <2>5, Zenon DEF NotifySend
  <2>6. ASSUME NEW i \in Indices, SendAck(i) PROVE out' \in Seq(T) /\ Len(out') <= OutCap
    BY <2>4, <2>6, Zenon DEF SendAck
  <2> HIDE DEF T
  <2> QED
    BY <2>1, <2>2, <2>3, <2>5, <2>6, NextParts, ClientFrame, Zenon
       DEF serverVars, Others, Server, Break, initialPoll, ReadBatch, ReadLoopEnds, TakeBatch,
           processOne, ProcessFails, NotifyData, NotifyDone, NotifyStops, ServerStop,
           WriteOne, WriteFails, WriteCancelled, Drain, StreamOver
<1>3. down' \in Seq(T)
  <2>1. CASE UNCHANGED down
    BY <1>1, <2>1, Zenon
  <2>2. CASE down' = <<>>
    BY <2>2
  <2>3. CASE down # <<>> /\ down' = Tail(down)
    BY <1>1, <2>3
  <2>4. CASE WriteOne
    BY <1>1, <2>4 DEF WriteOne
  <2>5. CASE initialPoll
    BY <2>5, SMTT(20) DEF initialPoll
  <2> HIDE DEF T
  <2>6. CASE Moves
    BY <2>1, <2>2, <2>3, <2>6, Zenon
       DEF Moves, connect, groupMessages, Connected, ConnectFails, NackPending, ReadAck
  <2>8. CASE Stays
    BY <2>1, <2>3, <2>8, Zenon
       DEF Stays, WriteBatch, WriterStops, StepDown, ReadData, ReadDone, WriterDone, ReaderStops,
           ClientStop
  <2>7. CASE Others
    BY <2>1, <2>2, <2>4, <2>5, <2>7, Zenon
       DEF Others, Server, Break, ReadBatch, ReadLoopEnds, TakeBatch, processOne, ProcessFails,
           SendAck, NotifyData, NotifyDone, NotifySend, NotifyStops, ServerStop,
           WriteFails, WriteCancelled, Drain, StreamOver
  <2> QED
    BY <2>6, <2>7, <2>8, NextParts, Zenon
<1>4. up' \in Seq(SUBSET Msgs)
  <2>1. CASE UNCHANGED up
    BY <1>1, <2>1, Zenon
  <2>2. CASE up' = <<>>
    BY <2>2
  <2>3. CASE WriteBatch
    <3>1. wcnt - 1 \in Indices
      <4>1. wcnt > 1 /\ wcnt \in 1..MaxBatches + 1
        BY <2>3, Zenon DEF WriteBatch, IndInv, TypeOK, ClientShape
      <4> QED
        BY <4>1, StreamingAssumption, SMTT(20) DEF Indices
    <3> QED
      BY <1>1, <2>3, <3>1, SMTT(20) DEF WriteBatch
  <2>4. CASE ReadBatch
    BY <1>1, <2>4, SMTT(20) DEF ReadBatch
  <2>5. CASE Moves \/ Stays
    BY <2>1, <2>2, <2>3, <2>5, Zenon
       DEF Moves, Stays, connect, groupMessages, Connected, ConnectFails, NackPending, ReadAck,
         WriterStops, StepDown, ReadData, ReadDone, WriterDone, ReaderStops, ClientStop
  <2>6. CASE Others
    BY <2>1, <2>2, <2>4, <2>6, Zenon
       DEF Others, Server, Break, initialPoll, ReadLoopEnds, TakeBatch, processOne, ProcessFails,
           SendAck, NotifyData, NotifyDone, NotifySend, NotifyStops, ServerStop, WriteOne,
           WriteFails, WriteCancelled, Drain, StreamOver
  <2> QED
    BY <2>5, <2>6, NextParts, Zenon
<1> QED
  BY <1>2, <1>3, <1>4, Zenon

\* The loops, counters and flags keep their types.
LEMMA LoopsType ==
    ASSUME IndInv, Next
    PROVE  /\ sctx' \in BOOLEAN /\ link' \in BOOLEAN /\ stored' \subseteq Msgs
           /\ readL' \in {"off", "run"} /\ notifyL' \in {"off", "run", "data", "done"}
           /\ writeL' \in {"off", "run", "draining"}
           /\ scnt' \in 0..MaxBatches /\ ndata' \in 0..MaxData /\ faults' \in 0..MaxFaults
<1>1. ServerType /\ NetType /\ toSend \subseteq Msgs
  BY TypeParts, Zenon DEF IndInv, ClientType
<1>2. faults' \in 0..MaxFaults
  <2>1. CASE UNCHANGED faults
    BY <1>1, <2>1, Zenon DEF NetType
  <2>2. CASE Fault
    BY <1>1, <2>2, StreamingAssumption, SMTT(20) DEF Fault, NetType
  <2>3. CASE Moves \/ Stays
    BY <2>1, <2>2, <2>3, Zenon
       DEF Moves, Stays, connect, groupMessages, Connected, ConnectFails, NackPending, ReadAck,
         WriteBatch, WriterStops, StepDown, ReadData, ReadDone, WriterDone, ReaderStops, ClientStop
  <2>4. CASE Others
    BY <2>1, <2>2, <2>4, Zenon
       DEF Others, Server, Break, ProcessFails, initialPoll, ReadBatch, ReadLoopEnds, TakeBatch,
         processOne, SendAck, NotifyData, NotifyDone, NotifySend, NotifyStops, ServerStop,
         WriteOne, WriteFails, WriteCancelled, Drain, StreamOver
  <2> QED
    BY <2>3, <2>4, NextParts, Zenon
<1>3. sctx' \in BOOLEAN /\ link' \in BOOLEAN
  <2>1. /\ sctx' = sctx \/ sctx' = TRUE \/ sctx' = FALSE
        /\ link' = link \/ link' = TRUE \/ link' = FALSE
    <3>1. CASE Moves \/ Stays
      BY <3>1, ClientFrame, Zenon
         DEF serverVars, Moves, Stays, connect, groupMessages, Connected, ConnectFails,
             NackPending, ReadAck, WriteBatch, WriterStops, StepDown, ReadData, ReadDone,
             WriterDone, ReaderStops, ClientStop
    <3>2. CASE Others
      BY <3>2, Zenon
         DEF serverVars, Others, Server, Break, ProcessFails, initialPoll, ReadBatch,
             ReadLoopEnds, TakeBatch, processOne, SendAck, NotifyData, NotifyDone, NotifySend,
             NotifyStops, ServerStop, WriteOne, WriteFails, WriteCancelled, Drain, StreamOver
    <3> QED
      BY <3>1, <3>2, NextParts, Zenon
  <2> QED
    BY <1>1, <2>1, Zenon DEF ServerType, NetType
<1>4. CASE Moves \/ Stays
  BY <1>1, <1>2, <1>3, <1>4, ClientFrame, Zenon DEF ServerType, serverVars
<1>5. CASE Others
  <2>1. stored' \subseteq Msgs
    <3>1. ASSUME NEW i \in Indices, processOne(i) PROVE stored' \subseteq Msgs
      BY <1>1, <3>1, Zenon DEF processOne, ServerType, Proc
    <3> QED
      BY <1>1, <1>5, <3>1, Zenon
         DEF ServerType, serverVars, Others, Server, Break, ProcessFails, initialPoll, ReadBatch,
             ReadLoopEnds, TakeBatch, SendAck, NotifyData, NotifyDone, NotifySend,
             NotifyStops, ServerStop, WriteOne, WriteFails, WriteCancelled, Drain, StreamOver
  <2>2. scnt' \in 0..MaxBatches /\ ndata' \in 0..MaxData
    <3>1. CASE ReadBatch
      BY <1>1, <3>1, ReadHasRoom, StreamingAssumption DEF ReadBatch, ServerType, Indices
    <3>2. CASE NotifyData
      BY <1>1, <3>2, StreamingAssumption DEF NotifyData, ServerType
    <3>3. CASE initialPoll
      BY <3>3, StreamingAssumption, SMTT(20) DEF initialPoll
    <3> QED
      BY <1>1, <1>5, <3>1, <3>2, <3>3, Zenon
         DEF ServerType, serverVars, Others, Server, Break, ProcessFails,
             ReadLoopEnds, TakeBatch, processOne, SendAck, NotifyDone, NotifySend,
             NotifyStops, ServerStop, WriteOne, WriteFails, WriteCancelled, Drain, StreamOver
  <2>3. /\ readL' \in {"off", "run"} /\ notifyL' \in {"off", "run", "data", "done"}
        /\ writeL' \in {"off", "run", "draining"}
    BY <1>1, <1>5, Zenon
       DEF ServerType, serverVars, Others, Server, Break, ProcessFails, initialPoll, ReadBatch,
           ReadLoopEnds, TakeBatch, processOne, SendAck, NotifyData, NotifyDone, NotifySend,
           NotifyStops, ServerStop, WriteOne, WriteFails, WriteCancelled, Drain, StreamOver
  <2> QED
    BY <1>2, <1>3, <2>1, <2>2, <2>3, Zenon
<1> QED
  BY <1>4, <1>5, NextParts, Zenon

\* Every step keeps the types.
LEMMA TypeInd ==
    ASSUME IndInv, Next
    PROVE  TypeOK'
<1>1. ClientType' /\ NetType'
  BY ClientTypeInd, QueuesType, LoopsType, Zenon DEF NetType
<1>2. /\ procs' \in [Indices -> Proc]
      /\ batchCh' \in Seq(SUBSET Msgs) /\ Len(batchCh') <= MaxPerClientBatchProcessors
  <2>1. CASE Moves \/ Stays
    BY <2>1, ClientFrame, TypeParts, Zenon DEF IndInv, ServerType, serverVars
  <2> QED
    BY <2>1, ProcsType, NextParts, Zenon
<1>3. ServerType'
  BY <1>2, QueuesType, LoopsType, Zenon DEF ServerType
<1>4. TypeOK' <=> ClientType' /\ ServerType' /\ NetType'
  BY Zenon DEF TypeOK, ClientType, ServerType, NetType
<1> QED
  BY <1>1, <1>3, <1>4, Zenon


-----------------------------------------------------------------------------
(* Every message has one place. *)

\* Where messages stay, so do their places.
LEMMA OnePlaceFrame ==
    ASSUME OnePlace, UNCHANGED <<outbox, acked, toSend, pending>>
    PROVE  OnePlace'
  BY Zenon DEF OnePlace

\* Every step keeps each message in exactly one place of the client.
LEMMA OnePlaceInd ==
    ASSUME IndInv, Next
    PROVE  OnePlace'
<1>1. OnePlace /\ ClientShape /\ ClientType
  BY TypeParts, Zenon DEF IndInv
<1>2. CASE Others \/ Stays
  BY <1>1, <1>2, OthersFrame, StaysFrame, OnePlaceFrame, Zenon DEF clientVars
<1>3. ASSUME NEW B \in SUBSET Msgs, connect(B) PROVE OnePlace'
  <2>1. /\ toSend = {} /\ (\A i \in Indices : pending[i] = {}) /\ B \subseteq outbox
        /\ toSend' = B /\ outbox' = outbox \ B /\ acked' = acked
        /\ \A i \in Indices : pending'[i] = {}
    BY <1>1, <1>3, Zenon DEF connect, ClientShape
  <2> QED
    BY <1>1, <2>1, Zenon DEF OnePlace
<1>4. ASSUME NEW B \in SUBSET Msgs, groupMessages(B) PROVE OnePlace'
  <2>1. /\ wcnt \in Indices /\ pending[wcnt] = {} /\ B \subseteq outbox
        /\ outbox' = outbox \ B /\ acked' = acked /\ toSend' = toSend
    BY <1>1, <1>4, StreamingAssumption DEF groupMessages, ClientType, ClientShape, Indices
  <2>2. pending'[wcnt] = B /\ \A i \in Indices : i # wcnt => pending'[i] = pending[i]
    BY <1>1, <1>4, <2>1, Zenon DEF groupMessages, ClientType
  <2> QED
    BY <1>1, <2>1, <2>2, Zenon DEF OnePlace
<1>5. CASE Connected
  BY <1>1, <1>5, Zenon DEF Connected, OnePlace
<1>6. CASE ConnectFails
  BY <1>1, <1>6, Zenon DEF ConnectFails, OnePlace
<1>7. CASE NackPending
  <2>1. /\ outbox' = outbox \cup UNION {pending[i] : i \in Indices}
        /\ acked' = acked /\ toSend' = toSend /\ \A i \in Indices : pending'[i] = {}
    BY <1>7, Zenon DEF NackPending
  <2>2. \A m : m \in outbox' <=> m \in outbox \/ \E i \in Indices : m \in pending[i]
    BY <2>1, Zenon
  <2> QED
    BY <1>1, <2>1, <2>2, Zenon DEF OnePlace
<1>8. CASE ReadAck
  <2>1. rcnt \in Indices
    BY <1>8, AckHasBatch, Zenon
  <2>2. /\ acked' = acked \cup pending[rcnt] /\ outbox' = outbox /\ toSend' = toSend
        /\ pending'[rcnt] = {} /\ \A i \in Indices : i # rcnt => pending'[i] = pending[i]
    BY <1>1, <1>8, <2>1, Zenon DEF ReadAck, ClientType
  <2> QED
    BY <1>1, <2>1, <2>2, Zenon DEF OnePlace
<1> QED
  BY <1>2, <1>3, <1>4, <1>5, <1>6, <1>7, <1>8, NextParts, Zenon DEF Moves

\* What the client holds keeps to the state of its connection.
LEMMA ClientShapeInd ==
    ASSUME IndInv, Next
    PROVE  ClientShape'
<1>1. ClientShape /\ ClientType /\ NetType
  BY TypeParts, Zenon DEF IndInv
<1>2. CASE Others
  <2>1. up = <<>> => up' = <<>>
    BY <1>2, Zenon DEF Others, Server, Break, ProcessFails, initialPoll, ReadBatch, ReadLoopEnds,
         TakeBatch, processOne, SendAck, NotifyData, NotifyDone, NotifySend, NotifyStops,
         ServerStop, WriteOne, WriteFails, WriteCancelled, Drain, StreamOver
  <2> QED
    BY <1>1, <1>2, <2>1, OthersFrame, SMTT(20) DEF ClientShape, clientVars
<1>3. CASE Stays
  <2>1. UNCHANGED <<toSend, pending, con, wcnt, rcnt>>
    BY <1>3, StaysFrame, Zenon
  <2>2. con = "dial" => serverDone' = serverDone /\ up' = up
    BY <1>1, <1>3, Zenon
       DEF ClientShape, Stays, clientVars, WriteBatch, WriterStops, StepDown, ReadData, ReadDone,
           WriterDone, ReaderStops, ClientStop
  <2>3. /\ writer = "off" => writer' = "off"
        /\ writer' = "loaded" => writer = "loaded"
    BY <1>3, Zenon
       DEF Stays, clientVars, WriteBatch, WriterStops, StepDown, ReadData, ReadDone,
           WriterDone, ReaderStops, ClientStop
  <2>4. reader = "off" => reader' = "off"
    BY <1>3, Zenon
       DEF Stays, clientVars, WriteBatch, WriterStops, StepDown, ReadData, ReadDone,
           WriterDone, ReaderStops, ClientStop
  <2> QED
    BY <1>1, <2>1, <2>2, <2>3, <2>4 DEF ClientShape
<1>4. ASSUME NEW B \in SUBSET Msgs, connect(B) PROVE ClientShape'
  BY <1>1, <1>4, Zenon DEF connect, ClientShape
<1>5. ASSUME NEW B \in SUBSET Msgs, groupMessages(B) PROVE ClientShape'
  <2>1. /\ wcnt \in Indices /\ wcnt \in Nat /\ wcnt >= 1 /\ wcnt' = wcnt + 1 /\ con = "up"
        /\ UNCHANGED <<con, toSend, reader>> /\ writer' = "loaded"
    BY <1>1, <1>5, StreamingAssumption DEF groupMessages, ClientType, ClientShape, Indices
  <2>2. \A i \in Indices : i # wcnt => pending'[i] = pending[i]
    BY <1>1, <1>5, <2>1, Zenon DEF groupMessages, ClientType
  <2> QED
    BY <1>1, <2>1, <2>2 DEF ClientShape, Indices
<1>6. CASE Connected
  BY <1>1, <1>6, Zenon DEF Connected, ClientShape
<1>7. CASE ConnectFails
  BY <1>1, <1>7, Zenon DEF ConnectFails, ClientShape
<1>8. CASE NackPending
  BY <1>1, <1>8, Zenon DEF NackPending, ClientShape
<1>9. CASE ReadAck
  <2>1. rcnt \in Indices /\ con = "up" /\ UNCHANGED <<con, toSend, writer, wcnt>>
    BY <1>9, AckHasBatch, Zenon DEF ReadAck
  <2>2. pending'[rcnt] = {} /\ \A i \in Indices : i # rcnt => pending'[i] = pending[i]
    BY <1>1, <1>9, <2>1, Zenon DEF ReadAck, ClientType
  <2> QED
    BY <1>1, <2>1, <2>2, Zenon DEF ClientShape
<1> QED
  BY <1>2, <1>3, <1>4, <1>5, <1>6, <1>7, <1>8, <1>9, NextParts, Zenon DEF Moves

-----------------------------------------------------------------------------
(* The goroutines of readLoop. *)

\* A set that changes in one place.
LEMMA OneMoves ==
    ASSUME NEW S, IsFiniteSet(S), NEW R, NEW i, R \ {i} = S \ {i}
    PROVE  Cardinality(R) = Cardinality(S) - (IF i \in S THEN 1 ELSE 0)
                                           + (IF i \in R THEN 1 ELSE 0)
<1>1. IsFiniteSet(S \ {i}) /\ Cardinality(S) \in Nat
      /\ Cardinality(S \ {i}) = IF i \in S THEN Cardinality(S) - 1 ELSE Cardinality(S)
  BY FS_RemoveElement, FS_CardinalityType, Zenon
<1>2. CASE i \in R
  <2>1. R = (S \ {i}) \cup {i}
    BY <1>2, Zenon
  <2>2. Cardinality(R) = Cardinality(S \ {i}) + 1
    BY <1>1, <2>1, FS_AddElement, Zenon
  <2> QED
    BY <1>1, <1>2, <2>2
<1>3. CASE i \notin R
  <2>1. R = S \ {i}
    BY <1>3, Zenon
  <2> QED
    BY <1>1, <1>3, <2>1
<1> QED
  BY <1>2, <1>3, Zenon

\* What one goroutine does changes the counts by that goroutine.
LEMMA ProcsMove ==
    ASSUME TypeOK, NEW i \in Indices, NEW r \in Proc, procs' = [procs EXCEPT ![i] = r]
    PROVE  /\ Cardinality(Active') = Cardinality(Active)
                 - (IF procs[i].st # "none" THEN 1 ELSE 0) + (IF r.st # "none" THEN 1 ELSE 0)
           /\ Cardinality(Waiting') = Cardinality(Waiting)
                 - (IF procs[i].st = "new" THEN 1 ELSE 0) + (IF r.st = "new" THEN 1 ELSE 0)
<1>1. procs'[i] = r /\ \A j \in Indices : j # i => procs'[j] = procs[j]
  BY Zenon DEF TypeOK
<1>2. /\ Active' \ {i} = Active \ {i} /\ Waiting' \ {i} = Waiting \ {i}
      /\ i \in Active <=> procs[i].st # "none"
      /\ i \in Active' <=> r.st # "none"
      /\ i \in Waiting <=> procs[i].st = "new"
      /\ i \in Waiting' <=> r.st = "new"
  BY <1>1, Zenon DEF Active, Waiting
<1>3. IsFiniteSet(Active) /\ IsFiniteSet(Waiting)
  BY Sizes, Zenon
<1>4. Cardinality(Active') = Cardinality(Active)
                 - (IF i \in Active THEN 1 ELSE 0) + (IF i \in Active' THEN 1 ELSE 0)
  BY <1>2, <1>3, OneMoves
<1>5. Cardinality(Waiting') = Cardinality(Waiting)
                 - (IF i \in Waiting THEN 1 ELSE 0) + (IF i \in Waiting' THEN 1 ELSE 0)
  BY <1>2, <1>3, OneMoves
<1> QED
  BY <1>2, <1>4, <1>5, Zenon

\* The steps of the goroutines.
LEMMA ProcsSteps ==
    ASSUME IndInv
    PROVE  /\ ReadBatch => /\ Cardinality(Active') = Cardinality(Active) + 1
                           /\ Cardinality(Waiting') = Cardinality(Waiting) + 1
           /\ \A i \in Indices :
                /\ TakeBatch(i) => /\ Cardinality(Active') = Cardinality(Active)
                                   /\ Cardinality(Waiting') = Cardinality(Waiting) - 1
                /\ processOne(i) => /\ Cardinality(Active') = Cardinality(Active)
                                    /\ Cardinality(Waiting') = Cardinality(Waiting)
                /\ SendAck(i) \/ ProcessFails(i) =>
                                    /\ Cardinality(Active') = Cardinality(Active) - 1
                                    /\ Cardinality(Waiting') = Cardinality(Waiting)
<1>1. TypeOK /\ procs \in [Indices -> Proc]
  BY Zenon DEF IndInv, TypeOK
<1>2. Cardinality(Active) \in Nat /\ Cardinality(Waiting) \in Nat
  BY <1>1, Sizes, Zenon
<1>3. ASSUME ReadBatch
      PROVE  /\ Cardinality(Active') = Cardinality(Active) + 1
             /\ Cardinality(Waiting') = Cardinality(Waiting) + 1
  <2> DEFINE i == scnt + 1
             r == [procs[i] EXCEPT !.st = "new"]
  <2>1. i \in Indices /\ procs[i].st = "none"
    BY <1>3, ReadHasRoom, Zenon
  <2>2. r \in Proc /\ r.st = "new"
    BY <1>1, <2>1, Zenon DEF Proc
  <2>3. procs' = [procs EXCEPT ![i] = r]
    BY <1>3, Zenon DEF ReadBatch
  <2> HIDE DEF i, r
  <2>4. /\ Cardinality(Active') = Cardinality(Active)
                 - (IF procs[i].st # "none" THEN 1 ELSE 0) + (IF r.st # "none" THEN 1 ELSE 0)
        /\ Cardinality(Waiting') = Cardinality(Waiting)
                 - (IF procs[i].st = "new" THEN 1 ELSE 0) + (IF r.st = "new" THEN 1 ELSE 0)
    BY <1>1, <2>1, <2>2, <2>3, ProcsMove, Zenon
  <2> QED
    BY <1>2, <2>1, <2>2, <2>4, SMTT(20)
<1>4. ASSUME NEW i \in Indices, TakeBatch(i)
      PROVE  /\ Cardinality(Active') = Cardinality(Active)
             /\ Cardinality(Waiting') = Cardinality(Waiting) - 1
  <2> DEFINE r == [st |-> "running", batch |-> Head(batchCh)]
  <2>1. r \in Proc /\ r.st = "running"
    BY <1>4, TakeHasBatch, Zenon DEF Proc
  <2>2. procs' = [procs EXCEPT ![i] = r] /\ procs[i].st = "new"
    BY <1>4, Zenon DEF TakeBatch
  <2> HIDE DEF r
  <2>3. /\ Cardinality(Active') = Cardinality(Active)
                 - (IF procs[i].st # "none" THEN 1 ELSE 0) + (IF r.st # "none" THEN 1 ELSE 0)
        /\ Cardinality(Waiting') = Cardinality(Waiting)
                 - (IF procs[i].st = "new" THEN 1 ELSE 0) + (IF r.st = "new" THEN 1 ELSE 0)
    BY <1>1, <2>1, <2>2, ProcsMove, Zenon
  <2> QED
    BY <1>2, <2>1, <2>2, <2>3
<1>5. ASSUME NEW i \in Indices, processOne(i)
      PROVE  /\ Cardinality(Active') = Cardinality(Active)
             /\ Cardinality(Waiting') = Cardinality(Waiting)
  <2> DEFINE r == [st |-> "ack", batch |-> {}]
  <2>1. r \in Proc /\ r.st = "ack"
    BY Zenon DEF Proc
  <2>2. procs' = [procs EXCEPT ![i] = r] /\ procs[i].st = "running"
    BY <1>5, Zenon DEF processOne
  <2> HIDE DEF r
  <2>3. /\ Cardinality(Active') = Cardinality(Active)
                 - (IF procs[i].st # "none" THEN 1 ELSE 0) + (IF r.st # "none" THEN 1 ELSE 0)
        /\ Cardinality(Waiting') = Cardinality(Waiting)
                 - (IF procs[i].st = "new" THEN 1 ELSE 0) + (IF r.st = "new" THEN 1 ELSE 0)
    BY <1>1, <2>1, <2>2, ProcsMove, Zenon
  <2> QED
    BY <1>2, <2>1, <2>2, <2>3, SMTT(20)
<1>6. ASSUME NEW i \in Indices, SendAck(i) \/ ProcessFails(i)
      PROVE  /\ Cardinality(Active') = Cardinality(Active) - 1
             /\ Cardinality(Waiting') = Cardinality(Waiting)
  <2>1. NoProc \in Proc /\ NoProc.st = "none"
    BY Zenon DEF Proc, NoProc
  <2>2. procs' = [procs EXCEPT ![i] = NoProc] /\ procs[i].st \in {"ack", "running"}
    BY <1>6, Zenon DEF SendAck, ProcessFails
  <2>3. /\ Cardinality(Active') = Cardinality(Active)
                 - (IF procs[i].st # "none" THEN 1 ELSE 0) + (IF NoProc.st # "none" THEN 1 ELSE 0)
        /\ Cardinality(Waiting') = Cardinality(Waiting)
                 - (IF procs[i].st = "new" THEN 1 ELSE 0) + (IF NoProc.st = "new" THEN 1 ELSE 0)
    BY <1>1, <2>1, <2>2, ProcsMove, Zenon
  <2> QED
    BY <1>2, <2>1, <2>2, <2>3
<1> QED
  BY <1>3, <1>4, <1>5, <1>6, Zenon

-----------------------------------------------------------------------------
(* The batches that wait. *)

\* Once writeLoop is over nothing of the stream is left, until the next one.
LEMMA OffIsQuiet ==
    ASSUME IndInv, Next, writeL = "off", ~initialPoll
    PROVE  UNCHANGED <<readL, notifyL, writeL, out, procs>>
<1>1. readL = "off" /\ notifyL = "off" /\ out = <<>> /\ Active = {}
  BY Zenon DEF IndInv, ProcsShape
<1>2. \A i \in Indices : procs[i].st = "none"
  BY <1>1, Zenon DEF Active
<1>3. CASE Moves \/ Stays
  BY <1>3, ClientFrame, Zenon DEF serverVars
<1>4. CASE Others
  BY <1>1, <1>2, <1>4, Zenon
     DEF serverVars, Others, Server, Break, ProcessFails, ReadBatch, ReadLoopEnds,
         TakeBatch, processOne, SendAck, NotifyData, NotifyDone, NotifySend, NotifyStops,
         ServerStop, WriteOne, WriteFails, WriteCancelled, Drain, StreamOver
<1> QED
  BY <1>3, <1>4, NextParts, Zenon

\* The steps that change no goroutine, no batch that waits and no count.
LEMMA ProcsFrame ==
    ASSUME Next, ~initialPoll, ~ReadBatch, \A i \in Indices : ~TakeBatch(i) /\ ~processOne(i)
                                              /\ ~SendAck(i) /\ ~ProcessFails(i)
    PROVE  UNCHANGED <<procs, batchCh, scnt>>
<1>1. CASE Moves \/ Stays
  BY <1>1, ClientFrame, Zenon DEF serverVars
<1>2. CASE Others
  BY <1>2, Zenon
     DEF serverVars, Others, Server, Break, ReadLoopEnds, NotifyData, NotifyDone, NotifySend,
         NotifyStops, ServerStop, WriteOne, WriteFails, WriteCancelled, Drain, StreamOver
<1> QED
  BY <1>1, <1>2, NextParts, Zenon

\* Every batch that waits has a goroutine, and the stream ends with its last one.
LEMMA ProcsShapeInd ==
    ASSUME IndInv, Next
    PROVE  ProcsShape'
<1>1. TypeOK /\ ProcsShape /\ procs \in [Indices -> Proc] /\ scnt \in Nat
  BY StreamingAssumption, SMTT(20) DEF IndInv, TypeOK
<1>2. Cardinality(Waiting) = Len(batchCh) /\ Len(batchCh) \in Nat
      /\ \A i \in Indices : i > scnt => procs[i].st = "none"
  BY <1>1, Sizes, Zenon DEF ProcsShape
<1>3. /\ Cardinality(Waiting') = Len(batchCh')
      /\ \A i \in Indices : i > scnt' => procs'[i].st = "none"
  <2>1. CASE initialPoll
    <3>1. \A i \in Indices : procs'[i].st = "none"
      BY <2>1, Zenon DEF initialPoll, NoProc
    <3>2. Waiting' = {} /\ batchCh' = <<>>
      BY <2>1, <3>1, Zenon DEF initialPoll, Waiting
    <3> QED
      BY <3>1, <3>2, FS_EmptySet, Zenon
  <2>2. CASE ReadBatch
    <3>1. Len(batchCh') = Len(batchCh) + 1 /\ scnt' = scnt + 1
      BY <1>1, <2>2 DEF ReadBatch, TypeOK
    <3>2. \A i \in Indices : i # scnt + 1 => procs'[i] = procs[i]
      BY <1>1, <2>2, Zenon DEF ReadBatch
    <3>3. Cardinality(Waiting') = Len(batchCh')
      BY <1>2, <2>2, <3>1, ProcsSteps, Zenon
    <3>4. \A i \in Indices : i > scnt' => procs'[i].st = "none"
      <4> SUFFICES ASSUME NEW i \in Indices, i > scnt' PROVE procs'[i].st = "none"
        BY Zenon
      <4>1. i \in Nat /\ i > scnt /\ i # scnt + 1
        BY <1>1, <3>1 DEF Indices
      <4> QED
        BY <1>2, <3>2, <4>1, Zenon
    <3> QED
      BY <3>3, <3>4, Zenon
  <2>3. ASSUME NEW i \in Indices, TakeBatch(i)
        PROVE  /\ Cardinality(Waiting') = Len(batchCh')
               /\ \A j \in Indices : j > scnt' => procs'[j].st = "none"
    <3>1. Len(batchCh') = Len(batchCh) - 1
      <4>1. batchCh # <<>> /\ batchCh \in Seq(SUBSET Msgs) /\ batchCh' = Tail(batchCh)
        BY <1>1, <2>3, TakeHasBatch, Zenon DEF TakeBatch, TypeOK
      <4> QED
        BY <4>1
    <3>2. procs[i].st # "none" /\ scnt' = scnt
          /\ \A j \in Indices : j # i => procs'[j] = procs[j]
      BY <1>1, <2>3, Zenon DEF TakeBatch
    <3> QED
      BY <1>2, <2>3, <3>1, <3>2, ProcsSteps, Zenon
  <2>4. ASSUME NEW i \in Indices, processOne(i) \/ SendAck(i) \/ ProcessFails(i)
        PROVE  /\ Cardinality(Waiting') = Len(batchCh')
               /\ \A j \in Indices : j > scnt' => procs'[j].st = "none"
    <3>1. procs[i].st # "none" /\ scnt' = scnt /\ batchCh' = batchCh
          /\ \A j \in Indices : j # i => procs'[j] = procs[j]
      BY <1>1, <2>4, Zenon DEF processOne, SendAck, ProcessFails
    <3> QED
      BY <1>2, <2>4, <3>1, ProcsSteps, Zenon
  <2>5. CASE UNCHANGED <<procs, batchCh, scnt>>
    BY <1>2, <2>5, Zenon DEF Waiting
  <2> QED
    BY <2>1, <2>2, <2>3, <2>4, <2>5, ProcsFrame, Zenon
<1>4. ASSUME writeL' = "off"
      PROVE  readL' = "off" /\ notifyL' = "off" /\ out' = <<>> /\ Active' = {}
  <2>1. CASE StreamOver
    <3>1. \A i \in Indices : procs'[i].st = "none"
      BY <2>1 DEF StreamOver, NoProc
    <3> QED
      BY <2>1, <3>1, Zenon DEF StreamOver, Active
  <2>2. CASE writeL = "off" /\ ~initialPoll
    BY <1>1, <2>2, OffIsQuiet, Zenon DEF ProcsShape, Active
  <2>3. CASE writeL # "off" /\ ~StreamOver
    <3>1. CASE Moves \/ Stays
      BY <1>4, <2>3, <3>1, ClientFrame, Zenon DEF serverVars
    <3>2. CASE Others
      BY <1>4, <2>3, <3>2, Zenon
         DEF serverVars, Others, Server, Break, ProcessFails, initialPoll, ReadBatch,
             ReadLoopEnds, TakeBatch, processOne, SendAck, NotifyData, NotifyDone, NotifySend,
             NotifyStops, ServerStop, WriteOne, WriteFails, WriteCancelled, Drain
    <3> QED
      BY <3>1, <3>2, NextParts, Zenon
  <2>4. ~initialPoll
    BY <1>4, Zenon DEF initialPoll
  <2> QED
    BY <2>1, <2>2, <2>3, <2>4, Zenon
<1> QED
  BY <1>3, <1>4, Zenon DEF ProcsShape

-----------------------------------------------------------------------------
(* Acknowledgements and the end of the stream. *)

\* Only the initial contact makes a connection count.
LEMMA EstablishedBefore ==
    ASSUME IndInv, Next, Established', ~initialPoll
    PROVE  Established
<1>1. CASE writeL # "off"
  BY <1>1, Zenon DEF Established, ServerGone
<1>2. CASE writeL = "off"
  <2>1. UNCHANGED <<readL, notifyL, writeL, out>> /\ out = <<>>
    BY <1>2, OffIsQuiet, Zenon DEF IndInv, ProcsShape
  <2>2. con' = "up" \/ down' # <<>>
    BY <1>2, <2>1, Zenon DEF Established, ServerGone, IndInv, ProcsShape
  <2>3. CASE Moves
    BY <2>2, <2>3, Zenon
       DEF Established, Moves, connect, groupMessages, Connected, ConnectFails, NackPending,
           ReadAck
  <2>4. CASE Stays
    BY <2>2, <2>4, Zenon
       DEF Established, clientVars, Stays, WriteBatch, WriterStops, StepDown, ReadData, ReadDone,
           WriterDone, ReaderStops, ClientStop
  <2>5. CASE Others
    BY <1>2, <2>1, <2>2, <2>5, Zenon
       DEF Established, clientVars, serverVars, Others, Server, Break, ProcessFails, ReadBatch,
           ReadLoopEnds, TakeBatch, processOne, SendAck, NotifyData, NotifyDone, NotifySend,
           NotifyStops, ServerStop, WriteOne, WriteFails, WriteCancelled, Drain, StreamOver
  <2> QED
    BY <2>3, <2>4, <2>5, NextParts, Zenon
<1> QED
  BY <1>1, <1>2, Zenon

\* What receiving and sending do to the acknowledgements and ends of stream of a
\* queue.
LEMMA QueueSteps ==
    ASSUME NEW q \in Seq(Indices \cup {Data, Done})
    PROVE  /\ Cardinality(Acks(q)) \in Nat /\ Cardinality(Dones(q)) \in Nat
           /\ q # <<>> =>
                /\ Cardinality(Acks(Tail(q))) =
                     Cardinality(Acks(q)) - (IF Head(q) \in Indices THEN 1 ELSE 0)
                /\ Cardinality(Dones(Tail(q))) =
                     Cardinality(Dones(q)) - (IF Head(q) = Done THEN 1 ELSE 0)
           /\ \A x \in Indices \cup {Data, Done} :
                /\ Cardinality(Acks(Append(q, x))) =
                     Cardinality(Acks(q)) + (IF x \in Indices THEN 1 ELSE 0)
                /\ Cardinality(Dones(Append(q, x))) =
                     Cardinality(Dones(q)) + (IF x = Done THEN 1 ELSE 0)
<1>1. \A p : Dones(p) = Where(p, {Done}) /\ Acks(p) = Where(p, Indices)
  BY Zenon DEF Dones, Acks, Where
<1>2. Cardinality(Acks(q)) \in Nat /\ Cardinality(Dones(q)) \in Nat
  BY <1>1, WhereFinite, Zenon
<1>3. ASSUME q # <<>>
      PROVE  /\ Cardinality(Acks(Tail(q))) =
                  Cardinality(Acks(q)) - (IF Head(q) \in Indices THEN 1 ELSE 0)
             /\ Cardinality(Dones(Tail(q))) =
                  Cardinality(Dones(q)) - (IF Head(q) \in {Done} THEN 1 ELSE 0)
  BY <1>1, <1>3, WhereTail, Zenon
<1>4. ASSUME NEW x \in Indices \cup {Data, Done}
      PROVE  /\ Cardinality(Acks(Append(q, x))) =
                  Cardinality(Acks(q)) + (IF x \in Indices THEN 1 ELSE 0)
             /\ Cardinality(Dones(Append(q, x))) =
                  Cardinality(Dones(q)) + (IF x \in {Done} THEN 1 ELSE 0)
  BY <1>1, <1>4, WhereAppend
<1> QED
  BY <1>2, <1>3, <1>4, Zenon

\* Nothing is in an empty queue, and the first answer is neither.
LEMMA FreshQueues ==
    /\ Cardinality(Acks(<<>>)) = 0 /\ Cardinality(Dones(<<>>)) = 0
    /\ Cardinality(Acks(<<Data>>)) = 0 /\ Cardinality(Dones(<<Data>>)) = 0
<1>1. Acks(<<>>) = {} /\ Dones(<<>>) = {}
  BY DEF Dones, Acks, Where
<1>2. Acks(<<Data>>) = {} /\ Dones(<<Data>>) = {}
  BY DEF Dones, Acks, Where, Data, Done, Indices
<1> QED
  BY <1>1, <1>2, FS_EmptySet, Zenon

\* An acknowledgement is neither Data nor Done.
LEMMA Kinds ==
    /\ Data \notin Indices /\ Done \notin Indices /\ Data # Done
    /\ \A x \in Indices \cup {Data, Done} : x > 0 <=> x \in Indices
  BY DEF Data, Done, Indices

\* The numbers that Counted relates, and their types.
LEMMA Numbers ==
    ASSUME TypeOK
    PROVE  /\ rcnt \in Nat /\ wcnt \in Nat /\ scnt \in Nat /\ Len(up) \in Nat
           /\ Cardinality(Acks(down)) \in Nat /\ Cardinality(Acks(out)) \in Nat
           /\ Cardinality(Active) \in Nat
           /\ down \in Seq(Indices \cup {Data, Done}) /\ out \in Seq(Indices \cup {Data, Done})
           /\ up \in Seq(SUBSET Msgs)
  BY Sizes, StreamingAssumption DEF TypeOK

\* Acknowledgements stay behind the batches read, and those behind the batches
\* written.
LEMMA CountedInd ==
    ASSUME IndInv, Next
    PROVE  Counted'
<1> DEFINE L == IF writer = "loaded" THEN 1 ELSE 0
           D == Cardinality(Acks(down))
           O == Cardinality(Acks(out))
           A == Cardinality(Active)
           Goal == /\ rcnt' - 1 + D' + O' + A' <= scnt'
                   /\ scnt' + Len(up') + L' <= wcnt' - 1
<1> SUFFICES ASSUME Established' PROVE Goal
  BY Zenon DEF Counted
<1>1. TypeOK /\ Counted /\ ClientShape /\ ProcsShape
  BY Zenon DEF IndInv
<1>2. CASE initialPoll
  <2>1. Active' = {}
    BY <1>2, Zenon DEF initialPoll, Active, NoProc
  <2>2. rcnt' = 1 /\ wcnt' = 1 /\ up' = <<>> /\ writer' = "off" /\ scnt' = 0
        /\ out' = <<>> /\ down' = <<Data>>
    BY <1>1, <1>2, Zenon DEF initialPoll, ClientShape, clientVars
  <2>3. A' = 0 /\ D' = 0 /\ O' = 0 /\ Len(up') = 0 /\ L' = 0
    BY <2>1, <2>2, FreshQueues, FS_EmptySet, Zenon
  <2> HIDE DEF A, D, O, L
  <2> QED
    BY <2>2, <2>3
<1> SUFFICES ASSUME ~initialPoll PROVE Goal
  BY <1>2, Zenon
<1>3. /\ rcnt - 1 + D + O + A <= scnt
      /\ scnt + Len(up) + L <= wcnt - 1
  BY <1>1, EstablishedBefore, Zenon DEF Counted
<1>4. /\ rcnt \in Nat /\ wcnt \in Nat /\ scnt \in Nat /\ Len(up) \in Nat
      /\ D \in Nat /\ O \in Nat /\ A \in Nat /\ L \in 0..1
  BY <1>1, Numbers
<1>5. CASE UNCHANGED <<rcnt, wcnt, scnt, procs, up, down, out>> /\ (writer' = "loaded" => L = 1)
  <2>1. A' = A /\ D' = D /\ O' = O
    BY <1>5, Zenon DEF Active
  <2>2. L' \in 0..1 /\ L' <= L
    BY <1>5
  <2> HIDE DEF A, D, O, L
  <2> QED
    BY <1>3, <1>4, <1>5, <2>1, <2>2
<1>6. down # <<>> /\ down' = Tail(down) =>
         D' \in Nat /\ D' = D - (IF Head(down) \in Indices THEN 1 ELSE 0)
  <2> SUFFICES ASSUME down # <<>>, down' = Tail(down)
               PROVE  D' \in Nat /\ D' = D - (IF Head(down) \in Indices THEN 1 ELSE 0)
    BY Zenon
  <2>1. down' \in Seq(Indices \cup {Data, Done})
    BY QueuesType, Zenon
  <2> QED
    BY <1>1, <2>1, Numbers, QueueSteps, Zenon
<1>7. out # <<>> /\ out' = Tail(out) =>
         O' \in Nat /\ O' = O - (IF Head(out) \in Indices THEN 1 ELSE 0)
  <2> SUFFICES ASSUME out # <<>>, out' = Tail(out)
               PROVE  O' \in Nat /\ O' = O - (IF Head(out) \in Indices THEN 1 ELSE 0)
    BY Zenon
  <2>1. out' \in Seq(Indices \cup {Data, Done})
    BY QueuesType, Zenon
  <2> QED
    BY <1>1, <2>1, Numbers, QueueSteps, Zenon
<1>8. /\ UNCHANGED down => D' = D
      /\ UNCHANGED out => O' = O
      /\ UNCHANGED procs => A' = A
      /\ UNCHANGED writer => L' = L
      /\ writer' # "loaded" => L' = 0
      /\ writer' = "loaded" => L' = 1
      /\ writer # "loaded" => L = 0
      /\ writer = "loaded" => L = 1
  BY Zenon DEF Active
<1>9. ASSUME NEW B \in SUBSET Msgs, connect(B) PROVE Goal
  BY <1>9, Zenon DEF connect, Established, ServerGone, serverVars
<1> HIDE DEF A, D, O, L
<1>10. ASSUME NEW B \in SUBSET Msgs, groupMessages(B) PROVE Goal
  <2>1. D' = D /\ O' = O /\ A' = A /\ L = 0 /\ L' = 1
    BY <1>8, <1>10, Zenon DEF groupMessages, serverVars
  <2> QED
    BY <1>3, <1>4, <1>10, <2>1 DEF groupMessages, serverVars
<1>11. CASE Connected
  <2>1. O' = O /\ A' = A /\ L' = 0 /\ (D' = D \/ D' = D - 1)
    BY <1>4, <1>6, <1>8, <1>11 DEF Connected, serverVars
  <2>2. UNCHANGED <<rcnt, wcnt, scnt, up>>
    BY <1>11, Zenon DEF Connected, serverVars
  <2> QED
    BY <1>3, <1>4, <2>1, <2>2
<1>12. CASE WriteBatch
  <2>1. D' = D /\ O' = O /\ A' = A /\ L = 1 /\ L' = 0
    BY <1>8, <1>12, Zenon DEF WriteBatch, serverVars
  <2>2. Len(up') \in Nat /\ Len(up') <= Len(up) + 1
    BY <1>1, <1>12, Numbers DEF WriteBatch
  <2> QED
    BY <1>3, <1>4, <1>12, <2>1, <2>2 DEF WriteBatch, serverVars
<1>13. CASE ReadAck
  <2>1. O' = O /\ A' = A /\ L' = L
    BY <1>8, <1>13, Zenon DEF ReadAck, serverVars
  <2>2. D' = D - 1
    BY <1>4, <1>6, <1>13, AckHasBatch, Zenon DEF ReadAck
  <2> QED
    BY <1>3, <1>4, <1>13, <2>1, <2>2, SMTT(20) DEF ReadAck, serverVars
<1>14. CASE ReadData \/ ReadDone
  <2>1. O' = O /\ A' = A /\ L' = L
    BY <1>8, <1>14, Zenon DEF ReadData, ReadDone, clientVars, serverVars
  <2>2. D' = D
    <3>1. down # <<>> /\ down' = Tail(down) /\ Head(down) \notin Indices
      BY <1>14, Kinds, Zenon DEF ReadData, ReadDone
    <3> QED
      BY <1>4, <1>6, <3>1
  <2> QED
    BY <1>3, <1>4, <1>14, <2>1, <2>2, Zenon DEF ReadData, ReadDone, clientVars, serverVars
<1>15. CASE ReadBatch
  <2>1. D' = D /\ O' = O /\ L' = L
    BY <1>8, <1>15, Zenon DEF ReadBatch, clientVars
  <2>2. A' = A + 1
    BY <1>15, ProcsSteps, Zenon DEF A
  <2>3. Len(up') = Len(up) - 1
    BY <1>1, <1>15, Numbers DEF ReadBatch
  <2>4. UNCHANGED <<rcnt, wcnt>> /\ scnt' = scnt + 1
    BY <1>15, Zenon DEF ReadBatch, clientVars
  <2> QED
    BY <1>3, <1>4, <2>1, <2>2, <2>3, <2>4
<1>16. ASSUME NEW i \in Indices, TakeBatch(i) \/ processOne(i) \/ ProcessFails(i) PROVE Goal
  <2>1. D' = D /\ O' = O /\ L' = L
    BY <1>8, <1>16, Zenon DEF TakeBatch, processOne, ProcessFails, clientVars
  <2>2. A' = A \/ A' = A - 1
    BY <1>16, ProcsSteps, Zenon DEF A
  <2>3. UNCHANGED <<rcnt, wcnt, scnt, up>>
    BY <1>16, Zenon DEF TakeBatch, processOne, ProcessFails, clientVars
  <2> QED
    BY <1>3, <1>4, <2>1, <2>2, <2>3, SMTT(20)
<1>17. ASSUME NEW i \in Indices, SendAck(i) PROVE Goal
  <2>1. D' = D /\ L' = L
    BY <1>8, <1>17, Zenon DEF SendAck, clientVars
  <2>2. A' = A - 1
    BY <1>17, ProcsSteps, Zenon DEF A
  <2>3. O' = O + 1
    BY <1>1, <1>17, Numbers, QueueSteps, Zenon DEF SendAck, O
  <2> QED
    BY <1>3, <1>4, <1>17, <2>1, <2>2, <2>3, SMTT(20) DEF SendAck, clientVars
<1>18. CASE NotifySend
  <2>1. D' = D /\ A' = A /\ L' = L
    BY <1>8, <1>18, Zenon DEF NotifySend, clientVars
  <2>2. O' = O
    <3>1. PICK x \in {Data, Done} : out' = Append(out, x)
      BY <1>18, Zenon DEF NotifySend
    <3>2. Cardinality(Acks(out')) = Cardinality(Acks(out)) + (IF x \in Indices THEN 1 ELSE 0)
      BY <1>1, <3>1, Numbers, QueueSteps, Zenon
    <3> QED
      BY <1>4, <3>2, Kinds DEF O
  <2> QED
    BY <1>3, <1>4, <1>18, <2>1, <2>2, Zenon DEF NotifySend, clientVars
<1>19. CASE WriteOne
  <2>1. A' = A /\ L' = L
    BY <1>8, <1>19, Zenon DEF WriteOne, clientVars
  <2>2. O' = O - (IF Head(out) \in Indices THEN 1 ELSE 0)
    BY <1>7, <1>19, Zenon DEF WriteOne
  <2>3. Head(out) \in Indices \cup {Data, Done}
    BY <1>1, <1>19, Numbers DEF WriteOne
  <2>4. D' = D \/ D' = D + (IF Head(out) \in Indices THEN 1 ELSE 0)
    BY <1>1, <1>8, <1>19, <2>3, Numbers, QueueSteps, Zenon DEF WriteOne, D
  <2>5. UNCHANGED <<rcnt, wcnt, scnt, up>>
    BY <1>19, Zenon DEF WriteOne, clientVars
  <2> QED
    BY <1>3, <1>4, <2>1, <2>2, <2>4, <2>5, SMTT(20)
<1>20. CASE WriteFails \/ Drain
  <2>1. D' = D /\ A' = A /\ L' = L
    BY <1>8, <1>20, Zenon DEF WriteFails, Drain, clientVars
  <2>2. O' = O \/ O' = O - 1
    <3>1. out # <<>> /\ out' = Tail(out)
      BY <1>20, Zenon DEF WriteFails, Drain
    <3> QED
      BY <1>4, <1>7, <3>1, SMTT(20)
  <2>3. UNCHANGED <<rcnt, wcnt, scnt, up>>
    BY <1>20, Zenon DEF WriteFails, Drain, clientVars
  <2> QED
    BY <1>3, <1>4, <2>1, <2>2, <2>3, SMTT(20)
<1>21. CASE Break
  <2>1. O' = O /\ A' = A /\ L' = L
    BY <1>8, <1>21, Zenon DEF Break, clientVars, serverVars
  <2>2. D' = 0 /\ Len(up') = 0
    BY <1>21, FreshQueues, Zenon DEF Break, D
  <2> QED
    BY <1>3, <1>4, <1>21, <2>1, <2>2 DEF Break, clientVars, serverVars
<1>22. CASE \/ ConnectFails \/ NackPending \/ WriterStops \/ StepDown \/ WriterDone
            \/ ReaderStops \/ ClientStop \/ ReadLoopEnds \/ NotifyData \/ NotifyDone
            \/ NotifyStops \/ ServerStop \/ WriteCancelled \/ StreamOver
  BY <1>5, <1>8, <1>22, Zenon
     DEF clientVars, serverVars, ConnectFails, NackPending, WriterStops, StepDown, WriterDone,
         ReaderStops, ClientStop, ReadLoopEnds, NotifyData, NotifyDone, NotifyStops, ServerStop,
         WriteCancelled, StreamOver
<1> HIDE DEF Goal
<1> QED
  BY <1>9, <1>10, <1>11, <1>12, <1>13, <1>14, <1>15, <1>16, <1>17, <1>18, <1>19, <1>20,
     <1>21, <1>22, Zenon DEF Next, Client, Server

\* The end of the stream comes at most once.
LEMMA DoneCountedInd ==
    ASSUME IndInv, Next
    PROVE  DoneCounted'
<1> DEFINE D == Cardinality(Dones(down))
           O == Cardinality(Dones(out))
           S == IF serverDone THEN 1 ELSE 0
           N == IF notifyL # "off" THEN 1 ELSE 0
           Goal == O' + D' + S' + N' <= 1
<1> SUFFICES ASSUME Established' PROVE Goal
  BY Zenon DEF DoneCounted
<1>1. TypeOK /\ DoneCounted /\ ClientShape /\ ProcsShape
  BY Zenon DEF IndInv
<1>2. CASE initialPoll
  <2>1. ~serverDone' /\ out' = <<>> /\ down' = <<Data>>
    BY <1>1, <1>2, Zenon DEF initialPoll, ClientShape, clientVars
  <2>2. D' = 0 /\ O' = 0 /\ S' = 0
    BY <2>1, FreshQueues, Zenon
  <2>3. N' = 0 \/ N' = 1
    BY Zenon
  <2> HIDE DEF D, O, S, N
  <2> QED
    BY <2>2, <2>3
<1> SUFFICES ASSUME ~initialPoll PROVE Goal
  BY <1>2, Zenon
<1>3. O + D + S + N <= 1
  BY <1>1, EstablishedBefore, Zenon DEF DoneCounted
<1>4. D \in Nat /\ O \in Nat /\ S \in 0..1 /\ N \in 0..1
  BY <1>1, Sizes
<1>5. down # <<>> /\ down' = Tail(down) => D' \in Nat /\ D' = D - (IF Head(down) = Done THEN 1 ELSE 0)
  <2> SUFFICES ASSUME down # <<>>, down' = Tail(down)
               PROVE  D' \in Nat /\ D' = D - (IF Head(down) = Done THEN 1 ELSE 0)
    BY Zenon
  <2>1. down' \in Seq(Indices \cup {Data, Done})
    BY QueuesType, Zenon
  <2> QED
    BY <1>1, <2>1, Numbers, QueueSteps, Zenon
<1>6. out # <<>> /\ out' = Tail(out) => O' \in Nat /\ O' = O - (IF Head(out) = Done THEN 1 ELSE 0)
  <2> SUFFICES ASSUME out # <<>>, out' = Tail(out)
               PROVE  O' \in Nat /\ O' = O - (IF Head(out) = Done THEN 1 ELSE 0)
    BY Zenon
  <2>1. out' \in Seq(Indices \cup {Data, Done})
    BY QueuesType, Zenon
  <2> QED
    BY <1>1, <2>1, Numbers, QueueSteps, Zenon
<1>7. /\ UNCHANGED down => D' = D
      /\ UNCHANGED out => O' = O
      /\ UNCHANGED serverDone => S' = S
      /\ UNCHANGED notifyL \/ notifyL # "off" => N' = N \/ N' = 0
      /\ S' = 0 \/ S' = 1
      /\ notifyL # "off" => N = 1
      /\ notifyL' = "off" => N' = 0
  OBVIOUS
<1>8. ASSUME NEW B \in SUBSET Msgs, connect(B) PROVE Goal
  BY <1>8, Zenon DEF connect, Established, ServerGone, serverVars
<1> HIDE DEF D, O, S, N
<1>9. CASE Connected \/ ReadAck \/ ReadData
  <2>1. O' = O /\ S' = S /\ (N' = N \/ N' = 0)
    BY <1>7, <1>9, Zenon DEF Connected, ReadAck, ReadData, serverVars, clientVars
  <2>2. D' = D \/ D' = D - 1
    BY <1>4, <1>5, <1>9 DEF Connected, ReadAck, ReadData
  <2> QED
    BY <1>3, <1>4, <2>1, <2>2, SMTT(20)
<1>10. CASE ReadDone
  <2>1. O' = O /\ (N' = N \/ N' = 0) /\ (S' = 0 \/ S' = 1)
    BY <1>7, <1>10, Zenon DEF ReadDone, serverVars
  <2>2. D' \in Nat /\ D' = D - 1
    BY <1>5, <1>10, Zenon DEF ReadDone
  <2> QED
    BY <1>3, <1>4, <2>1, <2>2
<1>11. ASSUME NEW i \in Indices, SendAck(i) PROVE Goal
  <2>1. D' = D /\ S' = S /\ (N' = N \/ N' = 0)
    BY <1>7, <1>11, Zenon DEF SendAck, clientVars
  <2>2. O' = O
    BY <1>1, <1>4, <1>11, Numbers, QueueSteps, Kinds DEF SendAck, O
  <2> QED
    BY <1>3, <1>4, <2>1, <2>2
<1>12. CASE NotifySend
  <2>1. D' = D /\ S' = S /\ N = 1 /\ (N' = N \/ N' = 0)
    BY <1>7, <1>12, Zenon DEF NotifySend, clientVars
  <2>2. CASE notifyL = "data"
    <3>1. out' = Append(out, Data)
      BY <1>12, <2>2, Zenon DEF NotifySend
    <3>2. O' = O + (IF Data = Done THEN 1 ELSE 0)
      BY <1>1, <3>1, Numbers, QueueSteps, Zenon DEF O
    <3>3. O' = O
      BY <1>4, <3>2, Kinds
    <3> QED
      BY <1>3, <1>4, <2>1, <3>3
  <2>3. CASE notifyL = "done"
    <3>1. O' = O + 1 /\ N' = 0
      BY <1>1, <1>4, <1>7, <1>12, <2>3, Numbers, QueueSteps, Zenon DEF NotifySend, O
    <3> QED
      BY <1>3, <1>4, <2>1, <3>1
  <2> QED
    BY <1>12, <2>2, <2>3, Zenon DEF NotifySend
<1>13. CASE WriteOne
  <2>1. S' = S /\ (N' = N \/ N' = 0)
    BY <1>7, <1>13, Zenon DEF WriteOne, clientVars
  <2>2. O' = O - (IF Head(out) = Done THEN 1 ELSE 0)
    BY <1>6, <1>13, Zenon DEF WriteOne
  <2>3. Head(out) \in Indices \cup {Data, Done}
    BY <1>1, <1>13, Numbers, SMTT(20) DEF WriteOne
  <2>4. D' = D \/ D' = D + (IF Head(out) = Done THEN 1 ELSE 0)
    BY <1>1, <1>7, <1>13, <2>3, Numbers, QueueSteps, Zenon DEF WriteOne, D
  <2> QED
    BY <1>3, <1>4, <2>1, <2>2, <2>4
<1>14. CASE WriteFails \/ Drain
  <2>1. D' = D /\ S' = S /\ (N' = N \/ N' = 0)
    BY <1>7, <1>14, Zenon DEF WriteFails, Drain, clientVars
  <2>2. O' = O \/ O' = O - 1
    <3>1. out # <<>> /\ out' = Tail(out)
      BY <1>14, Zenon DEF WriteFails, Drain
    <3> QED
      BY <1>4, <1>6, <3>1, SMTT(20)
  <2> QED
    BY <1>3, <1>4, <2>1, <2>2
<1>15. CASE Break
  <2>1. O' = O /\ S' = S /\ (N' = N \/ N' = 0)
    BY <1>7, <1>15, Zenon DEF Break, clientVars, serverVars
  <2>2. D' = 0
    BY <1>15, FreshQueues, Zenon DEF Break, D
  <2> QED
    BY <1>3, <1>4, <2>1, <2>2
<1>16. CASE UNCHANGED <<serverDone, down, out>> /\ (UNCHANGED notifyL \/ notifyL # "off")
  <2>1. D' = D /\ O' = O /\ S' = S /\ (N' = N \/ N' = 0)
    BY <1>7, <1>16, Zenon
  <2> QED
    BY <1>3, <1>4, <2>1
<1> HIDE DEF Goal
<1>17. ASSUME NEW B \in SUBSET Msgs, groupMessages(B) PROVE Goal
  BY <1>16, <1>17, Zenon DEF groupMessages, serverVars
<1>18. CASE ConnectFails \/ NackPending \/ Stays
  <2>1. CASE ConnectFails \/ NackPending \/ WriteBatch \/ WriterStops
    BY <1>16, <2>1, Zenon DEF serverVars, ConnectFails, NackPending, WriteBatch, WriterStops
  <2>2. CASE StepDown \/ WriterDone \/ ReaderStops \/ ClientStop
    BY <1>16, <2>2, Zenon DEF serverVars, clientVars, StepDown, WriterDone, ReaderStops, ClientStop
  <2> QED
    BY <1>9, <1>10, <1>18, <2>1, <2>2, Zenon DEF Stays
<1>19. CASE Others
  <2>1. CASE ReadBatch \/ ReadLoopEnds \/ \E i \in Indices : TakeBatch(i) \/ processOne(i)
    BY <1>16, <2>1, Zenon DEF clientVars, ReadBatch, ReadLoopEnds, TakeBatch, processOne
  <2>2. CASE NotifyData \/ NotifyDone \/ NotifyStops
    BY <1>16, <2>2, Zenon DEF clientVars, NotifyData, NotifyDone, NotifyStops
  <2>3. CASE ServerStop \/ WriteCancelled \/ StreamOver \/ \E i \in Indices : ProcessFails(i)
    BY <1>16, <2>3, Zenon DEF clientVars, ServerStop, WriteCancelled, StreamOver, ProcessFails
  <2> QED
    BY <1>11, <1>12, <1>13, <1>14, <1>15, <1>19, <2>1, <2>2, <2>3, Zenon DEF Others, Server
<1> QED
  BY <1>8, <1>9, <1>17, <1>18, <1>19, NextParts, Zenon DEF Moves

-----------------------------------------------------------------------------
(* The theorems. *)

\* Every step keeps the invariant.
LEMMA NextInd == IndInv /\ [Next]_vars => IndInv'
<1> SUFFICES ASSUME IndInv, [Next]_vars PROVE IndInv'
  BY Zenon
<1>1. CASE Next
  BY <1>1, TypeInd, ClientShapeInd, OnePlaceInd, CountedInd, ProcsShapeInd, DoneCountedInd, Zenon
     DEF IndInv
<1>2. CASE UNCHANGED vars
  <2>1. TypeOK'
    <3>1. ClientType'
      BY <1>2, TypeParts, Zenon DEF IndInv, ClientType, vars, clientVars
    <3>2. ServerType' /\ NetType'
      BY <1>2, TypeParts, Zenon DEF IndInv, ServerType, NetType, vars, serverVars
    <3> QED
      BY <3>1, <3>2, TypeParts, Zenon DEF TypeOK, ClientType, ServerType, NetType
  <2>2. ClientShape' /\ OnePlace'
    BY <1>2, Zenon DEF IndInv, ClientShape, OnePlace, vars, clientVars, serverVars
  <2>3. Counted' /\ ProcsShape' /\ DoneCounted'
    BY <1>2, Zenon DEF IndInv, Counted, ProcsShape, DoneCounted, Established, ServerGone, Active,
                Waiting, vars, clientVars, serverVars
  <2> QED
    BY <2>1, <2>2, <2>3, Zenon DEF IndInv
<1> QED
  BY <1>1, <1>2, Zenon

\* The inductive invariant holds in every reachable state.
THEOREM Inductive == Spec => []IndInv
<1>1. Init => IndInv
  BY InitInd, Zenon
<1>2. IndInv /\ [Next]_vars => IndInv'
  BY NextInd, Zenon
<1> QED
  BY <1>1, <1>2, PTL DEF Spec

\* Types are kept for any number of messages and batches and any capacities: the
\* counts of the client's loops stay within the batches of a connection, and
\* neither channel of the streamManager holds more than it has room for.
THEOREM TypeCorrect == Spec => []TypeOK
<1>1. IndInv => TypeOK
  BY Zenon DEF IndInv
<1> QED
  BY <1>1, Inductive, PTL

\* The places of the client: what it offers, what was acknowledged, the initial
\* contact, and the batches of the connection.
LEMMA PlacesAre ==
    ASSUME TypeOK
    PROVE  /\ DOMAIN Places = 1..MaxBatches + 3
           /\ Places[1] = outbox /\ Places[2] = acked /\ Places[3] = toSend
           /\ \A i \in Indices : Places[i + 3] = pending[i]
<1> DEFINE s == <<outbox, acked, toSend>>
<1>1. s \in Seq(SUBSET Msgs) /\ Len(s) = 3 /\ s[1] = outbox /\ s[2] = acked /\ s[3] = toSend
  BY DEF TypeOK
<1>2. MaxBatches \in Nat /\ pending \in [1..MaxBatches -> SUBSET Msgs]
  BY StreamingAssumption, Zenon DEF TypeOK, Indices
<1>3. pending \in Seq(SUBSET Msgs) /\ Len(pending) = MaxBatches
  BY <1>2
<1> HIDE DEF s
<1>4. PICK t \in Seq(SUBSET Msgs) : t = s \o pending
  BY <1>1, <1>3, ConcatProperties, Zenon
<1>5. /\ Len(t) = Len(s) + Len(pending)
      /\ \A k \in 1..Len(s) + Len(pending) :
           t[k] = IF k <= Len(s) THEN s[k] ELSE pending[k - Len(s)]
  BY <1>1, <1>3, <1>4, ConcatProperties, Zenon
<1>6. Len(t) = MaxBatches + 3 /\ DOMAIN t = 1..Len(t)
  BY <1>1, <1>2, <1>3, <1>5
<1>7. t[1] = s[1] /\ t[2] = s[2] /\ t[3] = s[3]
  BY <1>1, <1>2, <1>3, <1>5
<1>8. \A i \in Indices : t[i + 3] = pending[i]
  <2> SUFFICES ASSUME NEW i \in Indices PROVE t[i + 3] = pending[i]
    BY Zenon
  <2>1. i + 3 \in 1..MaxBatches + 3 /\ ~(i + 3 <= 3) /\ (i + 3) - 3 = i
    BY <1>2 DEF Indices
  <2> QED
    BY <1>1, <1>2, <1>3, <1>5, <2>1
<1>9. Places = t
  BY <1>4, Zenon DEF Places, s
<1> QED
  BY <1>1, <1>6, <1>7, <1>8, <1>9, Zenon

\* The client holds every message in exactly one place, at any time: as one it
\* offers, in the initial contact, in one batch that is pending, or acknowledged.
\* So every message is Acked or Nacked, and not twice, whatever breaks and in
\* whichever order the loops of client and server end.
THEOREM AnsweredOnce == Spec => []AckOrNackOnce
<1>1. IndInv => AckOrNackOnce
  <2> SUFFICES ASSUME IndInv, NEW m \in Msgs
               PROVE  Cardinality({p \in DOMAIN Places : m \in Places[p]}) = 1
    BY Zenon DEF AckOrNackOnce
  <2> DEFINE P == {p \in DOMAIN Places : m \in Places[p]}
  <2>1. TypeOK /\ OnePlace
    BY Zenon DEF IndInv
  <2>2. /\ DOMAIN Places = 1..MaxBatches + 3 /\ MaxBatches \in Nat
        /\ Places[1] = outbox /\ Places[2] = acked /\ Places[3] = toSend
        /\ \A i \in Indices : Places[i + 3] = pending[i]
    BY <2>1, PlacesAre, StreamingAssumption, Zenon
  <2>3. \A p \in DOMAIN Places : p \in 1..3 \/ (p - 3 \in Indices /\ Places[p] = pending[p - 3])
    <3> SUFFICES ASSUME NEW p \in DOMAIN Places, p \notin 1..3
                 PROVE  p - 3 \in Indices /\ Places[p] = pending[p - 3]
      BY Zenon
    <3>1. p - 3 \in Indices /\ p = (p - 3) + 3
      BY <2>2 DEF Indices
    <3> QED
      BY <2>2, <3>1, Zenon
  <2>4. \E p \in DOMAIN Places : m \in Places[p]
    <3>1. CASE m \in outbox \/ m \in acked \/ m \in toSend
      BY <2>2, <3>1
    <3>2. ASSUME NEW i \in Indices, m \in pending[i] PROVE i + 3 \in DOMAIN Places
      BY <2>2 DEF Indices
    <3> QED
      BY <2>1, <2>2, <3>1, <3>2, Zenon DEF OnePlace
  <2>5. \A p, q \in DOMAIN Places : m \in Places[p] /\ m \in Places[q] => p = q
    <3> SUFFICES ASSUME NEW p \in DOMAIN Places, NEW q \in DOMAIN Places,
                        m \in Places[p], m \in Places[q]
                 PROVE  p = q
      BY Zenon
    <3>1. CASE p \in 1..3 /\ q \in 1..3
      BY <2>1, <2>2, <3>1 DEF OnePlace
    <3>2. CASE p \in 1..3 /\ q - 3 \in Indices /\ Places[q] = pending[q - 3]
      BY <2>1, <2>2, <3>2 DEF OnePlace
    <3>3. CASE q \in 1..3 /\ p - 3 \in Indices /\ Places[p] = pending[p - 3]
      BY <2>1, <2>2, <3>3 DEF OnePlace
    <3>4. CASE /\ p - 3 \in Indices /\ Places[p] = pending[p - 3]
               /\ q - 3 \in Indices /\ Places[q] = pending[q - 3]
      <4>1. p - 3 = q - 3
        BY <2>1, <3>4, Zenon DEF OnePlace
      <4> QED
        BY <2>2, <4>1
    <3> QED
      BY <2>3, <3>1, <3>2, <3>3, <3>4, Zenon
  <2>6. PICK p \in DOMAIN Places : P = {p}
    BY <2>4, <2>5
  <2> QED
    BY <2>6, FS_Singleton, Zenon
<1> QED
  BY <1>1, Inductive, PTL

\* Acknowledgements stay behind the batches the server has read and those behind
\* the batches the client has written, and DoneSending comes at most once, on
\* every connection and for any capacity of the channels.
THEOREM InOrder == Spec => []StreamInOrder
<1>1. IndInv => StreamInOrder
  <2> SUFFICES ASSUME IndInv, con = "up" PROVE StreamInOrder
    BY Zenon DEF StreamInOrder, AcksBehindReads, DoneOnce
  <2>1. TypeOK /\ Counted /\ DoneCounted /\ Established
    BY Zenon DEF IndInv, Established
  <2>2. DoneOnce
    BY <2>1, Zenon DEF DoneOnce, DoneCounted
  <2>3. rcnt - 1 <= scnt
    BY <2>1, Numbers DEF Counted
  <2>4. scnt <= wcnt - 1
    BY <2>1, Numbers, SMTT(20) DEF Counted
  <2> QED
    BY <2>2, <2>3, <2>4, Zenon DEF StreamInOrder, AcksBehindReads
<1> QED
  BY <1>1, Inductive, PTL
=============================================================================
