------------------------------ MODULE Streaming ------------------------------
(***************************************************************************)
(* A streaming connection: connectLoop, connect and the read and write     *)
(* loops of the client (client/https/streaming.go), the streamManager of   *)
(* the server with its loops and its goroutine per batch                   *)
(* (server/https/streaming_message_server.go), and the byte streams between*)
(* them.  The client has one connection after another.  A batch is the set *)
(* of messages of one WrappedContactData, empty when only the processing   *)
(* beacon fired; a ContactData of the server is an index it acknowledges,  *)
(* Data or Done.  What HandleMessagesFromClient does with a batch is the   *)
(* subject of ServerInbound: here it succeeds or fails as a whole.         *)
(***************************************************************************)
EXTENDS Integers, Sequences, FiniteSets

CONSTANTS
    Msgs,                         \* messages the client wants to deliver
    MaxPerClientBatchProcessors,  \* capacity of batchCh
    OutCap,                       \* capacity of streamManager.out
    MaxBatches,                   \* bound: batches written on a connection
    MaxData,                      \* bound: ContactData with messages for the client
    MaxFaults                     \* bound: failures of network and datastore

ASSUME StreamingAssumption ==
    /\ MaxPerClientBatchProcessors \in Nat \ {0}
    /\ OutCap \in Nat \ {0}
    /\ MaxBatches \in Nat /\ MaxData \in Nat /\ MaxFaults \in Nat

VARIABLES
    outbox,      \* client: messages RetryLoop offers, new or Nacked
    acked,       \* client: messages whose Ack was called
    toSend,      \* client: messages of the initial contact
    con,         \* client: connectLoop has no connection, dials one, or waits for it
    pending,     \* client: connection.pending, by index ({}: no entry)
    cctx,        \* client: connection.ctx is alive
    serverDone, writingDone,   \* client: these channels are closed
    writer, wcnt,              \* client: writeLoop, and its cnt
    reader, rcnt,              \* client: readLoop, and its cnt
    up, down,    \* batches and ContactData on their way
    link,        \* the transport works
    sctx,        \* server: streamManager.ctx is alive
    readL, notifyL, writeL,    \* server: the loops
    scnt,        \* server: cnt of readLoop
    batchCh,     \* server: batches read and not taken
    procs,       \* server: goroutines of readLoop, by the count they acknowledge
    out,         \* server: streamManager.out
    stored,      \* server: messages HandleMessagesFromClient accepted
    ndata, faults

clientVars == <<outbox, acked, toSend, con, pending, cctx, serverDone, writingDone,
                writer, wcnt, reader, rcnt>>
serverVars == <<sctx, readL, notifyL, writeL, scnt, batchCh, procs, out, stored, ndata>>
vars == <<clientVars, up, down, link, serverVars, faults>>

Indices == 1..MaxBatches
Data == 0
Done == -1

\* A goroutine of readLoop: not there, waiting for batchCh, processing a batch,
\* or with an acknowledgement for the client.
NoProc == [st |-> "none", batch |-> {}]

Init ==
    /\ outbox = Msgs /\ acked = {} /\ toSend = {}
    /\ con = "none"
    /\ pending = [i \in Indices |-> {}]
    /\ cctx = FALSE /\ serverDone = FALSE /\ writingDone = FALSE
    /\ writer = "off" /\ wcnt = 1 /\ reader = "off" /\ rcnt = 1
    /\ up = <<>> /\ down = <<>> /\ link = FALSE
    /\ sctx = FALSE
    /\ readL = "off" /\ notifyL = "off" /\ writeL = "off"
    /\ scnt = 0 /\ batchCh = <<>>
    /\ procs = [i \in Indices |-> NoProc]
    /\ out = <<>> /\ stored = {}
    /\ ndata = 0 /\ faults = 0

Fault == faults < MaxFaults /\ faults' = faults + 1

-----------------------------------------------------------------------------
(* Opening a connection. *)

ServerGone == readL = "off" /\ notifyL = "off" /\ writeL = "off"

\* connect: take a first group of messages, maybe none, and post them.  The
\* streamManager of the previous connection is over; one that lingered would have
\* nobody to answer to.
connect(B) ==
    /\ con = "none" /\ ServerGone
    /\ B \subseteq outbox
    /\ con' = "dial" /\ toSend' = B /\ outbox' = outbox \ B
    /\ pending' = [i \in Indices |-> {}]
    /\ cctx' = TRUE /\ serverDone' = FALSE /\ writingDone' = FALSE
    /\ wcnt' = 1 /\ rcnt' = 1
    /\ up' = <<>> /\ down' = <<>> /\ link' = TRUE
    /\ UNCHANGED <<acked, writer, reader, serverVars, faults>>

\* initialPoll: handle the messages of the initial contact, answer with a first
\* ContactData, and start the loops.
initialPoll ==
    /\ con = "dial" /\ link /\ ServerGone /\ down = <<>>
    /\ stored' = stored \cup toSend
    /\ down' = <<Data>>
    /\ sctx' = TRUE
    /\ readL' = "run" /\ notifyL' = "run" /\ writeL' = "run"
    /\ scnt' = 0 /\ batchCh' = <<>> /\ out' = <<>> /\ ndata' = 0
    /\ procs' = [i \in Indices |-> NoProc]
    /\ UNCHANGED <<clientVars, up, link, faults>>

\* connect returns a connection: the first ContactData arrived, the messages of
\* the initial contact are acknowledged and the loops started.
Connected ==
    /\ con = "dial" /\ link /\ down # <<>>
    /\ down' = Tail(down)
    /\ acked' = acked \cup toSend /\ toSend' = {}
    /\ con' = "up" /\ writer' = "run" /\ reader' = "run"
    /\ UNCHANGED <<outbox, pending, cctx, serverDone, writingDone, wcnt, rcnt,
                   up, link, serverVars, faults>>

\* Variant: connect forgets the messages of the initial contact.
ConnectFailsForgets ==
    /\ con = "dial"
    /\ Fault \/ (~link /\ UNCHANGED faults)
    /\ con' = "none" /\ cctx' = FALSE /\ link' = FALSE
    /\ toSend' = {}
    /\ UNCHANGED <<outbox, acked, pending, serverDone, writingDone, writer, wcnt, reader, rcnt,
                   up, down, serverVars>>

\* connect fails before or after the server handled the initial contact: Nack.
ConnectFails ==
    /\ con = "dial"
    /\ Fault \/ (~link /\ UNCHANGED faults)
    /\ con' = "none" /\ cctx' = FALSE /\ link' = FALSE
    /\ outbox' = outbox \cup toSend /\ toSend' = {}
    /\ UNCHANGED <<acked, pending, serverDone, writingDone, writer, wcnt, reader, rcnt,
                   up, down, serverVars>>

\* Variant: connectLoop waits for readLoop only.
NackPendingEarly ==
    /\ con = "up" /\ reader = "off"
    /\ con' = "none"
    /\ outbox' = outbox \cup UNION {pending[i] : i \in Indices}
    /\ pending' = [i \in Indices |-> {}]
    /\ UNCHANGED <<acked, toSend, cctx, serverDone, writingDone, writer, wcnt, reader, rcnt,
                   up, down, link, serverVars, faults>>

\* connectLoop after con.working.Wait(): Nack whatever is still pending.
NackPending ==
    /\ con = "up" /\ writer = "off" /\ reader = "off"
    /\ con' = "none"
    /\ outbox' = outbox \cup UNION {pending[i] : i \in Indices}
    /\ pending' = [i \in Indices |-> {}]
    /\ UNCHANGED <<acked, toSend, cctx, serverDone, writingDone, writer, wcnt, reader, rcnt,
                   up, down, link, serverVars, faults>>

-----------------------------------------------------------------------------
(* The client's loops. *)

\* writeLoop: groupMessages returns B, from the outbox or empty for the beacon.
groupMessages(B) ==
    /\ writer = "run" /\ wcnt <= MaxBatches
    /\ B \subseteq outbox
    /\ outbox' = outbox \ B
    /\ pending' = [pending EXCEPT ![wcnt] = B]
    /\ wcnt' = wcnt + 1
    /\ writer' = "loaded"
    /\ UNCHANGED <<acked, toSend, con, cctx, serverDone, writingDone, reader, rcnt,
                   up, down, link, serverVars, faults>>

\* ... and the group is written, unless the connection is over.  What is written
\* to a broken link is lost.
WriteBatch ==
    /\ writer = "loaded" /\ cctx
    /\ up' = IF link THEN Append(up, pending[wcnt - 1]) ELSE up
    /\ writer' = "run"
    /\ UNCHANGED <<outbox, acked, toSend, con, pending, cctx, serverDone, writingDone,
                   wcnt, reader, rcnt, down, link, serverVars, faults>>

\* writeLoop returns because the connection is over, the contact data could not
\* be made, or a write failed.
WriterStops ==
    /\ \/ writer \in {"run", "loaded", "stepped"} /\ ~cctx /\ UNCHANGED faults
       \/ writer = "loaded" /\ cctx /\ ~link /\ UNCHANGED faults
       \/ writer = "loaded" /\ cctx /\ link /\ Fault
    /\ writer' = "off" /\ cctx' = FALSE /\ writingDone' = TRUE
    /\ UNCHANGED <<outbox, acked, toSend, con, pending, serverDone, wcnt, reader, rcnt,
                   up, down, link, serverVars>>

\* writeLoop after serverDone: everything is written, wait for the rest.
StepDown ==
    /\ writer = "run" /\ serverDone /\ cctx
    /\ writer' = "stepped" /\ writingDone' = TRUE
    /\ UNCHANGED <<outbox, acked, toSend, con, pending, cctx, serverDone, wcnt, reader, rcnt,
                   up, down, link, serverVars, faults>>

Unacked == {i \in Indices : pending[i] # {}}

\* readLoop reads an acknowledgement: the value of the index only matters for
\* being set, what is acknowledged is the oldest index not acknowledged so far.
ReadAck ==
    /\ reader \in {"run", "closing"} /\ link /\ down # <<>> /\ Head(down) > 0
    /\ down' = Tail(down)
    /\ rcnt' = rcnt + 1
    /\ acked' = acked \cup pending[rcnt]
    /\ pending' = [pending EXCEPT ![rcnt] = {}]
    /\ IF reader = "closing" /\ Unacked \subseteq {rcnt}
       THEN reader' = "off" /\ cctx' = FALSE
       ELSE UNCHANGED <<reader, cctx>>
    /\ UNCHANGED <<outbox, toSend, con, serverDone, writingDone, writer, wcnt,
                   up, link, serverVars, faults>>

\* readLoop reads messages for the client and processes them.
ReadData ==
    /\ reader \in {"run", "closing"} /\ link /\ down # <<>> /\ Head(down) = Data
    /\ down' = Tail(down)
    /\ UNCHANGED <<clientVars, up, link, serverVars, faults>>

\* readLoop reads DoneSending, closes serverDone and waits for writeLoop.
ReadDone ==
    /\ reader = "run" /\ link /\ down # <<>> /\ Head(down) = Done
    /\ down' = Tail(down)
    /\ serverDone' = TRUE /\ reader' = "waiting"
    /\ UNCHANGED <<outbox, acked, toSend, con, pending, cctx, writingDone, writer, wcnt, rcnt,
                   up, link, serverVars, faults>>

\* ... and goes on reading only while acknowledgements are outstanding.
WriterDone ==
    /\ reader = "waiting" /\ writingDone /\ cctx
    /\ IF Unacked = {} THEN reader' = "off" /\ cctx' = FALSE
       ELSE reader' = "closing" /\ UNCHANGED cctx
    /\ UNCHANGED <<outbox, acked, toSend, con, pending, serverDone, writingDone, writer, wcnt,
                   rcnt, up, down, link, serverVars, faults>>

\* readLoop returns: the connection is over, the stream broken or at its end.
ReaderStops ==
    /\ reader # "off"
    /\ \/ ~cctx
       \/ reader # "waiting" /\ ~link
       \/ reader # "waiting" /\ ServerGone /\ down = <<>>
    /\ reader' = "off" /\ cctx' = FALSE
    /\ UNCHANGED <<outbox, acked, toSend, con, pending, serverDone, writingDone, writer, wcnt,
                   rcnt, up, down, link, serverVars, faults>>

\* The connection reaches its maxLife, or Reset or Stop is called.
ClientStop ==
    /\ con = "up" /\ cctx
    /\ cctx' = FALSE
    /\ UNCHANGED <<outbox, acked, toSend, con, pending, serverDone, writingDone, writer, wcnt,
                   reader, rcnt, up, down, link, serverVars, faults>>

-----------------------------------------------------------------------------
(* The server's loops. *)

\* Variant: readLoop never waits for the processors.
ReadBatchUnbounded ==
    /\ readL = "run" /\ link /\ up # <<>>
    /\ up' = Tail(up)
    /\ scnt' = scnt + 1
    /\ batchCh' = Append(batchCh, Head(up))
    /\ procs' = [procs EXCEPT ![scnt + 1].st = "new"]
    /\ UNCHANGED <<clientVars, down, link, sctx, readL, notifyL, writeL, out, stored, ndata,
                   faults>>

\* readLoop reads a batch, queues it and starts a goroutine for it.
ReadBatch ==
    /\ readL = "run" /\ link /\ up # <<>>
    /\ Len(batchCh) < MaxPerClientBatchProcessors
    /\ up' = Tail(up)
    /\ scnt' = scnt + 1
    /\ batchCh' = Append(batchCh, Head(up))
    /\ procs' = [procs EXCEPT ![scnt + 1].st = "new"]
    /\ UNCHANGED <<clientVars, down, link, sctx, readL, notifyL, writeL, out, stored, ndata,
                   faults>>

\* Some goroutine receives the oldest batch of batchCh.
TakeBatch(i) ==
    /\ procs[i].st = "new"
    /\ procs' = [procs EXCEPT ![i] = [st |-> "running", batch |-> Head(batchCh)]]
    /\ batchCh' = Tail(batchCh)
    /\ UNCHANGED <<clientVars, up, down, link, sctx, readL, notifyL, writeL, scnt, out, stored,
                   ndata, faults>>

\* processOne succeeds ...
processOne(i) ==
    /\ procs[i].st = "running"
    /\ stored' = stored \cup procs[i].batch
    /\ procs' = [procs EXCEPT ![i] = [st |-> "ack", batch |-> {}]]
    /\ UNCHANGED <<clientVars, up, down, link, sctx, readL, notifyL, writeL, scnt, batchCh, out,
                   ndata, faults>>

\* ... or fails, and nothing is sent.
ProcessFails(i) ==
    /\ procs[i].st = "running" /\ Fault
    /\ procs' = [procs EXCEPT ![i] = NoProc]
    /\ UNCHANGED <<clientVars, up, down, link, sctx, readL, notifyL, writeL, scnt, batchCh, out,
                   stored, ndata>>

\* Variant: an acknowledgement is sent more than once.
SendAckRepeatedly(i) ==
    /\ procs[i].st = "ack" /\ Len(out) < OutCap
    /\ out' = Append(out, i)
    /\ UNCHANGED <<clientVars, up, down, link, sctx, readL, notifyL, writeL, scnt, batchCh, procs,
                   stored, ndata, faults>>

\* The goroutine acknowledges the count it was started with.
SendAck(i) ==
    /\ procs[i].st = "ack" /\ Len(out) < OutCap
    /\ out' = Append(out, i)
    /\ procs' = [procs EXCEPT ![i] = NoProc]
    /\ UNCHANGED <<clientVars, up, down, link, sctx, readL, notifyL, writeL, scnt, batchCh,
                   stored, ndata, faults>>

\* readOne returns an error once the client has closed its end or the link is
\* broken, or when a batch fails its validation; readLoop cancels the stream.
ReadLoopEnds ==
    /\ readL = "run"
    /\ \/ (~link \/ ~cctx) /\ UNCHANGED faults
       \/ link /\ up # <<>> /\ Fault
    /\ readL' = "off" /\ sctx' = FALSE
    /\ UNCHANGED <<clientVars, up, down, link, notifyL, writeL, scnt, batchCh, procs, out,
                   stored, ndata>>

\* notifyLoop gets messages for the client, finds that it is time to announce the
\* end of the stream, or sees that it is over.
NotifyData ==
    /\ notifyL = "run" /\ ndata < MaxData
    /\ notifyL' = "data" /\ ndata' = ndata + 1
    /\ UNCHANGED <<clientVars, up, down, link, sctx, readL, writeL, scnt, batchCh, procs, out,
                   stored, faults>>

NotifyDone ==
    /\ notifyL = "run"
    /\ notifyL' = "done"
    /\ UNCHANGED <<clientVars, up, down, link, sctx, readL, writeL, scnt, batchCh, procs, out,
                   stored, ndata, faults>>

NotifyStops ==
    /\ notifyL = "run" /\ ~sctx
    /\ notifyL' = "off"
    /\ UNCHANGED <<clientVars, up, down, link, sctx, readL, writeL, scnt, batchCh, procs, out,
                   stored, ndata, faults>>

\* Variant: notifyLoop goes on after it announced the end.
NotifySendGoesOn ==
    /\ notifyL \in {"data", "done"} /\ Len(out) < OutCap
    /\ out' = Append(out, IF notifyL = "data" THEN Data ELSE Done)
    /\ notifyL' = "run"
    /\ UNCHANGED <<clientVars, up, down, link, sctx, readL, writeL, scnt, batchCh, procs,
                   stored, ndata, faults>>

\* Its send waits for room in the channel, whatever happens to the stream.
NotifySend ==
    /\ notifyL \in {"data", "done"} /\ Len(out) < OutCap
    /\ out' = Append(out, IF notifyL = "data" THEN Data ELSE Done)
    /\ notifyL' = IF notifyL = "data" THEN "run" ELSE "off"
    /\ UNCHANGED <<clientVars, up, down, link, sctx, readL, writeL, scnt, batchCh, procs,
                   stored, ndata, faults>>

\* The stream reaches its deadline, or the server is stopping.
ServerStop ==
    /\ sctx
    /\ sctx' = FALSE
    /\ UNCHANGED <<clientVars, up, down, link, readL, notifyL, writeL, scnt, batchCh, procs, out,
                   stored, ndata, faults>>

\* writeLoop writes a ContactData.  Once it fails, or the stream is cancelled, the
\* loop only drains the channel.
WriteOne ==
    /\ writeL = "run" /\ out # <<>>
    /\ out' = Tail(out)
    /\ down' = IF link THEN Append(down, Head(out)) ELSE down
    /\ UNCHANGED <<clientVars, up, link, sctx, readL, notifyL, writeL, scnt, batchCh, procs,
                   stored, ndata, faults>>

\* The error path of writeLoop cancels the stream only if it is cancelled already.
WriteFails ==
    /\ writeL = "run" /\ out # <<>> /\ (~link \/ ~cctx)
    /\ out' = Tail(out)
    /\ writeL' = "draining"
    /\ UNCHANGED <<clientVars, up, down, link, sctx, readL, notifyL, scnt, batchCh, procs,
                   stored, ndata, faults>>

WriteCancelled ==
    /\ writeL = "run" /\ ~sctx
    /\ writeL' = "draining"
    /\ UNCHANGED <<clientVars, up, down, link, sctx, readL, notifyL, scnt, batchCh, procs, out,
                   stored, ndata, faults>>


\* The deferred loop over the channel.
Drain ==
    /\ writeL = "draining" /\ out # <<>>
    /\ out' = Tail(out)
    /\ UNCHANGED <<clientVars, up, down, link, sctx, readL, notifyL, writeL, scnt, batchCh, procs,
                   stored, ndata, faults>>

\* ServeHTTP returns: everybody who writes to out is gone, out is closed and
\* writeLoop finds it empty.
StreamOver ==
    /\ ~sctx /\ readL = "off" /\ notifyL = "off"
    /\ \A i \in Indices : procs[i] = NoProc
    /\ writeL \in {"run", "draining"} /\ out = <<>>
    /\ writeL' = "off"
    /\ UNCHANGED <<clientVars, up, down, link, sctx, readL, notifyL, scnt, batchCh, procs, out,
                   stored, ndata, faults>>

\* The connection between client and server breaks.
Break ==
    /\ link /\ con # "none" /\ Fault
    /\ link' = FALSE /\ up' = <<>> /\ down' = <<>>
    /\ UNCHANGED <<clientVars, serverVars>>

-----------------------------------------------------------------------------

Client ==
    \/ \E B \in SUBSET Msgs : connect(B) \/ groupMessages(B)
    \/ Connected \/ NackPending \/ WriteBatch \/ WriterStops \/ StepDown
    \/ ReadAck \/ ReadData \/ ReadDone \/ WriterDone \/ ReaderStops \/ ClientStop

Server ==
    \/ initialPoll \/ ReadBatch \/ ReadLoopEnds
    \/ \E i \in Indices : TakeBatch(i) \/ processOne(i) \/ SendAck(i)
    \/ NotifyData \/ NotifyDone \/ NotifySend \/ NotifyStops \/ ServerStop
    \/ WriteOne \/ WriteFails \/ WriteCancelled \/ Drain \/ StreamOver

Next ==
    \/ Client \/ Server
    \/ ConnectFails \/ Break
    \/ \E i \in Indices : ProcessFails(i)

Spec == Init /\ [][Next]_vars

-----------------------------------------------------------------------------

Proc == [st : {"none", "new", "running", "ack"}, batch : SUBSET Msgs]

TypeOK ==
    /\ outbox \subseteq Msgs /\ acked \subseteq Msgs /\ toSend \subseteq Msgs
    /\ stored \subseteq Msgs
    /\ con \in {"none", "dial", "up"}
    /\ pending \in [Indices -> SUBSET Msgs]
    /\ {cctx, serverDone, writingDone, link, sctx} \subseteq BOOLEAN
    /\ writer \in {"off", "run", "loaded", "stepped"}
    /\ reader \in {"off", "run", "waiting", "closing"}
    /\ wcnt \in 1..MaxBatches + 1 /\ rcnt \in 1..MaxBatches + 1
    /\ up \in Seq(SUBSET Msgs) /\ batchCh \in Seq(SUBSET Msgs)
    /\ Len(batchCh) <= MaxPerClientBatchProcessors
    /\ down \in Seq(Indices \cup {Data, Done}) /\ out \in Seq(Indices \cup {Data, Done})
    /\ Len(out) <= OutCap
    /\ readL \in {"off", "run"} /\ notifyL \in {"off", "run", "data", "done"}
    /\ writeL \in {"off", "run", "draining"}
    /\ scnt \in 0..MaxBatches
    /\ procs \in [Indices -> Proc]
    /\ ndata \in 0..MaxData /\ faults \in 0..MaxFaults

\* The places where the client can hold a message.
Places == <<outbox, acked, toSend>> \o pending

\* Every message the communicator took has exactly one of Ack and Nack ahead of
\* it or had exactly one: "we are committed to calling either Ack or Nack on
\* every message" (streaming.go:483), through failed dials, broken links and
\* both orders in which the loops can end.
AckOrNackOnce ==
    \A m \in Msgs : Cardinality({p \in DOMAIN Places : m \in Places[p]}) = 1

\* The acknowledgements the client has counted are never more than the batches
\* the server has read from this connection, so the cnt of its readLoop never
\* passes that of its writeLoop.
AcksBehindReads == con = "up" => rcnt - 1 <= scnt /\ scnt <= wcnt - 1

Dones(q) == {i \in DOMAIN q : q[i] = Done}

\* The client sees DoneSending at most once on a connection: a second one would
\* close serverDone twice and panic (streaming.go:643).
DoneOnce ==
    con = "up" =>
        Cardinality(Dones(out)) + Cardinality(Dones(down))
            + (IF serverDone THEN 1 ELSE 0) + (IF notifyL # "off" THEN 1 ELSE 0) <= 1

\* Both counters and the end of the stream keep their order on a connection:
\* acknowledgements behind batches, and DoneSending once.
StreamInOrder == AcksBehindReads /\ DoneOnce

\* "A message is considered pending until it got Acked by the server."
\* (client/stats/collector.go:32): a message is only acknowledged to the client's
\* RetryLoop, which then forgets it, when the server has accepted it.
AckedIsStored == acked \subseteq stored

\* When writeLoop stops writing "ctx was already canceled"
\* (streaming_message_server.go:561).
DrainsOnlyWhenCancelled == writeL = "draining" => ~sctx

-----------------------------------------------------------------------------
(***************************************************************************)
(* Fairness: every goroutine that can run does; deadlines and maxLife come *)
(* (ServerStop, NotifyDone, ClientStop); and a message that waits whenever *)
(* the client dials is one day part of the initial contact.                *)
(***************************************************************************)
Fairness ==
    /\ WF_vars(\E B \in SUBSET Msgs : connect(B))
    /\ \A m \in Msgs : SF_vars(\E B \in SUBSET Msgs : m \in B /\ connect(B))
    /\ WF_vars(initialPoll) /\ WF_vars(Connected \/ ConnectFails)
    /\ WF_vars(NackPending) /\ WF_vars(ClientStop)
    /\ WF_vars(WriteBatch \/ WriterStops \/ StepDown)
    /\ WF_vars(ReadAck \/ ReadData \/ ReadDone \/ WriterDone \/ ReaderStops)
    /\ WF_vars(ReadBatch \/ ReadLoopEnds)
    /\ \A i \in Indices : WF_vars(TakeBatch(i) \/ processOne(i) \/ ProcessFails(i) \/ SendAck(i))
    /\ WF_vars(NotifyDone \/ NotifySend \/ NotifyStops) /\ WF_vars(ServerStop)
    /\ WF_vars(WriteOne \/ WriteFails \/ WriteCancelled \/ Drain \/ StreamOver)

FairSpec == Spec /\ Fairness

Offered(m) == m \in Msgs
Answered(m) == m \in acked

\* Every message is acknowledged in the end, although connections break, batches
\* fail and their acknowledgements are never sent.
EventuallyAcked == \A m \in Msgs : Offered(m) ~> Answered(m)

Ending == ~ServerGone /\ ~sctx
Ended == ServerGone

\* ServeHTTP returns after a stream is cancelled: no goroutine is left blocked on
\* a full channel although nobody writes to the client any more.
StreamTerminates == Ending ~> Ended
=============================================================================
