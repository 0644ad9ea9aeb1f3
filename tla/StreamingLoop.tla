----------------------------- MODULE StreamingLoop -----------------------------
(***************************************************************************)
(* The streaming communicator around its connections (StreamingCommunica-  *)
(* tor of client/https/streaming.go): connectLoop, configure, Reset, Flush *)
(* and Stop, and ForceResetAndFlushCommunicator of client/client.go.  What *)
(* a connection does is in Streaming; here its writeLoop takes messages,   *)
(* its readLoop gets them acknowledged, and both end some time after its   *)
(* context.  A batch is one message, or none (the processing beacon).      *)
(***************************************************************************)
EXTENDS Integers, Sequences, FiniteSets

CONSTANTS
    Msgs,                        \* messages the client hands over
    NumServers,                  \* addresses in the client configuration
    MaxConns, MaxRekeys, MaxResets, MaxBeacons,
    MayStop

Conns == 1..MaxConns

\* The addresses in the order of the configuration.
Servers == [n \in 1..NumServers |-> n]

VARIABLES
    loop,      \* where connectLoop is
    hosts, i,  \* c.hosts and the position in it
    id, currentId,  \* identity the transport was made for, and the client's
    conns,     \* connections made so far; the last one is the loop's con
    curCon,    \* c.curCon, 0 for nil
    live,      \* of a connection: its context has not ended
    writing, reading,  \* of a connection: its loops run
    pending,   \* of a connection: messages sent and not acknowledged
    pendingEmpty,  \* of a connection: the token in its channel
    beacons,   \* empty batches sent and not acknowledged, and how many there were
    outbox,    \* messages to be taken
    acked,
    wakeUp, fin,  \* c.wakeUp, and whether c.ctx has ended
    flush,     \* the call of Flush
    resets

conVars == <<live, writing, reading, pending, pendingEmpty, beacons>>
hostVars == <<hosts, i, id, currentId>>
vars == <<loop, hosts, i, id, currentId, conns, curCon, live, writing, reading, pending,
          pendingEmpty, beacons, outbox, acked, wakeUp, fin, flush, resets>>

TypeOK ==
    /\ loop \in {"start", "dial", "sleep", "signal", "running", "nack", "done", "lonely"}
    /\ DOMAIN hosts = 1..NumServers /\ {hosts[n] : n \in DOMAIN hosts} = 1..NumServers
    /\ i \in 1..NumServers /\ id \in 0..MaxRekeys /\ currentId \in 0..MaxRekeys
    /\ conns \in 0..MaxConns /\ curCon \in 0..MaxConns
    /\ {live, writing, reading, pendingEmpty} \subseteq [Conns -> BOOLEAN]
    /\ pending \in [Conns -> SUBSET Msgs]
    /\ outbox \subseteq Msgs /\ acked \subseteq Msgs
    /\ wakeUp \in BOOLEAN /\ fin \in BOOLEAN /\ resets \in 0..MaxResets
    /\ beacons \in [open : 0..MaxBeacons, sent : 0..MaxBeacons]
    /\ flush \in [pc : {"idle", "look", "count", "wait", "ok", "expired"}, con : 0..MaxConns,
                  old : 0..MaxConns, owed : SUBSET Msgs]

\* Setup and Start.
Init ==
    /\ loop = "start" /\ hosts = Servers /\ i = 1 /\ id = 0 /\ currentId = 0
    /\ conns = 0 /\ curCon = 0
    /\ live = [c \in Conns |-> FALSE] /\ writing = live /\ reading = live /\ pendingEmpty = live
    /\ pending = [c \in Conns |-> {}] /\ beacons = [open |-> 0, sent |-> 0]
    /\ outbox = Msgs /\ acked = {} /\ wakeUp = FALSE /\ fin = FALSE /\ resets = 0
    /\ flush = [pc |-> "idle", con |-> 0, old |-> 0, owed |-> {}]

\* The loop's top: configure for a new identity; when it fails all stays as it was.
configure(done) ==
    /\ loop = "start" /\ loop' = "dial" /\ i' = 1
    /\ IF id # currentId /\ done THEN id' = currentId /\ hosts' = Servers
       ELSE UNCHANGED <<id, hosts>>
    /\ UNCHANGED <<currentId, conns, curCon, conVars, outbox, acked, wakeUp, fin, flush, resets>>

Swap(s, a, b) == [s EXCEPT ![a] = s[b], ![b] = s[a]]

\* connect to host i succeeds: what it took from the outbox is acknowledged.
Connect(taken) ==
    /\ loop = "dial" /\ ~fin /\ conns < MaxConns
    /\ loop' = "signal" /\ conns' = conns + 1 /\ hosts' = Swap(hosts, 1, i)
    /\ LET c == conns + 1
       IN  /\ live' = [live EXCEPT ![c] = TRUE]
           /\ writing' = [writing EXCEPT ![c] = TRUE]
           /\ reading' = [reading EXCEPT ![c] = TRUE]
    /\ beacons' = [beacons EXCEPT !.open = 0]
    /\ outbox' = outbox \ taken /\ acked' = acked \cup taken
    /\ UNCHANGED <<i, id, currentId, curCon, pending, pendingEmpty, wakeUp, fin, flush, resets>>

\* connect fails and gives back what it took; the loop goes on to the next host,
\* to sleep after the last, and ends once the communicator is stopped.
ConnectFails ==
    /\ loop = "dial"
    /\ IF fin THEN loop' = "done" /\ i' = i
       ELSE IF i < Len(hosts) THEN loop' = loop /\ i' = i + 1
       ELSE loop' = "sleep" /\ i' = i
    /\ UNCHANGED <<hosts, id, currentId, conns, curCon, conVars, outbox, acked, wakeUp, fin, flush, resets>>

\* Too Lonely: the client exits.
Lonely ==
    /\ loop = "sleep" /\ loop' = "lonely"
    /\ UNCHANGED <<hostVars, conns, curCon, conVars, outbox, acked, wakeUp, fin, flush, resets>>

\* The sleep ends: by its timer, by wakeUp or by Stop.
Wake ==
    /\ loop = "sleep"
    /\ \/ loop' = "start" /\ wakeUp' = wakeUp
       \/ wakeUp /\ loop' = "start" /\ wakeUp' = FALSE
       \/ fin /\ loop' = "done" /\ wakeUp' = wakeUp
    /\ UNCHANGED <<hostVars, conns, curCon, conVars, outbox, acked, fin, flush, resets>>

SetCurrent ==
    /\ loop = "signal" /\ loop' = "running" /\ curCon' = conns
    /\ UNCHANGED <<hostVars, conns, conVars, outbox, acked, wakeUp, fin, flush, resets>>

\* A variant of Clear that does not wait for the reader.
ClearEarly ==
    /\ loop = "running" /\ ~writing[conns]
    /\ loop' = "nack" /\ curCon' = 0
    /\ UNCHANGED <<hostVars, conns, conVars, outbox, acked, wakeUp, fin, flush, resets>>

\* con.working.Wait returns.
Clear ==
    /\ loop = "running" /\ ~writing[conns] /\ ~reading[conns]
    /\ loop' = "nack" /\ curCon' = 0
    /\ UNCHANGED <<hostVars, conns, conVars, outbox, acked, wakeUp, fin, flush, resets>>

\* The connection keeps its map of pending messages.
Nack ==
    /\ loop = "nack" /\ loop' = "start"
    /\ outbox' = outbox \cup pending[conns]
    /\ UNCHANGED <<hostVars, conns, curCon, conVars, acked, wakeUp, fin, flush, resets>>

\* groupMessages and the write; the context may have ended in between.
Write(m) ==
    /\ conns > 0 /\ writing[conns] /\ m \in outbox
    /\ outbox' = outbox \ {m}
    /\ pending' = [pending EXCEPT ![conns] = @ \cup {m}]
    /\ UNCHANGED <<loop, hostVars, conns, curCon, live, writing, reading, pendingEmpty, beacons,
                   acked, wakeUp, fin, flush, resets>>

WriteBeacon ==
    /\ conns > 0 /\ writing[conns] /\ live[conns] /\ beacons.sent < MaxBeacons
    /\ beacons' = [open |-> beacons.open + 1, sent |-> beacons.sent + 1]
    /\ UNCHANGED <<loop, hostVars, conns, curCon, live, writing, reading, pending, pendingEmpty,
                   outbox, acked, wakeUp, fin, flush, resets>>

\* The readLoop gets an acknowledgement, for a message or for an empty batch.
Acked(done) ==
    /\ conns > 0 /\ reading[conns]
    /\ pending' = [pending EXCEPT ![conns] = @ \ done]
    /\ pendingEmpty' = [pendingEmpty EXCEPT ![conns] = @ \/ pending'[conns] = {}]
    /\ acked' = acked \cup done
    /\ UNCHANGED <<loop, hostVars, conns, curCon, live, writing, reading, outbox, wakeUp, fin, flush, resets>>

ReadAck ==
    \/ \E m \in pending[conns] : Acked({m}) /\ UNCHANGED beacons
    \/ beacons.open > 0 /\ Acked({}) /\ beacons' = [beacons EXCEPT !.open = @ - 1]

\* The server or the network ends the connection.
ConEnds ==
    /\ conns > 0 /\ live[conns]
    /\ live' = [live EXCEPT ![conns] = FALSE]
    /\ UNCHANGED <<loop, hostVars, conns, curCon, writing, reading, pending, pendingEmpty, beacons,
                   outbox, acked, wakeUp, fin, flush, resets>>

WriterEnds ==
    /\ conns > 0 /\ writing[conns] /\ ~live[conns]
    /\ writing' = [writing EXCEPT ![conns] = FALSE]
    /\ UNCHANGED <<loop, hostVars, conns, curCon, live, reading, pending, pendingEmpty, beacons,
                   outbox, acked, wakeUp, fin, flush, resets>>

ReaderEnds ==
    /\ conns > 0 /\ reading[conns] /\ ~live[conns]
    /\ reading' = [reading EXCEPT ![conns] = FALSE]
    /\ UNCHANGED <<loop, hostVars, conns, curCon, live, writing, pending, pendingEmpty, beacons,
                   outbox, acked, wakeUp, fin, flush, resets>>

\* ForceResetAndFlushCommunicator: Reset, then Flush.
Reset ==
    /\ resets < MaxResets /\ flush.pc \in {"idle", "ok", "expired"}
    /\ live' = IF curCon # 0 THEN [live EXCEPT ![curCon] = FALSE] ELSE live
    /\ wakeUp' = TRUE /\ resets' = resets + 1
    /\ flush' = [pc |-> "look", con |-> 0, old |-> curCon, owed |-> {}]
    /\ UNCHANGED <<loop, hostVars, conns, curCon, writing, reading, pending, pendingEmpty, beacons,
                   outbox, acked, fin>>

\* A variant of FlushLook that does not ask whether the connection is dying.
FlushLookAny ==
    /\ flush.pc = "look" /\ curCon # 0
    /\ flush' = [flush EXCEPT !.pc = "count", !.con = curCon]
    /\ UNCHANGED <<loop, hostVars, conns, curCon, conVars, outbox, acked, wakeUp, fin, resets>>

FlushLook ==
    /\ flush.pc = "look" /\ curCon # 0 /\ live[curCon]
    /\ flush' = [flush EXCEPT !.pc = "count", !.con = curCon]
    /\ UNCHANGED <<loop, hostVars, conns, curCon, conVars, outbox, acked, wakeUp, fin, resets>>

FlushCount ==
    /\ flush.pc = "count"
    /\ flush' = [flush EXCEPT !.pc = IF pending[flush.con] = {} THEN "ok" ELSE "wait",
                              !.owed = pending[flush.con]]
    /\ UNCHANGED <<loop, hostVars, conns, curCon, conVars, outbox, acked, wakeUp, fin, resets>>

FlushWait ==
    /\ flush.pc = "wait" /\ pendingEmpty[flush.con]
    /\ pendingEmpty' = [pendingEmpty EXCEPT ![flush.con] = FALSE]
    /\ flush' = [flush EXCEPT !.pc = "ok"]
    /\ UNCHANGED <<loop, hostVars, conns, curCon, live, writing, reading, pending, beacons, outbox,
                   acked, wakeUp, fin, resets>>

FlushExpires ==
    /\ flush.pc \in {"look", "wait"}
    /\ flush' = [flush EXCEPT !.pc = "expired"]
    /\ UNCHANGED <<loop, hostVars, conns, curCon, conVars, outbox, acked, wakeUp, fin, resets>>

\* The client gets a new key.
Rekey ==
    /\ currentId < MaxRekeys /\ currentId' = currentId + 1
    /\ UNCHANGED <<loop, hosts, i, id, conns, curCon, conVars, outbox, acked, wakeUp, fin, flush, resets>>

\* Stop: c.fin ends the context of the communicator and of its connections.
Stop ==
    /\ MayStop /\ ~fin /\ fin' = TRUE
    /\ live' = [c \in Conns |-> FALSE]
    /\ UNCHANGED <<loop, hostVars, conns, curCon, writing, reading, pending, pendingEmpty, beacons,
                   outbox, acked, wakeUp, flush, resets>>

connectLoop ==
    \/ \E done \in BOOLEAN : configure(done)
    \/ \E taken \in SUBSET outbox : Connect(taken)
    \/ ConnectFails \/ Wake \/ SetCurrent \/ Clear \/ Nack
Connection == (\E m \in Msgs : Write(m)) \/ WriteBeacon \/ (conns > 0 /\ ReadAck)
Flush == FlushLook \/ FlushCount \/ FlushWait
Ends == WriterEnds \/ ReaderEnds

Next ==
    \/ loop # "lonely" /\ (connectLoop \/ Connection \/ Ends \/ Flush)
    \/ loop # "lonely" /\ (ConEnds \/ Lonely \/ Reset \/ FlushExpires \/ Rekey \/ Stop)

Spec == Init /\ [][Next]_vars

\* The goroutines run, and the waits of a Flush have a deadline.
Run(g) ==
    /\ loop # "lonely"
    /\ CASE g = "loop" -> connectLoop
         [] g = "writer" -> WriterEnds
         [] g = "reader" -> ReaderEnds

FairSpec == Spec /\ \A g \in {"loop", "writer", "reader"} : WF_vars(Run(g))
-----------------------------------------------------------------------------
InFlight == IF loop \in {"signal", "running", "nack"} THEN pending[conns] ELSE {}

\* A message is waiting, in flight on the connection of the loop, or
\* acknowledged, and never two of them: each one taken from the outbox gets
\* exactly one Ack or Nack (comms.MessageInfo), however the connection ends.
OneOutcome ==
    /\ outbox \cup InFlight \cup acked = Msgs
    /\ outbox \cap InFlight = {} /\ outbox \cap acked = {} /\ InFlight \cap acked = {}

\* A Flush that follows a Reset reports success only of a connection made
\* after it: "flushed" never rests on the connection that was torn down.
FlushIsFresh == flush.pc = "ok" => flush.con # flush.old /\ flush.con # 0

\* Communicator.Flush: it blocks until it has "flushed all pending messages":
\* the ones it waits for are acknowledged when it returns without an error.
FlushTruthful == flush.pc = "ok" => flush.owed \subseteq acked

Ending == fin
Ended == loop \in {"done", "lonely"}

================================================================================
