----------------------------- MODULE SocketService -----------------------------
(***************************************************************************)
(* An agent process and the client's socket service, joined by one channel *)
(* after another: RelentlessChannel and RelentlessAcknowledger             *)
(* (client/channel/relentless.go), and the channel manager, monitor and    *)
(* feeder of client/socketservice.  The agent's messages pass through the  *)
(* client's RetryLoop to the server, whose acknowledgement travels back    *)
(* through a callback into the channel the message came over.              *)
(*                                                                         *)
(* A channel carries one message at a time in each direction (its Go       *)
(* channels are unbuffered); framing and magic numbers are part of         *)
(* DaemonService.  Channels are numbered: the callbacks of a channel       *)
(* outlive it.                                                             *)
(***************************************************************************)
EXTENDS Integers, Sequences, FiniteSets

CONSTANTS
    Up,          \* messages the agent sends
    Down,        \* messages the server sends to the agent
    None, StartupData,
    InCap,       \* capacity of RelentlessChannel.In
    size,        \* capacity of RelentlessAcknowledger.acks
    OutCap,      \* messages the client's RetryLoops hold
    MaxBreaks,   \* bound: channels that fail
    Concurrent,  \* the agent reads In while it offers a message to Out
    MayStop

VARIABLES
    offer, todo,         \* agent: the message it offers to Out, and what is left
    In, got,             \* agent: the buffer of RelentlessChannel.In, messages read
    pending,             \* agent: RelentlessChannel.pending
    loop,                \* agent: where processingLoop is
    resend,              \* agent: pending messages still to be sent again
    held,                \* agent: a message processingLoop hands to In, or None
    acked,               \* agent: messages whose Ack was called
    chan,                \* client: "none", "open" or "dead"
    gen,                 \* number of the channel
    link, upL, downL,    \* the pipe works, and what is in it
    ack, hold, toAck,    \* client: acknowledgeLoop, the message it passes on, toAck
    acks,                \* client: by channel, RelentlessAcknowledger.acks
    mon,                 \* client: monitorChannel reads, has a message, or is done
    msg, inbox,          \* client: message the feeder holds, messages for the service
    outbox,              \* client: pairs of message and channel the RetryLoops hold
    calling,             \* client: the pair whose Ack the communicator is calling
    stored,              \* server: messages it has
    lost,                \* messages for the agent that died with a pipe (history)
    stop                 \* client: "no", "called" or "done"

agent == <<offer, todo, In, got, pending, loop, resend, held, acked>>
client == <<chan, gen, ack, hold, toAck, acks, mon, msg, inbox, outbox, calling, stop>>
vars == <<agent, client, link, upL, downL, stored, lost>>

InPipe == {downL[n].m : n \in {k \in DOMAIN downL : downL[k].type = "message"}}

Gens == 0..(MaxBreaks + 1)

Init ==
    /\ offer = None /\ todo = Up /\ In = <<>> /\ got = {}
    /\ pending = {} /\ loop = "build" /\ resend = {} /\ held = None /\ acked = {}
    /\ chan = "none" /\ gen = 0 /\ link = FALSE /\ upL = <<>> /\ downL = <<>>
    /\ ack = "off" /\ hold = None /\ toAck = {} /\ acks = [g \in Gens |-> {}]
    /\ mon = "done" /\ msg = None /\ inbox = Down
    /\ outbox = {} /\ calling = None /\ stored = {} /\ lost = {} /\ stop = "no"

-----------------------------------------------------------------------------
(* The agent. *)

\* The agent's own code: it offers messages to Out, and reads In.
Offer(m) ==
    /\ offer = None /\ m \in todo
    /\ offer' = m /\ todo' = todo \ {m}
    /\ UNCHANGED <<In, got, pending, loop, resend, held, acked, client, link, upL, downL, stored, lost>>

Read ==
    /\ In # <<>> /\ (Concurrent \/ offer = None)
    /\ In' = Tail(In) /\ got' = got \cup {Head(In)}
    /\ UNCHANGED <<offer, todo, pending, loop, resend, held, acked, client, link, upL, downL, stored, lost>>

\* Variant: what was pending is not sent again over the new channel.
ConnectForgets ==
    /\ loop = "build" /\ chan = "none" /\ stop = "no" /\ held = None
    /\ gen + 1 \in Gens
    /\ link' = TRUE /\ upL' = <<StartupData>> /\ downL' = <<>>
    /\ loop' = "send" /\ resend' = {}
    /\ chan' = "open" /\ gen' = gen + 1
    /\ ack' = "run" /\ hold' = None /\ toAck' = {} /\ mon' = None
    /\ UNCHANGED <<offer, todo, In, got, pending, held, acked, acks, msg, inbox, outbox, calling,
                   stored, stop, lost>>

\* builder connects, accept returns, and the startup message is on its way.
Connect ==
    /\ loop = "build" /\ chan = "none" /\ stop = "no" /\ held = None
    /\ gen + 1 \in Gens
    /\ link' = TRUE /\ upL' = <<StartupData>> /\ downL' = <<>>
    /\ loop' = "send" /\ resend' = pending
    /\ chan' = "open" /\ gen' = gen + 1
    /\ ack' = "run" /\ hold' = None /\ toAck' = {} /\ mon' = None
    /\ UNCHANGED <<offer, todo, In, got, pending, held, acked, acks, msg, inbox, outbox, calling,
                   stored, stop, lost>>

\* sendOne: a message into the pipe; with the last one, back to receiving.
sendOne ==
    /\ loop = "send" /\ held = None /\ link /\ upL = <<>>
    /\ \/ \E m \in resend : /\ resend' = resend \ {m} /\ upL' = <<m>>
                            /\ loop' = IF resend = {m} THEN "receive" ELSE "send"
       \/ resend = {} /\ loop' = "receive" /\ UNCHANGED <<resend, upL>>
    /\ UNCHANGED <<offer, todo, In, got, pending, held, acked, client, link, downL, stored, lost>>

\* receiveOne takes a message from Out.
receiveOne ==
    /\ loop = "receive" /\ held = None /\ offer # None
    /\ pending' = pending \cup {offer} /\ resend' = {offer} /\ loop' = "send"
    /\ offer' = None
    /\ UNCHANGED <<todo, In, got, held, acked, client, link, upL, downL, stored, lost>>

\* While it sends or receives, processingLoop takes what comes in: processAck
\* settles acknowledged messages, anything else is for the agent.
processAck ==
    /\ loop \in {"send", "receive"} /\ held = None /\ downL # <<>>
    /\ downL' = <<>>
    /\ IF Head(downL).type = "LocalAck"
       THEN /\ acked' = acked \cup (Head(downL).ids \cap pending)
            /\ pending' = pending \ Head(downL).ids
            /\ UNCHANGED held
       ELSE held' = Head(downL).m /\ UNCHANGED <<acked, pending>>
    /\ UNCHANGED <<offer, todo, In, got, loop, resend, client, link, upL, stored, lost>>

\* c.i <- m2: processingLoop does nothing else until there is room.
HandOn ==
    /\ held # None /\ Len(In) < InCap
    /\ In' = Append(In, held) /\ held' = None
    /\ UNCHANGED <<offer, todo, got, pending, loop, resend, acked, client, link, upL, downL, stored, lost>>

\* An error, or the end of the channel: clean up and build a new one.  What the
\* pipe still held for the agent may be overlooked.
NewChan ==
    /\ loop \in {"send", "receive"} /\ held = None /\ ~link
    /\ loop' = "build" /\ resend' = {}
    /\ downL' = <<>> /\ lost' = lost \cup InPipe
    /\ UNCHANGED <<offer, todo, In, got, pending, held, acked, client, link, upL, stored>>

-----------------------------------------------------------------------------
(* RelentlessAcknowledger. *)

Idle == ack = "run" /\ hold = None

PassIn ==
    /\ Idle /\ upL # <<>>
    /\ hold' = Head(upL) /\ upL' = <<>>
    /\ UNCHANGED <<agent, chan, gen, ack, toAck, acks, mon, msg, inbox, outbox, calling, stop,
                   link, downL, stored, lost>>

PassOut ==
    /\ ack = "run" /\ hold # None /\ mon = None
    /\ mon' = hold /\ hold' = None
    /\ UNCHANGED <<agent, chan, gen, ack, toAck, acks, msg, inbox, outbox, calling, stop,
                   link, upL, downL, stored, lost>>

Collect ==
    /\ Idle /\ \E m \in acks[gen] : /\ toAck' = toAck \cup {m}
                                    /\ acks' = [acks EXCEPT ![gen] = @ \ {m}]
    /\ UNCHANGED <<agent, chan, gen, ack, hold, mon, msg, inbox, outbox, calling, stop,
                   link, upL, downL, stored, lost>>

\* The ticker: flush waits until the channel takes the acknowledgement.
Tick ==
    /\ Idle /\ toAck # {}
    /\ ack' = "flush"
    /\ UNCHANGED <<agent, chan, gen, hold, toAck, acks, mon, msg, inbox, outbox, calling, stop,
                   link, upL, downL, stored, lost>>

flush ==
    /\ ack = "flush" /\ link /\ downL = <<>>
    /\ downL' = <<[type |-> "LocalAck", ids |-> toAck]>>
    /\ toAck' = {} /\ ack' = "run"
    /\ UNCHANGED <<agent, chan, gen, hold, acks, mon, msg, inbox, outbox, calling, stop,
                   link, upL, stored, lost>>

-----------------------------------------------------------------------------
(* The socket service, the client's outbox, and the server. *)

\* Variant: the message is acknowledged when it is handed over.
SendAcksEarly ==
    /\ mon \notin {None, "done"}
    /\ IF mon = StartupData THEN UNCHANGED <<outbox, acks>>
       ELSE /\ Cardinality(outbox) < OutCap /\ Cardinality(acks[gen]) < size
            /\ outbox' = outbox \cup {<<mon, gen>>}
            /\ acks' = [acks EXCEPT ![gen] = @ \cup {mon}]
    /\ mon' = None
    /\ UNCHANGED <<agent, chan, gen, ack, hold, toAck, msg, inbox, calling, stop,
                   link, upL, downL, stored, lost>>

\* monitorChannel: the startup message starts resource monitoring, any other is
\* sent on, which waits for room in the outbox.
Send ==
    /\ mon \notin {None, "done"}
    /\ IF mon = StartupData THEN UNCHANGED outbox
       ELSE Cardinality(outbox) < OutCap /\ outbox' = outbox \cup {<<mon, gen>>}
    /\ mon' = None
    /\ UNCHANGED <<agent, chan, gen, ack, hold, toAck, acks, msg, inbox, calling, stop,
                   link, upL, downL, stored, lost>>

\* monitorChannel learns that the channel has failed, or that the acknowledger
\* has stopped: it closes the connection and done.
MonitorEnds ==
    /\ mon = None /\ (~link \/ ack = "off")
    /\ mon' = "done" /\ link' = FALSE
    /\ chan' = IF chan = "open" THEN "dead" ELSE chan
    /\ UNCHANGED <<agent, gen, ack, hold, toAck, acks, msg, inbox, outbox, calling, stop,
                   upL, downL, stored, lost>>

\* feedChannel takes a message of the service, unless it still has one.
FeedTakes(d) ==
    /\ chan = "open" /\ stop = "no" /\ msg = None /\ d \in inbox
    /\ msg' = d /\ inbox' = inbox \ {d}
    /\ UNCHANGED <<agent, chan, gen, ack, hold, toAck, acks, mon, outbox, calling, stop,
                   link, upL, downL, stored, lost>>

FeedSends ==
    /\ chan = "open" /\ msg # None /\ link /\ downL = <<>>
    /\ downL' = <<[type |-> "message", m |-> msg]>> /\ msg' = None
    /\ UNCHANGED <<agent, chan, gen, ack, hold, toAck, acks, mon, inbox, outbox, calling, stop,
                   link, upL, stored, lost>>

\* Variant: the message the channel did not accept is dropped.
FeedEndsDrops ==
    /\ chan = "dead" \/ (chan = "open" /\ stop = "called")
    /\ ack' = "off" /\ hold' = None /\ toAck' = {}
    /\ msg' = None
    /\ link' = FALSE /\ upL' = <<>>
    /\ chan' = IF mon = "done" THEN "none" ELSE "closing"
    /\ UNCHANGED <<agent, gen, acks, mon, inbox, outbox, calling, stop, downL, stored, lost>>

\* The channel is done or the service stops: feedChannel stops the acknowledger,
\* closes the channel and drains it; a message it could not send is kept for the
\* next channel, unless there is none.
FeedEnds ==
    /\ chan = "dead" \/ (chan = "open" /\ stop = "called")
    /\ ack' = "off" /\ hold' = None /\ toAck' = {}
    /\ msg' = IF stop = "called" THEN None ELSE msg
    /\ link' = FALSE /\ upL' = <<>>
    /\ chan' = IF mon = "done" THEN "none" ELSE "closing"
    /\ UNCHANGED <<agent, gen, acks, mon, inbox, outbox, calling, stop, downL, stored, lost>>

\* s.routines also counts the monitor.
MonitorGone ==
    /\ chan = "closing" /\ mon = "done" /\ chan' = "none"
    /\ UNCHANGED <<agent, gen, ack, hold, toAck, acks, mon, msg, inbox, outbox, calling, stop,
                   link, upL, downL, stored, lost>>

\* The server has a message, and the communicator begins to acknowledge it.
Stored(p) ==
    /\ calling = None /\ p \in outbox
    /\ stored' = stored \cup {p[1]} /\ calling' = p
    /\ UNCHANGED <<agent, chan, gen, ack, hold, toAck, acks, mon, msg, inbox, outbox, stop,
                   link, upL, downL, lost>>

\* The callback: a.acks <- id, of the channel the message came over.
Acknowledge ==
    /\ calling # None /\ Cardinality(acks[calling[2]]) < size
    /\ acks' = [acks EXCEPT ![calling[2]] = @ \cup {calling[1]}]
    /\ outbox' = outbox \ {calling} /\ calling' = None
    /\ UNCHANGED <<agent, chan, gen, ack, hold, toAck, mon, msg, inbox, stop,
                   link, upL, downL, stored, lost>>

Stop ==
    /\ MayStop /\ stop = "no" /\ stop' = "called"
    /\ UNCHANGED <<agent, chan, gen, ack, hold, toAck, acks, mon, msg, inbox, outbox, calling,
                   link, upL, downL, stored, lost>>

\* s.routines.Wait.
StopReturns ==
    /\ stop = "called" /\ chan = "none" /\ stop' = "done"
    /\ UNCHANGED <<agent, chan, gen, ack, hold, toAck, acks, mon, msg, inbox, outbox, calling,
                   link, upL, downL, stored, lost>>

\* The pipe breaks with what is in it.
Break ==
    /\ link /\ gen <= MaxBreaks
    /\ link' = FALSE /\ upL' = <<>> /\ downL' = <<>> /\ lost' = lost \cup InPipe
    /\ UNCHANGED <<agent, client, stored>>

-----------------------------------------------------------------------------

AgentLoop == Connect \/ sendOne \/ receiveOne \/ processAck \/ HandOn \/ NewChan
AckLoop == PassIn \/ PassOut \/ Collect \/ Tick \/ flush
Monitor == Send \/ MonitorEnds
Feeder == (\E d \in Down : FeedTakes(d)) \/ FeedSends \/ FeedEnds \/ MonitorGone \/ StopReturns
Communicator == (\E p \in outbox : Stored(p)) \/ Acknowledge

Next ==
    \/ \E m \in Up : Offer(m)
    \/ Read \/ AgentLoop \/ AckLoop \/ Monitor \/ Feeder \/ Communicator \/ Stop \/ Break

Spec == Init /\ [][Next]_vars

\* Every goroutine and the agent make progress.
Fairness ==
    /\ WF_vars(\E m \in Up : Offer(m)) /\ WF_vars(Read)
    /\ WF_vars(AgentLoop) /\ WF_vars(AckLoop)
    /\ WF_vars(Monitor) /\ WF_vars(Feeder) /\ WF_vars(Communicator)

FairSpec == Spec /\ Fairness

-----------------------------------------------------------------------------

TypeOK ==
    /\ todo \subseteq Up /\ pending \subseteq Up /\ resend \subseteq pending
    /\ acked \subseteq Up /\ stored \subseteq Up /\ got \subseteq Down
    /\ Len(In) <= InCap /\ Len(upL) <= 1 /\ Len(downL) <= 1
    /\ loop \in {"build", "send", "receive"}
    /\ chan \in {"none", "open", "dead", "closing"} /\ gen \in Gens
    /\ ack \in {"off", "run", "flush"}
    /\ \A g \in Gens : acks[g] \subseteq Up /\ Cardinality(acks[g]) <= size
    /\ outbox \subseteq Up \X Gens /\ stop \in {"no", "called", "done"}

\* The agent is told that a message was dealt with only when the server has it.
AckedIsStored == acked \subseteq stored

\* A message for the agent that the channel did not accept is kept for the next
\* one (feedChannel): until the service stops, each is waiting, held, with the
\* agent, or went down with a pipe that had accepted it.
DownKept ==
    stop = "no" =>
        Down = inbox \cup got \cup lost \cup InPipe \cup ({msg, held} \ {None})
                \cup {In[n] : n \in DOMAIN In}

\* An agent that does not read while it offers a message, and processingLoop,
\* which does not take it before In has room, wait for each other
\* (relentless.go:142).
SelfBlocked == ~Concurrent /\ offer # None /\ held # None /\ Len(In) = InCap

\* The callback waits for room in acks, which has less of it than the RetryLoops
\* (100 of three times 100): the acknowledgeLoop of that channel has ended, or it
\* waits for the monitor, which waits for the RetryLoops.
AckBlocked ==
    /\ calling # None /\ Cardinality(acks[calling[2]]) = size
    /\ \/ calling[2] # gen \/ ack = "off"
       \/ hold # None /\ mon \in Up /\ Cardinality(outbox) = OutCap

Blocked == SelfBlocked \/ AckBlocked

\* Once so, it stays so.
BlockedKept == (SelfBlocked => SelfBlocked') /\ (AckBlocked => AckBlocked')

Offered(m) == offer = m
Answered(m) == m \in acked \/ stop # "no" \/ Blocked

\* Every message of the agent is acknowledged to it in the end, whatever channels
\* failed in between, unless the service is stopped or one of the two Blocked.
EventuallyAcked == \A m \in Up : Offered(m) ~> Answered(m)

Ending == stop = "called"
Ended == stop = "done"

=============================================================================
