---------------------------- MODULE AgentConnection ----------------------------
(***************************************************************************)
(* The Python end of a daemon service's channel                            *)
(* (fleetspeak_python/fleetspeak/client_connector/connector.py): threads   *)
(* of the agent share a FleetspeakConnection.  A frame is a size, a body   *)
(* and the magic number, one unit each; a read takes the next unit, and a  *)
(* unit other than the one expected is the ProtocolError of a size too     *)
(* large, a body cut wrongly or a wrong magic number.                      *)
(***************************************************************************)
EXTENDS Naturals, Sequences, FiniteSets

CONSTANTS
    Senders, Receivers,  \* threads of the agent
    Incoming,            \* the messages the client sends, in order
    MaxSends,            \* bound: messages each sender sends
    StartupData, Free

VARIABLES
    out,       \* units written to the client
    in,        \* units the client has written and nobody has read
    left,      \* messages the client has yet to send
    wlock, rlock,  \* holders of _write_lock and _read_lock
    at,        \* by thread, where it is
    sent,      \* by sender, messages it has sent
    size,      \* by receiver, the message whose size it has read
    got,       \* messages Recv returned
    errors,    \* ProtocolErrors raised
    overlapped \* whether a Recv began during another one (history)

vars == <<out, in, left, wlock, rlock, at, sent, size, got, errors, overlapped>>

Magic == <<"magic", "">>
Threads == Senders \cup Receivers

\* __init__, before any thread has the connection: the magic number, the startup
\* data, and the client's magic number read.
Init ==
    /\ out = <<Magic, <<"size", StartupData>>, <<"body", StartupData>>, Magic>>
    /\ in = <<>> /\ left = Incoming
    /\ wlock = Free /\ rlock = Free
    /\ at = [t \in Threads |-> "idle"] /\ sent = [t \in Senders |-> 0]
    /\ size = [t \in Receivers |-> Free] /\ got = <<>> /\ errors = 0
    /\ overlapped = FALSE

\* The client's writeLoop writes a frame.
ClientWrites ==
    /\ left # <<>>
    /\ in' = in \o <<<<"size", Head(left)>>, <<"body", Head(left)>>, Magic>>
    /\ left' = Tail(left)
    /\ UNCHANGED <<out, wlock, rlock, at, sent, size, got, errors, overlapped>>

\* Variant: writing without the lock.
LockUnused(t) ==
    /\ t \in Senders /\ at[t] = "idle" /\ sent[t] < MaxSends
    /\ wlock' = t /\ at' = [at EXCEPT ![t] = "size"]
    /\ UNCHANGED <<out, in, left, rlock, sent, size, got, errors, overlapped>>

\* _SendImpl, for messages and heartbeats: with _write_lock.
Lock(t) ==
    /\ t \in Senders /\ at[t] = "idle" /\ sent[t] < MaxSends /\ wlock = Free
    /\ wlock' = t /\ at' = [at EXCEPT ![t] = "size"]
    /\ UNCHANGED <<out, in, left, rlock, sent, size, got, errors, overlapped>>

Write(t) ==
    /\ t \in Senders /\ at[t] \in {"size", "body", "magic"}
    /\ out' = Append(out, IF at[t] = "magic" THEN Magic ELSE <<at[t], <<t, sent[t]>>>>)
    /\ at' = [at EXCEPT ![t] = CASE @ = "size" -> "body" [] @ = "body" -> "magic" [] OTHER -> "idle"]
    /\ sent' = [sent EXCEPT ![t] = IF at[t] = "magic" THEN @ + 1 ELSE @]
    /\ wlock' = IF at[t] = "magic" THEN Free ELSE wlock
    /\ UNCHANGED <<in, left, rlock, size, got, errors, overlapped>>

\* A read takes the next unit; Fails is what the caller does with a wrong one.
Fails(t) ==
    /\ errors' = errors + 1 /\ at' = [at EXCEPT ![t] = "failed"]
    /\ rlock' = IF rlock = t THEN Free ELSE rlock
    /\ UNCHANGED <<size, got>>

\* Recv reads the size before it takes _read_lock.
ReadSize(t) ==
    /\ t \in Receivers /\ at[t] = "idle" /\ in # <<>>
    /\ in' = Tail(in)
    /\ overlapped' = (overlapped \/ \E u \in Receivers : at[u] \in {"lock", "body", "magic"})
    /\ IF Head(in) # Magic /\ Head(in)[1] = "size"
       THEN /\ size' = [size EXCEPT ![t] = Head(in)[2]] /\ at' = [at EXCEPT ![t] = "lock"]
            /\ UNCHANGED <<rlock, got, errors>>
       ELSE Fails(t)
    /\ UNCHANGED <<out, left, wlock, sent>>

ReadLock(t) ==
    /\ t \in Receivers /\ at[t] = "lock" /\ rlock = Free
    /\ rlock' = t /\ at' = [at EXCEPT ![t] = "body"]
    /\ UNCHANGED <<out, in, left, wlock, sent, size, got, errors, overlapped>>

ReadBody(t) ==
    /\ t \in Receivers /\ at[t] = "body" /\ in # <<>>
    /\ in' = Tail(in)
    /\ IF Head(in) = <<"body", size[t]>>
       THEN at' = [at EXCEPT ![t] = "magic"] /\ UNCHANGED <<rlock, size, got, errors>>
       ELSE Fails(t)
    /\ UNCHANGED <<out, left, wlock, sent, overlapped>>

\* Variant: Recv leaves the magic number in the stream.
ReadMagicSkipped(t) ==
    /\ t \in Receivers /\ at[t] = "magic" /\ in # <<>>
    /\ got' = Append(got, size[t]) /\ rlock' = Free /\ at' = [at EXCEPT ![t] = "idle"]
    /\ UNCHANGED <<out, in, left, wlock, sent, size, errors, overlapped>>

\* _ReadMagic, and Recv returns.
ReadMagic(t) ==
    /\ t \in Receivers /\ at[t] = "magic" /\ in # <<>>
    /\ in' = Tail(in)
    /\ IF Head(in) = Magic
       THEN /\ got' = Append(got, size[t]) /\ rlock' = Free /\ at' = [at EXCEPT ![t] = "idle"]
            /\ UNCHANGED <<size, errors>>
       ELSE Fails(t)
    /\ UNCHANGED <<out, left, wlock, sent, overlapped>>

Next ==
    \/ ClientWrites
    \/ \E t \in Threads : \/ Lock(t) \/ Write(t) \/ ReadSize(t) \/ ReadLock(t) \/ ReadBody(t)
                          \/ ReadMagic(t)

Spec == Init /\ [][Next]_vars

-----------------------------------------------------------------------------

TypeOK ==
    /\ wlock \in Senders \cup {Free} /\ rlock \in Receivers \cup {Free}
    /\ \A t \in Threads : at[t] \in {"idle", "size", "lock", "body", "magic", "failed"}
    /\ errors <= Cardinality(Receivers)

\* Whatever threads send at the same time, the client reads whole frames: each size
\* is followed by the body of the same message and the magic number.
FramesWhole ==
    \A i \in DOMAIN out : i % 3 = 2 =>
        /\ out[i] # Magic /\ out[i][1] = "size"
        /\ i + 1 \in DOMAIN out => out[i + 1] = <<"body", out[i][2]>>
        /\ i + 2 \in DOMAIN out => out[i + 2] = Magic

\* "It's safe to call methods of this class in parallel" (connector.py:78) is kept for
\* Recv only as far as this: as long as no Recv was called during another one, none
\* fails, and they return the messages of the client in order.  Two at the same time
\* take each other's units, the size being read before _read_lock is taken.
RecvSafe ==
    overlapped \/ (errors = 0 /\ got = SubSeq(Incoming, 1, Len(got)))
=============================================================================
