---------------------------- MODULE Notifications ----------------------------
(***************************************************************************)
(* How a new message finds a client that is already connected: InsertMessage*)
(* of the admin interface, the Notifier and Listener between servers, the  *)
(* Dispatcher with its registrations, InitializeConnection and notifyLoop  *)
(* of streaming connections, and the cache of clients together with the    *)
(* broadcast manager, which clears it and notifies everybody.              *)
(*                                                                         *)
(* There is one client.  It holds one connection at a time, but a server   *)
(* may still be busy with an earlier one.  Messages and broadcasts are     *)
(* names; reservations, tokens and allocations have modules of their own.  *)
(***************************************************************************)
EXTENDS Integers, FiniteSets

CONSTANTS
    Servers, Conns, AdminMsgs, Bcasts, None,
    maxMessagesPerContact,  \* limit of ClientMessagesForProcessing
    MaxFaults               \* bound: failures of network, datastore and notifier

\* No server and no connection is the empty one, and a client has finitely many
\* messages and broadcasts to get.
ASSUME NotificationsAssumption ==
    /\ None \notin Servers /\ None \notin Conns
    /\ IsFiniteSet(AdminMsgs) /\ IsFiniteSet(Bcasts)
    /\ maxMessagesPerContact \in Nat /\ MaxFaults \in Nat

VARIABLES
    lastTo,   \* clients.last_contact_streaming_to, None when empty
    recent,   \* the last contact was less than ten minutes ago
    store,    \* by message: "none", "new", "reserved", "due" again, or "sent"
    sentB,    \* broadcast_sent
    ins,      \* InsertMessage, by message: "idle", "read", "stored" or "done"
    to,       \* the server it notifies, or None
    cache,    \* by server: the client has a fresh entry in its cache
    infos,    \* by server: broadcasts of its broadcast manager
    reg,      \* by server: the connection registered with its Dispatcher, or None
    taken,    \* by server: processClientNotifications has an id to dispatch
    all,      \* by server: NotifyAll is under way
    cur,      \* the connection the client holds, or None
    conn,     \* by connection: what InitializeConnection and notifyLoop are doing; hid
              \* (history): broadcasts joined the last batch, so that it did not look full
    faults

db == <<lastTo, recent, store, sentB>>
admin == <<ins, to>>
server == <<cache, infos, reg, taken, all>>
vars == <<db, admin, server, cur, conn, faults>>

NoConn == [st |-> "off", srv |-> None, cached |-> FALSE, notice |-> FALSE, open |-> FALSE,
           hid |-> FALSE]

Init ==
    /\ lastTo = None /\ recent = FALSE
    /\ store = [m \in AdminMsgs |-> "none"] /\ sentB = {}
    /\ ins = [m \in AdminMsgs |-> "idle"] /\ to = [m \in AdminMsgs |-> None]
    /\ cache = [s \in Servers |-> FALSE]
    /\ infos = [s \in Servers |-> {}]
    /\ reg = [s \in Servers |-> None]
    /\ taken = [s \in Servers |-> FALSE]
    /\ all = [s \in Servers |-> FALSE]
    /\ cur = None
    /\ conn = [c \in Conns |-> NoConn]
    /\ faults = 0

Fault == faults < MaxFaults /\ faults' = faults + 1
Goto(c, st) == conn' = [conn EXCEPT ![c].st = st]

-----------------------------------------------------------------------------
(* InsertMessage, for a message to the client. *)

\* ListClients: where the client is connected is read before the message is stored.
ListClients(m) ==
    /\ ins[m] = "idle"
    /\ ins' = [ins EXCEPT ![m] = "read"]
    /\ to' = [to EXCEPT ![m] = IF recent THEN lastTo ELSE None]
    /\ UNCHANGED <<db, server, cur, conn, faults>>

StoreMessages(m) ==
    /\ ins[m] = "read"
    /\ ins' = [ins EXCEPT ![m] = "stored"]
    /\ store' = [store EXCEPT ![m] = "new"]
    /\ UNCHANGED <<lastTo, recent, sentB, to, server, cur, conn, faults>>

\* NewMessageForClient: an id for processClientNotifications of the target, which
\* takes one at a time.  A failure is logged.
NewMessageForClient(m) ==
    /\ ins[m] = "stored"
    /\ ins' = [ins EXCEPT ![m] = "done"]
    /\ \/ to[m] = None /\ UNCHANGED <<to, taken, faults>>
       \/ /\ to[m] # None /\ ~taken[to[m]]
          /\ taken' = [taken EXCEPT ![to[m]] = TRUE]
          /\ UNCHANGED <<to, faults>>
       \/ /\ to[m] # None /\ Fault
          /\ to' = [to EXCEPT ![m] = None]
          /\ UNCHANGED taken
    /\ UNCHANGED <<db, cache, infos, reg, all, cur, conn>>

-----------------------------------------------------------------------------
(* The Dispatcher. *)

\* A notification for the registered connection, unless one is pending.
Notice(s) ==
    IF reg[s] = None THEN conn ELSE [conn EXCEPT ![reg[s]].notice = TRUE]

Dispatch(s) ==
    /\ taken[s]
    /\ taken' = [taken EXCEPT ![s] = FALSE]
    /\ conn' = Notice(s)
    /\ UNCHANGED <<db, admin, cache, infos, reg, all, cur, faults>>

\* The broadcast manager's goroutine; it may run out of time.
NotifyAll(s) ==
    /\ all[s]
    /\ all' = [all EXCEPT ![s] = FALSE]
    /\ \/ conn' = Notice(s) /\ UNCHANGED faults
       \/ Fault /\ UNCHANGED conn
    /\ UNCHANGED <<db, admin, cache, infos, reg, taken, cur>>

\* A refresh of the broadcast manager finds a broadcast.
refreshInfo(s, b) ==
    /\ b \notin infos[s]
    /\ infos' = [infos EXCEPT ![s] = @ \cup {b}]
    /\ cache' = [cache EXCEPT ![s] = FALSE]
    /\ all' = [all EXCEPT ![s] = TRUE]
    /\ UNCHANGED <<db, admin, reg, taken, cur, conn, faults>>

\* The entry of the client gets too old, or the system service drops it.
Expire(s) ==
    /\ cache[s]
    /\ cache' = [cache EXCEPT ![s] = FALSE]
    /\ UNCHANGED <<db, admin, infos, reg, taken, all, cur, conn, faults>>

-----------------------------------------------------------------------------
(* InitializeConnection. *)

\* The client dials a server, which looks it up (GetOrRead).  On a miss the entry
\* is put into the cache in a later step.
getClientInfo(c, s) ==
    /\ cur = None /\ conn[c].st = "off"
    /\ cur' = c
    /\ conn' = [conn EXCEPT ![c] =
                  [NoConn EXCEPT !.srv = s, !.cached = cache[s],
                                 !.st = IF cache[s] THEN "known" ELSE "miss"]]
    /\ UNCHANGED <<db, admin, server, faults>>

CacheUpdate(c) ==
    /\ conn[c].st = "miss"
    /\ Goto(c, "known")
    /\ cache' = [cache EXCEPT ![conn[c].srv] = TRUE]
    /\ UNCHANGED <<db, admin, infos, reg, taken, all, cur, faults>>

RecordClientContact(c) ==
    /\ conn[c].st = "known"
    /\ Goto(c, "recorded")
    /\ lastTo' = conn[c].srv /\ recent' = TRUE
    /\ UNCHANGED <<store, sentB, admin, server, cur, faults>>

\* Variant: notifyLoop starts at once, without a search.
RegisterNoSearch(c) ==
    LET s == conn[c].srv IN
    /\ conn[c].st = "recorded"
    /\ reg' = [reg EXCEPT ![s] = c]
    /\ conn' = [d \in Conns |->
                  IF d = c THEN [conn[c] EXCEPT !.st = "wait", !.open = TRUE, !.notice = FALSE]
                  ELSE IF d = reg[s] THEN [conn[d] EXCEPT !.open = FALSE] ELSE conn[d]]
    /\ UNCHANGED <<db, admin, cache, infos, taken, all, cur, faults>>

\* Register: the channel of an earlier registration is closed.
Register(c) ==
    LET s == conn[c].srv IN
    /\ conn[c].st = "recorded"
    /\ reg' = [reg EXCEPT ![s] = c]
    /\ conn' = [d \in Conns |->
                  IF d = c THEN [conn[c] EXCEPT !.st = "first", !.open = TRUE, !.notice = FALSE]
                  ELSE IF d = reg[s] THEN [conn[d] EXCEPT !.open = FALSE] ELSE conn[d]]
    /\ UNCHANGED <<db, admin, cache, infos, taken, all, cur, faults>>

-----------------------------------------------------------------------------
(* findMessagesForClient, from InitializeConnection and from notifyLoop. *)

Pending == {m \in AdminMsgs : store[m] \in {"new", "due"}}

\* Broadcasts are only looked for when the client was not in the cache when the
\* connection began.
NewBroadcasts(c) == IF conn[c].cached THEN {} ELSE infos[conn[c].srv] \ sentB

\* Variant: whether more messages may be there is not looked at.
AfterFindNoMore(n) == "wait"

\* More messages are expected when exactly the limit was found.
AfterFind(n) == IF n = maxMessagesPerContact THEN "find" ELSE "wait"

\* Messages reach the client if it still holds this connection.
Found(c, F) ==
    /\ F \subseteq Pending
    /\ \/ F = Pending /\ Cardinality(F) <= maxMessagesPerContact
       \/ Cardinality(F) = maxMessagesPerContact
    /\ store' = [m \in AdminMsgs |-> IF m \notin F THEN store[m]
                                ELSE IF cur = c THEN "sent" ELSE "reserved"]
    /\ sentB' = sentB \cup NewBroadcasts(c)
    /\ conn' = [conn EXCEPT
                  ![c].st = AfterFind(Cardinality(F) + Cardinality(NewBroadcasts(c))),
                  ![c].hid = Cardinality(F) = maxMessagesPerContact /\ NewBroadcasts(c) # {}]

findMessagesForClient(c) ==
    /\ conn[c].st \in {"first", "find"}
    /\ \E F \in SUBSET AdminMsgs : Found(c, F)
    /\ UNCHANGED <<lastTo, recent, admin, server, cur, faults>>

\* An error: InitializeConnection gives up and calls Fin, notifyLoop tries again
\* after a delay, without waiting for a notice.
FindFails(c) ==
    /\ Fault
    /\ \/ /\ conn[c].st = "first" /\ Goto(c, "closing")
          /\ cur' = IF cur = c THEN None ELSE cur
       \/ conn[c].st = "find" /\ Goto(c, "backoff") /\ UNCHANGED cur
    /\ UNCHANGED <<db, admin, server>>

Backoff(c) ==
    /\ conn[c].st = "backoff"
    /\ Goto(c, "find")
    /\ UNCHANGED <<db, admin, server, cur, faults>>

-----------------------------------------------------------------------------
(* notifyLoop, and the end of a connection. *)

\* A notice, or the end of the registration, which also ends the loop.
Noticed(c) ==
    /\ conn[c].st = "wait"
    /\ \/ conn[c].notice /\ conn' = [conn EXCEPT ![c].st = "settle", ![c].notice = FALSE]
       \/ ~conn[c].notice /\ ~conn[c].open /\ Goto(c, "ended")
    /\ UNCHANGED <<db, admin, server, cur, faults>>

\* Further notices within a second are answered by the same search.
Settle(c) ==
    /\ conn[c].st = "settle"
    /\ \/ conn[c].notice /\ conn' = [conn EXCEPT ![c].notice = FALSE]
       \/ Goto(c, "find")
    /\ UNCHANGED <<db, admin, server, cur, faults>>

\* The context ends: the lifespan of the connection, a read error, or a client
\* that has gone.  The client sees the end and is free to connect again.
LifespanEnds(c) ==
    /\ conn[c].st \in {"wait", "settle", "find", "backoff", "ended"}
    /\ Goto(c, "closing")
    /\ cur' = IF cur = c THEN None ELSE cur
    /\ UNCHANGED <<db, admin, server, faults>>

\* Variant: the registration is removed whoever holds it.
FinAnyones(c) ==
    LET s == conn[c].srv IN
    /\ conn[c].st = "closing"
    /\ reg' = [reg EXCEPT ![s] = None]
    /\ conn' = [d \in Conns |-> IF d = c THEN NoConn
                                ELSE IF d = reg[s] THEN [conn[d] EXCEPT !.open = FALSE]
                                ELSE conn[d]]
    /\ UNCHANGED <<db, admin, cache, infos, taken, all, cur, faults>>

\* Fin removes the connection's own registration.
Fin(c) ==
    LET s == conn[c].srv IN
    /\ conn[c].st = "closing"
    /\ reg' = IF reg[s] = c THEN [reg EXCEPT ![s] = None] ELSE reg
    /\ conn' = [conn EXCEPT ![c] = NoConn]
    /\ UNCHANGED <<db, admin, cache, infos, taken, all, cur, faults>>

\* InitializeConnection fails before it registers.
InitializeFails(c) ==
    /\ conn[c].st \in {"miss", "known", "recorded"} /\ Fault
    /\ conn' = [conn EXCEPT ![c] = NoConn]
    /\ cur' = IF cur = c THEN None ELSE cur
    /\ UNCHANGED <<db, admin, server>>

\* The client gives a connection up while a server still works on it.
ClientGivesUp ==
    /\ cur # None /\ Fault
    /\ cur' = None
    /\ UNCHANGED <<db, admin, server, conn>>

\* Ten minutes after the last contact.
Aged ==
    /\ recent /\ recent' = FALSE
    /\ UNCHANGED <<lastTo, store, sentB, admin, server, cur, conn, faults>>

\* The reservation of a message the client never got runs out.
Due(m) ==
    /\ store[m] = "reserved"
    /\ store' = [store EXCEPT ![m] = "due"]
    /\ UNCHANGED <<lastTo, recent, sentB, admin, server, cur, conn, faults>>

-----------------------------------------------------------------------------

Insert(m) == ListClients(m) \/ StoreMessages(m) \/ NewMessageForClient(m)
Initialize(c) ==
    (\E s \in Servers : getClientInfo(c, s)) \/ CacheUpdate(c) \/ RecordClientContact(c)
    \/ Register(c)
notifyLoop(c) == findMessagesForClient(c) \/ Backoff(c) \/ Noticed(c) \/ Settle(c)

Next ==
    \/ \E m \in AdminMsgs : Insert(m) \/ Due(m)
    \/ \E s \in Servers : Dispatch(s) \/ NotifyAll(s) \/ Expire(s)
    \/ \E s \in Servers, b \in Bcasts : refreshInfo(s, b)
    \/ \E c \in Conns : \/ Initialize(c) \/ notifyLoop(c) \/ LifespanEnds(c) \/ Fin(c)
                        \/ FindFails(c) \/ InitializeFails(c)
    \/ ClientGivesUp \/ Aged

Spec == Init /\ [][Next]_vars

\* RPCs, handlers, loops and timers make progress; the client dials again.
Steps ==
    \/ \E m \in AdminMsgs : StoreMessages(m) \/ NewMessageForClient(m)
    \/ \E s \in Servers : Dispatch(s) \/ NotifyAll(s)

Fairness ==
    /\ WF_vars(Steps)
    /\ \A m \in AdminMsgs : WF_vars(Due(m))
    /\ WF_vars(\E c \in Conns : Initialize(c))
    /\ \A c \in Conns : WF_vars(notifyLoop(c)) /\ WF_vars(LifespanEnds(c)) /\ WF_vars(Fin(c))

FairSpec == Spec /\ Fairness

-----------------------------------------------------------------------------

ConnStates == {"off", "miss", "known", "recorded", "first", "find", "wait", "settle",
               "backoff", "ended", "closing"}
Connection ==
    [st : ConnStates, srv : Servers \cup {None}, cached : BOOLEAN, notice : BOOLEAN,
     open : BOOLEAN, hid : BOOLEAN]

TypeOK ==
    /\ lastTo \in Servers \cup {None} /\ recent \in BOOLEAN
    /\ store \in [AdminMsgs -> {"none", "new", "reserved", "due", "sent"}]
    /\ sentB \subseteq Bcasts
    /\ ins \in [AdminMsgs -> {"idle", "read", "stored", "done"}]
    /\ to \in [AdminMsgs -> Servers \cup {None}]
    /\ cache \in [Servers -> BOOLEAN] /\ infos \in [Servers -> SUBSET Bcasts]
    /\ reg \in [Servers -> Conns \cup {None}]
    /\ taken \in [Servers -> BOOLEAN] /\ all \in [Servers -> BOOLEAN]
    /\ cur \in Conns \cup {None}
    /\ conn \in [Conns -> Connection]
    /\ faults \in 0..MaxFaults

\* notifyLoop of a registered connection waits and nothing is on its way to wake it.
Asleep(c) ==
    LET s == conn[c].srv IN
    /\ conn[c].st = "wait" /\ ~conn[c].notice
    /\ s # None /\ reg[s] = c /\ ~taken[s] /\ ~all[s]

\* A message is not left behind by the race between InsertMessage, which stores
\* and then notifies, and a connection, which registers and then searches: once
\* the server of a connection was told of a message, notifyLoop does not sleep
\* while the message still waits to be handed out for the first time. There is one
\* exception: a batch of maxMessagesPerContact messages that broadcasts have joined
\* looks like the last one (GetMessagesForClient compares for equality).
NoLostWakeup ==
    \A c \in Conns, m \in AdminMsgs :
        Asleep(c) /\ ins[m] = "done" /\ to[m] = conn[c].srv => store[m] # "new" \/ conn[c].hid

\* A connection whose channel of notices is open is the registered one, and the
\* connection the client holds keeps its registration until it ends, whatever the
\* teardown of an earlier one does to the Dispatcher. A connection the client gave
\* up, which takes a fault, may still register late and displace it.
CurrentIsRegistered ==
    \A c \in Conns :
        /\ conn[c].open => reg[conn[c].srv] = c
        /\ faults = 0 /\ cur = c /\ conn[c].st \in {"first", "wait", "settle", "find", "backoff"}
           => reg[conn[c].srv] = c

Unsent(m) == store[m] = "new"
Sent(m) == store[m] = "sent"

\* Every message that was stored reaches the client, over this connection or a
\* later one, after notifications that got lost and connections given up.
EventuallySent == \A m \in AdminMsgs : Unsent(m) ~> Sent(m)
=============================================================================
