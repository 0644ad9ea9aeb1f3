---------------------------- MODULE MysqlMessages ----------------------------
(***************************************************************************)
(* The mysql message store taken apart into statements, with several       *)
(* servers on one database: the message loops that reserve messages for    *)
(* the server, the connections that reserve messages for the client and    *)
(* the transactions that store results.  Rows read FOR UPDATE are locked   *)
(* until the transaction ends; a plain SELECT reads a snapshot and locks   *)
(* nothing; a transaction that waits for a lock may be rolled back, as the *)
(* victim of a deadlock or because it waited too long, and runInTx then    *)
(* runs it again.                                                          *)
(***************************************************************************)
EXTENDS Integers, Sequences, FiniteSets, FiniteSetsExt, SequencesExt

CONSTANTS
    ServerMsgs,   \* messages for the server
    ClientMsgs,   \* messages for the client
    Loops,        \* message loops, one per server
    Conns,        \* connections of the client
    Storers,      \* transactions that store messages
    Orders,       \* the orders a loop reads ids in: <<from start on, up to start>>
    lim,          \* limit of a batch
    serviceLimit, \* limit of the client's service
    MaxRetries,   \* how often runInTx runs a transaction again
    MaxDue,       \* bound: how often messages become due
    MayStop,      \* whether the loops are stopped
    None

VARIABLES
    db,       \* the committed rows, as in MessageStore
    lock,     \* the transaction that holds a pending row
    pc,       \* progress of a loop
    left,     \* what the queries of a loop have not read yet
    room,     \* how many rows its query still takes
    dbms,     \* the rows the loop has collected
    tries,    \* its transactions that were rolled back
    stopping, \* loops told to stop
    conn,     \* of a connection: its call of ClientMessagesForProcessing, or None
    job,      \* of a storer: the message, its result and the result it has read, or None
    due,      \* how often messages have become due
    notified, \* how often a message was handed out since it became due
    again     \* history: messages a repeated transaction kept, or two connections saw at once

loops == <<pc, left, room, dbms, tries, stopping>>
vars == <<db, lock, loops, conn, job, due, notified, again>>

Msgs == ServerMsgs \cup ClientMsgs
Pending(m) == db[m].sched # "no"
Due(m) == db[m].sched = "due"
Held(x) == {m \in Msgs : lock[m] = x}
Free(ms, x) == \A m \in ms : lock[m] \in {None, x}
Releases(x) == lock' = [m \in Msgs |-> IF lock[m] = x THEN None ELSE lock[m]]
Hands(ms) ==
    notified' = [m \in Msgs |-> notified[m] + Cardinality({i \in DOMAIN ms : ms[i] = m})]

Init ==
    /\ db = [m \in Msgs |-> [result |-> "none", sched |-> "due"]]
    /\ lock = [m \in Msgs |-> None]
    /\ pc = [p \in Loops |-> "idle"]
    /\ left = [p \in Loops |-> <<>>]
    /\ room = [p \in Loops |-> 0]
    /\ dbms = [p \in Loops |-> <<>>]
    /\ tries = [p \in Loops |-> 0]
    /\ stopping = [p \in Loops |-> FALSE]
    /\ conn = [k \in Conns |-> None]
    /\ job = [t \in Storers |-> None]
    /\ due = 0
    /\ notified = [m \in Msgs |-> 0]
    /\ again = {}

-----------------------------------------------------------------------------
(* messageProcessingLoop, processMessages, internalServerMessagesForProcessing *)

\* The transaction begins, at a random place of the key space.
StartScan(p) ==
    /\ \E o \in Orders : left' = [left EXCEPT ![p] = o]
    /\ room' = [room EXCEPT ![p] = lim]
    /\ pc' = [pc EXCEPT ![p] = "scan"]

\* A tick: processMessages begins with an empty batch.
Tick(p) ==
    /\ pc[p] = "idle" /\ ~stopping[p]
    /\ StartScan(p)
    /\ dbms' = [dbms EXCEPT ![p] = <<>>]
    /\ tries' = [tries EXCEPT ![p] = 0]
    /\ UNCHANGED <<db, lock, stopping, conn, job, due, notified, again>>

\* The loop sees that it is to stop only between two calls of processMessages.
StopSeen(p) ==
    /\ pc[p] = "idle" /\ stopping[p]
    /\ pc' = [pc EXCEPT ![p] = "stopped"]
    /\ UNCHANGED <<db, lock, left, room, dbms, tries, stopping, conn, job, due, notified, again>>


\* The running query locks the next row of its range and takes it if it is due.
readPending(p) ==
    LET m == Head(Head(left[p])) IN
    /\ pc[p] = "scan" /\ left[p] # <<>> /\ Head(left[p]) # <<>> /\ room[p] > 0
    /\ Free({m}, p)
    /\ lock' = IF Pending(m) THEN [lock EXCEPT ![m] = p] ELSE lock
    /\ left' = [left EXCEPT ![p] = <<Tail(Head(@))>> \o Tail(@)]
    /\ IF Due(m)
       THEN /\ dbms' = [dbms EXCEPT ![p] = Append(@, m)]
            /\ room' = [room EXCEPT ![p] = @ - 1]
       ELSE UNCHANGED <<dbms, room>>
    /\ UNCHANGED <<db, pc, tries, stopping, conn, job, due, notified, again>>

\* The query ends; the second one runs if the batch is not full.
EndQuery(p) ==
    /\ pc[p] = "scan" /\ left[p] # <<>> /\ (Head(left[p]) = <<>> \/ room[p] = 0)
    /\ left' = [left EXCEPT ![p] = IF Len(dbms[p]) < lim THEN Tail(@) ELSE <<>>]
    /\ room' = [room EXCEPT ![p] = IF Len(dbms[p]) < lim THEN lim - Len(dbms[p]) ELSE 0]
    /\ UNCHANGED <<db, lock, pc, dbms, tries, stopping, conn, job, due, notified, again>>

\* The updates of all the rows collected, and the commit.
CommitServer(p) ==
    LET ms == ToSet(dbms[p]) IN
    /\ pc[p] = "scan" /\ left[p] = <<>>
    /\ Free({m \in ms : Pending(m)}, p)
    /\ db' = [m \in Msgs |-> IF m \in ms /\ Pending(m) THEN [db[m] EXCEPT !.sched = "later"] ELSE db[m]]
    /\ Releases(p)
    /\ Hands(dbms[p])
    /\ pc' = [pc EXCEPT ![p] = "process"]
    /\ UNCHANGED <<left, room, dbms, tries, stopping, conn, job, due, again>>

Waits(p) ==
    /\ pc[p] = "scan"
    /\ IF left[p] = <<>> THEN ~Free({m \in ToSet(dbms[p]) : Pending(m)}, p)
       ELSE Head(left[p]) # <<>> /\ room[p] > 0 /\ ~Free({Head(Head(left[p]))}, p)

\* runInTx runs the closure again; what it has collected stays collected.  Out
\* of retries, processMessages logs the error and starts afresh.
runInTx(p) ==
    /\ Waits(p)
    /\ Releases(p)
    /\ StartScan(p)
    /\ IF tries[p] < MaxRetries
       THEN tries' = [tries EXCEPT ![p] = @ + 1] /\ UNCHANGED dbms
       ELSE tries' = [tries EXCEPT ![p] = 0] /\ dbms' = [dbms EXCEPT ![p] = <<>>]
    /\ again' = again \cup ToSet(dbms'[p])
    /\ UNCHANGED <<db, stopping, conn, job, due, notified>>

\* ProcessMessages stores a result for some of the messages.
\* An empty batch ends processMessages.
processMessages(p, ms) ==
    /\ pc[p] = "process" /\ ms \subseteq ToSet(dbms[p])
    /\ Free(ms, None)
    /\ db' = [m \in Msgs |-> IF m \in ms THEN [result |-> "ok", sched |-> "no"] ELSE db[m]]
    /\ IF dbms[p] = <<>> THEN pc' = [pc EXCEPT ![p] = "idle"] /\ UNCHANGED <<left, room, tries>>
       ELSE StartScan(p) /\ tries' = [tries EXCEPT ![p] = 0]
    /\ dbms' = [dbms EXCEPT ![p] = <<>>]
    /\ UNCHANGED <<lock, stopping, conn, job, due, notified, again>>

\* StopMessageProcessor.
Stop(p) ==
    /\ MayStop /\ ~stopping[p]
    /\ stopping' = [stopping EXCEPT ![p] = TRUE]
    /\ UNCHANGED <<db, lock, pc, left, room, dbms, tries, conn, job, due, notified, again>>

-----------------------------------------------------------------------------
(* internalClientMessagesForProcessing.  A call is what its snapshot has    *)
(* and is yet to lock, what this transaction has locked, and what outlives  *)
(* a rollback: the messages collected (res) and the count of those read.    *)

NewCall == [stage |-> "select", rows |-> {}, locked |-> {}, res |-> <<>>, read |-> 0, tries |-> 0]
CallOf(k) == IF conn[k] = None THEN NewCall ELSE conn[k]

\* The details of the messages that are due, from a snapshot and up to the limit of
\* the service.  If there are none, the call returns what it has.
SelectPending(k, S) ==
    LET c == CallOf(k)
        now == {m \in ClientMsgs : Due(m)} IN
    /\ c.stage = "select"
    /\ S \subseteq now /\ Cardinality(S) = Min({Cardinality(now), serviceLimit - c.read})
    /\ IF S = {} THEN conn' = [conn EXCEPT ![k] = None] /\ Hands(c.res)
       ELSE /\ conn' = [conn EXCEPT ![k] = [c EXCEPT !.stage = "lock", !.rows = S, !.read = @ + Cardinality(S)]]
            /\ UNCHANGED notified
    /\ UNCHANGED <<db, lock, loops, job, due, again>>

Locking(k) == CallOf(k).rows # {} /\ Cardinality(CallOf(k).locked) < lim

\* The next of these rows is locked, if it is still pending, and collected.
LockPending(k, m) ==
    /\ Locking(k) /\ m \in conn[k].rows
    /\ IF Pending(m)
       THEN /\ Free({m}, None) /\ lock' = [lock EXCEPT ![m] = k]
            /\ conn' = [conn EXCEPT ![k].rows = @ \ {m}, ![k].locked = @ \cup {m}, ![k].res = Append(@, m)]
       ELSE conn' = [conn EXCEPT ![k].rows = @ \ {m}] /\ UNCHANGED lock
    /\ UNCHANGED <<db, loops, job, due, notified, again>>

\* The rows locked get a new due time, and the transaction commits.  With none
\* locked, the call returns if it has collected none either, and fails otherwise: the
\* update names no row.
CommitClient(k) ==
    /\ CallOf(k).stage = "lock" /\ ~Locking(k)
    /\ db' = [m \in Msgs |-> IF m \in conn[k].locked THEN [db[m] EXCEPT !.sched = "later"] ELSE db[m]]
    /\ Hands(IF conn[k].locked = {} THEN <<>> ELSE conn[k].res)
    /\ Releases(k)
    /\ conn' = [conn EXCEPT ![k] = None]
    /\ again' = again \cup {m \in conn[k].locked : \E l \in Conns \ {k} : conn[l] # None /\ m \in conn[l].rows}
    /\ UNCHANGED <<loops, job, due>>

\* The row it waits for is not given to it: runInTx runs the closure again, which
\* keeps res and read, or gives up.
RollbackClient(k) ==
    /\ Locking(k) /\ \E m \in conn[k].rows : Pending(m) /\ ~Free({m}, k)
    /\ Releases(k)
    /\ IF conn[k].tries < MaxRetries
       THEN /\ conn' = [conn EXCEPT ![k] = [@ EXCEPT !.stage = "select", !.rows = {}, !.locked = {}, !.tries = @ + 1]]
            /\ again' = again \cup ToSet(conn[k].res)
       ELSE conn' = [conn EXCEPT ![k] = None] /\ UNCHANGED again
    /\ UNCHANGED <<db, loops, job, due, notified>>

-----------------------------------------------------------------------------
(* StoreMessages, one message to a transaction.  A success is written       *)
(* blindly; otherwise what is already there is read first, unlocked.        *)

BeginStore(t, m, r) ==
    /\ job[t] = None
    /\ job' = [job EXCEPT ![t] = [m |-> m, r |-> r, read |-> db[m].result]]
    /\ UNCHANGED <<db, lock, loops, conn, due, notified, again>>

\* trySetMessageResult is called for.
Writes(j) == j.r = "ok" \/ (j.r = "failed" /\ j.read = "none")

CommitStore(t) ==
    /\ job[t] # None
    /\ Writes(job[t]) => Free({job[t].m}, None)
    /\ db' = IF Writes(job[t]) THEN [db EXCEPT ![job[t].m] = [result |-> job[t].r, sched |-> "no"]] ELSE db
    /\ job' = [job EXCEPT ![t] = None]
    /\ UNCHANGED <<lock, loops, conn, due, notified, again>>

-----------------------------------------------------------------------------
\* The clock passes the scheduled_time of a pending message.
BecomesDue(m) ==
    /\ due < MaxDue /\ db[m].sched = "later"
    /\ db' = [db EXCEPT ![m].sched = "due"]
    /\ notified' = [notified EXCEPT ![m] = 0]
    /\ due' = due + 1
    /\ UNCHANGED <<lock, loops, conn, job, again>>

Next ==
    \/ \E p \in Loops :
         \/ Tick(p) \/ StopSeen(p) \/ readPending(p) \/ EndQuery(p) \/ CommitServer(p) \/ runInTx(p)
         \/ \E ms \in SUBSET ServerMsgs : processMessages(p, ms)
         \/ Stop(p)
    \/ \E k \in Conns : \/ \E S \in SUBSET ClientMsgs : SelectPending(k, S)
                        \/ \E m \in ClientMsgs : LockPending(k, m)
                        \/ CommitClient(k) \/ RollbackClient(k)
    \/ \E t \in Storers : \/ \E m \in Msgs, r \in {"none", "ok", "failed"} : BeginStore(t, m, r)
                          \/ CommitStore(t)
    \/ \E m \in Msgs : BecomesDue(m)

Spec == Init /\ [][Next]_vars

-----------------------------------------------------------------------------
TypeOK ==
    /\ db \in [Msgs -> [result : {"none", "ok", "failed"}, sched : {"no", "later", "due"}]]
    /\ lock \in [Msgs -> Loops \cup Conns \cup {None}]
    /\ pc \in [Loops -> {"idle", "scan", "process", "stopped"}]
    /\ \A p \in Loops : ToSet(dbms[p]) \subseteq ServerMsgs /\ room[p] \in 0..lim
    /\ stopping \in [Loops -> BOOLEAN]
    /\ \A k \in Conns : conn[k] # None => Held(k) = conn[k].locked /\ conn[k].read <= serviceLimit
    /\ due \in 0..MaxDue /\ again \subseteq Msgs /\ notified \in [Msgs -> Nat]

=============================================================================
