---------------------------- MODULE MessageStore ----------------------------
(***************************************************************************)
(* The two tables behind db.MessageStore, as the sqlite datastore keeps    *)
(* them, one transaction at a time: `messages' holds one row per message   *)
(* with its result, `pending_messages' one row per message that still has  *)
(* to be processed, with the time it is due again.                         *)
(*                                                                         *)
(* The operators map a message's row in both tables to its row after the   *)
(* statement, so that the modules of the server apply them to every        *)
(* message of a transaction at once.  Times are abstracted to whether the  *)
(* due time has passed, payloads to their presence (a payload lives in the *)
(* pending row), and retry_count, which only stretches the due time, to    *)
(* the arbitrary moment at which a row becomes due.                        *)
(***************************************************************************)
EXTENDS Integers, FiniteSets

CONSTANTS
    ServerMsgs,   \* ids of the messages addressed to a service of the server
    ClientMsgs    \* ids of the messages addressed to a client

ASSUME MsgsAssumption == ServerMsgs \cap ClientMsgs = {}

VARIABLE
    db            \* the rows of `messages' and `pending_messages', by id

Msgs == ServerMsgs \cup ClientMsgs

\* A result as a caller presents it: none yet, success or failure.
Outcome == {"none", "ok", "failed"}

\* `result' is the row of `messages' (absent: no such row), `sched' that of
\* `pending_messages' (no: no such row; due: its scheduled_time has passed).
Row == [result : Outcome \cup {"absent"}, sched : {"no", "later", "due"}]

NoRow == [result |-> "absent", sched |-> "no"]

\* Variant: a stored message is not scheduled for processing.
tryStoreMessageUnscheduled(row, m, r, isBroadcast) ==
    IF row.result # "absent" THEN row ELSE [result |-> r, sched |-> "no"]

\* Insert-or-ignore.  A new row without a result becomes pending: at once for
\* a client, after the retry time for the server or for a broadcast that is
\* about to be handed over.
tryStoreMessage(row, m, r, isBroadcast) ==
    IF row.result # "absent" THEN row
    ELSE [result |-> r,
          sched  |-> IF r # "none" THEN "no"
                     ELSE IF m \in ServerMsgs \/ isBroadcast THEN "later"
                     ELSE "due"]

\* Variant: the pending row of a settled message stays.
trySetMessageResultStaysPending(row, r) ==
    IF row.result = "absent" THEN row ELSE [row EXCEPT !.result = r]

\* An UPDATE of the message, if there is one, and a DELETE of its pending row.
trySetMessageResult(row, r) ==
    IF row.result = "absent" THEN row ELSE [result |-> r, sched |-> "no"]

\* Variant: a message that is there already gets whatever is presented.
StoreRowLastWins(row, m, r) ==
    IF row.result = "absent" THEN tryStoreMessage(row, m, r, FALSE)
    ELSE trySetMessageResult(row, r)

\* What StoreMessages does to the row of one message of its transaction.
StoreRow(row, m, r) ==
    IF r = "ok" THEN trySetMessageResult(tryStoreMessage(row, m, r, FALSE), r)
    ELSE IF row.result = "absent" THEN tryStoreMessage(row, m, r, FALSE)
    ELSE IF row.result = "none" /\ r = "failed" THEN trySetMessageResult(row, r)
    ELSE row

\* The transaction of StoreMessages over the messages in the domain of job,
\* job giving the result each of them carries.
StoreMessages(job) ==
    db' = [m \in Msgs |-> IF m \in DOMAIN job THEN StoreRow(db[m], m, job[m])
                          ELSE db[m]]

\* The transaction of SetMessageResult.
SetMessageResult(m, r) == db' = [db EXCEPT ![m] = trySetMessageResult(@, r)]

\* B is what a loop over S takes that stops after lim elements: all of S unless
\* there are more.
UpTo(lim, S, B) ==
    /\ B \subseteq S
    /\ Cardinality(B) <= lim
    /\ Cardinality(B) = lim \/ B = S

\* The rows internalMessagesForProcessing can select for one destination, and
\* the update that gives the ones it takes a new due time.
DueIn(dest) == {m \in dest : db[m].sched = "due"}

Reschedule(B) ==
    db' = [m \in Msgs |-> IF m \in B THEN [db[m] EXCEPT !.sched = "later"] ELSE db[m]]

\* The clock passes the scheduled_time of one pending message.
BecomesDue(m) ==
    /\ db[m].sched = "later"
    /\ db' = [db EXCEPT ![m].sched = "due"]

\* A message is eligible for processing iff it does not yet have a result: the
\* contract of StoreMessages (store.go:131).  A pending row for a message with
\* a result would be handed out again and a message without one and without a
\* pending row would be lost.
PendingIffUnprocessed == \A m \in Msgs : db[m].sched # "no" <=> db[m].result = "none"
=============================================================================
