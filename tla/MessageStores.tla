---------------------------- MODULE MessageStores ----------------------------
(***************************************************************************)
(* db.MessageStore three times: the rows of messages as the sqlite (module *)
(* MessageStore), the mysql and the spanner datastore keep them, every     *)
(* call one transaction and applied to the three side by side.  Module     *)
(* MysqlMessages and module SpannerMessages take the transactions apart.   *)
(*                                                                         *)
(* The spanner datastore has pending rows for the messages to clients      *)
(* only; a message for the server is announced on a Pub/Sub topic.         *)
(***************************************************************************)
EXTENDS Naturals, FiniteSets

CONSTANTS
    ServerMsgs,   \* ids of the messages addressed to a service of the server
    ClientMsgs,   \* ids of the messages addressed to the client; numbers, for their order
    Service       \* the client's service a message is for

VARIABLES
    lite, my, span,  \* rows, by message
    topic,           \* messages the spanner datastore has published
    late,            \* history: messages with a failure stored after a success
    answers          \* what the last call was about and returned, by datastore

vars == <<lite, my, span, topic, late, answers>>

Lite == INSTANCE MessageStore WITH db <- lite

Msgs == Lite!Msgs
NoRow == Lite!NoRow
UpTo(lim, S, B) == Lite!UpTo(lim, S, B)

Answer(s, v) == [db |-> s, res |-> [ok |-> TRUE, val |-> v]]
Ok(s) == Answer(s, {})
Error(s) == [db |-> s, res |-> [ok |-> FALSE, val |-> {}]]

Stored(s) == {m \in Msgs : s[m].result # "absent"}
PendingIn(s) == {m \in ClientMsgs : s[m].sched # "no"}
DueIn(s) == {m \in ClientMsgs : s[m].sched = "due"}
Settled(s, ms, r) == [m \in Msgs |-> IF m \in ms THEN [result |-> r, sched |-> "no"] ELSE s[m]]
Rescheduled(s, B) == [m \in Msgs |-> IF m \in B THEN [s[m] EXCEPT !.sched = "later"] ELSE s[m]]

\* LIMIT count OFFSET offset over the ids in order.
Page(S, offset, count) ==
    LET Rank(m) == Cardinality({x \in S : x < m}) IN
    {m \in S : Rank(m) >= offset /\ (count = 0 \/ Rank(m) < offset + count)}

\* A batch of at most lim messages, of every service at most its limit.
Batch(S, lim, limits, B) ==
    \E T \in SUBSET S :
        /\ \A v \in DOMAIN limits :
             LET of == {m \in S : Service[m] = v} IN UpTo(limits[v], of, T \cap of)
        /\ UpTo(lim, T, B)

-----------------------------------------------------------------------------
(* sqlite, beyond the statements of MessageStore. *)

LiteStoreMessages(s, job) ==
    Ok([m \in Msgs |-> IF m \in DOMAIN job THEN Lite!StoreRow(s[m], m, job[m]) ELSE s[m]])

LiteSetMessageResult(s, m, r) == Ok([s EXCEPT ![m] = Lite!trySetMessageResult(@, r)])

LiteGetPendingMessageCount(s) == Answer(s, Cardinality(PendingIn(s)))

LiteGetPendingMessages(s, offset, count) ==
    IF offset # 0 /\ count = 0 THEN Error(s) ELSE Answer(s, Page(PendingIn(s), offset, count))

LiteDeletePendingMessages(s) == Ok(Settled(s, PendingIn(s), "failed"))

\* Whether a result was a failure is not among the columns that are read.
LiteGetMessages(s, ids) ==
    IF ids \subseteq Stored(s)
    THEN Answer(s, {<<m, IF s[m].result = "none" THEN "none" ELSE "ok">> : m \in ids})
    ELSE Error(s)

LiteGetMessageResult(s, m) == Answer(s, IF s[m].result = "absent" THEN "none" ELSE s[m].result)

LiteClientMessagesForProcessing(s, lim, limits, B) ==
    IF Batch(DueIn(s), lim, limits, B) THEN Answer(Rescheduled(s, B), B) ELSE Error(s)

-----------------------------------------------------------------------------
(* mysql *)

\* INSERT IGNORE; a new row without a result becomes pending.
MytryStoreMessage(row, m, r) ==
    IF row.result # "absent" THEN row
    ELSE [result |-> r,
          sched |-> IF r # "none" THEN "no" ELSE IF m \in ServerMsgs THEN "later" ELSE "due"]

\* Variant: only a failed result settles the pending row.
MytrySetMessageResultKeeps(row, forServer, m, r) ==
    IF row.result = "absent" THEN row
    ELSE [result |-> r, sched |-> IF r = "failed" THEN "no" ELSE row.sched]

\* The pending row goes if the caller knows where the message was going.
MytrySetMessageResult(row, forServer, m, r) ==
    IF row.result = "absent" THEN row
    ELSE [result |-> r, sched |-> IF forServer = (m \in ServerMsgs) THEN "no" ELSE row.sched]

MyStoreRow(row, m, r) ==
    LET forServer == m \in ServerMsgs IN
    IF r = "ok" THEN MytrySetMessageResult(MytryStoreMessage(row, m, r), forServer, m, r)
    ELSE IF row.result = "absent" THEN MytryStoreMessage(row, m, r)
    ELSE IF row.result = "ok" THEN row
    ELSE IF r # "none" /\ row.result = "none" THEN MytrySetMessageResult(row, forServer, m, r)
    ELSE row

MyStoreMessages(s, job) ==
    Ok([m \in Msgs |-> IF m \in DOMAIN job THEN MyStoreRow(s[m], m, job[m]) ELSE s[m]])

MySetMessageResult(s, m, r) == Ok([s EXCEPT ![m] = MytrySetMessageResult(@, m \in ServerMsgs, m, r)])

MyGetPendingMessageCount(s) == Answer(s, Cardinality(PendingIn(s)))

MyGetPendingMessages(s, offset, count) ==
    IF offset # 0 /\ count = 0 THEN Error(s) ELSE Answer(s, Page(PendingIn(s), offset, count))

MyDeletePendingMessages(s) == Ok(Settled(s, PendingIn(s), "failed"))

MyGetMessages(s, ids) ==
    IF ids \subseteq Stored(s)
    THEN Answer(s, {<<m, IF s[m].result = "none" THEN "none" ELSE "ok">> : m \in ids})
    ELSE Error(s)

MyGetMessageResult(s, m) == Answer(s, IF s[m].result = "absent" THEN "none" ELSE s[m].result)

MyClientMessagesForProcessing(s, lim, limits, B) ==
    IF Batch(DueIn(s), lim, limits, B) THEN Answer(Rescheduled(s, B), B) ELSE Error(s)

-----------------------------------------------------------------------------
(* spanner *)

\* A blind write for a message to the server that has a result.
SpantryStoreMessage(m, r) ==
    [result |-> r, sched |-> IF r = "none" /\ m \in ClientMsgs THEN "due" ELSE "no"]

SpantrySetMessageResult(row, r) == [result |-> r, sched |-> "no"]

\* All of the messages were processed by the server: a blind replacement.
SpanblindStoreProcessedMessages(s, job) ==
    Ok([m \in Msgs |-> IF m \in DOMAIN job THEN [result |-> job[m], sched |-> "no"] ELSE s[m]])

\* What is read of a message; nothing if a result for the server comes along.
SpanFound(row, m, r) == IF r # "none" /\ m \in ServerMsgs THEN NoRow ELSE row

SpanStoreRow(row, m, r) ==
    LET info == SpanFound(row, m, r) IN
    IF (r = "ok" /\ m \in ServerMsgs) \/ info.result = "absent" THEN SpantryStoreMessage(m, r)
    ELSE IF info.result = "ok" THEN row
    ELSE IF r # "none" /\ (info.result = "none" \/ r = "ok") THEN SpantrySetMessageResult(row, r)
    ELSE row

SpantryStoreMessages(s, job) ==
    Ok([m \in Msgs |-> IF m \in DOMAIN job THEN SpanStoreRow(s[m], m, job[m]) ELSE s[m]])

SpanStoreMessages(s, job) ==
    IF \A m \in DOMAIN job : job[m] = "ok" /\ m \in ServerMsgs
    THEN SpanblindStoreProcessedMessages(s, job)
    ELSE SpantryStoreMessages(s, job)

\* The messages that the transaction announces to the servers.
SpanPublished(s, job) ==
    {m \in DOMAIN job \cap ServerMsgs : job[m] = "none" /\ s[m].result = "absent"}

SpanSetMessageResult(s, m, r) ==
    IF m \in Stored(s) THEN Ok([s EXCEPT ![m] = SpantrySetMessageResult(@, r)]) ELSE Error(s)

SpanGetPendingMessageCount(s) == Answer(s, Cardinality(PendingIn(s)))

SpanGetPendingMessages(s, offset, count) ==
    IF offset # 0 /\ count = 0 THEN Error(s) ELSE Answer(s, Page(PendingIn(s), offset, count))

SpanDeletePendingMessages(s) == Ok(Settled(s, PendingIn(s), "failed"))

SpantryGetMessages(s, ids) == Answer(s, {<<m, s[m].result>> : m \in ids \cap Stored(s)})

SpanGetMessageResult(s, m) == IF m \in Stored(s) THEN Answer(s, s[m].result) ELSE Error(s)

\* The ids in order, passing over services at their limit, until lim are found.
SpanSelected(s, lim, limits) ==
    LET due == DueIn(s)
        InLimit(m) == \A v \in DOMAIN limits : v = Service[m] =>
                        Cardinality({x \in due : Service[x] = v /\ x < m}) < limits[v]
    IN  Page({m \in due : InLimit(m)}, 0, lim)

SpanClientMessagesForProcessing(s, lim, limits) ==
    Answer(Rescheduled(s, SpanSelected(s, lim, limits)), SpanSelected(s, lim, limits))

-----------------------------------------------------------------------------
(* The calls. *)

Init == /\ lite = [m \in Msgs |-> NoRow] /\ my = lite /\ span = lite
        /\ topic = {} /\ late = {}
        /\ answers = [d \in {"lite", "my", "span"} |-> [call |-> "none", of |-> {}, ok |-> TRUE, val |-> {}]]

Call(name, ids, l, m, s) ==
    LET Named(res) == [call |-> name, of |-> ids, ok |-> res.ok, val |-> res.val] IN
    /\ lite' = l.db /\ my' = m.db /\ span' = s.db
    /\ answers' = [lite |-> Named(l.res), my |-> Named(m.res), span |-> Named(s.res)]

\* What the server stores: messages for itself with any result, messages for a
\* client without one.  A client that got no acknowledgement sends its message
\* again, and it may fail where it succeeded before.
StoreMessages(job) ==
    /\ \A m \in DOMAIN job : m \in ClientMsgs => job[m] = "none"
    /\ late' = late \cup {m \in DOMAIN job : job[m] = "failed" /\ lite[m].result = "ok"}
    /\ Call("store", {}, LiteStoreMessages(lite, job), MyStoreMessages(my, job), SpanStoreMessages(span, job))
    /\ topic' = topic \cup SpanPublished(span, job)

SetMessageResult(m, r) ==
    /\ Call("set", {m}, LiteSetMessageResult(lite, m, r), MySetMessageResult(my, m, r), SpanSetMessageResult(span, m, r))
    /\ UNCHANGED <<topic, late>>

DeletePendingMessages ==
    /\ Call("delete", {}, LiteDeletePendingMessages(lite), MyDeletePendingMessages(my), SpanDeletePendingMessages(span))
    /\ UNCHANGED <<topic, late>>

ClientMessagesForProcessing(lim, limits) ==
    LET B == SpanSelected(span, lim, limits) IN
    /\ Call("reserve", {}, LiteClientMessagesForProcessing(lite, lim, limits, B),
            MyClientMessagesForProcessing(my, lim, limits, B),
            SpanClientMessagesForProcessing(span, lim, limits))
    /\ UNCHANGED <<topic, late>>

\* An administrator or a client may name any id, of a message that is not there
\* or has failed as well.
GetMessages(ids) ==
    /\ Call("get", ids, LiteGetMessages(lite, ids), MyGetMessages(my, ids), SpantryGetMessages(span, ids))
    /\ UNCHANGED <<topic, late>>

GetMessageResult(m) ==
    /\ Call("result", {m}, LiteGetMessageResult(lite, m), MyGetMessageResult(my, m), SpanGetMessageResult(span, m))
    /\ UNCHANGED <<topic, late>>

GetPendingMessageCount ==
    /\ Call("count", {}, LiteGetPendingMessageCount(lite), MyGetPendingMessageCount(my), SpanGetPendingMessageCount(span))
    /\ UNCHANGED <<topic, late>>

GetPendingMessages(offset, count) ==
    /\ Call("pending", {}, LiteGetPendingMessages(lite, offset, count), MyGetPendingMessages(my, offset, count),
            SpanGetPendingMessages(span, offset, count))
    /\ UNCHANGED <<topic, late>>

\* The clock passes the due time of a message, in all of them.
BecomesDue(m) ==
    LET Due(s) == IF s[m].sched = "later" THEN [s EXCEPT ![m].sched = "due"] ELSE s IN
    /\ lite[m].sched = "later"
    /\ lite' = Due(lite) /\ my' = Due(my) /\ span' = Due(span)
    /\ UNCHANGED <<topic, late, answers>>

Jobs == UNION {[ms -> {"none", "ok", "failed"}] : ms \in SUBSET Msgs \ {{}}}

Next ==
    \/ \E job \in Jobs : Cardinality(DOMAIN job) <= 2 /\ StoreMessages(job)
    \/ \E m \in Msgs : \/ \E r \in {"ok", "failed"} : SetMessageResult(m, r)
                       \/ GetMessageResult(m) \/ BecomesDue(m) \/ GetMessages({m})
    \/ \E lim \in 1..2, n \in 0..1 : ClientMessagesForProcessing(lim, [v \in {Service[m] : m \in ClientMsgs} |-> n + 1])
    \/ DeletePendingMessages \/ GetPendingMessageCount
    \/ \E offset, count \in 0..1 : GetPendingMessages(offset, count)

Spec == Init /\ [][Next]_vars

-----------------------------------------------------------------------------
TypeOK ==
    /\ \A s \in {lite, my, span} : s \in [Msgs -> Lite!Row]
    /\ topic \subseteq ServerMsgs /\ late \subseteq ServerMsgs

\* The last call named an id that has no row.
Missing == ~(answers.my.of \subseteq Stored(my))

\* Messages as a datastore returns them that does not read `failed'.
Blurred(val) == {<<x[1], IF x[2] = "failed" THEN "ok" ELSE x[2]>> : x \in val}

\* sqlite and mysql answer alike, and spanner as they do with three exceptions.
\* For a missing id exactly one side reports an error: GetMessages of sqlite and
\* mysql, SetMessageResult and GetMessageResult of spanner.  GetMessages of sqlite
\* and mysql tells a failure as a success.  And GetMessageResult differs where the
\* rows do.
AnswersAgree ==
    LET a == answers.my
        b == answers.span
    IN  /\ answers.lite = a
        /\ CASE Missing -> a.ok # b.ok
             [] ~Missing /\ a.call = "get" -> a.ok /\ b.ok /\ a.val = Blurred(b.val)
             [] a.call = "result" /\ a.of \subseteq late -> a.ok /\ b.ok
             [] OTHER -> a = b

(* After any history of calls the three datastores hold the same results   *)
(* and the same pending messages for clients, whatever is pending for the  *)
(* server was announced on the topic, and every batch that the spanner     *)
(* datastore hands out is one the others could have chosen.  The one       *)
(* exception: a failure that comes in after a success replaces it in       *)
(* spanner, whose tryStoreMessages does not read what it overwrites, and   *)
(* nowhere else.  Answers agree as AnswersAgree says.                      *)
StoresAgree ==
    /\ lite = my
    /\ \A m \in Msgs : \/ span[m].result = lite[m].result
                       \/ m \in late /\ lite[m].result = "ok" /\ span[m].result = "failed"
    /\ \A m \in ClientMsgs : span[m].sched = lite[m].sched
    /\ \A m \in ServerMsgs : lite[m].sched # "no" => m \in topic
    /\ AnswersAgree
=============================================================================
