--------------------------- MODULE SpannerMessages ---------------------------
(***************************************************************************)
(* The spanner message store between its transactions.  Messages for the   *)
(* server are announced on a Pub/Sub topic inside the transaction that     *)
(* stores them, which Spanner may run several times; a subscriber on every *)
(* server processes what is announced.  Messages for the client are        *)
(* reserved in three separate steps: two reads and a blind update.         *)
(***************************************************************************)
EXTENDS Integers, FiniteSets, FiniteSetTheorems, TLAPS

CONSTANTS
    ServerMsgs, ClientMsgs,   \* numbers: rows are read in the order of their keys
    Handlers,      \* calls of the subscriber's callback
    Conns,         \* connections of the client
    MaxPublished,  \* bound: how often a message is announced
    MaxDue,        \* bound: how often messages of the client become due
    MaxCrashes     \* bound: how often the server crashes, or is started again

VARIABLES
    result,    \* of a row of Messages; "absent" without a row
    storing,   \* messages of transactions that have announced them
    topic,     \* announcements that wait for delivery
    published, \* how often a message was announced
    arrived,   \* history: messages with an announcement that reached the topic
    handler,   \* of a callback: what it does, with which message
    stopped,   \* StopMessageProcessor has stopped the topic and the subscriber
    sched,     \* ClientPendingMessages: "no", "later", "due"
    conn,      \* of a connection: its step, the rows selected and to be updated
    handed,    \* how often a message was handed out since it became due
    dues, crashes

server == <<result, storing, topic, published, arrived, handler, stopped, crashes>>
client == <<sched, conn, handed, dues>>
vars == <<server, client>>

Free == [pc |-> "free", m |-> 0]
Idle == [pc |-> "idle", sel |-> {}, mus |-> {}, msgs |-> {}]
Handling(m) == {h \in Handlers : handler[h].m = m}

Init ==
    /\ result = [m \in ServerMsgs |-> "absent"]
    /\ storing = {} /\ topic = [m \in ServerMsgs |-> 0] /\ published = [m \in ServerMsgs |-> 0]
    /\ arrived = {} /\ handler = [h \in Handlers |-> Free] /\ stopped = FALSE /\ crashes = 0
    /\ sched = [m \in ClientMsgs |-> "due"]
    /\ conn = [k \in Conns |-> Idle]
    /\ handed = [m \in ClientMsgs |-> 0] /\ dues = 0

-----------------------------------------------------------------------------
(* StoreMessages of a message without a result, for the server *)

\* tryStoreMessage: the write is buffered, the announcement is not.  Nobody
\* looks at the outcome of Publish, which may fail, and does so for certain once
\* the topic is stopped; the communicators store messages until they stop, later.
Publish(m) ==
    /\ published[m] < MaxPublished
    /\ published' = [published EXCEPT ![m] = @ + 1]
    /\ \/ ~stopped /\ topic' = [topic EXCEPT ![m] = @ + 1] /\ arrived' = arrived \cup {m}
       \/ UNCHANGED <<topic, arrived>>

tryStoreMessages(m) ==
    /\ result[m] = "absent" /\ m \notin storing
    /\ Publish(m)
    /\ storing' = storing \cup {m}
    /\ UNCHANGED <<result, handler, stopped, crashes, client>>

\* Spanner aborts the transaction and runs it again.
Aborted(m) ==
    /\ m \in storing
    /\ Publish(m)
    /\ UNCHANGED <<result, storing, handler, stopped, crashes, client>>

CommitStore(m) ==
    /\ m \in storing
    /\ result' = [result EXCEPT ![m] = "none"] /\ storing' = storing \ {m}
    /\ UNCHANGED <<topic, published, arrived, handler, stopped, crashes, client>>

\* The client gets an error, and sends the message again.
StoreFails(m) ==
    /\ m \in storing
    /\ storing' = storing \ {m}
    /\ UNCHANGED <<result, topic, published, arrived, handler, stopped, crashes, client>>

-----------------------------------------------------------------------------
(* RegisterMessageProcessor *)

\* Pub/Sub delivers to a subscriber that runs; it redelivers what was nacked.
Deliver(h, m) ==
    /\ handler[h].pc = "free" /\ topic[m] > 0 /\ ~stopped
    /\ topic' = [topic EXCEPT ![m] = @ - 1]
    /\ handler' = [handler EXCEPT ![h] = [pc |-> "read", m |-> m]]
    /\ UNCHANGED <<result, storing, published, arrived, stopped, crashes, client>>

Ack(h) ==
    /\ handler' = [handler EXCEPT ![h] = Free]
    /\ UNCHANGED topic

Nack(h) ==
    /\ handler' = [handler EXCEPT ![h] = Free]
    /\ topic' = [topic EXCEPT ![handler[h].m] = @ + 1]

\* Variant: acknowledges an announcement that has no message.
ReceiveAcksAbsent(h) ==
    /\ handler[h].pc = "read"
    /\ IF stopped \/ result[handler[h].m] = "absent" THEN Ack(h)
       ELSE handler' = [handler EXCEPT ![h].pc = "process"] /\ UNCHANGED topic
    /\ UNCHANGED <<result, storing, published, arrived, stopped, crashes, client>>

\* tryGetMessages fails once the context is cancelled; the message need not be
\* committed yet.
Receive(h) ==
    /\ handler[h].pc = "read"
    /\ IF stopped \/ result[handler[h].m] = "absent" THEN Nack(h)
       ELSE handler' = [handler EXCEPT ![h].pc = "process"] /\ UNCHANGED topic
    /\ UNCHANGED <<result, storing, published, arrived, stopped, crashes, client>>

\* The processor saves a result, or none after a transient error.
ProcessMessages(h, r) ==
    /\ handler[h].pc = "process"
    /\ result' = IF r = "none" THEN result ELSE [result EXCEPT ![handler[h].m] = r]
    /\ handler' = [handler EXCEPT ![h].pc = "check"]
    /\ UNCHANGED <<storing, topic, published, arrived, stopped, crashes, client>>

\* Variant: acknowledges what was processed, whatever came of it.
CheckResultAcks(h) ==
    /\ handler[h].pc = "check"
    /\ Ack(h)
    /\ UNCHANGED <<result, storing, published, arrived, stopped, crashes, client>>

CheckResult(h) ==
    /\ handler[h].pc = "check"
    /\ IF ~stopped /\ result[handler[h].m] # "none" THEN Ack(h) ELSE Nack(h)
    /\ UNCHANGED <<result, storing, published, arrived, stopped, crashes, client>>

\* StopMessageProcessor stops the topic, cancels the context of the subscriber and
\* returns, while transactions and callbacks go on.
StopMessageProcessor ==
    /\ ~stopped
    /\ stopped' = TRUE
    /\ UNCHANGED <<result, storing, topic, published, arrived, handler, crashes, client>>

\* The server ends, by a crash or after a stop, and is started again: Pub/Sub
\* redelivers what was neither acked nor nacked.
Crash ==
    /\ crashes < MaxCrashes
    /\ crashes' = crashes + 1 /\ storing' = {} /\ stopped' = FALSE
    /\ topic' = [m \in ServerMsgs |-> topic[m] + Cardinality(Handling(m))]
    /\ handler' = [h \in Handlers |-> Free]
    /\ UNCHANGED <<result, published, arrived, client>>

-----------------------------------------------------------------------------
(* ClientMessagesForProcessing *)

\* The rows that are due, as far as the limits of their services allow.
Select(k) ==
    /\ conn[k].pc = "idle"
    /\ \E sel \in SUBSET {m \in ClientMsgs : sched[m] = "due"} :
         conn' = [conn EXCEPT ![k] = [Idle EXCEPT !.pc = "selected", !.sel = sel]]
    /\ UNCHANGED <<server, sched, handed, dues>>

\* Reads the rows again.  One that has changed ends it with no message at all,
\* but with the updates of the rows before it.
tryClientMessagesForProcessing(k) ==
    LET rows == {m \in conn[k].sel : sched[m] # "no"}
        changed == {m \in rows : sched[m] = "later"}
        before == {m \in rows : \A c \in changed : m < c}
    IN
    /\ conn[k].pc = "selected"
    /\ conn' = [conn EXCEPT ![k] = [@ EXCEPT !.pc = "update", !.mus = before,
                                             !.msgs = IF changed = {} THEN rows ELSE {}]]
    /\ UNCHANGED <<server, sched, handed, dues>>

\* The blind update fails if a row is gone, and the messages are dropped.
Update(k) ==
    LET ok == \A m \in conn[k].mus : sched[m] # "no" IN
    /\ conn[k].pc = "update"
    /\ sched' = IF ok THEN [m \in ClientMsgs |-> IF m \in conn[k].mus THEN "later" ELSE sched[m]] ELSE sched
    /\ handed' = IF ok THEN [m \in ClientMsgs |-> IF m \in conn[k].msgs THEN handed[m] + 1 ELSE handed[m]]
                 ELSE handed
    /\ conn' = [conn EXCEPT ![k] = Idle]
    /\ UNCHANGED <<server, dues>>

\* An acknowledgement of the client, or DeletePendingMessages.
Settle(m) ==
    /\ sched[m] # "no"
    /\ sched' = [sched EXCEPT ![m] = "no"]
    /\ UNCHANGED <<server, conn, handed, dues>>

\* ClientRetryTime is long, compared with a call of ClientMessagesForProcessing.
BecomesDue(m) ==
    /\ sched[m] = "later" /\ dues < MaxDue /\ \A k \in Conns : conn[k].pc = "idle"
    /\ sched' = [sched EXCEPT ![m] = "due"] /\ handed' = [handed EXCEPT ![m] = 0]
    /\ dues' = dues + 1
    /\ UNCHANGED <<server, conn>>

-----------------------------------------------------------------------------
Subscriber ==
    \/ \E h \in Handlers, m \in ServerMsgs : Deliver(h, m)
    \/ \E h \in Handlers : Receive(h) \/ CheckResult(h) \/ \E r \in {"none", "ok", "failed"} : ProcessMessages(h, r)

Next ==
    \/ \E m \in ServerMsgs : tryStoreMessages(m) \/ Aborted(m) \/ CommitStore(m) \/ StoreFails(m)
    \/ Subscriber \/ StopMessageProcessor \/ Crash
    \/ \E k \in Conns : Select(k) \/ tryClientMessagesForProcessing(k) \/ Update(k)
    \/ \E m \in ClientMsgs : Settle(m) \/ BecomesDue(m)

\* Transactions end, Pub/Sub keeps delivering, and errors that are transient pass.
Delivered == \E h \in Handlers, m \in ServerMsgs : result[m] = "none" /\ Deliver(h, m)

Fairness ==
    /\ WF_vars(\E m \in ServerMsgs : CommitStore(m))
    /\ WF_vars(\E h \in Handlers : Receive(h) \/ CheckResult(h))
    /\ SF_vars(Delivered)
    /\ WF_vars(\E h \in Handlers, r \in {"none", "ok", "failed"} : ProcessMessages(h, r))
    /\ SF_vars(\E h \in Handlers, r \in {"ok", "failed"} : ProcessMessages(h, r))

Spec == Init /\ [][Next]_vars /\ Fairness

-----------------------------------------------------------------------------
TypeOK ==
    /\ result \in [ServerMsgs -> {"absent", "none", "ok", "failed"}]
    /\ storing \subseteq ServerMsgs /\ arrived \subseteq ServerMsgs
    /\ topic \in [ServerMsgs -> 0..MaxPublished] /\ published \in [ServerMsgs -> 0..MaxPublished]
    /\ handler \in [Handlers -> [pc : {"free", "read", "process", "check"}, m : {0} \cup ServerMsgs]]
    /\ sched \in [ClientMsgs -> {"no", "later", "due"}] /\ handed \in [ClientMsgs -> Nat]
    /\ \A k \in Conns : conn[k].pc \in {"idle", "selected", "update"}

\* Every Publish of the message failed: nothing makes a server look at its row.
Unannounced(m) == m \notin arrived

(* A message that is stored without a result has an announcement on its way,  *)
(* through aborted transactions, early deliveries, transient errors, crashes  *)
(* and stops: nothing else would make a server look at it.  The exception is a *)
(* message of which no announcement ever reached the topic: tryStoreMessage    *)
(* ignores that Publish fails, as it always does after StopMessageProcessor,   *)
(* and such a message stays unprocessed for good.                              *)
NeverForgotten ==
    \A m \in ServerMsgs : result[m] = "none" => Unannounced(m) \/ topic[m] > 0 \/ Handling(m) # {}

(* Each time a message becomes due, a connection hands it out at most once.   *)
(* The rows are read and updated in separate transactions, so that two         *)
(* connections may both do so, which store.go:120-122 excludes.                *)
HandedOncePerConnection == \A m \in ClientMsgs : handed[m] <= Cardinality(Conns)

Unprocessed(m) == result[m] = "none"
ProcessedOrStopped(m) == result[m] # "none" \/ stopped \/ Unannounced(m)

(* A message that is stored, and one of whose announcements reached the topic, *)
(* is processed, as long as the server runs.                                   *)
EventuallyProcessed == \A m \in ServerMsgs : Unprocessed(m) ~> ProcessedOrStopped(m)

-----------------------------------------------------------------------------
(* Proofs, for any messages, callbacks and connections, of the two safety      *)
(* properties.                                                                 *)

\* The callbacks and the connections are finitely many, and 0 names no message.
Finitely == IsFiniteSet(Handlers) /\ IsFiniteSet(Conns) /\ 0 \notin ServerMsgs

Results == {"absent", "none", "ok", "failed"}
Callback == [pc : {"free", "read", "process", "check"}, m : {0} \cup ServerMsgs]
Connection == [pc : {"idle", "selected", "update"}, sel : SUBSET ClientMsgs,
               mus : SUBSET ClientMsgs, msgs : SUBSET ClientMsgs]

\* What a callback must not acknowledge: it has no result, or is not stored yet.
Unsettled == {"absent", "none"}

(* What the callbacks and the topic do: a callback has a message from its      *)
(* delivery on, has seen the row once it processes, and a message without a    *)
(* result, stored or not, keeps an announcement that has reached the topic     *)
(* there or in the hands of a callback.  It must do so before it is stored:    *)
(* the announcement of a transaction that failed may be the only one that      *)
(* arrived.                                                                    *)
Announced ==
    /\ result \in [ServerMsgs -> Results] /\ storing \subseteq ServerMsgs
    /\ topic \in [ServerMsgs -> Nat] /\ handler \in [Handlers -> Callback]
    /\ \A h \in Handlers : /\ handler[h].pc = "free" <=> handler[h].m = 0
                           /\ handler[h].pc \in {"process", "check"} => result[handler[h].m] # "absent"
    /\ \A m \in storing : result[m] = "absent"
    /\ \A m \in ServerMsgs : m \in arrived /\ result[m] \in Unsettled => topic[m] > 0 \/ Handling(m) # {}

\* The connections that may still hand out a message.
Carries(w, m) == \/ w.pc = "selected" /\ m \in w.sel
                 \/ w.pc = "update" /\ m \in w.msgs
Carrying(m) == {k \in Conns : Carries(conn[k], m)}

(* A message that is due has not been handed out, and the connections that     *)
(* have handed it out and those that still may are different ones.             *)
Reserved ==
    /\ sched \in [ClientMsgs -> {"no", "later", "due"}] /\ handed \in [ClientMsgs -> Nat]
    /\ conn \in [Conns -> Connection]
    /\ \A k \in Conns : conn[k].pc = "update" => conn[k].msgs \subseteq conn[k].mus
    /\ \A m \in ClientMsgs : /\ sched[m] = "due" => handed[m] = 0
                             /\ handed[m] + Cardinality(Carrying(m)) <= Cardinality(Conns)

\* A callback goes on to w: a message that was in its hands, and that still needs to
\* be, is announced again or stays in them.
LEMMA CallbackStep ==
    ASSUME Announced, Finitely, NEW h \in Handlers, NEW w \in Callback,
           handler' = [handler EXCEPT ![h] = w], storing' = storing, arrived' = arrived,
           w.pc = "free" <=> w.m = 0,
           w.pc \in {"process", "check"} => result'[w.m] # "absent",
           result' \in [ServerMsgs -> Results], topic' \in [ServerMsgs -> Nat],
           \A m \in ServerMsgs : /\ result'[m] = "absent" <=> result[m] = "absent"
                                 /\ result'[m] = "none" => result[m] = "none",
           \A m \in ServerMsgs : m \in arrived /\ result'[m] \in Unsettled =>
               topic'[m] > 0 \/ w.m = m \/ (topic[m] = topic'[m] /\ handler[h].m # m)
    PROVE  Announced'
<1>1. /\ handler' \in [Handlers -> Callback] /\ handler'[h] = w
      /\ \A g \in Handlers : g # h => handler'[g] = handler[g]
  BY Zenon DEF Announced
<1>2. \A g \in Handlers : /\ handler'[g].pc = "free" <=> handler'[g].m = 0
                          /\ handler'[g].pc \in {"process", "check"} => result'[handler'[g].m] # "absent"
  <2>1. \A g \in Handlers : handler[g].pc \in {"process", "check"} => handler[g].m \in ServerMsgs
    BY DEF Announced, Callback
  <2> QED
    BY <1>1, <2>1, Zenon DEF Announced
<1>3. ASSUME NEW m \in ServerMsgs, m \in arrived, result'[m] \in Unsettled
      PROVE  topic'[m] > 0 \/ Handling(m)' # {}
  <2>1. topic[m] > 0 \/ \E g \in Handlers : handler[g].m = m
    BY <1>3, Zenon DEF Announced, Handling, Unsettled
  <2>2. CASE w.m = m
    BY <1>1, <2>2, Zenon DEF Handling
  <2>3. CASE topic[m] = topic'[m] /\ handler[h].m # m
    BY <1>1, <2>1, <2>3, Zenon DEF Handling
  <2> QED
    BY <1>3, <2>2, <2>3, Zenon
<1> QED
  BY <1>1, <1>2, <1>3, Zenon DEF Announced

\* The transactions that store messages.
LEMMA StoreStep ==
    ASSUME Announced, NEW m \in ServerMsgs,
           tryStoreMessages(m) \/ Aborted(m) \/ CommitStore(m) \/ StoreFails(m)
    PROVE  Announced'
<1>1. handler' = handler /\ \A n \in ServerMsgs : Handling(n)' = Handling(n)
  BY Zenon DEF tryStoreMessages, Aborted, CommitStore, StoreFails, Handling
<1>2. CASE tryStoreMessages(m) \/ Aborted(m)
  <2>1. /\ result' = result /\ storing' = storing \cup {m} /\ result[m] = "absent"
        /\ \/ topic' = [topic EXCEPT ![m] = @ + 1] /\ arrived' = arrived \cup {m}
           \/ topic' = topic /\ arrived' = arrived
    BY <1>2 DEF tryStoreMessages, Aborted, Publish, Announced
  <2>2. CASE topic' = topic /\ arrived' = arrived
    BY <1>1, <2>1, <2>2, Zenon DEF Announced
  <2>3. CASE topic' = [topic EXCEPT ![m] = @ + 1] /\ arrived' = arrived \cup {m}
    <3>1. /\ topic' \in [ServerMsgs -> Nat] /\ topic'[m] > 0
          /\ \A n \in ServerMsgs : n # m => topic'[n] = topic[n]
      BY <2>3 DEF Announced
    <3> QED
      BY <1>1, <2>1, <2>3, <3>1, Zenon DEF Announced
  <2> QED
    BY <2>1, <2>2, <2>3, Zenon
<1>3. CASE CommitStore(m)
  <2>1. /\ result' = [result EXCEPT ![m] = "none"] /\ storing' = storing \ {m} /\ m \in storing
        /\ topic' = topic /\ arrived' = arrived /\ result[m] = "absent"
    BY <1>3, Zenon DEF CommitStore, Announced
  <2>2. result' \in [ServerMsgs -> Results]
    BY <2>1 DEF Announced, Results
  <2>3. \A n \in ServerMsgs : result'[n] = IF n = m THEN "none" ELSE result[n]
    BY <2>1 DEF Announced
  <2>4. \A h \in Handlers : handler[h].pc \in {"process", "check"} => result'[handler[h].m] # "absent"
    BY <2>3 DEF Announced, Callback
  <2> QED
    BY <1>1, <2>1, <2>2, <2>3, <2>4, Zenon DEF Announced, Unsettled
<1>4. CASE StoreFails(m)
  BY <1>1, <1>4 DEF StoreFails, Announced
<1> QED
  BY <1>2, <1>3, <1>4

\* What the callbacks of the subscriber do.
LEMMA SubscriberStep ==
    ASSUME Announced, Finitely, Subscriber
    PROVE  Announced'
<1>1. ASSUME NEW h \in Handlers, NEW m \in ServerMsgs, Deliver(h, m)
      PROVE  Announced'
  <2> DEFINE w == [pc |-> "read", m |-> m]
  <2>1. /\ handler' = [handler EXCEPT ![h] = w]
        /\ storing' = storing /\ result' = result /\ arrived' = arrived
        /\ handler[h].pc = "free" /\ topic' = [topic EXCEPT ![m] = @ - 1] /\ topic[m] > 0
    BY <1>1 DEF Deliver
  <2>2. w \in Callback /\ w.pc = "read" /\ w.m = m /\ m # 0 /\ handler[h].m = 0
    BY <2>1 DEF Callback, Finitely, Announced
  <2>3. /\ topic' \in [ServerMsgs -> Nat]
        /\ \A n \in ServerMsgs : n # m => topic'[n] = topic[n]
    BY <2>1 DEF Announced
  <2> HIDE DEF w
  <2>4. /\ (w.pc = "free" <=> w.m = 0) /\ w.pc \notin {"process", "check"}
        /\ result' \in [ServerMsgs -> Results]
    BY <2>1, <2>2 DEF Announced
  <2>5. \A n \in ServerMsgs : w.m = n \/ (topic[n] = topic'[n] /\ handler[h].m # n)
    BY <2>2, <2>3, Zenon DEF Finitely
  <2> QED
    BY <2>1, <2>2, <2>3, <2>4, <2>5, CallbackStep, Zenon
<1>2. ASSUME NEW h \in Handlers, Receive(h) \/ CheckResult(h)
      PROVE  Announced'
  <2>1. /\ storing' = storing /\ result' = result /\ arrived' = arrived
        /\ handler[h].pc \in {"read", "check"} /\ handler[h].m \in ServerMsgs
        /\ handler[h] \in Callback /\ result \in [ServerMsgs -> Results]
    BY <1>2 DEF Receive, CheckResult, Announced, Callback
  <2>2. CASE Nack(h)
    <3>1. /\ handler' = [handler EXCEPT ![h] = Free]
          /\ topic' = [topic EXCEPT ![handler[h].m] = @ + 1]
      BY <2>2, Zenon DEF Nack
    <3>2. Free \in Callback /\ Free.pc = "free" /\ Free.m = 0
      BY DEF Free, Callback
    <3>3. /\ topic' \in [ServerMsgs -> Nat] /\ topic'[handler[h].m] > 0
          /\ \A n \in ServerMsgs : n # handler[h].m => topic'[n] = topic[n]
      BY <2>1, <3>1 DEF Announced
    <3>4. Free.pc \notin {"process", "check"}
      BY <3>2
    <3> QED
      BY <2>1, <3>1, <3>2, <3>3, <3>4, CallbackStep, Zenon
  <2>3. CASE Receive(h) /\ ~Nack(h)
    <3> DEFINE w == [handler[h] EXCEPT !.pc = "process"]
    <3>1. /\ handler' = [handler EXCEPT ![h] = w] /\ topic' = topic
          /\ result[handler[h].m] # "absent"
      BY <2>3 DEF Receive, Announced
    <3>2. w \in Callback /\ w.pc = "process" /\ w.m = handler[h].m /\ w.m # 0
      BY <2>1 DEF Callback, Finitely
    <3> HIDE DEF w
    <3>3. /\ (w.pc = "free" <=> w.m = 0) /\ topic \in [ServerMsgs -> Nat]
      BY <3>2 DEF Announced
    <3> QED
      BY <2>1, <3>1, <3>2, <3>3, CallbackStep, Zenon
  <2>4. CASE CheckResult(h) /\ ~Nack(h)
    <3>1. /\ handler' = [handler EXCEPT ![h] = Free] /\ topic' = topic
          /\ result[handler[h].m] # "none" /\ result[handler[h].m] # "absent"
      BY <2>4, Zenon DEF CheckResult, Ack, Announced
    <3>2. Free \in Callback /\ Free.pc = "free" /\ Free.m = 0 /\ Free.pc \notin {"process", "check"}
      BY DEF Free, Callback
    <3>3. topic \in [ServerMsgs -> Nat] /\ result[handler[h].m] \notin Unsettled
      BY <3>1, Zenon DEF Announced, Unsettled
    <3> QED
      BY <2>1, <3>1, <3>2, <3>3, CallbackStep, Zenon
  <2> QED
    BY <1>2, <2>2, <2>3, <2>4, Zenon
<1>3. ASSUME NEW h \in Handlers, NEW r \in {"none", "ok", "failed"}, ProcessMessages(h, r)
      PROVE  Announced'
  <2> DEFINE w == [handler[h] EXCEPT !.pc = "check"]
  <2>1. /\ handler' = [handler EXCEPT ![h] = w]
        /\ storing' = storing /\ topic' = topic /\ arrived' = arrived
        /\ result' = IF r = "none" THEN result ELSE [result EXCEPT ![handler[h].m] = r]
        /\ handler[h].pc = "process" /\ handler[h].m \in ServerMsgs /\ handler[h] \in Callback
        /\ result[handler[h].m] # "absent"
    BY <1>3 DEF ProcessMessages, Announced, Callback
  <2>2. w \in Callback /\ w.pc = "check" /\ w.m = handler[h].m /\ w.m # 0
    BY <2>1 DEF Callback, Finitely
  <2>3. /\ result' \in [ServerMsgs -> Results] /\ result'[handler[h].m] # "absent"
        /\ \A n \in ServerMsgs : /\ result'[n] = "absent" <=> result[n] = "absent"
                                 /\ result'[n] = "none" => result[n] = "none"
    BY <2>1 DEF Announced, Results
  <2> HIDE DEF w
  <2>4. /\ (w.pc = "free" <=> w.m = 0) /\ topic' \in [ServerMsgs -> Nat]
    BY <2>1, <2>2 DEF Announced
  <2>5. \A n \in ServerMsgs : w.m = n \/ (topic[n] = topic'[n] /\ handler[h].m # n)
    BY <2>1, <2>2, Zenon
  <2>6. w.pc \in {"process", "check"} => result'[w.m] # "absent"
    BY <2>2, <2>3, Zenon
  <2>7. /\ storing' = storing /\ arrived' = arrived /\ handler' = [handler EXCEPT ![h] = w]
        /\ \A n \in ServerMsgs : n \in arrived /\ result'[n] \in Unsettled =>
             topic'[n] > 0 \/ w.m = n \/ (topic[n] = topic'[n] /\ handler[h].m # n)
    BY <2>1, <2>5, Zenon
  <2> QED
    BY <2>2, <2>3, <2>4, <2>6, <2>7, CallbackStep, Zenon
<1> QED
  BY <1>1, <1>2, <1>3, Zenon DEF Subscriber

\* After a crash Pub/Sub has every announcement that a callback had.
LEMMA CrashStep ==
    ASSUME Announced, Finitely, Crash
    PROVE  Announced'
<1>1. /\ result' = result /\ arrived' = arrived /\ storing' = {}
      /\ handler' = [h \in Handlers |-> Free]
      /\ topic' = [m \in ServerMsgs |-> topic[m] + Cardinality(Handling(m))]
  BY Zenon DEF Crash
<1>2. ASSUME NEW m \in ServerMsgs
      PROVE  /\ Cardinality(Handling(m)) \in Nat
             /\ Handling(m) # {} => Cardinality(Handling(m)) > 0
  <2>1. IsFiniteSet(Handling(m))
    BY FS_Subset, Zenon DEF Finitely, Handling
  <2> QED
    BY <2>1, FS_CardinalityType, FS_EmptySet
<1>3. Free \in Callback /\ Free.pc = "free" /\ Free.m = 0 /\ Free.pc \notin {"process", "check"}
  BY DEF Free, Callback
<1>4. /\ topic' \in [ServerMsgs -> Nat]
      /\ \A m \in ServerMsgs : topic[m] > 0 \/ Handling(m) # {} => topic'[m] > 0
  BY <1>1, <1>2 DEF Announced
<1> QED
  BY <1>1, <1>3, <1>4, Zenon DEF Announced

\* A connection goes on to w: what it carries it carried before, or nobody has handed
\* it out, and what it hands out it carries no more.
LEMMA ConnectionStep ==
    ASSUME Reserved, Finitely, NEW k \in Conns, NEW w \in Connection,
           conn' = [conn EXCEPT ![k] = w], w.pc = "update" => w.msgs \subseteq w.mus,
           sched' \in [ClientMsgs -> {"no", "later", "due"}], handed' \in [ClientMsgs -> Nat],
           \A m \in ClientMsgs : sched'[m] = "due" => handed'[m] = 0,
           \A m \in ClientMsgs :
               \/ handed'[m] = 0
               \/ handed'[m] = handed[m] /\ (Carries(w, m) => Carries(conn[k], m))
               \/ handed'[m] = handed[m] + 1 /\ ~Carries(w, m) /\ Carries(conn[k], m)
    PROVE  Reserved'
<1>1. /\ conn' \in [Conns -> Connection] /\ conn'[k] = w
      /\ \A j \in Conns : j # k => conn'[j] = conn[j]
  BY Zenon DEF Reserved
<1>2. ASSUME NEW m \in ClientMsgs
      PROVE  handed'[m] + Cardinality(Carrying(m)') <= Cardinality(Conns)
  <2>1. /\ IsFiniteSet(Carrying(m)) /\ IsFiniteSet(Carrying(m)')
        /\ Cardinality(Carrying(m)') <= Cardinality(Conns)
    BY FS_Subset, Zenon DEF Finitely, Carrying
  <2>2. /\ Cardinality(Carrying(m)) \in Nat /\ Cardinality(Carrying(m)') \in Nat
        /\ Cardinality(Conns) \in Nat /\ handed[m] \in Nat /\ handed'[m] \in Nat
        /\ handed[m] + Cardinality(Carrying(m)) <= Cardinality(Conns)
    BY <2>1, FS_CardinalityType, Zenon DEF Finitely, Reserved
  <2>3. CASE handed'[m] = 0
    BY <2>1, <2>2, <2>3
  <2>4. CASE handed'[m] = handed[m] /\ (Carries(w, m) => Carries(conn[k], m))
    <3>1. Carrying(m)' \subseteq Carrying(m)
      BY <1>1, <2>4, Zenon DEF Carrying, Carries
    <3>2. Cardinality(Carrying(m)') <= Cardinality(Carrying(m))
      BY <2>1, <3>1, FS_Subset, Zenon
    <3> QED
      BY <2>2, <2>4, <3>2
  <2>5. CASE handed'[m] = handed[m] + 1 /\ ~Carries(w, m) /\ Carries(conn[k], m)
    <3>1. Carrying(m)' = Carrying(m) \ {k} /\ k \in Carrying(m)
      BY <1>1, <2>5, Zenon DEF Carrying, Carries
    <3>2. Cardinality(Carrying(m)') = Cardinality(Carrying(m)) - 1
      BY <2>1, <3>1, FS_RemoveElement, Zenon
    <3> QED
      BY <2>2, <2>5, <3>2
  <2> QED
    BY <2>3, <2>4, <2>5, Zenon
<1>3. \A j \in Conns : conn'[j].pc = "update" => conn'[j].msgs \subseteq conn'[j].mus
  BY <1>1, Zenon DEF Reserved
<1> QED
  BY <1>1, <1>2, <1>3, Zenon DEF Reserved

\* The three steps in which a connection reserves messages.
LEMMA ReserveStep ==
    ASSUME Reserved, Finitely, NEW k \in Conns,
           Select(k) \/ tryClientMessagesForProcessing(k) \/ Update(k)
    PROVE  Reserved'
<1>0. /\ conn[k] \in Connection
      /\ sched \in [ClientMsgs -> {"no", "later", "due"}] /\ handed \in [ClientMsgs -> Nat]
  BY Zenon DEF Reserved
<1>1. CASE Select(k)
  <2>1. PICK sel \in SUBSET {m \in ClientMsgs : sched[m] = "due"} :
             conn' = [conn EXCEPT ![k] = [Idle EXCEPT !.pc = "selected", !.sel = sel]]
    BY <1>1, Zenon DEF Select
  <2> DEFINE w == [Idle EXCEPT !.pc = "selected", !.sel = sel]
  <2>2. w \in Connection /\ w.pc = "selected" /\ w.sel = sel
    BY Zenon DEF Idle, Connection
  <2>3. sched' = sched /\ handed' = handed
    BY <1>1, Zenon DEF Select
  <2> HIDE DEF w
  <2>4. \A m \in ClientMsgs : handed[m] = 0 \/ ~Carries(w, m)
    BY <2>2 DEF Carries, Reserved
  <2>5. /\ w.pc # "update" /\ conn' = [conn EXCEPT ![k] = w]
        /\ \A m \in ClientMsgs : sched[m] = "due" => handed[m] = 0
    BY <2>1, <2>2 DEF Reserved, w
  <2> QED
    BY <1>0, <2>2, <2>3, <2>4, <2>5, ConnectionStep, Zenon
<1>2. CASE tryClientMessagesForProcessing(k)
  <2> DEFINE rows == {m \in conn[k].sel : sched[m] # "no"}
             changed == {m \in rows : sched[m] = "later"}
             before == {m \in rows : \A c \in changed : m < c}
             msgs == IF changed = {} THEN rows ELSE {}
             w == [conn[k] EXCEPT !.pc = "update", !.mus = before, !.msgs = msgs]
  <2>1. /\ sched' = sched /\ handed' = handed /\ conn[k].pc = "selected"
        /\ conn' = [conn EXCEPT ![k] = w]
    BY <1>0, <1>2 DEF tryClientMessagesForProcessing, Reserved
  <2>2. msgs \subseteq before /\ msgs \subseteq conn[k].sel /\ before \subseteq conn[k].sel
    BY Zenon
  <2> HIDE DEF msgs, before
  <2>3. w \in Connection /\ w.pc = "update" /\ w.mus = before /\ w.msgs = msgs
    BY <1>0, <2>2, Zenon DEF Connection
  <2> HIDE DEF w
  <2>4. /\ w.msgs \subseteq w.mus
        /\ \A m \in ClientMsgs : Carries(w, m) => Carries(conn[k], m)
    BY <2>1, <2>2, <2>3 DEF Carries
  <2>5. \A m \in ClientMsgs : sched[m] = "due" => handed[m] = 0
    BY Zenon DEF Reserved
  <2> QED
    BY <1>0, <2>1, <2>3, <2>4, <2>5, ConnectionStep, Zenon
<1>3. CASE Update(k)
  <2>1. conn[k].pc = "update" /\ conn' = [conn EXCEPT ![k] = Idle]
    BY <1>3, Zenon DEF Update
  <2>2. Idle \in Connection /\ Idle.pc = "idle"
    BY DEF Idle, Connection
  <2>3. Idle.pc # "update" /\ \A m : ~Carries(Idle, m)
    BY <2>2 DEF Carries
  <2>4. CASE sched' = sched /\ handed' = handed
    BY <1>0, <2>1, <2>2, <2>3, <2>4, ConnectionStep, Zenon DEF Reserved
  <2>5. CASE /\ sched' = [m \in ClientMsgs |-> IF m \in conn[k].mus THEN "later" ELSE sched[m]]
             /\ handed' = [m \in ClientMsgs |-> IF m \in conn[k].msgs THEN handed[m] + 1 ELSE handed[m]]
    <3>1. /\ sched' \in [ClientMsgs -> {"no", "later", "due"}] /\ handed' \in [ClientMsgs -> Nat]
      BY <1>0, <2>5
    <3>2. conn[k].msgs \subseteq conn[k].mus
      BY <2>1, Zenon DEF Reserved
    <3>3. \A m \in ClientMsgs : sched'[m] = "due" => handed'[m] = 0
      BY <2>5, <3>2 DEF Reserved
    <3>4. \A m \in ClientMsgs : \/ handed'[m] = handed[m]
                                \/ handed'[m] = handed[m] + 1 /\ Carries(conn[k], m)
      BY <2>1, <2>5 DEF Carries
    <3> QED
      BY <2>1, <2>2, <2>3, <3>1, <3>3, <3>4, ConnectionStep, Zenon
  <2> QED
    BY <1>3, <2>4, <2>5, Zenon DEF Update
<1> QED
  BY <1>1, <1>2, <1>3

\* Messages are settled, or become due again.
LEMMA TimeStep ==
    ASSUME Reserved, Finitely, NEW m \in ClientMsgs, Settle(m) \/ BecomesDue(m)
    PROVE  Reserved'
<1>1. conn' = conn /\ \A n \in ClientMsgs : Carrying(n)' = Carrying(n)
  BY Zenon DEF Settle, BecomesDue, Carrying
<1>2. /\ sched' \in [ClientMsgs -> {"no", "later", "due"}] /\ handed' \in [ClientMsgs -> Nat]
      /\ \A n \in ClientMsgs : /\ sched'[n] = "due" => handed'[n] = 0
                               /\ handed'[n] = 0 \/ handed'[n] = handed[n]
  BY DEF Settle, BecomesDue, Reserved
<1>3. ASSUME NEW n \in ClientMsgs
      PROVE  handed'[n] + Cardinality(Carrying(n)') <= Cardinality(Conns)
  <2>1. IsFiniteSet(Carrying(n)) /\ Cardinality(Carrying(n)) <= Cardinality(Conns)
    BY FS_Subset, Zenon DEF Finitely, Carrying
  <2>2. Cardinality(Carrying(n)) \in Nat /\ Cardinality(Conns) \in Nat
    BY <2>1, FS_CardinalityType, Zenon DEF Finitely
  <2>3. handed[n] \in Nat /\ handed[n] + Cardinality(Carrying(n)) <= Cardinality(Conns)
    BY Zenon DEF Reserved
  <2> QED
    BY <1>1, <1>2, <2>1, <2>2, <2>3
<1> QED
  BY <1>1, <1>2, <1>3, Zenon DEF Reserved

(* A message that is stored without a result, and one of whose announcements   *)
(* ever reached the topic, is announced or in the hands of a callback, however *)
(* many announcements get lost, whatever transactions abort, which callbacks   *)
(* fail, and whenever the server stops, crashes or starts again                *)
(* (server/spanner/messagestore.go).                                           *)
THEOREM AnnouncementsKept ==
    ASSUME Finitely
    PROVE  Spec => []NeverForgotten
<1>1. Init => Announced
  <2> SUFFICES ASSUME Init PROVE Announced
    OBVIOUS
  <2>1. Free \in Callback /\ Free.pc = "free" /\ Free.m = 0
    BY DEF Free, Callback
  <2> QED
    BY <2>1 DEF Init, Announced, Results
<1>2. Announced /\ [Next]_vars => Announced'
  <2> SUFFICES ASSUME Announced, [Next]_vars PROVE Announced'
    OBVIOUS
  <2>1. CASE \E m \in ServerMsgs : tryStoreMessages(m) \/ Aborted(m) \/ CommitStore(m) \/ StoreFails(m)
    BY <2>1, StoreStep, Zenon
  <2>2. CASE Subscriber
    BY <2>2, SubscriberStep, Zenon
  <2>3. CASE Crash
    BY <2>3, CrashStep, Zenon
  <2>4. CASE UNCHANGED <<result, storing, topic, arrived, handler>>
    BY <2>4, Zenon DEF Announced, Handling
  <2> QED
    BY <2>1, <2>2, <2>3, <2>4, Zenon DEF Next, StopMessageProcessor, Select,
       tryClientMessagesForProcessing, Update, Settle, BecomesDue, server, vars
<1>3. Announced => NeverForgotten
  BY Zenon DEF Announced, NeverForgotten, Unannounced, Unsettled
<1> QED
  BY <1>1, <1>2, <1>3, PTL DEF Spec

(* No matter how the separate reads and updates of the connections of a client *)
(* interleave, a message is handed out at most once by each of them, each time *)
(* it becomes due (ClientMessagesForProcessing of the spanner datastore).      *)
THEOREM HandedOutBounded ==
    ASSUME Finitely
    PROVE  Spec => []HandedOncePerConnection
<1>1. Init => Reserved
  <2> SUFFICES ASSUME Init PROVE Reserved
    OBVIOUS
  <2>1. Idle \in Connection /\ Idle.pc = "idle"
    BY DEF Idle, Connection
  <2>2. \A m \in ClientMsgs : Carrying(m) = {}
    BY <2>1 DEF Init, Carrying, Carries
  <2>3. Cardinality({}) = 0 /\ Cardinality(Conns) \in Nat
    BY FS_EmptySet, FS_CardinalityType, Zenon DEF Finitely
  <2>4. /\ sched \in [ClientMsgs -> {"no", "later", "due"}] /\ handed \in [ClientMsgs -> Nat]
        /\ \A m \in ClientMsgs : handed[m] = 0
    BY DEF Init
  <2>5. conn \in [Conns -> Connection] /\ \A k \in Conns : conn[k].pc # "update"
    BY <2>1 DEF Init
  <2>6. \A m \in ClientMsgs : handed[m] + Cardinality(Carrying(m)) <= Cardinality(Conns)
    BY <2>2, <2>3, <2>4
  <2> QED
    BY <2>4, <2>5, <2>6, Zenon DEF Reserved
<1>2. Reserved /\ [Next]_vars => Reserved'
  <2> SUFFICES ASSUME Reserved, [Next]_vars PROVE Reserved'
    OBVIOUS
  <2>1. CASE \E k \in Conns : Select(k) \/ tryClientMessagesForProcessing(k) \/ Update(k)
    BY <2>1, ReserveStep, Zenon
  <2>2. CASE \E m \in ClientMsgs : Settle(m) \/ BecomesDue(m)
    BY <2>2, TimeStep, Zenon
  <2>3. CASE UNCHANGED client
    BY <2>3, Zenon DEF client, Reserved, Carrying, Carries
  <2> QED
    BY <2>1, <2>2, <2>3, Zenon DEF Next, Subscriber, tryStoreMessages, Aborted, CommitStore,
       StoreFails, Deliver, Receive, CheckResult, ProcessMessages, StopMessageProcessor, Crash, vars
<1>3. Reserved => HandedOncePerConnection
  <2> SUFFICES ASSUME Reserved, NEW m \in ClientMsgs PROVE handed[m] <= Cardinality(Conns)
    BY Zenon DEF HandedOncePerConnection
  <2>1. IsFiniteSet(Carrying(m))
    BY FS_Subset, Zenon DEF Finitely, Carrying
  <2>2. Cardinality(Carrying(m)) \in Nat /\ Cardinality(Conns) \in Nat
    BY <2>1, FS_CardinalityType, Zenon DEF Finitely
  <2> QED
    BY <2>2 DEF Reserved
<1> QED
  BY <1>1, <1>2, <1>3, PTL DEF Spec
=============================================================================
