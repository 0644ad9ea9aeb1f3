------------------------ MODULE ServerOutboundProofs ------------------------
(***************************************************************************)
(* Proofs that the outbound path of the server keeps its invariants for    *)
(* any messages, any number of overlapping contacts and any number of      *)
(* reports processed at a time.                                            *)
(***************************************************************************)
EXTENDS ServerOutbound, TLAPS

Stored(m) == db[m].result # "absent"

\* Whatever a contact carries, the client holds or a report is about is in the
\* datastore, so that a reporter always finds the message it asks for.
OnlyStored ==
    /\ \A c \in Contacts : \A m \in batch[c] : Stored(m)
    /\ \A m \in wire : Stored(m)
    /\ \A r \in reports : Stored(r.msg)

\* A report, on its way or being processed, tells what the client did: an ack is
\* of a message it processed, an error of one it rejected, and it reports no Die.
Truthful(r) ==
    /\ r.msg \notin Die
    /\ r.kind = "ack" => r.msg \in processed
    /\ r.kind = "error" => r.msg \in rejected

ReportsTruthful ==
    /\ \A r \in reports : Truthful(r)
    /\ \A p \in Reporters : reading[p] # NoReport => Truthful(reading[p])

\* A linked contact has settled the Die messages that are not in dies any more.
DiesTracked ==
    \A c \in Contacts :
        /\ dies[c] \subseteq batch[c]
        /\ pc[c] # "linked" => dies[c] = {}
        /\ pc[c] = "linked" => \A m \in (batch[c] \cap Die) \ dies[c] : db[m].result = "ok"

\* The inductive invariant: OkOnlyIfProcessed needs truthful reports, and
\* DieSettledBeforeSent that contacts keep track of the Die messages.
IndInv ==
    /\ TypeOK
    /\ PendingIffUnprocessed
    /\ OnlyStored
    /\ ReportsTruthful
    /\ DiesTracked
    /\ OkOnlyIfProcessed
    /\ DieSettledBeforeSent


\* An empty datastore and idle contacts satisfy the inductive invariant.
LEMMA InitInd == Init => IndInv
<1> SUFFICES ASSUME Init PROVE IndInv
  OBVIOUS
<1>1. TypeOK
  BY DEF Init, TypeOK, Row, NoRow, Outcome, Report
<1>2. PendingIffUnprocessed /\ OkOnlyIfProcessed
  BY DEF Init, PendingIffUnprocessed, OkOnlyIfProcessed, NoRow, Msgs
<1>3. OnlyStored /\ ReportsTruthful /\ DiesTracked /\ DieSettledBeforeSent
  BY DEF Init, OnlyStored, ReportsTruthful, DiesTracked, DieSettledBeforeSent
<1> QED
  BY <1>1, <1>2, <1>3 DEF IndInv

\* What the transactions of the outbound path leave alone: no row disappears, a
\* pending row is one without a result, and a result that is there stays there,
\* unless a row of the exceptions X is settled anew.
DbStep(X) ==
    /\ db' \in [Msgs -> Row]
    /\ PendingIffUnprocessed'
    /\ \A m \in Msgs : db[m].result # "absent" => db'[m].result # "absent"
    /\ \A m \in Msgs \ X : db[m].result \in {"ok", "failed"} => db'[m].result = db[m].result
    /\ \A m \in Msgs \ X : db'[m].result = "ok" => db[m].result = "ok"
    /\ \A m \in Msgs : db[m].result \in {"ok", "failed"} => db'[m].result \in {"ok", "failed"}

\* StoreMessages of a message without a result is an insert-or-ignore.
LEMMA StoreNone ==
    ASSUME NEW row \in Row, NEW m
    PROVE  StoreRow(row, m, "none") =
             IF row.result # "absent" THEN row
             ELSE [result |-> "none", sched |-> IF m \in ServerMsgs THEN "later" ELSE "due"]
  BY DEF StoreRow, tryStoreMessage

\* Storing a new message without a result, as every insertion does.
LEMMA InsertStep ==
    ASSUME db \in [Msgs -> Row], PendingIffUnprocessed, NEW m \in ClientMsgs,
           StoreMessages([n \in {m} |-> "none"])
    PROVE  DbStep({}) /\ Stored(m)'
<1>1. \A n \in Msgs : /\ db[n] \in Row
                      /\ db[n].sched # "no" <=> db[n].result = "none"
                      /\ n # m => db'[n] = db[n]
                      /\ n = m => db'[n] = StoreRow(db[n], n, "none")
  BY DEF StoreMessages, PendingIffUnprocessed
<1>2. \A n \in Msgs : /\ db'[n] \in Row
                      /\ db'[n].sched # "no" <=> db'[n].result = "none"
                      /\ db[n].result # "absent" => db'[n].result = db[n].result
                      /\ db'[n].result = "ok" => db[n].result = "ok"
  BY <1>1, StoreNone DEF Row, Outcome
<1>3. db' \in [Msgs -> Row]
  BY <1>2 DEF StoreMessages
<1>4. Stored(m)'
  BY <1>1, StoreNone DEF Stored, Msgs
<1> QED
  BY <1>2, <1>3, <1>4 DEF DbStep, PendingIffUnprocessed

\* Settling a message that is stored.
LEMMA SettleStep ==
    ASSUME db \in [Msgs -> Row], PendingIffUnprocessed, NEW m \in ClientMsgs,
           NEW r \in {"ok", "failed"}, SetMessageResult(m, r)
    PROVE  DbStep({m}) /\ (Stored(m) => db'[m].result = r)
<1>1. \A n \in Msgs : /\ db[n] \in Row
                      /\ db[n].sched # "no" <=> db[n].result = "none"
                      /\ db'[n] = IF n = m THEN trySetMessageResult(db[n], r) ELSE db[n]
  BY DEF SetMessageResult, PendingIffUnprocessed
<1>2. \A n \in Msgs : /\ db'[n] \in Row
                      /\ db'[n].sched # "no" <=> db'[n].result = "none"
                      /\ db[n].result # "absent" => db'[n].result # "absent"
                      /\ db[n].result \in {"ok", "failed"} => db'[n].result \in {"ok", "failed"}
  BY <1>1 DEF trySetMessageResult, Row, Outcome
<1>3. db' \in [Msgs -> Row]
  BY <1>2 DEF SetMessageResult
<1>4. Stored(m) => db'[m].result = r
  BY <1>1 DEF Stored, Msgs, trySetMessageResult
<1> QED
  BY <1>1, <1>2, <1>3, <1>4 DEF DbStep, PendingIffUnprocessed

\* Steps that settle, for a client, at most what is pending.
LEMMA QuietStep ==
    ASSUME db \in [Msgs -> Row], PendingIffUnprocessed,
           \/ \E c \in Contacts : FindMessages(c)
           \/ \E c \in Contacts, m \in ClientMsgs : MakeBroadcastMessage(c, m)
           \/ DeletePendingMessages
           \/ Tick
           \/ UNCHANGED db
    PROVE  DbStep({})
<1>1. \A n \in Msgs : db[n] \in Row /\ (db[n].sched # "no" <=> db[n].result = "none")
  BY DEF PendingIffUnprocessed
<1>2. CASE \E c \in Contacts : FindMessages(c)
  <2>1. PICK B \in SUBSET ClientMsgs : B \subseteq DueIn(ClientMsgs) /\ Reschedule(B)
    BY <1>2 DEF FindMessages, UpTo
  <2>2. \A n \in Msgs : /\ db'[n] \in Row
                        /\ db'[n].result = db[n].result
                        /\ db'[n].sched # "no" <=> db[n].sched # "no"
    BY <1>1, <2>1 DEF DueIn, Reschedule, Row
  <2>3. db' \in [Msgs -> Row]
    BY <2>1, <2>2 DEF Reschedule
  <2> QED
    BY <1>1, <2>2, <2>3 DEF DbStep, PendingIffUnprocessed
<1>3. CASE \E c \in Contacts, m \in ClientMsgs : MakeBroadcastMessage(c, m)
  <2>1. PICK m \in ClientMsgs : /\ db[m] = NoRow
                                /\ db' = [db EXCEPT ![m] = tryStoreMessage(@, m, "none", TRUE)]
    BY <1>3 DEF MakeBroadcastMessage
  <2>2. \A n \in Msgs : db'[n] = IF n = m THEN [result |-> "none", sched |-> "later"] ELSE db[n]
    BY <2>1 DEF tryStoreMessage, NoRow
  <2>3. \A n \in Msgs : db'[n] \in Row /\ (db'[n].sched # "no" <=> db'[n].result = "none")
    BY <1>1, <2>2 DEF Row, Outcome
  <2>4. db' \in [Msgs -> Row]
    BY <2>1, <2>3
  <2>5. \A n \in Msgs : db[n].result # "absent" => db'[n] = db[n]
    <3>1. db[m].result = "absent"
      BY <2>1 DEF NoRow
    <3> QED
      BY <2>2, <3>1
  <2>6. \A n \in Msgs : db'[n].result = "ok" => db[n].result = "ok"
    BY <2>2
  <2> QED
    BY <2>3, <2>4, <2>5, <2>6 DEF DbStep, PendingIffUnprocessed
<1>4. CASE DeletePendingMessages
  <2>1. \A n \in Msgs : db'[n] = IF n \in ClientMsgs /\ db[n].sched # "no"
                                 THEN [result |-> "failed", sched |-> "no"] ELSE db[n]
    BY <1>4 DEF DeletePendingMessages
  <2>2. db' \in [Msgs -> Row]
    BY <1>1, <1>4, <2>1 DEF DeletePendingMessages, Row, Outcome
  <2> QED
    BY <1>1, <2>1, <2>2 DEF DbStep, PendingIffUnprocessed
<1>5. CASE Tick
  <2>1. PICK m \in ClientMsgs : db[m].sched = "later" /\ db' = [db EXCEPT ![m].sched = "due"]
    BY <1>5 DEF Tick, BecomesDue
  <2>2. \A n \in Msgs : /\ db'[n] \in Row
                        /\ db'[n].result = db[n].result
                        /\ db'[n].sched # "no" <=> db[n].sched # "no"
    BY <1>1, <2>1 DEF Row
  <2>3. db' \in [Msgs -> Row]
    BY <2>1, <2>2
  <2> QED
    BY <1>1, <2>2, <2>3 DEF DbStep, PendingIffUnprocessed
<1>6. CASE UNCHANGED db
  BY <1>1, <1>6 DEF DbStep, PendingIffUnprocessed
<1> QED
  BY <1>2, <1>3, <1>4, <1>5, <1>6

-----------------------------------------------------------------------------

\* Insertion, deletion of what is pending, blacklisting and the passing of time
\* reach nothing but the client's rows.
LEMMA TablesInd ==
    ASSUME IndInv, DbStep({}), blacklisted' \in BOOLEAN,
           UNCHANGED <<contact, client, reports, reading>>
    PROVE  IndInv'
<1> USE DEF contact, client
<1>1. TypeOK' /\ PendingIffUnprocessed'
  BY DEF IndInv, TypeOK, DbStep
<1>2. OnlyStored'
  BY DEF IndInv, OnlyStored, Stored, DbStep, TypeOK, Msgs, Report
<1>3. ReportsTruthful'
  BY DEF IndInv, ReportsTruthful, Truthful
<1>4. DiesTracked' /\ DieSettledBeforeSent'
  BY DEF IndInv, DiesTracked, DieSettledBeforeSent, DbStep, TypeOK, Msgs
<1>5. OkOnlyIfProcessed'
  BY DEF IndInv, OkOnlyIfProcessed, DbStep, Msgs
<1> QED
  BY <1>1, <1>2, <1>3, <1>4, <1>5 DEF IndInv

\* The messages a contact finds are pending, and so stored.
LEMMA FindMessagesInd ==
    ASSUME IndInv, NEW c \in Contacts, FindMessages(c)
    PROVE  IndInv'
<1> USE DEF client
<1>1. PICK B \in SUBSET ClientMsgs : /\ B \subseteq DueIn(ClientMsgs)
                                     /\ batch' = [batch EXCEPT ![c] = B]
  BY DEF FindMessages, UpTo
<1>2. DbStep({})
  BY QuietStep DEF IndInv, TypeOK
<1>3. \A m \in B : Stored(m)
  BY <1>1 DEF IndInv, PendingIffUnprocessed, DueIn, Stored, Msgs
<1>4. TypeOK' /\ PendingIffUnprocessed'
  BY <1>1, <1>2 DEF FindMessages, IndInv, TypeOK, DbStep
<1>5. OnlyStored'
  <2>1. \A d \in Contacts : \A m \in batch'[d] : Stored(m) /\ m \in Msgs
    BY <1>1, <1>3 DEF IndInv, OnlyStored, TypeOK, Msgs
  <2> QED
    BY <1>2, <2>1 DEF FindMessages, IndInv, OnlyStored, Stored, DbStep, TypeOK, Msgs, Report
<1>6. ReportsTruthful'
  BY DEF FindMessages, IndInv, ReportsTruthful, Truthful
<1>7. DiesTracked'
  <2>1. dies[c] = {}
    BY DEF FindMessages, IndInv, DiesTracked
  <2>2. pc'[c] = "found" /\ dies' = dies /\ batch'[c] = B
    BY <1>1 DEF FindMessages, IndInv, TypeOK
  <2>3. \A d \in Contacts \ {c} : pc'[d] = pc[d] /\ batch'[d] = batch[d] /\ batch[d] \subseteq Msgs
    BY <1>1 DEF FindMessages, IndInv, TypeOK, Msgs
  <2> QED
    BY <1>2, <2>1, <2>2, <2>3 DEF IndInv, DiesTracked, DbStep
<1>8. DieSettledBeforeSent' /\ OkOnlyIfProcessed'
  BY <1>2 DEF FindMessages, IndInv, DieSettledBeforeSent, OkOnlyIfProcessed, DbStep, TypeOK, Msgs
<1> QED
  BY <1>4, <1>5, <1>6, <1>7, <1>8 DEF IndInv

\* A RekeyRequest is stored and sent at once; it is no Die message.
LEMMA MakeBlacklistMessageInd ==
    ASSUME OutboundAssumption, IndInv, NEW c \in Contacts, NEW m \in ClientMsgs,
           MakeBlacklistMessage(c, m)
    PROVE  IndInv'
<1> USE DEF client
<1>1. DbStep({}) /\ Stored(m)'
  BY InsertStep DEF IndInv, TypeOK, MakeBlacklistMessage
<1>2. TypeOK' /\ PendingIffUnprocessed'
  BY <1>1 DEF MakeBlacklistMessage, IndInv, TypeOK, DbStep
<1>3. /\ pc'[c] = "linked" /\ dies' = dies /\ batch'[c] = {m} /\ dies[c] = {}
      /\ \A d \in Contacts \ {c} : pc'[d] = pc[d] /\ batch'[d] = batch[d] /\ batch[d] \subseteq Msgs
  BY DEF MakeBlacklistMessage, IndInv, TypeOK, DiesTracked, Msgs
<1>4. OnlyStored'
  <2>1. \A d \in Contacts : \A n \in batch'[d] : Stored(n)'
    BY <1>1, <1>3 DEF IndInv, OnlyStored, Stored, DbStep
  <2> QED
    BY <1>1, <2>1 DEF MakeBlacklistMessage, IndInv, OnlyStored, Stored, DbStep, TypeOK, Msgs, Report
<1>5. ReportsTruthful'
  BY DEF MakeBlacklistMessage, IndInv, ReportsTruthful, Truthful
<1>6. DiesTracked'
  <2>1. m \notin Die
    BY DEF OutboundAssumption, MakeBlacklistMessage
  <2> QED
    BY <1>1, <1>3, <2>1 DEF IndInv, DiesTracked, DbStep
<1>7. DieSettledBeforeSent' /\ OkOnlyIfProcessed'
  BY <1>1 DEF MakeBlacklistMessage, IndInv, DieSettledBeforeSent, OkOnlyIfProcessed, DbStep, TypeOK, Msgs
<1> QED
  BY <1>2, <1>4, <1>5, <1>6, <1>7 DEF IndInv

\* The message of a broadcast joins a batch that is not linked yet.
LEMMA MakeBroadcastMessageInd ==
    ASSUME IndInv, NEW c \in Contacts, NEW m \in ClientMsgs, MakeBroadcastMessage(c, m)
    PROVE  IndInv'
<1> USE DEF client
<1>1. DbStep({}) /\ Stored(m)'
  <2>1. Stored(m)'
    BY DEF MakeBroadcastMessage, IndInv, TypeOK, Msgs, Stored, tryStoreMessage, NoRow
  <2> QED
    BY <2>1, QuietStep DEF IndInv, TypeOK
<1>2. TypeOK' /\ PendingIffUnprocessed'
  BY <1>1 DEF MakeBroadcastMessage, IndInv, TypeOK, DbStep
<1>3. /\ pc' = pc /\ dies' = dies /\ batch'[c] = batch[c] \cup {m} /\ pc[c] = "found"
      /\ \A d \in Contacts \ {c} : batch'[d] = batch[d]
      /\ \A d \in Contacts : batch[d] \subseteq Msgs
  BY DEF MakeBroadcastMessage, IndInv, TypeOK, Msgs
<1>4. OnlyStored'
  <2>1. \A d \in Contacts : \A n \in batch'[d] : Stored(n)'
    BY <1>1, <1>3 DEF IndInv, OnlyStored, Stored, DbStep
  <2> QED
    BY <1>1, <2>1 DEF MakeBroadcastMessage, IndInv, OnlyStored, Stored, DbStep, TypeOK, Msgs, Report
<1>5. ReportsTruthful'
  BY DEF MakeBroadcastMessage, IndInv, ReportsTruthful, Truthful
<1>6. DiesTracked'
  BY <1>1, <1>3 DEF IndInv, DiesTracked, DbStep
<1>7. DieSettledBeforeSent' /\ OkOnlyIfProcessed'
  BY <1>1 DEF MakeBroadcastMessage, IndInv, DieSettledBeforeSent, OkOnlyIfProcessed, DbStep, TypeOK, Msgs
<1> QED
  BY <1>2, <1>4, <1>5, <1>6, <1>7 DEF IndInv

\* Linking notes the Die messages, delivery waits until all of them are settled,
\* and a contact that breaks off forgets them.
LEMMA ContactInd ==
    ASSUME IndInv, NEW c \in Contacts,
           LinkMessagesToContact(c) \/ Deliver(c) \/ ContactEnds(c)
    PROVE  IndInv'
<1> USE DEF client
<1>1. /\ db' = db /\ blacklisted' = blacklisted /\ processed' = processed
      /\ rejected' = rejected /\ reports' = reports /\ reading' = reading
  BY DEF LinkMessagesToContact, Deliver, ContactEnds
<1>2. TypeOK' /\ PendingIffUnprocessed'
  BY <1>1 DEF LinkMessagesToContact, Deliver, ContactEnds, IndInv, TypeOK, PendingIffUnprocessed
<1>3. \A d \in Contacts \ {c} : pc'[d] = pc[d] /\ batch'[d] = batch[d] /\ dies'[d] = dies[d]
  BY DEF LinkMessagesToContact, Deliver, ContactEnds, IndInv, TypeOK
<1>4. \/ pc'[c] = "linked" /\ batch'[c] = batch[c] /\ dies'[c] = batch[c] \cap Die /\ wire' = wire
      \/ /\ pc'[c] = "idle" /\ batch'[c] = {} /\ dies'[c] = {}
         /\ \/ wire' = wire
            \/ wire' = wire \cup batch[c] /\ pc[c] = "linked" /\ dies[c] = {}
  BY DEF LinkMessagesToContact, Deliver, ContactEnds, IndInv, TypeOK
<1>5. OnlyStored'
  BY <1>1, <1>3, <1>4 DEF IndInv, OnlyStored, Stored
<1>6. ReportsTruthful'
  BY <1>1 DEF IndInv, ReportsTruthful, Truthful
<1>7. DiesTracked'
  BY <1>1, <1>3, <1>4 DEF IndInv, DiesTracked
<1>8. DieSettledBeforeSent'
  BY <1>1, <1>4 DEF IndInv, DieSettledBeforeSent, DiesTracked
<1>9. OkOnlyIfProcessed'
  BY <1>1 DEF IndInv, OkOnlyIfProcessed
<1> QED
  BY <1>2, <1>5, <1>6, <1>7, <1>8, <1>9 DEF IndInv

\* A Die message of a contact is stored, so that it does get its result.
LEMMA SetDieResultInd ==
    ASSUME IndInv, NEW c \in Contacts, NEW m \in ClientMsgs, SetDieResult(c, m)
    PROVE  IndInv'
<1> USE DEF client
<1>1. m \in Die /\ m \in batch[c] /\ Stored(m)
  BY DEF SetDieResult, IndInv, TypeOK, DiesTracked, OnlyStored
<1>2. DbStep({m}) /\ db'[m].result = "ok"
  BY <1>1, SettleStep DEF SetDieResult, IndInv, TypeOK
<1>3. TypeOK' /\ PendingIffUnprocessed'
  BY <1>2 DEF SetDieResult, IndInv, TypeOK, DbStep
<1>4. OnlyStored'
  BY <1>2 DEF SetDieResult, IndInv, OnlyStored, Stored, DbStep, TypeOK, Msgs, Report
<1>5. ReportsTruthful'
  BY DEF SetDieResult, IndInv, ReportsTruthful, Truthful
<1>6. DiesTracked'
  <2>1. \A d \in Contacts : dies'[d] = IF d = c THEN dies[d] \ {m} ELSE dies[d]
    BY DEF SetDieResult, IndInv, TypeOK
  <2>2. \A d \in Contacts : pc'[d] = pc[d] /\ batch'[d] = batch[d] /\ batch[d] \subseteq Msgs
    BY DEF SetDieResult, IndInv, TypeOK, Msgs
  <2>3. \A d \in Contacts : \A n \in (batch[d] \cap Die) \ dies'[d] :
           n = m \/ n \in (batch[d] \cap Die) \ dies[d]
    BY <2>1
  <2>4. \A n \in Msgs : db[n].result = "ok" => db'[n].result = "ok"
    BY <1>2 DEF DbStep
  <2> QED
    BY <1>2, <2>1, <2>2, <2>3, <2>4 DEF IndInv, DiesTracked
<1>7. DieSettledBeforeSent' /\ OkOnlyIfProcessed'
  BY <1>1, <1>2 DEF SetDieResult, IndInv, DieSettledBeforeSent, OkOnlyIfProcessed, DbStep, TypeOK, Msgs
<1> QED
  BY <1>3, <1>4, <1>5, <1>6, <1>7 DEF IndInv

\* The client reports what it did, and on no Die message; losses report less.
LEMMA ClientInd ==
    ASSUME IndInv,
           \/ \E m \in ClientMsgs, kind \in {"ack", "error"} : ClientProcess(m, kind)
           \/ ClientLoses
    PROVE  IndInv'
<1> USE DEF contact
<1>1. /\ db' = db /\ blacklisted' = blacklisted /\ pc' = pc /\ batch' = batch
      /\ dies' = dies /\ reading' = reading
  BY DEF ClientProcess, ClientLoses
<1>2. /\ wire' \subseteq wire /\ processed \subseteq processed' /\ rejected \subseteq rejected'
      /\ processed' \subseteq ClientMsgs /\ rejected' \subseteq ClientMsgs
  BY DEF ClientProcess, ClientLoses, IndInv, TypeOK
<1>3. \A r \in reports' : \/ r \in reports
                          \/ /\ r \in Report /\ r.msg \in wire /\ r.msg \notin Die
                             /\ r.kind = "ack" => r.msg \in processed'
                             /\ r.kind = "error" => r.msg \in rejected'
  BY DEF ClientProcess, ClientLoses, Report
<1>4. TypeOK' /\ PendingIffUnprocessed'
  BY <1>1, <1>2, <1>3 DEF IndInv, TypeOK, PendingIffUnprocessed
<1>5. OnlyStored'
  BY <1>1, <1>2, <1>3 DEF IndInv, OnlyStored, Stored
<1>6. ReportsTruthful'
  BY <1>1, <1>2, <1>3 DEF IndInv, ReportsTruthful, Truthful
<1>7. DiesTracked' /\ DieSettledBeforeSent'
  BY <1>1, <1>2 DEF IndInv, DiesTracked, DieSettledBeforeSent
<1>8. OkOnlyIfProcessed'
  BY <1>1, <1>2 DEF IndInv, OkOnlyIfProcessed
<1> QED
  BY <1>4, <1>5, <1>6, <1>7, <1>8 DEF IndInv

\* A reporter reads a message that is there.
LEMMA GetMessagesInd ==
    ASSUME IndInv, NEW p \in Reporters, NEW r \in reports, GetMessages(p, r)
    PROVE  IndInv'
<1> USE DEF contact, client
<1>1. /\ db' = db /\ blacklisted' = blacklisted /\ pc' = pc /\ batch' = batch /\ dies' = dies
      /\ wire' = wire /\ processed' = processed /\ rejected' = rejected /\ reports' = reports
  BY DEF GetMessages
<1>2. r \in Report /\ Stored(r.msg) /\ Truthful(r) /\ r.msg \in Msgs
  BY DEF IndInv, TypeOK, OnlyStored, ReportsTruthful, Report, Msgs
<1>3. /\ reading'[p] = [msg |-> r.msg, kind |-> r.kind, saw |-> db[r.msg].result]
      /\ \A q \in Reporters \ {p} : reading'[q] = reading[q]
  BY DEF GetMessages, IndInv, TypeOK
<1>4. db[r.msg].result \in Outcome
  BY <1>2 DEF IndInv, TypeOK, Row, Stored
<1>5. TypeOK' /\ PendingIffUnprocessed'
  BY <1>1, <1>2, <1>4 DEF GetMessages, IndInv, TypeOK, PendingIffUnprocessed, Report
<1>6. OnlyStored' /\ DiesTracked' /\ DieSettledBeforeSent' /\ OkOnlyIfProcessed'
  BY <1>1 DEF IndInv, OnlyStored, Stored, DiesTracked, DieSettledBeforeSent, OkOnlyIfProcessed
<1>7. ReportsTruthful'
  BY <1>1, <1>2, <1>3 DEF IndInv, ReportsTruthful, Truthful
<1> QED
  BY <1>5, <1>6, <1>7 DEF IndInv

\* What a reporter does to the message it read: a success for one that the client
\* processed, a failure for one that it rejected, or nothing.
LEMMA ReportStep ==
    ASSUME IndInv, NEW p \in Reporters,
           processMessageAck(p) \/ processMessageError(p) \/ ReportFails(p)
    PROVE  /\ reading[p].msg \in ClientMsgs \ Die
           /\ DbStep({reading[p].msg})
           /\ \A m \in Msgs : /\ db'[m].result = "ok" => db[m].result = "ok" \/ m \in processed
                              /\ db[m].result = "ok" /\ db'[m].result = "failed" => m \in rejected
<1> DEFINE m == reading[p].msg
<1>1. reading[p] # NoReport
  BY DEF processMessageAck, processMessageError, ReportFails, NoReport
<1>2. m \in ClientMsgs \ Die /\ Truthful(reading[p])
  BY <1>1 DEF IndInv, TypeOK, ReportsTruthful, Truthful
<1>3. db \in [Msgs -> Row] /\ PendingIffUnprocessed
  BY DEF IndInv, TypeOK
<1>4. \/ SetMessageResult(m, "ok") /\ reading[p].kind = "ack"
      \/ SetMessageResult(m, "failed") /\ reading[p].kind = "error"
      \/ db' = db
  BY DEF processMessageAck, processMessageError, ReportFails
<1>5. CASE SetMessageResult(m, "ok") /\ reading[p].kind = "ack"
  <2> HIDE DEF m
  <2>1. DbStep({m})
    BY <1>2, <1>3, <1>5, SettleStep
  <2>2. \A n \in Msgs \ {m} : db'[n] = db[n]
    BY <1>3, <1>5 DEF SetMessageResult
  <2>3. m \in processed
    BY <1>2, <1>5 DEF Truthful, m
  <2>4. db[m].result = "ok" => db'[m].result # "failed"
    BY <1>2, <1>3, <1>5 DEF SetMessageResult, trySetMessageResult, Msgs
  <2> QED
    BY <1>2, <2>1, <2>2, <2>3, <2>4 DEF m
<1>6. CASE SetMessageResult(m, "failed") /\ reading[p].kind = "error"
  <2> HIDE DEF m
  <2>1. DbStep({m})
    BY <1>2, <1>3, <1>6, SettleStep
  <2>2. \A n \in Msgs \ {m} : db'[n] = db[n]
    BY <1>3, <1>6 DEF SetMessageResult
  <2>3. m \in rejected
    BY <1>2, <1>6 DEF Truthful, m
  <2>4. db'[m].result = "ok" => db[m].result = "ok"
    BY <1>2, <1>3, <1>6 DEF SetMessageResult, trySetMessageResult, Msgs
  <2> QED
    BY <1>2, <2>1, <2>2, <2>3, <2>4 DEF m
<1>7. CASE db' = db
  BY <1>2, <1>3, <1>7 DEF DbStep, PendingIffUnprocessed
<1> QED
  BY <1>4, <1>5, <1>6, <1>7

\* The system service settles messages by truthful reports only.
LEMMA ReporterInd ==
    ASSUME IndInv, NEW p \in Reporters,
           processMessageAck(p) \/ processMessageError(p) \/ ReportFails(p)
    PROVE  IndInv'
<1> USE DEF contact, client
<1>1. /\ blacklisted' = blacklisted /\ pc' = pc /\ batch' = batch /\ dies' = dies
      /\ wire' = wire /\ processed' = processed /\ rejected' = rejected
      /\ reports' \subseteq reports /\ reading' = [reading EXCEPT ![p] = NoReport]
  BY DEF processMessageAck, processMessageError, ReportFails
<1>2. /\ reading[p].msg \in ClientMsgs \ Die
      /\ DbStep({reading[p].msg})
      /\ \A m \in Msgs : db'[m].result = "ok" => db[m].result = "ok" \/ m \in processed
  BY ReportStep
<1>3. TypeOK' /\ PendingIffUnprocessed'
  BY <1>1, <1>2 DEF IndInv, TypeOK, DbStep
<1>4. OnlyStored'
  BY <1>1, <1>2 DEF IndInv, OnlyStored, Stored, DbStep, TypeOK, Msgs, Report
<1>5. ReportsTruthful'
  BY <1>1 DEF IndInv, ReportsTruthful, Truthful, TypeOK
<1>6. DiesTracked' /\ DieSettledBeforeSent'
  BY <1>1, <1>2 DEF IndInv, DiesTracked, DieSettledBeforeSent, DbStep, TypeOK, Msgs
<1>7. OkOnlyIfProcessed'
  BY <1>1, <1>2 DEF IndInv, OkOnlyIfProcessed, Msgs
<1> QED
  BY <1>3, <1>4, <1>5, <1>6, <1>7 DEF IndInv

-----------------------------------------------------------------------------

\* Every step of the outbound path keeps the inductive invariant.
LEMMA NextInd ==
    ASSUME OutboundAssumption, IndInv, [Next]_vars
    PROVE  IndInv'
<1>1. db \in [Msgs -> Row] /\ PendingIffUnprocessed /\ blacklisted \in BOOLEAN
  BY DEF IndInv, TypeOK
<1>2. CASE \E m \in ClientMsgs : InsertMessage(m)
  <2>1. DbStep({}) /\ UNCHANGED <<blacklisted, contact, client, reports, reading>>
    BY <1>1, <1>2, InsertStep DEF InsertMessage
  <2> QED
    BY <1>1, <2>1, TablesInd
<1>3. CASE DeletePendingMessages \/ Tick \/ BlacklistClient
  <2>1. UNCHANGED <<contact, client, reports, reading>> /\ blacklisted' \in BOOLEAN
    BY <1>1, <1>3 DEF DeletePendingMessages, Tick, BlacklistClient
  <2>2. DbStep({})
    BY <1>1, <1>3, QuietStep DEF BlacklistClient
  <2> QED
    BY <2>1, <2>2, TablesInd
<1>4. CASE \E m \in ClientMsgs, kind \in {"ack", "error"} : ClientProcess(m, kind)
  BY <1>4, ClientInd
<1>5. CASE ClientLoses
  BY <1>5, ClientInd
<1>6. ASSUME NEW c \in Contacts,
             \/ FindMessages(c) \/ LinkMessagesToContact(c) \/ Deliver(c) \/ ContactEnds(c)
             \/ \E m \in ClientMsgs : \/ MakeBlacklistMessage(c, m)
                                      \/ MakeBroadcastMessage(c, m)
                                      \/ SetDieResult(c, m)
      PROVE  IndInv'
  BY <1>6, FindMessagesInd, ContactInd, MakeBlacklistMessageInd, MakeBroadcastMessageInd,
     SetDieResultInd
<1>7. ASSUME NEW p \in Reporters,
             \/ \E r \in reports : GetMessages(p, r)
             \/ processMessageAck(p) \/ processMessageError(p) \/ ReportFails(p)
      PROVE  IndInv'
  BY <1>7, GetMessagesInd, ReporterInd
<1>8. CASE UNCHANGED vars
  <2>1. UNCHANGED <<contact, client, reports, reading>> /\ UNCHANGED db /\ blacklisted' \in BOOLEAN
    BY <1>1, <1>8 DEF vars, contact, client
  <2>2. DbStep({})
    BY <1>1, <2>1, QuietStep
  <2> QED
    BY <2>1, <2>2, TablesInd
<1> QED
  BY <1>2, <1>3, <1>4, <1>5, <1>6, <1>7, <1>8 DEF Next

\* A result is kept by every step from a state that satisfies the invariant.
LEMMA NextKeepsResults ==
    ASSUME IndInv, [Next]_vars
    PROVE  ResultKept
<1>1. db \in [Msgs -> Row] /\ PendingIffUnprocessed /\ ClientMsgs \subseteq Msgs
  BY DEF IndInv, TypeOK, Msgs
<1>2. DbStep({}) => ResultKept
  BY <1>1 DEF DbStep, ResultKept
<1>3. CASE \/ \E m \in ClientMsgs : InsertMessage(m)
           \/ \E c \in Contacts, m \in ClientMsgs : MakeBlacklistMessage(c, m)
  BY <1>1, <1>2, <1>3, InsertStep DEF InsertMessage, MakeBlacklistMessage
<1>4. CASE \/ DeletePendingMessages \/ Tick
           \/ \E c \in Contacts : FindMessages(c)
           \/ \E c \in Contacts, m \in ClientMsgs : MakeBroadcastMessage(c, m)
  BY <1>1, <1>2, <1>4, QuietStep
<1>5. CASE \/ BlacklistClient \/ ClientLoses
           \/ \E c \in Contacts : LinkMessagesToContact(c) \/ Deliver(c) \/ ContactEnds(c)
           \/ \E m \in ClientMsgs, kind \in {"ack", "error"} : ClientProcess(m, kind)
           \/ \E p \in Reporters, r \in reports : GetMessages(p, r)
           \/ UNCHANGED vars
  <2>1. UNCHANGED db
    BY <1>5 DEF BlacklistClient, ClientLoses, LinkMessagesToContact, Deliver, ContactEnds,
                ClientProcess, GetMessages, vars
  <2> QED
    BY <1>1, <1>2, <2>1, QuietStep
<1>6. ASSUME NEW c \in Contacts, NEW m \in ClientMsgs, SetDieResult(c, m)
      PROVE  ResultKept
  <2>1. DbStep({m})
    BY <1>1, <1>6, SettleStep DEF SetDieResult
  <2>2. db'[m].result # "failed" \/ db[m].result # "ok"
    BY <1>1, <1>6 DEF SetDieResult, SetMessageResult, trySetMessageResult
  <2> QED
    BY <1>1, <2>1, <2>2 DEF DbStep, ResultKept
<1>7. ASSUME NEW p \in Reporters,
             processMessageAck(p) \/ processMessageError(p) \/ ReportFails(p)
      PROVE  ResultKept
  BY <1>1, <1>7, ReportStep DEF DbStep, ResultKept
<1> QED
  BY <1>3, <1>4, <1>5, <1>6, <1>7 DEF Next

\* The inductive invariant holds in every reachable state.
THEOREM Inductive == OutboundAssumption => (Spec => []IndInv)
<1> SUFFICES ASSUME OutboundAssumption PROVE Spec => []IndInv
  OBVIOUS
<1>1. Init => IndInv
  BY InitInd
<1>2. IndInv /\ [Next]_vars => IndInv'
  BY NextInd
<1> QED
  BY <1>1, <1>2, PTL DEF Spec

\* The variables keep their types; in particular a reporter never looks for a
\* message that is not in the datastore.
THEOREM TypeCorrect == OutboundAssumption => (Spec => []TypeOK)
<1>1. IndInv => TypeOK
  BY DEF IndInv
<1> QED
  BY <1>1, Inductive, PTL

\* The server records success only for a message that the client processed,
\* whatever contacts, repeated deliveries, late reports and the admin do.
THEOREM SuccessIsTheClients == OutboundAssumption => (Spec => []OkOnlyIfProcessed)
<1>1. IndInv => OkOnlyIfProcessed
  BY DEF IndInv
<1> QED
  BY <1>1, Inductive, PTL

\* A Die message is settled before the client gets it, so that it is not sent again
\* to the client that comes back from the death it asked for.
THEOREM DieIsSettledFirst == OutboundAssumption => (Spec => []DieSettledBeforeSent)
<1>1. IndInv => DieSettledBeforeSent
  BY DEF IndInv
<1> QED
  BY <1>1, Inductive, PTL

\* A message for the client is eligible for a contact iff it has no result.
THEOREM EligibleIffUnprocessed == OutboundAssumption => (Spec => []PendingIffUnprocessed)
<1>1. IndInv => PendingIffUnprocessed
  BY DEF IndInv
<1> QED
  BY <1>1, Inductive, PTL

\* A settled message is never reopened, and its success is undone only by an error
\* that the client itself reported.
THEOREM ResultsStay == OutboundAssumption => (Spec => SettledStays)
<1> SUFFICES ASSUME OutboundAssumption PROVE Spec => SettledStays
  OBVIOUS
<1>1. IndInv /\ [Next]_vars => [ResultKept]_vars
  BY NextKeepsResults
<1>2. Spec => []IndInv
  BY Inductive
<1> QED
  BY <1>1, <1>2, PTL DEF Spec, SettledStays
=============================================================================
