--------------------------- MODULE ServerOutbound ---------------------------
(***************************************************************************)
(* The way of a message from the server to one client: the admin or a      *)
(* service inserts it, a contact of the client finds it, reserves it and   *)
(* hands it over (findMessagesForClient), the client processes it and      *)
(* reports back with a MessageAck or MessageError, and the system service  *)
(* settles it.  Contacts overlap, since a client that gave up on one       *)
(* server talks to the next, and any of them can break off between two     *)
(* transactions; reports are processed at least once and interleave with   *)
(* each other, with new contacts and with the admin.                       *)
(***************************************************************************)
EXTENDS MessageStore

CONSTANTS
    Die,          \* ids of Die messages, which the client never acknowledges
    Broadcasted,  \* ids a contact may use for the message of a broadcast
    Rekey,        \* ids it may use for a RekeyRequest; all of them in ClientMsgs
    Contacts,     \* contacts that can be in progress at a time
    Reporters,    \* reports the system service can be processing at a time
    FindLimit     \* messages one contact can take

\* What findMessagesForClient relies on: a RekeyRequest is no Die message.
OutboundAssumption == Rekey \cap Die = {}

VARIABLES
    blacklisted,  \* the client's flag in the datastore
    pc,           \* progress of a contact: "idle", "found", "linked"
    batch,        \* the messages it has found
    dies,         \* those of them it still has to settle before it sends them
    wire,         \* messages handed to the client that it has not looked at
    processed,    \* messages the client has processed successfully at least once
    rejected,     \* messages the client has reported an error for
    reports,      \* reports on their way: [msg, kind]
    reading       \* what a reporter works on: [msg, kind, saw], or NoReport

vars == <<db, blacklisted, pc, batch, dies, wire, processed, rejected, reports, reading>>
contact == <<pc, batch, dies>>
client == <<wire, processed, rejected>>

Report == [msg : ClientMsgs, kind : {"ack", "error"}]
NoReport == [msg |-> "none", kind |-> "none", saw |-> "none"]

\* The messages that an admin or a service can insert.
Ordinary == ClientMsgs \ (Broadcasted \cup Rekey)

Init ==
    /\ db = [m \in Msgs |-> NoRow]
    /\ blacklisted = FALSE
    /\ pc = [c \in Contacts |-> "idle"]
    /\ batch = [c \in Contacts |-> {}]
    /\ dies = [c \in Contacts |-> {}]
    /\ wire = {} /\ processed = {} /\ rejected = {}
    /\ reports = {}
    /\ reading = [p \in Reporters |-> NoReport]

\* adminServer.InsertMessage and liveService.Send, which a caller may repeat.
InsertMessage(m) ==
    /\ m \in Ordinary
    /\ StoreMessages([n \in {m} |-> "none"])
    /\ UNCHANGED <<blacklisted, contact, client, reports, reading>>

\* adminServer.DeletePendingMessages: one transaction settles whatever is pending.
DeletePendingMessages ==
    /\ db' = [m \in Msgs |-> IF m \in ClientMsgs /\ db[m].sched # "no"
                             THEN [result |-> "failed", sched |-> "no"] ELSE db[m]]
    /\ UNCHANGED <<blacklisted, contact, client, reports, reading>>

BlacklistClient ==
    /\ ~blacklisted /\ blacklisted' = TRUE
    /\ UNCHANGED <<db, contact, client, reports, reading>>

\* findMessagesForClient on a client it believes not to be blacklisted (the
\* flag is cached with the connection): reserve due messages, as many as the
\* tokens of the connection allow.
FindMessages(c) ==
    /\ pc[c] = "idle"
    /\ \E tokens \in 0..FindLimit, B \in SUBSET ClientMsgs :
        /\ UpTo(tokens, DueIn(ClientMsgs), B)
        /\ Reschedule(B)
        /\ batch' = [batch EXCEPT ![c] = B]
    /\ pc' = [pc EXCEPT ![c] = "found"]
    /\ UNCHANGED <<blacklisted, dies, client, reports, reading>>

\* MakeBlacklistMessage: a blacklisted client is sent a fresh RekeyRequest and
\* nothing else.
MakeBlacklistMessage(c, m) ==
    /\ pc[c] = "idle" /\ blacklisted
    /\ m \in Rekey /\ db[m] = NoRow
    /\ StoreMessages([n \in {m} |-> "none"])
    /\ pc' = [pc EXCEPT ![c] = "linked"]
    /\ batch' = [batch EXCEPT ![c] = {m}]
    /\ UNCHANGED <<blacklisted, dies, client, reports, reading>>

\* SaveBroadcastMessage stores the message of a broadcast for this contact.
MakeBroadcastMessage(c, m) ==
    /\ pc[c] = "found"
    /\ m \in Broadcasted /\ db[m] = NoRow
    /\ db' = [db EXCEPT ![m] = tryStoreMessage(@, m, "none", TRUE)]
    /\ batch' = [batch EXCEPT ![c] = @ \cup {m}]
    /\ UNCHANGED <<blacklisted, pc, dies, client, reports, reading>>

\* Variant: every message of the contact is settled before it is sent.
LinkMessagesToContactSettlesAll(c) ==
    /\ pc[c] = "found" /\ batch[c] # {}
    /\ pc' = [pc EXCEPT ![c] = "linked"]
    /\ dies' = [dies EXCEPT ![c] = batch[c]]
    /\ UNCHANGED <<db, blacklisted, batch, client, reports, reading>>

\* The messages of the contact are recorded; its Die messages are still to settle.
LinkMessagesToContact(c) ==
    /\ pc[c] = "found" /\ batch[c] # {}
    /\ pc' = [pc EXCEPT ![c] = "linked"]
    /\ dies' = [dies EXCEPT ![c] = batch[c] \cap Die]
    /\ UNCHANGED <<db, blacklisted, batch, client, reports, reading>>

\* The Die messages of a contact are settled one by one before they are sent.
SetDieResult(c, m) ==
    /\ m \in dies[c]
    /\ SetMessageResult(m, "ok")
    /\ dies' = [dies EXCEPT ![c] = @ \ {m}]
    /\ UNCHANGED <<blacklisted, pc, batch, client, reports, reading>>

\* Variant: delivery does not wait for the Die messages to be settled.
DeliverUnsettled(c) ==
    /\ pc[c] = "linked"
    /\ wire' = wire \cup batch[c]
    /\ pc' = [pc EXCEPT ![c] = "idle"]
    /\ batch' = [batch EXCEPT ![c] = {}]
    /\ dies' = [dies EXCEPT ![c] = {}]
    /\ UNCHANGED <<db, blacklisted, processed, rejected, reports, reading>>

\* The contact ends with its messages delivered ...
Deliver(c) ==
    /\ pc[c] = "linked"
    /\ dies[c] = {}
    /\ wire' = wire \cup batch[c]
    /\ pc' = [pc EXCEPT ![c] = "idle"]
    /\ batch' = [batch EXCEPT ![c] = {}]
    /\ UNCHANGED <<db, blacklisted, dies, processed, rejected, reports, reading>>

\* ... or at any point without: there was nothing to send, a transaction failed,
\* the server crashed or the response was lost.
ContactEnds(c) ==
    /\ pc[c] # "idle"
    /\ pc' = [pc EXCEPT ![c] = "idle"]
    /\ batch' = [batch EXCEPT ![c] = {}]
    /\ dies' = [dies EXCEPT ![c] = {}]
    /\ UNCHANGED <<db, blacklisted, client, reports, reading>>

\* The client takes a message to its service, once per delivery; only a Die
\* message goes without a report.
ClientProcess(m, kind) ==
    /\ m \in wire
    /\ m \in Die => kind = "ack"
    /\ wire' = wire \ {m}
    /\ processed' = IF kind = "ack" THEN processed \cup {m} ELSE processed
    /\ rejected' = IF kind = "error" THEN rejected \cup {m} ELSE rejected
    /\ reports' = IF m \in Die THEN reports
                  ELSE reports \cup {[msg |-> m, kind |-> kind]}
    /\ UNCHANGED <<db, blacklisted, contact, reading>>

\* The client stops before it processed a message, or loses its report.
ClientLoses ==
    /\ \/ \E m \in wire : wire' = wire \ {m} /\ UNCHANGED reports
       \/ \E r \in reports : reports' = reports \ {r} /\ UNCHANGED wire
    /\ UNCHANGED <<db, blacklisted, contact, processed, rejected, reading>>

\* processMessageAck and processMessageError first read the message.  The
\* report stays around, since its own processing may be repeated.
GetMessages(p, r) ==
    /\ reading[p] = NoReport /\ r \in reports
    /\ reading' = [reading EXCEPT ![p] =
                     [msg |-> r.msg, kind |-> r.kind, saw |-> db[r.msg].result]]
    /\ UNCHANGED <<db, blacklisted, contact, client, reports>>

\* An ack settles the message only if it had no result when it was read.
processMessageAck(p) ==
    /\ reading[p].kind = "ack"
    /\ IF reading[p].saw = "none" THEN SetMessageResult(reading[p].msg, "ok")
       ELSE UNCHANGED db
    /\ reading' = [reading EXCEPT ![p] = NoReport]
    /\ reports' = reports \ {[msg |-> reading[p].msg, kind |-> "ack"]}
    /\ UNCHANGED <<blacklisted, contact, client>>

\* Variant: an error is recorded like an ack.
processMessageErrorAsAck(p) ==
    /\ reading[p].kind = "error"
    /\ SetMessageResult(reading[p].msg, "ok")
    /\ reading' = [reading EXCEPT ![p] = NoReport]
    /\ reports' = reports \ {[msg |-> reading[p].msg, kind |-> "error"]}
    /\ UNCHANGED <<blacklisted, contact, client>>

\* An error settles it as failed, whatever it was.
processMessageError(p) ==
    /\ reading[p].kind = "error"
    /\ SetMessageResult(reading[p].msg, "failed")
    /\ reading' = [reading EXCEPT ![p] = NoReport]
    /\ reports' = reports \ {[msg |-> reading[p].msg, kind |-> "error"]}
    /\ UNCHANGED <<blacklisted, contact, client>>

\* The transaction fails or the server crashes.  A failed ack is only logged and
\* so counts as processed; everything else is retried.
ReportFails(p) ==
    /\ reading[p] # NoReport
    /\ reading' = [reading EXCEPT ![p] = NoReport]
    /\ \/ UNCHANGED reports
       \/ /\ reading[p].kind = "ack"
          /\ reports' = reports \ {[msg |-> reading[p].msg, kind |-> "ack"]}
    /\ UNCHANGED <<db, blacklisted, contact, client>>

Tick == /\ \E m \in ClientMsgs : BecomesDue(m)
        /\ UNCHANGED <<blacklisted, contact, client, reports, reading>>

Next ==
    \/ \E m \in ClientMsgs : InsertMessage(m)
    \/ DeletePendingMessages \/ BlacklistClient \/ Tick \/ ClientLoses
    \/ \E c \in Contacts :
          \/ FindMessages(c) \/ LinkMessagesToContact(c)
          \/ Deliver(c) \/ ContactEnds(c)
          \/ \E m \in ClientMsgs : \/ MakeBlacklistMessage(c, m)
                                   \/ MakeBroadcastMessage(c, m)
                                   \/ SetDieResult(c, m)
    \/ \E m \in ClientMsgs, kind \in {"ack", "error"} : ClientProcess(m, kind)
    \/ \E p \in Reporters :
          \/ \E r \in reports : GetMessages(p, r)
          \/ processMessageAck(p) \/ processMessageError(p) \/ ReportFails(p)

Spec == Init /\ [][Next]_vars

-----------------------------------------------------------------------------

TypeOK ==
    /\ db \in [Msgs -> Row]
    /\ blacklisted \in BOOLEAN
    /\ pc \in [Contacts -> {"idle", "found", "linked"}]
    /\ batch \in [Contacts -> SUBSET ClientMsgs]
    /\ dies \in [Contacts -> SUBSET Die]
    /\ wire \subseteq ClientMsgs /\ processed \subseteq ClientMsgs
    /\ rejected \subseteq ClientMsgs
    /\ reports \subseteq Report
    /\ reading \in [Reporters -> {NoReport} \cup
                      [msg : ClientMsgs, kind : {"ack", "error"}, saw : Outcome]]

\* The server records success for a message only if the client really processed
\* it, however contacts, duplicate deliveries, stale reports and the admin
\* interleave.  (A Die message is settled by the server itself.)
OkOnlyIfProcessed == \A m \in ClientMsgs \ Die : db[m].result = "ok" => m \in processed

\* A Die message reaches a client only after it was settled (comms.go:342-347),
\* so that the client it kills does not find it again when it comes back.
DieSettledBeforeSent == \A m \in wire \cap Die : db[m].result = "ok"

\* A settled message is never reopened: neither a repeated insertion, a late
\* contact nor a report can make it pending again, and a success is only ever
\* undone by an error the client itself reported for the same message.
ResultKept ==
    \A m \in ClientMsgs :
        /\ db[m].result \in {"ok", "failed"} => db'[m].result \in {"ok", "failed"}
        /\ db[m].result = "ok" /\ db'[m].result = "failed" => m \in rejected

SettledStays == [][ResultKept]_vars

-----------------------------------------------------------------------------
(***************************************************************************)
(* Fairness: time passes, the client keeps contacting the server, and no   *)
(* contact or report is worked on for ever.  Of the contacts that carry a  *)
(* message infinitely many reach the client, who processes it and whose    *)
(* report is not lost for ever.                                            *)
(***************************************************************************)
TimePasses(m) == BecomesDue(m) /\ Tick
Found(m) == \E c \in Contacts : FindMessages(c) /\ m \in batch'[c]
Linked(m) == \E c \in Contacts : LinkMessagesToContact(c) /\ m \in batch[c]
Handed(m) == \E c \in Contacts : SetDieResult(c, m) \/ (Deliver(c) /\ m \in batch[c])
Reported(m) == \E p \in Reporters : GetMessages(p, [msg |-> m, kind |-> "ack"])
Recorded(m) ==
    \E p \in Reporters : reading[p].msg = m /\ (processMessageAck(p) \/ processMessageError(p))

Fairness ==
    /\ \A c \in Contacts : WF_vars(ContactEnds(c))
    /\ \A p \in Reporters : WF_vars(ReportFails(p))
    /\ \A m \in ClientMsgs :
        /\ WF_vars(TimePasses(m))
        /\ SF_vars(Found(m)) /\ SF_vars(Linked(m)) /\ SF_vars(Handed(m))
        /\ SF_vars(ClientProcess(m, "ack")) /\ SF_vars(Reported(m)) /\ SF_vars(Recorded(m))

FairSpec == Spec /\ Fairness

Unsettled(m) == db[m].result = "none"
SettledOrBlacklisted(m) == blacklisted \/ db[m].result # "none"

\* A message for a client that stays in contact is eventually settled, and so
\* retried until it is: after a lost response, a lost report, or a reservation
\* that a broken contact left behind.  A blacklisted client gets nothing.
EventuallySettled == \A m \in ClientMsgs : Unsettled(m) ~> SettledOrBlacklisted(m)
=============================================================================
