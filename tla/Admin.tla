-------------------------------- MODULE Admin --------------------------------
(***************************************************************************)
(* The admin interface (server/admin/admin.go): gRPC handlers that run     *)
(* side by side for several callers over one datastore.  InsertMessage     *)
(* takes three calls to the datastore and the notifier, every other        *)
(* handler one.  Callers repeat what they believe has failed, with the     *)
(* same id.  Meanwhile clients appear, connect and settle their messages.  *)
(*                                                                         *)
(* The datastore is sqlite's (MessageStore for the messages).  An id that  *)
(* cannot be parsed is Garbled; the service name of a broadcast is a fixed *)
(* function of it.                                                         *)
(***************************************************************************)
EXTENDS MessageStore

CONSTANTS
    Callers,     \* calls of InsertMessage at a time
    Clients,
    Dest,        \* by message to a client: the client
    Unfit,       \* messages without a destination or a source, or with a result
    TooLarge,    \* messages above maxMsgSize
    Bcasts,
    Source,      \* by broadcast: the service it comes from
    Names,       \* names of files; "" is among them
    Garbled,
    RestrictPayloadRetrieval,
    MaxFaults    \* bound: failures of the datastore

VARIABLES
    known,       \* by client of the datastore: its row
    bcasts,      \* by broadcast: "absent", "active" or "disabled" (a limit of 0)
    files,       \* names of the files stored
    call,        \* by caller: its InsertMessage
    accepted,    \* messages whose insertion was answered without an error
    noticed,     \* messages a server was notified of
    status,      \* by message: the last answer of GetMessageStatus
    disabled,    \* broadcasts whose disabling was answered without an error
    answer,      \* the last answer of the other handlers
    faults

rows == <<db, known, bcasts, files>>
insert == <<call, accepted, noticed>>
replies == <<status, disabled, answer>>
vars == <<rows, insert, replies, faults>>

Client == [black : BOOLEAN, contact : {"new", "streaming", "old"}]
Idle == [at |-> "idle", msg |-> Garbled, notify |-> FALSE]
Failed == "error"
EmptyMessage == "empty"

Init ==
    /\ db = [m \in Msgs |-> NoRow]
    /\ known = [c \in {} |-> {}]
    /\ bcasts = [b \in Bcasts |-> "absent"]
    /\ files = {}
    /\ call = [p \in Callers |-> Idle]
    /\ accepted = {} /\ noticed = {}
    /\ status = [m \in Msgs |-> "unasked"]
    /\ disabled = {}
    /\ answer = EmptyMessage
    /\ faults = 0

\* A call to the datastore fails: nothing is changed, the caller gets the error.
Fault == faults < MaxFaults /\ faults' = faults + 1

\* A handler that makes one call to the datastore.  Requests that it refuses
\* itself never reach the datastore.
Handle(refused, effect, reply) ==
    \/ /\ \/ refused /\ UNCHANGED faults
          \/ ~refused /\ Fault
       /\ answer' = Failed
       /\ UNCHANGED <<rows, status, disabled>>
    \/ ~refused /\ effect /\ answer' = reply /\ UNCHANGED faults

-----------------------------------------------------------------------------
(* InsertMessage *)

\* The request is looked at; a message to a service of the server is stored next.
InsertMessage(p, m) ==
    /\ call[p] = Idle
    /\ m \notin Unfit
    /\ call' = [call EXCEPT ![p] = [at |-> IF m \in ClientMsgs THEN "list" ELSE "store",
                                    msg |-> m, notify |-> FALSE]]
    /\ UNCHANGED <<rows, accepted, noticed, replies, faults>>

\* Whom to notify is read before the message is stored.  The client has to be
\* known, and the message small enough for it.
ListDestination(p) ==
    LET m == call[p].msg
        c == Dest[m]
    IN
    /\ call[p].at = "list"
    /\ \/ /\ c \in DOMAIN known /\ m \notin TooLarge
          /\ call' = [call EXCEPT ![p].at = "store",
                                  ![p].notify = known[c].contact = "streaming"]
          /\ UNCHANGED faults
       \/ /\ c \notin DOMAIN known \/ m \in TooLarge
          /\ call' = [call EXCEPT ![p] = Idle] /\ UNCHANGED faults
       \/ Fault /\ call' = [call EXCEPT ![p] = Idle]
    /\ UNCHANGED <<rows, accepted, noticed, replies>>

\* Variant: the notification is sent before the message is stored.
StoreInsertedLate(p) ==
    LET m == call[p].msg IN
    /\ call[p].at = "store"
    /\ \/ /\ StoreMessages([n \in {m} |-> "none"])
          /\ call' = [call EXCEPT ![p].at = "notify"]
          /\ noticed' = IF call[p].notify THEN noticed \cup {m} ELSE noticed
          /\ UNCHANGED faults
       \/ /\ Fault /\ call' = [call EXCEPT ![p] = Idle]
          /\ noticed' = IF call[p].notify THEN noticed \cup {m} ELSE noticed
          /\ UNCHANGED db
    /\ UNCHANGED <<known, bcasts, files, accepted, replies>>

StoreInserted(p) ==
    LET m == call[p].msg IN
    /\ call[p].at = "store"
    /\ \/ /\ StoreMessages([n \in {m} |-> "none"])
          /\ call' = [call EXCEPT ![p].at = "notify"]
          /\ UNCHANGED faults
       \/ /\ Fault /\ call' = [call EXCEPT ![p] = Idle]
          /\ UNCHANGED db
    /\ UNCHANGED <<known, bcasts, files, accepted, noticed, replies>>

\* The notifier is called for a client with a recent streaming contact; that it
\* fails is only logged.
NotifyInserted(p) ==
    LET m == call[p].msg IN
    /\ call[p].at = "notify"
    /\ \/ call[p].notify /\ noticed' = noticed \cup {m} /\ UNCHANGED faults
       \/ ~call[p].notify /\ UNCHANGED <<noticed, faults>>
       \/ call[p].notify /\ Fault /\ UNCHANGED noticed
    /\ call' = [call EXCEPT ![p] = Idle]
    /\ accepted' = accepted \cup {m}
    /\ UNCHANGED <<rows, replies>>

-----------------------------------------------------------------------------
(* The other handlers for messages *)

\* A message that is not found is answered with an empty status.  Whether a
\* result was a failure is not among the columns that are read.
GetMessageStatus(m) ==
    /\ \/ /\ status' = [status EXCEPT ![m] = CASE db[m].result = "absent" -> "unknown"
                                               [] db[m].result = "none"   -> "pending"
                                               [] OTHER                   -> "processed"]
          /\ UNCHANGED <<answer, faults>>
       \/ Fault /\ answer' = Failed /\ UNCHANGED status
    /\ UNCHANGED <<rows, insert, disabled>>

PendingOf(ids) == {m \in ClientMsgs : Dest[m] \in ids /\ db[m].sched # "no"}

\* Variant: the rows of the messages are deleted, not settled.
DeletePendingMessagesForgets(ids) ==
    /\ Handle(Garbled \in ids,
              /\ db' = [m \in Msgs |-> IF m \in PendingOf(ids) THEN NoRow ELSE db[m]]
              /\ UNCHANGED <<known, bcasts, files, status, disabled>>,
              EmptyMessage)
    /\ UNCHANGED insert

\* All pending messages of the clients are settled as failed.
DeletePendingMessages(ids) ==
    /\ Handle(Garbled \in ids,
              /\ db' = [m \in Msgs |-> IF m \in PendingOf(ids)
                                       THEN [result |-> "failed", sched |-> "no"] ELSE db[m]]
              /\ UNCHANGED <<known, bcasts, files, status, disabled>>,
              EmptyMessage)
    /\ UNCHANGED insert

GetPendingMessages(ids, wantData) ==
    /\ Handle(Garbled \in ids \/ (wantData /\ RestrictPayloadRetrieval),
              UNCHANGED <<rows, status, disabled>>, PendingOf(ids))
    /\ UNCHANGED insert

GetPendingMessageCount(ids) ==
    /\ Handle(Garbled \in ids, UNCHANGED <<rows, status, disabled>>, Cardinality(PendingOf(ids)))
    /\ UNCHANGED insert

-----------------------------------------------------------------------------
(* Broadcasts *)

\* Variant: a broadcast that is there is replaced.
CreateBroadcastReplaces(b) ==
    /\ Handle(FALSE,
              /\ bcasts' = [bcasts EXCEPT ![b] = "active"]
              /\ UNCHANGED <<db, known, files, status, disabled>>,
              EmptyMessage)
    /\ UNCHANGED insert

\* The id is the caller's, or a random one that nobody has.  An INSERT of an id
\* that is there fails.
CreateBroadcast(b) ==
    /\ Handle(bcasts[b] # "absent",
              /\ bcasts' = [bcasts EXCEPT ![b] = "active"]
              /\ UNCHANGED <<db, known, files, status, disabled>>,
              EmptyMessage)
    /\ UNCHANGED insert

ListActiveBroadcasts(service) ==
    /\ Handle(FALSE, UNCHANGED <<rows, status, disabled>>,
              {b \in Bcasts : bcasts[b] = "active" /\ (service = "" \/ Source[b] = service)})
    /\ UNCHANGED insert

\* No id may be garbled; one that is not there is passed over, and nothing is
\* done without ids.
DisableBroadcasts(bs) ==
    LET there == {b \in bs \ {Garbled} : bcasts[b] # "absent"} IN
    /\ Handle(Garbled \in bs,
              /\ bcasts' = [b \in Bcasts |-> IF b \in there THEN "disabled" ELSE bcasts[b]]
              /\ disabled' = disabled \cup there
              /\ UNCHANGED <<db, known, files, status>>,
              EmptyMessage)
    /\ UNCHANGED insert

-----------------------------------------------------------------------------
(* Clients and files *)

\* Without ids all clients are listed.
ListClients(ids) ==
    /\ Handle(Garbled \in ids, UNCHANGED <<rows, status, disabled>>,
              IF ids = {} THEN DOMAIN known ELSE ids \cap DOMAIN known)
    /\ UNCHANGED insert

\* A new client counts as heard of.
StreamClientIds(includeBlacklisted, recent) ==
    /\ Handle(FALSE, UNCHANGED <<rows, status, disabled>>,
              {c \in DOMAIN known : /\ includeBlacklisted \/ ~known[c].black
                                    /\ recent => known[c].contact # "old"})
    /\ UNCHANGED insert

\* ListClientContacts, and StreamClientContacts with what it streams.
ListClientContacts(c) ==
    /\ Handle(c = Garbled, UNCHANGED <<rows, status, disabled>>,
              IF c \in DOMAIN known /\ known[c].contact # "new" THEN {c} ELSE {})
    /\ UNCHANGED insert

\* An UPDATE: a client that is not there is no error.
BlacklistClient(c) ==
    /\ Handle(c = Garbled,
              /\ known' = IF c \in DOMAIN known THEN [known EXCEPT ![c].black = TRUE] ELSE known
              /\ UNCHANGED <<db, bcasts, files, status, disabled>>,
              EmptyMessage)
    /\ UNCHANGED insert

StoreFile(n) ==
    /\ Handle(n = "",
              files' = files \cup {n} /\ UNCHANGED <<db, known, bcasts, status, disabled>>,
              EmptyMessage)
    /\ UNCHANGED insert

DeleteFile(n) ==
    /\ Handle(n = "",
              files' = files \ {n} /\ UNCHANGED <<db, known, bcasts, status, disabled>>,
              EmptyMessage)
    /\ UNCHANGED insert

-----------------------------------------------------------------------------
(* What else happens to the rows. *)

\* A client is added, connects, or has not been heard of for ten minutes.
ContactOf(c, contact) ==
    /\ known' = [d \in DOMAIN known \cup {c} |->
                   IF d # c THEN known[d]
                   ELSE [black |-> c \in DOMAIN known /\ known[c].black, contact |-> contact]]
    /\ contact = "new" <=> c \notin DOMAIN known
    /\ UNCHANGED <<db, bcasts, files, insert, replies, faults>>

\* The client's report, or the service the message is for, settles a message.
Settle(m, r) ==
    /\ db[m].result = "none"
    /\ SetMessageResult(m, r)
    /\ UNCHANGED <<known, bcasts, files, insert, replies, faults>>

Next ==
    \/ \E p \in Callers : \/ \E m \in Msgs : InsertMessage(p, m)
                          \/ ListDestination(p) \/ StoreInserted(p) \/ NotifyInserted(p)
    \/ \E m \in Msgs : GetMessageStatus(m) \/ \E r \in {"ok", "failed"} : Settle(m, r)
    \/ \E ids \in SUBSET (Clients \cup {Garbled}) :
          \/ DeletePendingMessages(ids) \/ GetPendingMessageCount(ids) \/ ListClients(ids)
          \/ \E w \in BOOLEAN : GetPendingMessages(ids, w)
    \/ \E b \in Bcasts : CreateBroadcast(b)
    \/ \E bs \in SUBSET (Bcasts \cup {Garbled}) : DisableBroadcasts(bs)
    \/ \E s \in {""} \cup {Source[b] : b \in Bcasts} : ListActiveBroadcasts(s)
    \/ \E i, r \in BOOLEAN : StreamClientIds(i, r)
    \/ \E c \in Clients \cup {Garbled} : ListClientContacts(c) \/ BlacklistClient(c)
    \/ \E n \in Names : StoreFile(n) \/ DeleteFile(n)
    \/ \E c \in Clients, contact \in {"new", "streaming", "old"} : ContactOf(c, contact)

Spec == Init /\ [][Next]_vars

-----------------------------------------------------------------------------
TypeOK ==
    /\ db \in [Msgs -> Row]
    /\ DOMAIN known \subseteq Clients /\ \A c \in DOMAIN known : known[c] \in Client
    /\ bcasts \in [Bcasts -> {"absent", "active", "disabled"}]
    /\ files \subseteq Names \ {""}
    /\ call \in [Callers -> {Idle} \cup [at : {"list", "store", "notify"}, msg : Msgs, notify : BOOLEAN]]
    /\ accepted \subseteq Msgs /\ noticed \subseteq Msgs
    /\ status \in [Msgs -> {"unasked", "unknown", "pending", "processed"}]
    /\ disabled \subseteq Bcasts
    /\ faults \in 0..MaxFaults

(* What a caller was told stays true, whatever other callers, their repeats *)
(* and the clients do: an accepted message has a row, belongs to a client   *)
(* that is known and is not too large for it; a message that was reported   *)
(* as processed is settled and not handed out again; a broadcast that was   *)
(* disabled is not active, even if it is created again.                     *)
AnswersStayTrue ==
    /\ \A m \in accepted :
         /\ db[m].result # "absent"
         /\ m \in ClientMsgs => Dest[m] \in DOMAIN known /\ m \notin TooLarge
    /\ \A m \in Msgs :
         /\ status[m] = "processed" => db[m].result \in {"ok", "failed"} /\ db[m].sched = "no"
         /\ status[m] = "pending" => db[m].result # "absent"
    /\ \A b \in disabled : bcasts[b] = "disabled"

(* A server is notified of a message only when the message is stored: the   *)
(* connection that looks for it then finds it.                              *)
NoticeAfterStore == \A m \in noticed : db[m].result # "absent"
=============================================================================
