------------------------------- MODULE RowForms -------------------------------
(***************************************************************************)
(* What the datastores keep of a message or a broadcast: the conversions   *)
(* between protocol buffers and rows (server/sqlite and server/mysql       *)
(* messagestore.go and broadcaststore.go, protoMessage of server/spanner/  *)
(* messagestore.go) and between ids and their strings (common/ids.go,      *)
(* server/ids/ids.go).  A field is absent (Nil), or one of a few values:   *)
(* "" is the empty one.  An id is <<"bytes", k>> or <<"hex", k>>, where k  *)
(* is "" for none and "short" for one of the wrong length.                 *)
(***************************************************************************)
EXTENDS Integers

CONSTANTS
    ClientIds,    \* client ids, "" and "short" perhaps among them
    DataValues,   \* the serialized data of a message, perhaps ""
    Serialized,   \* forms of ValidationInfo and Annotations
    Nil

VARIABLES
    kind,   \* "message" or "broadcast"
    given,  \* what is to be stored
    store,  \* the datastore
    row,    \* what it holds; Failed when it refused, Fatal when the server exits
    got     \* what is read back, and by which call

vars == <<kind, given, store, row, got>>

Nothing == [none |-> TRUE]
Failed == [failure |-> "error"]
Fatal == [failure |-> "exit"]

Bytes(k) == <<"bytes", k>>
Hex(k) == <<"hex", k>>

\* common.BytesToClientID(b).String() and common.StringToClientID(s).Bytes().
IdString(b) == IF b[2] = "" THEN Hex("nil") ELSE Hex(b[2])
IdBytes(s) == IF s[2] \in {"", "nil"} THEN Bytes("") ELSE Bytes(s[2])
BadId(i) == i[2] = "short"

toClientIDString(b) == IF b[2] = "" THEN Hex("") ELSE IdString(b)

\* A variant of fromClientIDString that leaves the string as it is.
fromClientIDStringAsIs(s) == s

fromClientIDString(s) == IF s[2] = "" THEN Bytes("") ELSE IdBytes(s)

Address == [client : {Bytes(c) : c \in ClientIds}, service : {"s"}]
NoAddress == [client |-> Bytes(""), service |-> ""]
OrEmpty(v, empty) == IF v = Nil THEN empty ELSE v

\* Messages as they come, and the ones without a peculiarity.
Results == [time : {Nil, "t"}, failed : BOOLEAN, reason : {"", "r"}]
Data == [url : {"u"}, value : DataValues]
Messages ==
    [id : {Bytes("m"), Bytes("short")}, source : Address \cup {Nil}, destination : Address,
     sourceMessageId : {Bytes(""), Bytes("o")}, creationTime : {Nil, "t"},
     result : Results \cup {Nil}, data : Data \cup {Nil},
     validationInfo : Serialized, annotations : Serialized]
Broadcasts ==
    [id : {Bytes("b"), Bytes("short"), Bytes("")}, source : Address \cup {Nil},
     destination : Address \cup {Nil}, expirationTime : {Nil, "t"}, data : Data \cup {Nil}]

\* A variant of ResultRow that does not keep the reason of a failure.
ResultRowReasonLost(r) ==
    [time |-> IF r = Nil THEN Nil ELSE r.time,
     failed |-> IF r = Nil \/ ~r.failed THEN Nil ELSE "true", reason |-> Nil]

ResultRow(r) ==
    [time |-> IF r = Nil THEN Nil ELSE r.time,
     failed |-> IF r = Nil \/ ~r.failed THEN Nil ELSE "true",
     reason |-> IF r = Nil \/ ~r.failed THEN Nil ELSE r.reason]

\* sqlite keeps ids as strings, mysql as they are.
IdRow(s, b) == IF s = "sqlite" THEN IdString(b) ELSE b
IdProto(s, r) == IF s = "sqlite" THEN IdBytes(r) ELSE r
ClientRow(s, b) == IF s = "sqlite" THEN toClientIDString(b) ELSE b
ClientProto(s, r) == IF s = "sqlite" THEN fromClientIDString(r) ELSE r

\* "If it is already processed, we don't want to save m.Data."
UnlessProcessed(m) == IF m.result # Nil THEN Nil ELSE m.data

\* fromMessageProto and the INSERTs of tryStoreMessage.
fromMessageProto(s, m) ==
    IF BadId(m.id) \/ m.creationTime = Nil THEN Failed
    ELSE LET src == OrEmpty(m.source, NoAddress) dst == m.destination IN
         [id |-> IdRow(s, m.id),
          source |-> [src EXCEPT !.client = ClientRow(s, @)],
          destination |-> [dst EXCEPT !.client = ClientRow(s, @)],
          sourceMessageId |-> ClientRow(s, m.sourceMessageId),
          creationTime |-> m.creationTime, result |-> ResultRow(m.result), data |-> UnlessProcessed(m),
          validationInfo |-> m.validationInfo, annotations |-> m.annotations]

toMessageResultProto(r) ==
    IF r.time = Nil THEN Nil
    ELSE [time |-> r.time, failed |-> r.failed = "true", reason |-> OrEmpty(r.reason, "")]

\* The columns that getMessages selects: not whether a result is a failure, nor why.
Selected(r) == [r EXCEPT !.result.failed = Nil, !.result.reason = Nil]

toMessageProto(s, r) ==
    [r EXCEPT !.id = IdProto(s, @), !.source.client = ClientProto(s, @),
              !.destination.client = ClientProto(s, @),
              !.sourceMessageId = ClientProto(s, @), !.result = toMessageResultProto(@),
              !.validationInfo = IF @ = "" THEN Nil ELSE @,
              !.annotations = IF @ = "" THEN Nil ELSE @]

LiteFromMessageProto(m) ==
    IF (m.source # Nil /\ BadId(m.source.client)) \/ BadId(m.destination.client)
    THEN IF BadId(m.id) THEN Failed ELSE Fatal
    ELSE fromMessageProto("sqlite", m)
LiteToMessageProto(r) == toMessageProto("sqlite", Selected(r))
MyFromMessageProto(m) == fromMessageProto("mysql", m)
MyToMessageProto(r) == toMessageProto("mysql", Selected(r))

\* Spanner keeps protocol buffers in its columns; a creation time is needed.
SpannerRow(m) ==
    IF BadId(m.id) \/ m.creationTime = Nil THEN Failed ELSE [m EXCEPT !.data = UnlessProcessed(m)]
protoMessage(r) ==
    [r EXCEPT !.data = IF @ # Nil /\ @.value # "" THEN @ ELSE Nil]

fromBroadcastProto(s, b) ==
    IF BadId(b.id) \/ b.source = Nil THEN Failed
    ELSE [id |-> IdRow(s, b.id), source |-> b.source.service,
          destination |-> IF b.destination = Nil THEN Nil ELSE b.destination.service,
          expirationTime |-> b.expirationTime, data |-> b.data]

\* StringToBroadcastID takes a string of sixteen characters only.
toBroadcastProto(s, r) ==
    IF r.id = Hex("nil") THEN Failed
    ELSE [r EXCEPT !.id = IdProto(s, @),
                   !.source = [client |-> Bytes(""), service |-> @],
                   !.destination = IF @ = Nil THEN Nil ELSE [client |-> Bytes(""), service |-> @]]
-----------------------------------------------------------------------------
Init ==
    /\ \/ kind = "message" /\ given \in Messages
       \/ kind = "broadcast" /\ given \in Broadcasts
    /\ store = "none" /\ row = Nothing /\ got = Nothing

StoreMessage(s) ==
    /\ kind = "message" /\ store = "none" /\ store' = s
    /\ row' = CASE s = "sqlite" -> LiteFromMessageProto(given)
                [] s = "mysql" -> MyFromMessageProto(given)
                [] s = "spanner" -> SpannerRow(given)
    /\ UNCHANGED <<kind, given, got>>

StoreBroadcast(s) ==
    /\ kind = "broadcast" /\ store = "none" /\ store' = s
    /\ row' = IF s = "spanner" THEN given ELSE fromBroadcastProto(s, given)
    /\ UNCHANGED <<kind, given, got>>

Held == store # "none" /\ row \notin {Failed, Fatal} /\ got = Nothing

\* Without wantData the data is not read.
GetMessages(wantData) ==
    LET read == [row EXCEPT !.data = IF wantData THEN @ ELSE Nil] IN
    /\ kind = "message" /\ Held
    /\ got' = [call |-> IF wantData THEN "data" ELSE "message",
               val |-> CASE store = "sqlite" -> LiteToMessageProto(read)
                         [] store = "mysql" -> MyToMessageProto(read)
                         [] store = "spanner" -> protoMessage(read)]
    /\ UNCHANGED <<kind, given, store, row>>

GetMessageResult ==
    /\ kind = "message" /\ Held
    /\ got' = [call |-> "result",
               val |-> IF store = "spanner" THEN row.result ELSE toMessageResultProto(row.result)]
    /\ UNCHANGED <<kind, given, store, row>>

GetBroadcast ==
    /\ kind = "broadcast" /\ Held
    /\ got' = [call |-> "broadcast", val |-> IF store = "spanner" THEN row ELSE toBroadcastProto(store, row)]
    /\ UNCHANGED <<kind, given, store, row>>

Stores == {"sqlite", "mysql", "spanner"}
Next ==
    \/ \E s \in Stores : StoreMessage(s) \/ StoreBroadcast(s)
    \/ \E w \in BOOLEAN : GetMessages(w)
    \/ GetMessageResult \/ GetBroadcast

Spec == Init /\ [][Next]_vars
-----------------------------------------------------------------------------
\* What the server stores: it fills in the creation time, results carry the time
\* of processing, and a reason only when they are failures; source and
\* destination are set.  A broadcast has an id, and addresses name no client.
Wellformed ==
    IF kind = "message"
    THEN /\ given.source # Nil /\ given.creationTime # Nil
         /\ given.result # Nil => given.result.time # Nil /\ (given.result.failed \/ given.result.reason = "")
         /\ given.validationInfo # "" /\ given.annotations # ""
    ELSE /\ given.id # Bytes("")
         /\ \A a \in {given.source, given.destination} : a # Nil => a.client = Bytes("")

\* Of a message that is processed already the data is not kept, and spanner
\* returns data whose value is empty as none at all.
DataOf(m) == IF m.result # Nil \/ (store = "spanner" /\ m.data # Nil /\ m.data.value = "") THEN Nil ELSE m.data

\* GetMessages of sqlite and mysql returns that there is a result, and its time.
ResultOf(m) ==
    IF store = "spanner" \/ m.result = Nil THEN m.result ELSE [m.result EXCEPT !.failed = FALSE, !.reason = ""]

\* What a datastore returns of a broadcast, and of a message through GetMessages, is
\* what was stored, in every field but two: the data of a message, which DataOf
\* describes, and its result, which is whole through GetMessageResult only.  (The
\* conversions of fromMessageProto and toMessageProto, fromBroadcastProto and
\* toBroadcastProto, protoMessage; the columns of getMessages.)
StoredWhole ==
    Wellformed /\ got # Nothing =>
        CASE got.call = "result" -> got.val = given.result
          [] got.call = "data" -> got.val = [given EXCEPT !.data = DataOf(given), !.result = ResultOf(given)]
          [] got.call = "message" -> got.val = [given EXCEPT !.data = Nil, !.result = ResultOf(given)]
          [] got.call = "broadcast" -> got.val = given
================================================================================
