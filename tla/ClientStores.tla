---------------------------- MODULE ClientStores ----------------------------
(***************************************************************************)
(* db.ClientStore three times: the tables of clients, labels, contacts,    *)
(* linked messages and resource usage as the sqlite, the mysql and the     *)
(* spanner datastore keep them.  Every call the server makes is applied to *)
(* the three side by side, so that a state compares what three servers on  *)
(* different datastores know after the same history.                       *)
(*                                                                         *)
(* An operator maps the tables to the tables after the call and its        *)
(* answer; a failed call leaves the tables alone.  A contact is its        *)
(* number, which stands for the row id and for the commit timestamp, and   *)
(* doubles as the time of the contact; nonces, clocks, addresses and the   *)
(* measured values are left out.                                           *)
(***************************************************************************)
EXTENDS Naturals, Sequences, FiniteSets, TLC

CONSTANTS
    Clients,      \* client ids
    Labels,       \* labels a client can have
    Msgs,         \* messages, all of them stored
    MaxContacts,  \* bound on the recorded contacts
    MaxUsage      \* bound on the recorded resource usage

VARIABLES
    lite, my, span,  \* the tables
    answers,         \* what the last call returned, by datastore
    differs          \* history: what spanner does differently, "tables" for good

vars == <<lite, my, span, answers, differs>>

Client == [blacklisted : BOOLEAN, last : 0..MaxContacts, streaming : BOOLEAN]

NewClient(s) == [blacklisted |-> FALSE, last |-> Len(s.contacts), streaming |-> FALSE]

Empty == [clients |-> [c \in {} |-> {}], labels |-> {}, contacts |-> <<>>,
          links |-> {}, usage |-> <<>>]

Answer(s, v) == [db |-> s, res |-> [ok |-> TRUE, val |-> v]]
Ok(s) == Answer(s, {})
Error(s) == [db |-> s, res |-> [ok |-> FALSE, val |-> {}]]

Known(s, c) == c \in DOMAIN s.clients
LabelsOf(s, c) == {l \in Labels : <<c, l>> \in s.labels}
Contacts(s) == 1..Len(s.contacts)

\* The rows of a contact that the client and contact tables get.
Recorded(s, c, stream) ==
    [s EXCEPT !.contacts = Append(@, c),
              !.clients[c].last = Len(s.contacts) + 1,
              !.clients[c].streaming = stream]

-----------------------------------------------------------------------------
(* sqlite: constraint violations are errors.                               *)

LiteListClients(s, ids) ==
    Answer(s, {<<c, s.clients[c], LabelsOf(s, c)>> :
                 c \in {d \in DOMAIN s.clients : ids = {} \/ d \in ids}})

LiteStreamClientIds(s, includeBlacklisted, after) ==
    Answer(s, {c \in DOMAIN s.clients : /\ includeBlacklisted \/ ~s.clients[c].blacklisted
                                        /\ s.clients[c].last > after})

LiteGetClientData(s, c) ==
    IF Known(s, c) THEN Answer(s, {<<s.clients[c].blacklisted, LabelsOf(s, c)>>})
    ELSE Error(s)

LiteAddClient(s, c) ==
    IF Known(s, c) THEN Error(s) ELSE Ok([s EXCEPT !.clients = @ @@ (c :> NewClient(s))])

LiteAddClientLabel(s, c, l) ==
    IF ~Known(s, c) \/ <<c, l>> \in s.labels THEN Error(s)
    ELSE Ok([s EXCEPT !.labels = @ \cup {<<c, l>>}])

LiteRemoveClientLabel(s, c, l) == Ok([s EXCEPT !.labels = @ \ {<<c, l>>}])

LiteBlacklistClient(s, c) ==
    IF Known(s, c) THEN Ok([s EXCEPT !.clients[c].blacklisted = TRUE]) ELSE Ok(s)

\* Variant: the contact is recorded, the client's row is not updated.
LiteRecordClientContactOnly(s, c, stream) ==
    IF ~Known(s, c) THEN Error(s)
    ELSE Answer([s EXCEPT !.contacts = Append(@, c)], {Len(s.contacts) + 1})

LiteRecordClientContact(s, c, stream) ==
    IF ~Known(s, c) THEN Error(s)
    ELSE Answer(Recorded(s, c, stream), {Len(s.contacts) + 1})

LiteStreamClientContacts(s, c) == Answer(s, {n \in Contacts(s) : s.contacts[n] = c})

LiteLinkMessagesToContact(s, n, ids) ==
    IF n \notin Contacts(s) \/ \E m \in ids : <<n, m>> \in s.links THEN Error(s)
    ELSE Ok([s EXCEPT !.links = @ \cup ({n} \X ids)])

LiteRecordResourceUsageData(s, c) ==
    IF ~Known(s, c) THEN Error(s) ELSE Ok([s EXCEPT !.usage = Append(@, c)])

LiteFetchResourceUsageRecords(s, c, from, to) ==
    IF from > to THEN Error(s)
    ELSE Answer(s, {n \in 1..Len(s.usage) : s.usage[n] = c /\ from <= n /\ n < to})

-----------------------------------------------------------------------------
(* mysql: the same statements; the three short writes go to the pool, not  *)
(* to the transaction opened for them.                                     *)

MyListClients(s, ids) ==
    Answer(s, {<<c, s.clients[c], LabelsOf(s, c)>> :
                 c \in {d \in DOMAIN s.clients : ids = {} \/ d \in ids}})

MyStreamClientIds(s, includeBlacklisted, after) ==
    Answer(s, {c \in DOMAIN s.clients : /\ includeBlacklisted \/ ~s.clients[c].blacklisted
                                        /\ s.clients[c].last > after})

MyGetClientData(s, c) ==
    IF Known(s, c) THEN Answer(s, {<<s.clients[c].blacklisted, LabelsOf(s, c)>>})
    ELSE Error(s)

MyAddClient(s, c) ==
    IF Known(s, c) THEN Error(s) ELSE Ok([s EXCEPT !.clients = @ @@ (c :> NewClient(s))])

MyAddClientLabel(s, c, l) ==
    IF ~Known(s, c) \/ <<c, l>> \in s.labels THEN Error(s)
    ELSE Ok([s EXCEPT !.labels = @ \cup {<<c, l>>}])

MyRemoveClientLabel(s, c, l) == Ok([s EXCEPT !.labels = @ \ {<<c, l>>}])

MyBlacklistClient(s, c) ==
    IF Known(s, c) THEN Ok([s EXCEPT !.clients[c].blacklisted = TRUE]) ELSE Ok(s)

MyRecordClientContact(s, c, stream) ==
    IF ~Known(s, c) THEN Error(s)
    ELSE Answer(Recorded(s, c, stream), {Len(s.contacts) + 1})

MyStreamClientContacts(s, c) == Answer(s, {n \in Contacts(s) : s.contacts[n] = c})

MyLinkMessagesToContact(s, n, ids) ==
    IF n \notin Contacts(s) \/ \E m \in ids : <<n, m>> \in s.links THEN Error(s)
    ELSE Ok([s EXCEPT !.links = @ \cup ({n} \X ids)])

MyRecordResourceUsageData(s, c) ==
    IF ~Known(s, c) THEN Error(s) ELSE Ok([s EXCEPT !.usage = Append(@, c)])

MyFetchResourceUsageRecords(s, c, from, to) ==
    IF from > to THEN Error(s)
    ELSE Answer(s, {n \in 1..Len(s.usage) : s.usage[n] = c /\ from <= n /\ n < to})

-----------------------------------------------------------------------------
(* spanner: InsertOrUpdate where the others insert, and an Update of a row *)
(* that is not there is an error.                                          *)

SpanListClients(s, ids) ==
    Answer(s, {<<c, s.clients[c], LabelsOf(s, c)>> :
                 c \in {d \in DOMAIN s.clients : ids = {} \/ d \in ids}})

SpanStreamClientIds(s, includeBlacklisted, after) ==
    Answer(s, {c \in DOMAIN s.clients : /\ includeBlacklisted \/ ~s.clients[c].blacklisted
                                        /\ s.clients[c].last > after})

SpanGetClientData(s, c) ==
    IF Known(s, c) THEN Answer(s, {<<s.clients[c].blacklisted, LabelsOf(s, c)>>})
    ELSE Error(s)

\* The columns that are not written keep their values.
SpanAddClient(s, c) ==
    IF Known(s, c)
    THEN Ok([s EXCEPT !.clients[c].blacklisted = FALSE, !.clients[c].last = Len(s.contacts)])
    ELSE Ok([s EXCEPT !.clients = @ @@ (c :> NewClient(s))])

SpanAddClientLabel(s, c, l) ==
    IF ~Known(s, c) THEN Error(s) ELSE Ok([s EXCEPT !.labels = @ \cup {<<c, l>>}])

SpanRemoveClientLabel(s, c, l) == Ok([s EXCEPT !.labels = @ \ {<<c, l>>}])

SpanBlacklistClient(s, c) ==
    IF Known(s, c) THEN Ok([s EXCEPT !.clients[c].blacklisted = TRUE]) ELSE Error(s)

SpanRecordClientContact(s, c, stream) ==
    IF ~Known(s, c) THEN Error(s)
    ELSE Answer(Recorded(s, c, stream), {Len(s.contacts) + 1})

SpanStreamClientContacts(s, c) == Answer(s, {n \in Contacts(s) : s.contacts[n] = c})

SpanLinkMessagesToContact(s, n, ids) ==
    IF ids # {} /\ n \notin Contacts(s) THEN Error(s)
    ELSE Ok([s EXCEPT !.links = @ \cup ({n} \X ids)])

SpanRecordResourceUsageData(s, c) ==
    IF ~Known(s, c) THEN Error(s) ELSE Ok([s EXCEPT !.usage = Append(@, c)])

SpanFetchResourceUsageRecords(s, c, from, to) ==
    IF from >= to THEN Error(s)
    ELSE Answer(s, {n \in 1..Len(s.usage) : s.usage[n] = c /\ from <= n /\ n < to})

-----------------------------------------------------------------------------
(* The calls.                                                              *)

Init == /\ lite = Empty /\ my = Empty /\ span = Empty
        /\ answers = [d \in {"lite", "my", "span"} |-> Ok(Empty).res]
        /\ differs = "no"

\* A call on which spanner's answer or its tables are known to come out different.
Call(unlike, l, m, s) ==
    /\ differs' = IF differs = "tables" THEN "tables" ELSE unlike
    /\ lite' = l.db /\ my' = m.db /\ span' = s.db
    /\ answers' = [lite |-> l.res, my |-> m.res, span |-> s.res]

\* getClientInfo found no client, but two first contacts may race: the second one
\* writes the row of spanner again.
AddClient(c) ==
    Call(IF Known(lite, c) THEN "tables" ELSE "no",
         LiteAddClient(lite, c), MyAddClient(my, c), SpanAddClient(span, c))

\* A label the client reports and the client data lacked when it was read.
AddClientLabel(c, l) ==
    Call(IF <<c, l>> \in lite.labels THEN "answer" ELSE "no", LiteAddClientLabel(lite, c, l),
         MyAddClientLabel(my, c, l), SpanAddClientLabel(span, c, l))

RemoveClientLabel(c, l) ==
    Call("no", LiteRemoveClientLabel(lite, c, l), MyRemoveClientLabel(my, c, l),
         SpanRemoveClientLabel(span, c, l))

\* An administrator may name any client.
BlacklistClient(c) ==
    Call(IF Known(lite, c) THEN "no" ELSE "answer",
         LiteBlacklistClient(lite, c), MyBlacklistClient(my, c), SpanBlacklistClient(span, c))

RecordClientContact(c, stream) ==
    /\ Len(lite.contacts) < MaxContacts
    /\ Call("no", LiteRecordClientContact(lite, c, stream), MyRecordClientContact(my, c, stream),
            SpanRecordClientContact(span, c, stream))

\* The messages found for a contact; a stream may find one again.
LinkMessagesToContact(n, ids) ==
    Call(IF \E m \in ids : <<n, m>> \in lite.links THEN "tables" ELSE "no",
         LiteLinkMessagesToContact(lite, n, ids), MyLinkMessagesToContact(my, n, ids),
         SpanLinkMessagesToContact(span, n, ids))

RecordResourceUsageData(c) ==
    /\ Len(lite.usage) < MaxUsage
    /\ Call("no", LiteRecordResourceUsageData(lite, c), MyRecordResourceUsageData(my, c),
            SpanRecordResourceUsageData(span, c))

FetchResourceUsageRecords(c, from, to) ==
    Call(IF from = to THEN "answer" ELSE "no", LiteFetchResourceUsageRecords(lite, c, from, to),
         MyFetchResourceUsageRecords(my, c, from, to), SpanFetchResourceUsageRecords(span, c, from, to))

Read ==
    \/ \E ids \in {{}} \cup {{c} : c \in Clients} :
         Call("no", LiteListClients(lite, ids), MyListClients(my, ids), SpanListClients(span, ids))
    \/ \E b \in BOOLEAN, n \in 0..MaxContacts :
         Call("no", LiteStreamClientIds(lite, b, n), MyStreamClientIds(my, b, n),
              SpanStreamClientIds(span, b, n))
    \/ \E c \in Clients :
         Call("no", LiteGetClientData(lite, c), MyGetClientData(my, c), SpanGetClientData(span, c))
    \/ \E c \in Clients :
         Call("no", LiteStreamClientContacts(lite, c), MyStreamClientContacts(my, c),
              SpanStreamClientContacts(span, c))

Next ==
    \/ \E c \in Clients :
         \/ AddClient(c) \/ BlacklistClient(c) \/ RecordResourceUsageData(c)
         \/ \E l \in Labels : AddClientLabel(c, l) \/ RemoveClientLabel(c, l)
         \/ \E b \in BOOLEAN : RecordClientContact(c, b)
         \/ \E from, to \in 0..MaxUsage + 1 : FetchResourceUsageRecords(c, from, to)
    \/ \E n \in Contacts(lite), ids \in SUBSET Msgs : LinkMessagesToContact(n, ids)
    \/ Read

Spec == Init /\ [][Next]_vars

-----------------------------------------------------------------------------
TypeOK ==
    \A s \in {lite, my, span} :
        /\ DOMAIN s.clients \subseteq Clients
        /\ \A c \in DOMAIN s.clients : s.clients[c] \in Client
        /\ s.labels \subseteq Clients \X Labels
        /\ s.contacts \in Seq(Clients) /\ s.usage \in Seq(Clients)
        /\ s.links \subseteq Nat \X Msgs

(* After any history of calls sqlite and mysql hold the same clients,      *)
(* labels, contacts, links and usage records and answer alike, and so does *)
(* spanner until a client is added or a message linked a second time,      *)
(* which changes its tables where the others report an error.  Its answer  *)
(* alone differs for a label that is there already, for a client to        *)
(* blacklist that is not there, and for an empty interval of time.         *)
StoresAgree ==
    /\ lite = my /\ answers.lite = answers.my
    /\ differs # "tables" => my = span
    /\ differs = "no" => answers.my = answers.span
=============================================================================
