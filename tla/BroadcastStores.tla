--------------------------- MODULE BroadcastStores ---------------------------
(***************************************************************************)
(* db.BroadcastStore three times: the tables of broadcasts, allocations    *)
(* and sent broadcasts of the sqlite, the mysql and the spanner datastore, *)
(* each transaction one step, every call applied to the three side by side *)
(* (Broadcasts composes the sqlite ones with the broadcast manager).       *)
(*                                                                         *)
(* Time has two ticks to a second: the spanner datastore compares whole    *)
(* seconds.  Labels and payloads are left out.                             *)
(***************************************************************************)
EXTENDS Naturals, FiniteSets, FiniteSetsExt, TLC

CONSTANTS
    Broadcasts, Clients,
    Limits,              \* message limits a broadcast is created with
    BroadcastUnlimited,  \* the limit that stands for none
    AllocDen,            \* an allocation takes 1/AllocDen of what is left
    Expiries,            \* expiration times of broadcasts
    MaxAllocs,           \* bound on the allocations of a behaviour
    MaxTime              \* bound on the clock

VARIABLES
    lite, my, span,  \* the tables
    answers,         \* what the last call returned, by datastore
    differs,         \* history: what spanner does differently, "tables" for good
    made,            \* allocation ids drawn so far
    now

vars == <<lite, my, span, answers, differs, made, now>>

Empty == [bcs |-> [b \in {} |-> {}], allocs |-> [a \in {} |-> {}], sentTo |-> {}, msgs |-> {}]

Answer(s, v) == [db |-> s, res |-> [ok |-> "ok", val |-> v]]
Ok(s) == Answer(s, {})
Error(s) == [db |-> s, res |-> [ok |-> "error", val |-> {}]]
ErrBroadcastDisabled(s) == [db |-> s, res |-> [ok |-> "disabled", val |-> {}]]

Known(s, b) == b \in DOMAIN s.bcs
NoAlloc == 0   \* the empty allocation id
Second(t) == t \div 2
LastSecond(t) == now < t /\ Second(now) = Second(t)

\* The size of a new allocation; an unlimited broadcast counts nothing.
ComputeBroadcastAllocation(limit, allocated, sent) ==
    LET a == Max({allocated, sent})
        share == (limit - a) \div AllocDen
    IN  IF limit = BroadcastUnlimited THEN limit
        ELSE IF a > limit THEN 0
        ELSE Min({limit - a, Max({share, 1})})

Released(allocated, limit) == IF allocated >= limit THEN allocated - limit ELSE 0

\* The message for the client is stored along with the pair that says so.
Sent(s, b, c) == [s EXCEPT !.sentTo = @ \cup {<<b, c>>}, !.msgs = @ \cup {<<b, c>>}]

AllocsOf(s, b) == {a \in DOMAIN s.allocs : s.allocs[a].of = b}
Without(f, S) == [x \in DOMAIN f \ S |-> f[x]]

\* What disabling broadcasts does to their rows and their allocations.
Disabled(s, bs) ==
    LET Total(b, F(_)) == MapThenSumSet(F, AllocsOf(s, b)) IN
    [s EXCEPT !.allocs = Without(@, UNION {AllocsOf(s, b) : b \in bs}),
              !.bcs = [b \in DOMAIN @ |->
                         IF b \notin bs THEN @[b]
                         ELSE [@[b] EXCEPT
                                 !.limit = 0,
                                 !.sent = @ + Total(b, LAMBDA a : s.allocs[a].sent),
                                 !.allocated = Released(@, Total(b, LAMBDA a : s.allocs[a].limit))]]]

\* What ending an allocation does to its row and the broadcast's.
CleanedUp(s, b, a, finalSent) ==
    [s EXCEPT !.allocs = Without(@, {a}),
              !.bcs[b].sent = @ + finalSent,
              !.bcs[b].allocated = IF s.allocs[a].limit = BroadcastUnlimited THEN @
                                   ELSE @ - s.allocs[a].limit]

Allocated(s, b, a, size) ==
    [s EXCEPT !.bcs[b].allocated = IF size = BroadcastUnlimited THEN @ ELSE @ + size,
              !.allocs = @ @@ (a :> [of |-> b, sent |-> 0, limit |-> size, expires |-> now + 2])]

-----------------------------------------------------------------------------
(* sqlite *)

LiteCreateBroadcast(s, b, limit, e, group) ==
    IF group \/ Known(s, b) THEN Error(s)
    ELSE Ok([s EXCEPT !.bcs = @ @@ (b :> [limit |-> limit, sent |-> 0, allocated |-> 0, expires |-> e])])

\* The statement is not SQL.
LiteSetBroadcastLimit(s, b, limit) == Error(s)

LiteDisableBroadcasts(s, bs) == Ok(Disabled(s, bs))

\* Variant: an allocation takes one message more than it has.
LiteSaveBroadcastMessageFull(s, b, c, a) ==
    IF a = NoAlloc
    THEN IF ~Known(s, b) \/ s.bcs[b].limit = 0 THEN ErrBroadcastDisabled(s)
         ELSE IF <<b, c>> \in s.sentTo THEN Error(s)
         ELSE Ok(Sent(s, b, c))
    ELSE IF a \notin AllocsOf(s, b) THEN ErrBroadcastDisabled(s)
         ELSE IF \/ s.allocs[a].sent > s.allocs[a].limit
                 \/ now > s.allocs[a].expires
                 \/ <<b, c>> \in s.sentTo THEN Error(s)
         ELSE Ok([Sent(s, b, c) EXCEPT !.allocs[a].sent = @ + 1])

LiteSaveBroadcastMessage(s, b, c, a) ==
    IF a = NoAlloc
    THEN IF ~Known(s, b) \/ s.bcs[b].limit = 0 THEN ErrBroadcastDisabled(s)
         ELSE IF <<b, c>> \in s.sentTo THEN Error(s)
         ELSE Ok(Sent(s, b, c))
    ELSE IF a \notin AllocsOf(s, b) THEN ErrBroadcastDisabled(s)
         ELSE IF \/ s.allocs[a].sent >= s.allocs[a].limit
                 \/ now > s.allocs[a].expires
                 \/ <<b, c>> \in s.sentTo THEN Error(s)
         ELSE Ok([Sent(s, b, c) EXCEPT !.allocs[a].sent = @ + 1])

LiteListActiveBroadcasts(s) ==
    Answer(s, {<<b, s.bcs[b].sent, s.bcs[b].limit>> :
                 b \in {d \in DOMAIN s.bcs : s.bcs[d].sent < s.bcs[d].limit /\ s.bcs[d].expires > now}})

LiteListSentBroadcasts(s, c) == Answer(s, {b \in Broadcasts : <<b, c>> \in s.sentTo})

LiteCreateAllocation(s, b, a) ==
    LET size == ComputeBroadcastAllocation(s.bcs[b].limit, s.bcs[b].allocated, s.bcs[b].sent)
    IN  IF ~Known(s, b) THEN Error(s)
        ELSE IF size = 0 THEN Ok(s)
        ELSE Answer(Allocated(s, b, a, size), {<<a, size>>})

LiteCleanupAllocation(s, b, a, finalSent) ==
    IF ~Known(s, b) THEN Error(s)
    ELSE IF a = NoAlloc THEN Ok([s EXCEPT !.bcs[b].sent = @ + finalSent])
    ELSE IF a \notin AllocsOf(s, b) THEN Ok(s)
    ELSE IF s.allocs[a].limit # BroadcastUnlimited /\ s.allocs[a].limit > s.bcs[b].allocated THEN Error(s)
    ELSE Ok(CleanedUp(s, b, a, finalSent))

-----------------------------------------------------------------------------
(* mysql *)

MyCreateBroadcast(s, b, limit, e, group) ==
    IF group \/ Known(s, b) THEN Error(s)
    ELSE Ok([s EXCEPT !.bcs = @ @@ (b :> [limit |-> limit, sent |-> 0, allocated |-> 0, expires |-> e])])

\* The statement is not SQL.
MySetBroadcastLimit(s, b, limit) == Error(s)

MyDisableBroadcasts(s, bs) == Ok(Disabled(s, bs))

MySaveBroadcastMessage(s, b, c, a) ==
    IF a = NoAlloc
    THEN IF ~Known(s, b) \/ s.bcs[b].limit = 0 THEN ErrBroadcastDisabled(s)
         ELSE IF <<b, c>> \in s.sentTo THEN Error(s)
         ELSE Ok(Sent(s, b, c))
    ELSE IF a \notin AllocsOf(s, b) THEN ErrBroadcastDisabled(s)
         ELSE IF \/ s.allocs[a].sent >= s.allocs[a].limit
                 \/ now > s.allocs[a].expires
                 \/ <<b, c>> \in s.sentTo THEN Error(s)
         ELSE Ok([Sent(s, b, c) EXCEPT !.allocs[a].sent = @ + 1])

MyListActiveBroadcasts(s) ==
    Answer(s, {<<b, s.bcs[b].sent, s.bcs[b].limit>> :
                 b \in {d \in DOMAIN s.bcs : s.bcs[d].sent < s.bcs[d].limit /\ s.bcs[d].expires > now}})

MyListSentBroadcasts(s, c) == Answer(s, {b \in Broadcasts : <<b, c>> \in s.sentTo})

MyCreateAllocation(s, b, a) ==
    LET size == ComputeBroadcastAllocation(s.bcs[b].limit, s.bcs[b].allocated, s.bcs[b].sent)
    IN  IF ~Known(s, b) THEN Error(s)
        ELSE IF size = 0 THEN Ok(s)
        ELSE Answer(Allocated(s, b, a, size), {<<a, size>>})

MyCleanupAllocation(s, b, a, finalSent) ==
    IF ~Known(s, b) THEN Error(s)
    ELSE IF a = NoAlloc THEN Ok([s EXCEPT !.bcs[b].sent = @ + finalSent])
    ELSE IF a \notin AllocsOf(s, b) THEN Ok(s)
    ELSE IF s.allocs[a].limit # BroadcastUnlimited /\ s.allocs[a].limit > s.bcs[b].allocated THEN Error(s)
    ELSE Ok(CleanedUp(s, b, a, finalSent))

-----------------------------------------------------------------------------
(* spanner: InsertOrUpdate where the others insert. *)

SpanCreateBroadcast(s, b, limit, e, group) ==
    IF group THEN Error(s)
    ELSE Ok([s EXCEPT !.bcs = (b :> [limit |-> limit, sent |-> 0, allocated |-> 0, expires |-> e]) @@ @])

SpanSetBroadcastLimit(s, b, limit) ==
    IF Known(s, b) THEN Ok([s EXCEPT !.bcs[b].limit = limit]) ELSE Error(s)

SpanDisableBroadcasts(s, bs) == Ok(Disabled(s, bs))

SpanSaveBroadcastMessage(s, b, c, a) ==
    IF a = NoAlloc
    THEN IF ~Known(s, b) \/ s.bcs[b].limit = 0 THEN ErrBroadcastDisabled(s) ELSE Ok(Sent(s, b, c))
    ELSE IF a \notin AllocsOf(s, b) THEN ErrBroadcastDisabled(s)
         ELSE IF s.allocs[a].sent >= s.allocs[a].limit \/ now > s.allocs[a].expires THEN Error(s)
         ELSE Ok([Sent(s, b, c) EXCEPT !.allocs[a].sent = @ + 1])

SpanListActiveBroadcasts(s) ==
    Answer(s, {<<b, s.bcs[b].sent, s.bcs[b].limit>> :
                 b \in {d \in DOMAIN s.bcs : /\ s.bcs[d].sent < s.bcs[d].limit
                                             /\ Second(s.bcs[d].expires) > Second(now)}})

SpanListSentBroadcasts(s, c) == Answer(s, {b \in Broadcasts : <<b, c>> \in s.sentTo})

SpanCreateAllocation(s, b, a) ==
    LET size == ComputeBroadcastAllocation(s.bcs[b].limit, s.bcs[b].allocated, s.bcs[b].sent)
    IN  IF ~Known(s, b) THEN Error(s)
        ELSE IF size = 0 THEN Ok(s)
        ELSE Answer(Allocated(s, b, a, size), {<<a, size>>})

SpanCleanupAllocation(s, b, a, finalSent) ==
    IF ~Known(s, b) THEN Error(s)
    ELSE IF a = NoAlloc THEN Ok([s EXCEPT !.bcs[b].sent = @ + finalSent])
    ELSE IF a \notin AllocsOf(s, b) THEN Ok(s)
    ELSE IF s.allocs[a].limit # BroadcastUnlimited /\ s.allocs[a].limit > s.bcs[b].allocated THEN Error(s)
    ELSE Ok(CleanedUp(s, b, a, finalSent))

-----------------------------------------------------------------------------
(* The calls. *)

Init == /\ lite = Empty /\ my = Empty /\ span = Empty
        /\ answers = [d \in {"lite", "my", "span"} |-> Ok(Empty).res]
        /\ differs = "no" /\ made = 0 /\ now = 0

\* A call on which spanner's answer or its tables are known to come out different.
Call(unlike, l, m, s) ==
    /\ differs' = IF differs = "tables" THEN "tables" ELSE unlike
    /\ lite' = l.db /\ my' = m.db /\ span' = s.db
    /\ answers' = [lite |-> l.res, my |-> m.res, span |-> s.res]

\* An administrator's request may be repeated, or name any id.
CreateBroadcast(b, limit, e, group) ==
    /\ Call(IF Known(lite, b) /\ ~group THEN "tables" ELSE "no",
            LiteCreateBroadcast(lite, b, limit, e, group), MyCreateBroadcast(my, b, limit, e, group),
            SpanCreateBroadcast(span, b, limit, e, group))
    /\ UNCHANGED <<made, now>>

\* Nothing in the server calls it.
SetBroadcastLimit(b, limit) ==
    /\ Call(IF Known(lite, b) THEN "tables" ELSE "no", LiteSetBroadcastLimit(lite, b, limit), MySetBroadcastLimit(my, b, limit),
            SpanSetBroadcastLimit(span, b, limit))
    /\ UNCHANGED <<made, now>>

DisableBroadcasts(bs) ==
    /\ Call("no", LiteDisableBroadcasts(lite, bs), MyDisableBroadcasts(my, bs), SpanDisableBroadcasts(span, bs))
    /\ UNCHANGED <<made, now>>

\* The manager has seen that the client did not get the broadcast yet; another
\* server may have sent it since.
SaveBroadcastMessage(b, c, a) ==
    /\ Call(IF <<b, c>> \in lite.sentTo THEN "tables" ELSE "no", LiteSaveBroadcastMessage(lite, b, c, a), MySaveBroadcastMessage(my, b, c, a),
            SpanSaveBroadcastMessage(span, b, c, a))
    /\ UNCHANGED <<made, now>>

CreateAllocation(b) ==
    /\ made < MaxAllocs /\ made' = made + 1
    /\ Call("no", LiteCreateAllocation(lite, b, made'), MyCreateAllocation(my, b, made'),
            SpanCreateAllocation(span, b, made'))
    /\ UNCHANGED now

\* The manager reports its own count: what was saved under the allocation, or
\* what it sent of an unlimited broadcast.
CleanupAllocation(b, a, finalSent) ==
    /\ IF a \in DOMAIN lite.allocs THEN finalSent = lite.allocs[a].sent
       ELSE Known(lite, b) => lite.bcs[b].sent + finalSent <= Cardinality(Clients)
    /\ Call("no", LiteCleanupAllocation(lite, b, a, finalSent), MyCleanupAllocation(my, b, a, finalSent),
            SpanCleanupAllocation(span, b, a, finalSent))
    /\ UNCHANGED <<made, now>>

Read ==
    /\ \/ Call(IF \E b \in DOMAIN lite.bcs : LastSecond(lite.bcs[b].expires) THEN "answer" ELSE "no",
               LiteListActiveBroadcasts(lite), MyListActiveBroadcasts(my), SpanListActiveBroadcasts(span))
       \/ \E c \in Clients :
            Call("no", LiteListSentBroadcasts(lite, c), MyListSentBroadcasts(my, c), SpanListSentBroadcasts(span, c))
    /\ UNCHANGED <<made, now>>

Tick == now < MaxTime /\ now' = now + 1 /\ UNCHANGED <<lite, my, span, answers, differs, made>>

\* Once spanner's tables differ there is nothing left to compare: the call that parted
\* them was refused by sqlite and mysql, which go on as if it had not been made.
Next ==
    /\ differs # "tables"
    /\ \/ \E b \in Broadcasts :
            \/ \E l \in Limits, e \in Expiries, g \in BOOLEAN : CreateBroadcast(b, l, e, g)
            \/ \E l \in Limits : SetBroadcastLimit(b, l)
            \/ DisableBroadcasts({b}) \/ CreateAllocation(b)
            \/ \E a \in 0..made : \/ \E n \in 0..Cardinality(Clients) : CleanupAllocation(b, a, n)
                               \/ \E c \in Clients : SaveBroadcastMessage(b, c, a)
       \/ Read \/ Tick

Spec == Init /\ [][Next]_vars

-----------------------------------------------------------------------------
(* After any history of calls sqlite and mysql hold the same broadcasts,   *)
(* allocations and sent messages and gave the same answer,                 *)
(* ErrBroadcastDisabled included, and so does spanner until a broadcast is *)
(* created or its message to a client saved a second time, or a limit set, *)
(* which changes its tables where the others report an error.  Its list of *)
(* active broadcasts leaves one out in the second in which it expires.     *)
StoresAgree ==
    /\ lite = my /\ answers.lite = answers.my
    /\ differs # "tables" => my = span
    /\ differs = "no" => answers.my = answers.span
=============================================================================
