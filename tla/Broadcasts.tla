----------------------------- MODULE Broadcasts -----------------------------
(***************************************************************************)
(* One broadcast and the servers that send it: the broadcast manager       *)
(* (server/internal/broadcasts), which sends under allocations it reserves *)
(* from the broadcast's limit, over the tables of db.BroadcastStore (the   *)
(* sqlite datastore, whose lock makes transactions serial).  Contacts of   *)
(* clients, the refresh loop of every manager, an admin who disables the   *)
(* broadcast, crashes and clean shutdowns interleave at every transaction  *)
(* and at every access to a manager's shared state.                        *)
(*                                                                         *)
(* Labels and the payload are left out: every client is eligible.          *)
(***************************************************************************)
EXTENDS Integers, FiniteSets

LOCAL INSTANCE TLC

CONSTANTS
    Servers,
    Clients,
    Limits,              \* message limits the broadcast can be created with
    BroadcastUnlimited,  \* the limit that stands for none
    AllocDen,            \* an allocation takes 1/AllocDen of what is left
    MaxInfos,            \* bound: bInfos the managers create in a behaviour
    None

ASSUME BroadcastsAssumption ==
    /\ IsFiniteSet(Clients) /\ IsFiniteSet(Servers)
    /\ BroadcastUnlimited \in Nat \ {0}
    /\ Limits \subseteq 1..BroadcastUnlimited
    /\ AllocDen \in Nat \ {0}
    /\ MaxInfos \in Nat
    /\ None \notin 1..MaxInfos

Infos == 1..MaxInfos
Contacts == Clients \X Servers

VARIABLES
    granted,  \* the limit the broadcast was created with
    bc,       \* the row of broadcasts: limit, sent, allocated
    alloc,    \* broadcast_allocations: present, sent, limit
    expiry,   \* of an allocation: "fresh", "near" its end, or "past" it
    sentTo,   \* broadcast_sent
    msgs,     \* number of messages the broadcast has produced, by client
    local,    \* bInfo.sent, the manager's own count
    made,     \* number of bInfos created so far
    info,     \* m.infos: the bInfo a server sends under, or None
    phase,    \* progress of the refresh loop of a server
    keep,     \* its findCurrentAllocs found the current bInfo usable
    listed,   \* the limit of the broadcast it read, 0 if not active
    fresh,    \* the bInfo it has created and not yet published, or None
    dead,     \* bInfos it has to clean up
    pc,       \* progress of a contact: "idle", "listed" or "using"
    uses      \* the bInfo a contact uses, or None

tables == <<granted, bc, alloc, sentTo, msgs>>
contacts == <<pc, uses>>
refresh == <<phase, keep, listed, fresh, dead>>
vars == <<tables, expiry, local, made, info, refresh, contacts>>

\* The sum of f over S, as the number of units that the elements of S hold.
Units(f, S) == UNION {{i} \X (1..f[i]) : i \in S}
Total(f, S) == Cardinality(Units(f, S))

\* The allocations in the datastore, what they hold and what was sent under them.
Present == {i \in Infos : alloc[i].present}
TotalSent == Total([i \in Infos |-> alloc[i].sent], Present)
TotalLimit == Total([i \in Infos |-> alloc[i].limit], Present)

InUse(i) == {k \in Contacts : uses[k] = i}

Init ==
    /\ granted \in Limits
    /\ bc = [limit |-> granted, sent |-> 0, allocated |-> 0]
    /\ alloc = [i \in Infos |-> [present |-> FALSE, sent |-> 0, limit |-> 0]]
    /\ expiry = [i \in Infos |-> "fresh"]
    /\ sentTo = {} /\ msgs = [c \in Clients |-> 0]
    /\ local = [i \in Infos |-> 0] /\ made = 0
    /\ info = [s \in Servers |-> None]
    /\ phase = [s \in Servers |-> "idle"]
    /\ keep = [s \in Servers |-> FALSE]
    /\ listed = [s \in Servers |-> 0]
    /\ fresh = [s \in Servers |-> None]
    /\ dead = [s \in Servers |-> {}]
    /\ pc = [k \in Contacts |-> "idle"]
    /\ uses = [k \in Contacts |-> None]

-----------------------------------------------------------------------------
(* MakeBroadcastMessagesForClient. *)

\* The broadcasts already sent to the client are read before anything else.
ListSentBroadcasts(c, s) ==
    /\ pc[<<c, s>>] = "idle"
    /\ c \notin sentTo
    /\ pc' = [pc EXCEPT ![<<c, s>>] = "listed"]
    /\ UNCHANGED <<tables, expiry, local, made, info, refresh, uses>>

\* limitedAtomicIncrement of the count of a bInfo whose allocation has room.
HasRoom(i) == alloc[i].limit = BroadcastUnlimited \/ local[i] < alloc[i].limit

\* Under the read lock: count the message against the current bInfo, if that
\* is not expired or full, and hold on to the bInfo.
UseInfo(c, s) ==
    /\ pc[<<c, s>>] = "listed"
    /\ IF info[s] # None /\ expiry[info[s]] # "past" /\ HasRoom(info[s])
       THEN /\ local' = [local EXCEPT ![info[s]] = @ + 1]
            /\ pc' = [pc EXCEPT ![<<c, s>>] = "using"]
            /\ uses' = [uses EXCEPT ![<<c, s>>] = info[s]]
       ELSE /\ pc' = [pc EXCEPT ![<<c, s>>] = "idle"]
            /\ UNCHANGED <<local, uses>>
    /\ UNCHANGED <<tables, expiry, made, info, refresh>>

\* Variant: the transaction does not find out about disabling.
CanSaveDisabled(i, c) ==
    /\ \/ alloc[i].limit = BroadcastUnlimited
       \/ alloc[i].sent < alloc[i].limit /\ expiry[i] # "past"
    /\ c \notin sentTo

\* Variant: broadcast_sent has no primary key.
CanSaveAgain(i, c) ==
    IF alloc[i].limit = BroadcastUnlimited THEN bc.limit # 0
    ELSE alloc[i].present /\ alloc[i].sent < alloc[i].limit /\ expiry[i] # "past"

\* The conditions under which the transaction of SaveBroadcastMessage commits:
\* the broadcast is not disabled or its allocation is there, has room and has
\* not expired, and the pair of broadcast and client is new.
CanSave(i, c) ==
    /\ IF alloc[i].limit = BroadcastUnlimited THEN bc.limit # 0
       ELSE alloc[i].present /\ alloc[i].sent < alloc[i].limit /\ expiry[i] # "past"
    /\ c \notin sentTo

\* Variant: the bInfo is not released.
ReleaseNothing(c, s) ==
    /\ pc' = [pc EXCEPT ![<<c, s>>] = "idle"]
    /\ UNCHANGED uses

\* useCount.Done.
Release(c, s) ==
    /\ pc' = [pc EXCEPT ![<<c, s>>] = "idle"]
    /\ uses' = [uses EXCEPT ![<<c, s>>] = None]

SaveBroadcastMessage(c, s) ==
    LET i == uses[<<c, s>>] IN
    /\ pc[<<c, s>>] = "using" /\ CanSave(i, c)
    /\ sentTo' = sentTo \cup {c}
    /\ msgs' = [msgs EXCEPT ![c] = @ + 1]
    /\ alloc' = IF alloc[i].present THEN [alloc EXCEPT ![i].sent = @ + 1] ELSE alloc
    /\ Release(c, s)
    /\ UNCHANGED <<granted, bc, expiry, local, made, info, refresh>>

\* Variant: a failed save stays counted.
SaveFailsCounted(c, s) ==
    /\ pc[<<c, s>>] = "using"
    /\ Release(c, s)
    /\ UNCHANGED <<tables, expiry, local, made, info, refresh>>

\* The transaction is refused, or fails for another reason: take the count back.
SaveFails(c, s) ==
    LET i == uses[<<c, s>>] IN
    /\ pc[<<c, s>>] = "using"
    /\ local' = [local EXCEPT ![i] = @ - 1]
    /\ Release(c, s)
    /\ UNCHANGED <<tables, expiry, made, info, refresh>>

-----------------------------------------------------------------------------
(* refreshInfo, step by step. *)

\* Keep a bInfo that has room and lasts until the next refresh.
findCurrentAllocs(s) ==
    /\ phase[s] = "idle"
    /\ phase' = [phase EXCEPT ![s] = "found"]
    /\ keep' = [keep EXCEPT ![s] = /\ info[s] # None
                                   /\ HasRoom(info[s])
                                   /\ expiry[info[s]] = "fresh"]
    /\ UNCHANGED <<tables, expiry, local, made, info, listed, fresh, dead, contacts>>

ListActiveBroadcasts(s) ==
    /\ phase[s] = "found"
    /\ phase' = [phase EXCEPT ![s] = "listed"]
    /\ listed' = [listed EXCEPT ![s] = IF bc.sent < bc.limit THEN bc.limit ELSE 0]
    /\ UNCHANGED <<tables, expiry, local, made, info, keep, fresh, dead, contacts>>

\* Variant: without what other servers hold.
ComputeBroadcastAllocationOfUnsent(limit, allocated, sent) ==
    LET share == (limit - sent) \div AllocDen
    IN  IF sent > limit THEN 0
        ELSE IF share = 0 THEN (IF limit - sent = 0 THEN 0 ELSE 1)
        ELSE share

\* The size of a new allocation (db.ComputeBroadcastAllocation).
ComputeBroadcastAllocation(limit, allocated, sent) ==
    LET a == IF sent > allocated THEN sent ELSE allocated
        share == (limit - a) \div AllocDen
    IN  IF a > limit THEN 0
        ELSE IF share = 0 THEN (IF limit - a = 0 THEN 0 ELSE 1)
        ELSE share

\* A bInfo of the given size; one for an unlimited broadcast has no allocation.
NewInfo(s, size) ==
    /\ made < MaxInfos
    /\ made' = made + 1
    /\ alloc' = [alloc EXCEPT ![made + 1] =
                   [present |-> size # BroadcastUnlimited, sent |-> 0, limit |-> size]]
    /\ fresh' = [fresh EXCEPT ![s] = made + 1]

\* Reserve what the refreshed bInfo needs, if there is anything left to reserve.
CreateAllocation(s) ==
    LET size == ComputeBroadcastAllocation(bc.limit, bc.allocated, bc.sent) IN
    /\ phase[s] = "listed"
    /\ phase' = [phase EXCEPT ![s] = "created"]
    /\ IF listed[s] = 0 \/ keep[s] THEN UNCHANGED <<bc, alloc, made, fresh>>
       ELSE IF listed[s] = BroadcastUnlimited
       THEN NewInfo(s, BroadcastUnlimited) /\ UNCHANGED bc
       ELSE IF size = 0 THEN UNCHANGED <<bc, alloc, made, fresh>>
       ELSE /\ NewInfo(s, size)
            /\ bc' = [bc EXCEPT !.allocated = @ + size]
    /\ UNCHANGED <<granted, expiry, sentTo, msgs, local, info, keep, listed, dead, contacts>>

\* CreateAllocation fails and the broadcast is skipped, or ListActiveBroadcasts
\* fails and the refresh is given up.
RefreshFails(s) ==
    /\ \/ /\ phase[s] = "found"
          /\ phase' = [phase EXCEPT ![s] = "idle"]
          /\ keep' = [keep EXCEPT ![s] = FALSE]
       \/ /\ phase[s] = "listed" /\ listed[s] \notin {0, BroadcastUnlimited} /\ ~keep[s]
          /\ phase' = [phase EXCEPT ![s] = "created"]
          /\ UNCHANGED keep
    /\ UNCHANGED <<tables, expiry, local, made, info, listed, fresh, dead, contacts>>

\* Under the write lock: replace what is not kept; the replaced one is dead.
updateAllocs(s) ==
    /\ phase[s] = "created"
    /\ phase' = [phase EXCEPT ![s] = "cleaning"]
    /\ IF keep[s] /\ listed[s] # 0 THEN UNCHANGED <<info, dead>>
       ELSE /\ info' = [info EXCEPT ![s] = fresh[s]]
            /\ dead' = [dead EXCEPT ![s] = IF info[s] = None THEN {} ELSE {info[s]}]
    /\ fresh' = [fresh EXCEPT ![s] = None]
    /\ UNCHANGED <<tables, expiry, local, made, keep, listed, contacts>>

\* Once nobody uses a dead bInfo: account for what was sent under it and drop
\* its allocation.  An allocation that is gone was accounted for by the admin's
\* transaction; one that is larger than all that is allocated is left behind.
CleanupAllocation(s, i) ==
    /\ phase[s] = "cleaning" /\ i \in dead[s] /\ InUse(i) = {}
    /\ IF alloc[i].limit = BroadcastUnlimited
       THEN bc' = [bc EXCEPT !.sent = @ + local[i]] /\ UNCHANGED alloc
       ELSE IF ~alloc[i].present \/ alloc[i].limit > bc.allocated THEN UNCHANGED <<bc, alloc>>
       ELSE /\ bc' = [bc EXCEPT !.sent = @ + local[i], !.allocated = @ - alloc[i].limit]
            /\ alloc' = [alloc EXCEPT ![i].present = FALSE]
    /\ dead' = [dead EXCEPT ![s] = @ \ {i}]
    /\ UNCHANGED <<granted, expiry, sentTo, msgs, local, made, info, phase, keep, listed, fresh, contacts>>

\* The transaction fails; nobody tries again.
CleanupFails(s, i) ==
    /\ phase[s] = "cleaning" /\ i \in dead[s] /\ InUse(i) = {}
    /\ dead' = [dead EXCEPT ![s] = @ \ {i}]
    /\ UNCHANGED <<tables, expiry, local, made, info, phase, keep, listed, fresh, contacts>>

RefreshDone(s) ==
    /\ phase[s] = "cleaning" /\ dead[s] = {}
    /\ phase' = [phase EXCEPT ![s] = "idle"]
    /\ keep' = [keep EXCEPT ![s] = FALSE]
    /\ listed' = [listed EXCEPT ![s] = 0]
    /\ UNCHANGED <<tables, expiry, local, made, info, fresh, dead, contacts>>

-----------------------------------------------------------------------------

\* Manager.Close, after the communicators have stopped; then the server starts
\* again with an empty manager.
Close(s) ==
    /\ phase[s] = "idle" /\ info[s] # None
    /\ \A c \in Clients : pc[<<c, s>>] = "idle"
    /\ phase' = [phase EXCEPT ![s] = "cleaning"]
    /\ dead' = [dead EXCEPT ![s] = {info[s]}]
    /\ info' = [info EXCEPT ![s] = None]
    /\ UNCHANGED <<tables, expiry, local, made, keep, listed, fresh, contacts>>

\* A server stops anywhere and starts again: its allocations stay behind.
Crash(s) ==
    /\ info' = [info EXCEPT ![s] = None]
    /\ phase' = [phase EXCEPT ![s] = "idle"]
    /\ fresh' = [fresh EXCEPT ![s] = None]
    /\ dead' = [dead EXCEPT ![s] = {}]
    /\ keep' = [keep EXCEPT ![s] = FALSE]
    /\ listed' = [listed EXCEPT ![s] = 0]
    /\ pc' = [k \in Contacts |-> IF k[2] = s THEN "idle" ELSE pc[k]]
    /\ uses' = [k \in Contacts |-> IF k[2] = s THEN None ELSE uses[k]]
    /\ UNCHANGED <<tables, expiry, local, made>>

\* Variant: the allocations are dropped without a trace in the totals.
DisableBroadcastsKeepsTotals ==
    /\ bc' = [bc EXCEPT !.limit = 0]
    /\ alloc' = [i \in Infos |-> [alloc[i] EXCEPT !.present = FALSE]]
    /\ UNCHANGED <<granted, sentTo, msgs, expiry, local, made, info, refresh, contacts>>

\* The admin's DisableBroadcasts (tryDisableBroadcasts): one transaction.
DisableBroadcasts ==
    /\ bc' = [limit |-> 0,
              sent |-> bc.sent + TotalSent,
              allocated |-> IF bc.allocated >= TotalLimit
                            THEN bc.allocated - TotalLimit ELSE 0]
    /\ alloc' = [i \in Infos |-> [alloc[i] EXCEPT !.present = FALSE]]
    /\ UNCHANGED <<granted, sentTo, msgs, expiry, local, made, info, refresh, contacts>>

\* Time passes for an allocation, not for the bInfo of an unlimited broadcast.
Tick(i) ==
    /\ alloc[i].present
    /\ \/ expiry[i] = "fresh" /\ expiry' = [expiry EXCEPT ![i] = "near"]
       \/ expiry[i] = "near" /\ expiry' = [expiry EXCEPT ![i] = "past"]
    /\ UNCHANGED <<tables, local, made, info, refresh, contacts>>

Refresh(s) ==
    \/ findCurrentAllocs(s) \/ ListActiveBroadcasts(s) \/ CreateAllocation(s)
    \/ RefreshFails(s) \/ updateAllocs(s) \/ RefreshDone(s)
    \/ \E i \in Infos : CleanupAllocation(s, i) \/ CleanupFails(s, i)

Send(c, s) ==
    \/ ListSentBroadcasts(c, s) \/ UseInfo(c, s)
    \/ SaveBroadcastMessage(c, s) \/ SaveFails(c, s)

Next ==
    \/ \E c \in Clients, s \in Servers : Send(c, s)
    \/ \E s \in Servers : Refresh(s) \/ Close(s) \/ Crash(s)
    \/ \E i \in Infos : Tick(i)
    \/ DisableBroadcasts

Spec == Init /\ [][Next]_vars

\* No action or property names a server or a client.
Symmetry == Permutations(Servers) \cup Permutations(Clients)

-----------------------------------------------------------------------------

TypeOK ==
    /\ granted \in Limits
    /\ bc \in [limit : {0, granted}, sent : Nat, allocated : Nat]
    /\ alloc \in [Infos -> [present : BOOLEAN, sent : Nat, limit : Nat]]
    /\ expiry \in [Infos -> {"fresh", "near", "past"}]
    /\ sentTo \subseteq Clients /\ msgs \in [Clients -> Nat]
    /\ local \in [Infos -> Nat] /\ made \in 0..MaxInfos
    /\ info \in [Servers -> Infos \cup {None}]
    /\ phase \in [Servers -> {"idle", "found", "listed", "created", "cleaning"}]
    /\ keep \in [Servers -> BOOLEAN] /\ listed \in [Servers -> {0, granted}]
    /\ fresh \in [Servers -> Infos \cup {None}]
    /\ dead \in [Servers -> SUBSET Infos]
    /\ pc \in [Contacts -> {"idle", "listed", "using"}]
    /\ uses \in [Contacts -> Infos \cup {None}]

\* No client gets a message of the broadcast twice, although every contact
\* decides on a list of sent broadcasts that may be stale (broadcasts.go:137)
\* and two servers may be serving the same client.
NoDuplicateBroadcast == \A c \in Clients : msgs[c] <= 1

\* `allocated' is exactly what the allocations in the datastore hold, so that a
\* cleanup never finds its allocation larger than the total (store.go:324).
AllocatedIsSum == bc.allocated = TotalLimit

\* A manager's own count is what the datastore has recorded for the allocation
\* plus the contacts that are still using it; the final count it reports once
\* they are gone (broadcasts.go:317-319) is therefore the true one.
LocalCountExact ==
    \A s \in Servers : \A i \in ({info[s]} \ {None}) \cup dead[s] :
        alloc[i].present => local[i] = alloc[i].sent + Cardinality(InUse(i))

\* Every message is accounted for exactly once, by the broadcast or by an
\* allocation that is still there, across cleanups, expiry, disabling and
\* crashes.
SentAccounted ==
    granted # BroadcastUnlimited =>
        Cardinality(sentTo) = bc.sent + TotalSent

\* What the limit does guarantee: allocations never exceed it together, and the
\* broadcast reaches fewer than twice as many clients as it allows.
OvershootBounded ==
    granted # BroadcastUnlimited =>
        bc.allocated <= granted /\ Cardinality(sentTo) < 2 * granted

\* A disabled broadcast is not sent to anybody any more, not even by a manager
\* that still holds an allocation or was about to save a message.
DisabledStopsSending == [][bc.limit = 0 => sentTo' = sentTo]_vars

\* An unlimited broadcast keeps no allocations; its managers' counts reach the
\* datastore only when they clean up.  What it records never exceeds what was
\* sent, although crashes lose counts.
SentNeverOverstated == bc.sent <= Cardinality(sentTo)

\* The books of the datastore and of the managers always tally with each other
\* and with what was really sent: every count above is exact, in every state.
AccountsExact ==
    TypeOK /\ AllocatedIsSum /\ LocalCountExact /\ SentAccounted /\ SentNeverOverstated

\* The limit the admin gave is a limit: CreateAllocation is documented to reserve
\* from the unallocated limit and to return nil once nothing is left
\* (store.go:375-377), so no more clients than that get the broadcast.
LimitRespected == granted # BroadcastUnlimited => Cardinality(sentTo) <= granted

-----------------------------------------------------------------------------
(***************************************************************************)
(* Fairness: every goroutine of a manager that can run does, and so does a *)
(* contact that uses a bInfo: its transaction ends one way or another.     *)
(***************************************************************************)
Fairness ==
    /\ \A s \in Servers : WF_vars(Refresh(s))
    /\ \A c \in Clients, s \in Servers : WF_vars(SaveBroadcastMessage(c, s) \/ SaveFails(c, s))

Ending(s) == phase[s] = "cleaning"
Ended(s) == phase[s] = "idle"

\* A refresh comes to an end: the contacts it waits for release the bInfo
\* (broadcasts.go:174-176) and no new ones can take it.
RefreshTerminates == \A s \in Servers : Ending(s) ~> Ended(s)
=============================================================================
