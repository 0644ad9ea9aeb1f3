------------------------------ MODULE ClientData -------------------------------
(***************************************************************************)
(* What the servers know of one client: its labels and whether it is       *)
(* blacklisted, in the datastore and in each server's cache                *)
(* (server/internal/cache), the system service's processing of ClientInfo  *)
(* messages (server/internal/services/system_service.go), and the admin's  *)
(* BlacklistClient.  A contact takes the data from the cache when it       *)
(* begins and keeps its copy until it ends (server/comms.go).  Time is     *)
(* counted in ticks.                                                       *)
(***************************************************************************)
EXTENDS Naturals, FiniteSets

CONSTANTS
    Servers, Readers, Workers, Home,  \* readers are contacts; Home gives the server of each
    Labels, Infos,      \* label sets of the ClientInfo messages the client sends
    None, MaxAge,
    MaxRead,            \* ticks a datastore read takes at most
    MaxLife,            \* ticks a contact, in particular a stream, lasts at most
    MaxFaults           \* bound: datastore calls that fail

VARIABLES
    labels, black,      \* the datastore
    cache,              \* by server: None, or a record of data, age, and stale
    rd,                 \* by reader: None, or what GetClientData returned, and since when
    conn,               \* by reader: None, or the data its contact goes by, and since when
    queue,              \* ClientInfo messages to be processed
    work,               \* by worker: None, or the message, where it is, and what it read
    faults,
    overlapped          \* a ClientInfo was begun while another was in work (history)

vars == <<labels, black, cache, rd, queue, work, faults, conn, overlapped>>

Data == [labels |-> labels, black |-> black]

\* An entry, and how many ticks ago what it says was last true.
Fresh(e) == e # None /\ e.age <= MaxAge

-----------------------------------------------------------------------------
(* The cache. *)

\* Variant: a hit makes the entry young again.
GetRefreshes(p) ==
    /\ rd[p] = None /\ conn[p] = None /\ Fresh(cache[Home[p]])
    /\ cache' = [cache EXCEPT ![Home[p]].age = 0]
    /\ UNCHANGED <<labels, black, rd, queue, work, faults, conn, overlapped>>

\* What a contact takes over: data that was last true stale ticks ago.
Copy(data, stale) == [data |-> data, stale |-> stale, age |-> 0]

\* Get: a contact begins with a hit, which changes nothing in the cache.
Get(p) ==
    /\ rd[p] = None /\ conn[p] = None /\ Fresh(cache[Home[p]])
    /\ conn' = [conn EXCEPT ![p] = Copy(cache[Home[p]].data, cache[Home[p]].stale)]
    /\ UNCHANGED <<labels, black, cache, rd, queue, work, faults, overlapped>>

\* GetOrRead misses and reads the datastore...
Read(p) ==
    /\ rd[p] = None /\ conn[p] = None /\ ~Fresh(cache[Home[p]])
    /\ rd' = [rd EXCEPT ![p] = [data |-> Data, took |-> 0, stale |-> 0]]
    /\ UNCHANGED <<labels, black, cache, queue, work, faults, conn, overlapped>>

\* ...and updates the cache with what it read.
Update(p) ==
    /\ rd[p] # None
    /\ cache' = [cache EXCEPT ![Home[p]] = [data |-> rd[p].data, age |-> 0, stale |-> rd[p].stale]]
    /\ rd' = [rd EXCEPT ![p] = None]
    /\ conn' = [conn EXCEPT ![p] = Copy(rd[p].data, rd[p].stale)]
    /\ UNCHANGED <<labels, black, queue, work, faults, overlapped>>

\* A contact goes by its copy as long as it lasts (info.Client), and ends.
ContactEnds(p) ==
    /\ conn[p] # None /\ conn' = [conn EXCEPT ![p] = None]
    /\ UNCHANGED <<labels, black, cache, rd, queue, work, faults, overlapped>>

\* expireLoop.
expire(s) ==
    /\ cache[s] # None /\ ~Fresh(cache[s])
    /\ cache' = [cache EXCEPT ![s] = None]
    /\ UNCHANGED <<labels, black, rd, queue, work, faults, conn, overlapped>>

\* The broadcast manager empties the cache of its server.
Clear(s) ==
    /\ cache[s] # None /\ cache' = [cache EXCEPT ![s] = None]
    /\ UNCHANGED <<labels, black, rd, queue, work, faults, conn, overlapped>>

Older(e) == [e EXCEPT !.age = IF @ > MaxAge THEN @ ELSE @ + 1,
                      !.stale = IF e.data = Data THEN 0 ELSE @ + 1]

Tick ==
    /\ \A p \in Readers : rd[p] # None => rd[p].took < MaxRead
    /\ \A p \in Readers : conn[p] # None => conn[p].age < MaxLife
    /\ \A s \in Servers : cache[s] # None => Fresh(cache[s])
    /\ cache' = [s \in Servers |-> IF cache[s] = None THEN None ELSE Older(cache[s])]
    /\ rd' = [p \in Readers |-> IF rd[p] = None THEN None
                ELSE [rd[p] EXCEPT !.took = @ + 1,
                                   !.stale = IF rd[p].data = Data THEN 0 ELSE @ + 1]]
    /\ conn' = [p \in Readers |-> IF conn[p] = None THEN None
                ELSE [conn[p] EXCEPT !.age = @ + 1,
                                     !.stale = IF conn[p].data = Data THEN 0 ELSE @ + 1]]
    /\ UNCHANGED <<labels, black, queue, work, faults, overlapped>>

-----------------------------------------------------------------------------
(* Writers. *)

BlacklistClient ==
    /\ ~black /\ black' = TRUE
    /\ UNCHANGED <<labels, cache, rd, queue, work, faults, conn, overlapped>>

\* processClientInfo reads the labels from the datastore...
GetClientData(w) ==
    /\ work[w] = None
    /\ \E m \in queue : /\ queue' = queue \ {m}
                        /\ work' = [work EXCEPT ![w] = [info |-> m, old |-> labels, done |-> FALSE]]
    /\ overlapped' = (overlapped \/ \E v \in Workers : work[v] # None)
    /\ UNCHANGED <<labels, black, cache, rd, faults, conn>>

ToRemove(w) == work[w].old \ work[w].info
ToAdd(w) == work[w].info \ work[w].old

\* ...removes those the message does not have, one call each...
RemoveClientLabel(w) ==
    /\ work[w] # None /\ ~work[w].done
    /\ \E l \in ToRemove(w) : /\ labels' = labels \ {l}
                              /\ work' = [work EXCEPT ![w].old = @ \ {l}]
    /\ UNCHANGED <<black, cache, rd, queue, faults, conn, overlapped>>

\* Variant: labels are added before the others are removed, and those stay.
AddClientLabelFirst(w) ==
    /\ work[w] # None /\ ~work[w].done
    /\ \/ \E l \in ToAdd(w) : /\ labels' = labels \cup {l}
                              /\ work' = [work EXCEPT ![w].old = @ \cup {l}]
       \/ /\ ToAdd(w) = {} /\ work' = [work EXCEPT ![w].done = TRUE] /\ UNCHANGED labels
    /\ UNCHANGED <<black, cache, rd, queue, faults, conn, overlapped>>

\* ...and adds those it did not find...
AddClientLabel(w) ==
    /\ work[w] # None /\ ~work[w].done /\ ToRemove(w) = {}
    /\ \/ \E l \in ToAdd(w) : /\ labels' = labels \cup {l}
                              /\ work' = [work EXCEPT ![w].old = @ \cup {l}]
       \/ /\ ToAdd(w) = {} /\ work' = [work EXCEPT ![w].done = TRUE] /\ UNCHANGED labels
    /\ UNCHANGED <<black, cache, rd, queue, faults, conn, overlapped>>

\* ...and forgets what its server has cached.
Forget(w) ==
    /\ work[w] # None /\ work[w].done
    /\ cache' = [cache EXCEPT ![Home[w]] = None]
    /\ work' = [work EXCEPT ![w] = None]
    /\ UNCHANGED <<labels, black, rd, queue, faults, conn, overlapped>>

\* A datastore call fails: a temporary error, and the message comes again.
Fails(w) ==
    /\ work[w] # None /\ ~work[w].done /\ faults < MaxFaults
    /\ queue' = queue \cup {work[w].info}
    /\ work' = [work EXCEPT ![w] = None] /\ faults' = faults + 1
    /\ UNCHANGED <<labels, black, cache, rd, conn, overlapped>>

-----------------------------------------------------------------------------

Init ==
    /\ labels = {} /\ black = FALSE
    /\ cache = [s \in Servers |-> None] /\ rd = [p \in Readers |-> None]
    /\ queue = Infos /\ work = [w \in Workers |-> None] /\ faults = 0
    /\ conn = [p \in Readers |-> None] /\ overlapped = FALSE

processClientInfo(w) ==
    GetClientData(w) \/ RemoveClientLabel(w) \/ AddClientLabel(w) \/ Forget(w) \/ Fails(w)

Next ==
    \/ \E s \in Servers : expire(s) \/ Clear(s)
    \/ \E p \in Readers : Get(p) \/ Read(p) \/ Update(p) \/ ContactEnds(p)
    \/ Tick \/ BlacklistClient
    \/ \E w \in Workers : processClientInfo(w)

Spec == Init /\ [][Next]_vars

-----------------------------------------------------------------------------

TypeOK ==
    /\ labels \subseteq Labels /\ black \in BOOLEAN /\ queue \subseteq Infos
    /\ \A s \in Servers : cache[s] = None \/ cache[s].age \in 0..(MaxAge + 1)
    /\ \A p \in Readers : /\ rd[p] = None \/ rd[p].took \in 0..MaxRead
                          /\ conn[p] = None \/ (rd[p] = None /\ conn[p].age \in 0..MaxLife)
    /\ faults \in 0..MaxFaults

\* Whatever writers and slow readers do, what a cache hands out was true at most
\* MaxAge and the duration of a read ago, and what a contact goes by at most as long
\* before it began: a client that is blacklisted is treated so by every contact that
\* begins after that time, and by none for longer than that and a stream's lifespan.
StaleBounded ==
    /\ \A s \in Servers : Fresh(cache[s]) => cache[s].data = Data \/ cache[s].stale <= MaxAge + MaxRead
    /\ \A p \in Readers : conn[p] # None =>
         conn[p].data = Data \/ conn[p].stale <= MaxAge + MaxRead + conn[p].age

\* Once nothing is being processed, the labels of a client are those of one
\* ClientInfo message, unless two of its messages were in work at the same time:
\* each of these adds and removes by what it has read, and a mixture may be left.
LabelsOfOne ==
    (queue = {} /\ \A w \in Workers : work[w] = None) => labels \in Infos \/ overlapped
=============================================================================
