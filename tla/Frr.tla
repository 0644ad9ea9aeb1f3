---------------------------------- MODULE Frr ----------------------------------
(***************************************************************************)
(* The FRR services (inttesting/frr): a master asks clients, by broadcast  *)
(* or one by one, for traffic or for a file download; the client service   *)
(* answers a traffic request with a number of responses of its own         *)
(* choosing (jitter) and marks the last one; the server service forwards   *)
(* each response to the master, which records it and tells a watcher when  *)
(* a request is complete.  Fleetspeak in between may hand a request to a   *)
(* client again, and retries a response whose processing failed, also when *)
(* only the master's reply was lost.                                       *)
(***************************************************************************)
EXTENDS Integers, FiniteSets, Sequences

CONSTANTS
    Clients, None,
    NumMessages, MaxJitter,  \* a client answers with NumMessages + 0..MaxJitter
    Limit,                   \* CreateBroadcastRequest's limit
    Cap,                     \* capacity of the completed channel
    MaxCopies,               \* bound: times a request reaches a client
    MaxLost,                 \* bound: replies of the master lost, by client
    MayTimeOut,              \* calls to the master run into their context
    MayStop                  \* client services stop

VARIABLES
    traffic, file,   \* how far the two hunts are: "no", "saved", "ok", "failed"
    copies,          \* by client, times the traffic request reached it
    asked,           \* clients the file request reached
    runs,            \* responders: records of client, number, cnt, next
    stopped,         \* clients whose service has stopped
    net,             \* responses on their way to the master
    requests,        \* by client, the master's requestInfo: responses and fin
    downloads,       \* by client, whether fileDownloads has the file
    calls,           \* by client, the response whose call holds ci.lock, or None
    completed,       \* the completed channel
    told,            \* notifications the watcher has read (history)
    lost             \* by client, replies that were lost after a notification (history)

vars == <<traffic, file, copies, asked, runs, stopped, net, requests, downloads, calls,
          completed, told, lost>>

-----------------------------------------------------------------------------
(* The master creates hunts. *)

\* CreateBroadcast: saved, refused, or saved with the answer lost, in which case
\* the same broadcast is sent again and refused as a duplicate.
CreateBroadcastRequest ==
    /\ traffic = "no"
    /\ traffic' \in {"ok", "failed"} \cup (IF MayTimeOut THEN {"saved"} ELSE {})
    /\ UNCHANGED <<file, copies, asked, runs, stopped, net, requests, downloads, calls, completed, told, lost>>

Retry ==
    /\ traffic = "saved" /\ traffic' = "failed"
    /\ UNCHANGED <<file, copies, asked, runs, stopped, net, requests, downloads, calls, completed, told, lost>>

\* createUnicastRequest: one message per client, until one is refused.
createUnicastRequest ==
    /\ traffic = "no"
    /\ \E S \in SUBSET Clients :
         /\ copies' = [c \in Clients |-> IF c \in S THEN 1 ELSE 0]
         /\ traffic' = IF S = Clients THEN "ok" ELSE "failed"
         /\ runs' = {[client |-> c, copy |-> 1, cnt |-> 0, next |-> 0] : c \in S}
    /\ UNCHANGED <<file, asked, stopped, net, requests, downloads, calls, completed, told, lost>>

CreateFileDownloadHunt ==
    /\ file = "no" /\ file' \in {"ok", "failed"}
    /\ UNCHANGED <<traffic, copies, asked, runs, stopped, net, requests, downloads, calls, completed, told, lost>>

-----------------------------------------------------------------------------
(* The client service. *)

\* The request reaches a client, within the limit for the first time.
Deliver(c) ==
    /\ traffic \in {"saved", "ok"} \/ copies[c] > 0
    /\ c \notin stopped /\ copies[c] < MaxCopies
    /\ copies[c] > 0 \/ Cardinality({d \in Clients : copies[d] > 0}) < Limit
    /\ copies' = [copies EXCEPT ![c] = @ + 1]
    /\ runs' = runs \cup {[client |-> c, copy |-> copies[c] + 1, cnt |-> 0, next |-> 0]}
    /\ UNCHANGED <<traffic, file, asked, stopped, net, requests, downloads, calls, completed, told, lost>>

\* processTrafficRequest: the goroutine chooses how many responses it makes.
jitter(r) ==
    /\ r \in runs /\ r.cnt = 0
    /\ \E n \in NumMessages..(NumMessages + MaxJitter) :
         runs' = (runs \ {r}) \cup {[r EXCEPT !.cnt = n]}
    /\ UNCHANGED <<traffic, file, copies, asked, stopped, net, requests, downloads, calls, completed, told, lost>>

\* Variant: the last response is not marked.
processTrafficRequestNoFin(r) ==
    /\ r \in runs /\ r.cnt > r.next /\ r.client \notin stopped
    /\ net' = net \cup {[type |-> "traffic", client |-> r.client, copy |-> r.copy,
                         index |-> r.next, fin |-> r.next = r.cnt]}
    /\ runs' = IF r.next + 1 = r.cnt THEN runs \ {r}
               ELSE (runs \ {r}) \cup {[r EXCEPT !.next = @ + 1]}
    /\ UNCHANGED <<traffic, file, copies, asked, stopped, requests, downloads, calls, completed, told, lost>>

\* It sends one response after the other; the last has fin set.
processTrafficRequest(r) ==
    /\ r \in runs /\ r.cnt > r.next /\ r.client \notin stopped
    /\ net' = net \cup {[type |-> "traffic", client |-> r.client, copy |-> r.copy,
                         index |-> r.next, fin |-> r.next = r.cnt - 1]}
    /\ runs' = IF r.next + 1 = r.cnt THEN runs \ {r}
               ELSE (runs \ {r}) \cup {[r EXCEPT !.next = @ + 1]}
    /\ UNCHANGED <<traffic, file, copies, asked, stopped, requests, downloads, calls, completed, told, lost>>

processFileRequest(c) ==
    /\ file = "ok" /\ c \notin stopped \cup asked /\ Cardinality(asked) < Limit
    /\ asked' = asked \cup {c}
    /\ net' = net \cup {[type |-> "file", client |-> c]}
    /\ UNCHANGED <<traffic, file, copies, runs, stopped, requests, downloads, calls, completed, told, lost>>

\* Stop closes done and waits for the goroutines, which give up where they are.
Stop(c) ==
    /\ MayStop /\ c \notin stopped
    /\ stopped' = stopped \cup {c} /\ runs' = {r \in runs : r.client # c}
    /\ UNCHANGED <<traffic, file, copies, asked, net, requests, downloads, calls, completed, told, lost>>

-----------------------------------------------------------------------------
(* The server service forwards, the master records. *)


\* requestInfo.completed
isCompleted(ri) == ri.fin # -1 /\ Cardinality(ri.responses) = ri.fin + 1

\* RecordTrafficResponse under ci.lock: if the request is complete now, the call
\* goes on to tell the watcher.
RecordTrafficResponse(m) ==
    LET c == m.client
        ri == [responses |-> requests[c].responses \cup {m.index},
               fin |-> IF m.fin THEN m.index ELSE requests[c].fin]
    IN  /\ m \in net /\ m.type = "traffic" /\ calls[c] = None
        /\ requests' = [requests EXCEPT ![c] = ri]
        /\ IF isCompleted(ri) THEN calls' = [calls EXCEPT ![c] = m] /\ UNCHANGED net
           ELSE net' = net \ {m} /\ UNCHANGED calls
        /\ UNCHANGED <<traffic, file, copies, asked, runs, stopped, downloads, completed, told, lost>>

RecordFileResponse(m) ==
    /\ m \in net /\ m.type = "file" /\ calls[m.client] = None
    /\ downloads' = downloads \cup {m.client}
    /\ calls' = [calls EXCEPT ![m.client] = m]
    /\ UNCHANGED <<traffic, file, copies, asked, runs, stopped, net, requests, completed, told, lost>>

\* s.completed <- id, and the reply: if it is lost, the server service returns a
\* temporary error and the response comes again.
Notify(c) ==
    /\ calls[c] # None /\ Len(completed) < Cap
    /\ completed' = Append(completed, [client |-> c, type |-> calls[c].type])
    /\ calls' = [calls EXCEPT ![c] = None]
    /\ \/ net' = net \ {calls[c]} /\ UNCHANGED lost
       \/ lost[c] < MaxLost /\ lost' = [lost EXCEPT ![c] = @ + 1] /\ UNCHANGED net
    /\ UNCHANGED <<traffic, file, copies, asked, runs, stopped, requests, downloads, told>>

\* <-ctx.Done(), only for traffic: a temporary error, the response comes again.
NotifyTimesOut(c) ==
    /\ MayTimeOut /\ calls[c] # None /\ calls[c].type = "traffic" /\ Len(completed) = Cap
    /\ calls' = [calls EXCEPT ![c] = None]
    /\ UNCHANGED <<traffic, file, copies, asked, runs, stopped, net, requests, downloads, completed, told, lost>>

\* The watcher reads.
Watch ==
    /\ completed # <<>>
    /\ completed' = Tail(completed) /\ told' = Append(told, Head(completed))
    /\ UNCHANGED <<traffic, file, copies, asked, runs, stopped, net, requests, downloads, calls, lost>>

-----------------------------------------------------------------------------

Init ==
    /\ traffic = "no" /\ file = "no" /\ copies = [c \in Clients |-> 0] /\ asked = {}
    /\ runs = {} /\ stopped = {} /\ net = {}
    /\ requests = [c \in Clients |-> [responses |-> {}, fin |-> -1]]
    /\ downloads = {} /\ calls = [c \in Clients |-> None] /\ completed = <<>> /\ told = <<>>
    /\ lost = [c \in Clients |-> 0]

Respond == \E r \in runs : jitter(r) \/ processTrafficRequest(r)
Record(c) == \/ \E m \in net : m.client = c /\ (RecordTrafficResponse(m) \/ RecordFileResponse(m))
             \/ Notify(c)

Next ==
    \/ CreateBroadcastRequest \/ Retry \/ createUnicastRequest \/ CreateFileDownloadHunt
    \/ \E c \in Clients : Deliver(c) \/ processFileRequest(c) \/ Stop(c) \/ NotifyTimesOut(c)
    \/ Respond \/ (\E c \in Clients : Record(c)) \/ Watch

Spec == Init /\ [][Next]_vars

\* The responders, the server service with its retries, and the watcher keep going.
FairSpec == Spec /\ WF_vars(Respond) /\ WF_vars(\E c \in Clients : Record(c)) /\ WF_vars(Watch)

-----------------------------------------------------------------------------

TypeOK ==
    /\ traffic \in {"no", "saved", "ok", "failed"} /\ file \in {"no", "ok", "failed"}
    /\ \A c \in Clients : /\ copies[c] \in 0..MaxCopies
                          /\ calls[c] = None \/ calls[c] \in net
                          /\ requests[c].fin + 1 \in 0..(NumMessages + MaxJitter)
    /\ Len(completed) <= Cap /\ asked \cup stopped \cup downloads \subseteq Clients


Times(x, s) == Cardinality({i \in DOMAIN s : s[i] = x})

\* WatchCompleted notifies when a request to a client is completed: once, and once
\* more for every reply of the master that was lost after it had notified, as long as
\* the request reached the client once.
CompletedOnce ==
    \A c \in Clients, type \in {"traffic", "file"} : copies[c] <= 1 =>
        Times([client |-> c, type |-> type], told \o completed) <= 1 + lost[c]

Reached(c) == copies[c] > 0
ToldOrExcused(c) ==
    \/ \E i \in DOMAIN told : told[i] = [client |-> c, type |-> "traffic"]
    \/ c \in stopped \/ copies[c] > 1

\* A request that reached a client whose service does not stop is complete in the
\* end, and the watcher hears of it, although replies are lost; unless the client is
\* handed it twice, when a second mark may keep the two numbers apart for good.
EventuallyTold == \A c \in Clients : Reached(c) ~> ToldOrExcused(c)
=============================================================================
