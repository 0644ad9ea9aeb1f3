---------------------------- MODULE ServerLifecycle ----------------------------
(***************************************************************************)
(* A server's start and stop (server/server.go) with what runs meanwhile:  *)
(* contacts from clients and their requests for files, calls of the        *)
(* message processor, calls of the admin interface, and notifications from *)
(* other servers, over the http listener (server/components/notifications) *)
(* or the local one (server/internal/notifications).                       *)
(***************************************************************************)
EXTENDS Naturals, FiniteSets, Sequences

CONSTANTS
    Configs,        \* the services to install, in order: pairs of name and instance
    Comms,          \* communicators, in order
    Calls,          \* names for calls in progress
    None,
    HasAdmin,       \* the admin interface is served
    EarlyContacts,  \* clients connect as soon as a communicator has started
    MayFail         \* components may fail to start

VARIABLES
    pc,        \* where MakeServer or Stop is
    n,         \* how many services or communicators that step has dealt with
    services,  \* Manager.services: by name, the instance
    started, stopped,   \* instances of services
    comms,     \* by position: "new", "running", "stopping", "stopped"
    listener,  \* "off", "on", "closing", "closed"
    bm,        \* the broadcast manager: "nil", "on", "closed"
    processor, \* the datastore calls the message processor
    ds,        \* the datastore: "open" or "closed"
    calls,     \* by call: its kind, and the communicator of a contact
    bad,       \* misuses that happened (history)
    http       \* the listener is an HttpListener; chosen at the start

vars == <<pc, n, services, started, stopped, comms, listener, bm, processor, ds, calls, bad, http>>

Idle == [kind |-> "idle", com |-> 0]
Of(kind) == {c \in Calls : calls[c].kind = kind}
ContactsOf(i) == {c \in Of("contact") : calls[c].com = i}
Names == {Configs[i][1] : i \in DOMAIN Configs}

Init ==
    /\ pc = "listener" /\ n = 0 /\ services = [s \in Names |-> None]
    /\ started = {} /\ stopped = {} /\ comms = [i \in DOMAIN Comms |-> "new"]
    /\ listener = "off" /\ bm = "nil" /\ processor = FALSE /\ ds = "open"
    /\ calls = [c \in Calls |-> Idle] /\ bad = {} /\ http \in BOOLEAN

-----------------------------------------------------------------------------
(* MakeServer. *)

ListenerStart ==
    /\ pc = "listener" /\ listener' = "on" /\ pc' = "install"
    /\ UNCHANGED <<n, services, started, stopped, comms, bm, processor, ds, calls, bad, http>>

\* Install starts a service and puts it under its name.
Install ==
    /\ pc = "install" /\ n < Len(Configs)
    /\ LET c == Configs[n + 1]
       IN  services' = [services EXCEPT ![c[1]] = c[2]] /\ started' = started \cup {c[2]}
    /\ n' = n + 1
    /\ UNCHANGED <<pc, stopped, comms, listener, bm, processor, ds, calls, bad, http>>

Installed ==
    /\ pc = "install" /\ n = Len(Configs) /\ pc' = "start" /\ n' = 0
    /\ UNCHANGED <<services, started, stopped, comms, listener, bm, processor, ds, calls, bad, http>>

StartComm ==
    /\ pc = "start" /\ n < Len(Comms)
    /\ \/ /\ comms' = [comms EXCEPT ![n + 1] = "running"] /\ n' = n + 1 /\ UNCHANGED pc
       \/ \* Start failed: the ones before it are stopped
          /\ MayFail /\ pc' = "failed" /\ UNCHANGED n
          /\ Of("contact") = {}
          /\ comms' = [i \in DOMAIN comms |-> IF i <= n THEN "stopped" ELSE comms[i]]
    /\ UNCHANGED <<services, started, stopped, listener, bm, processor, ds, calls, bad, http>>

MakeManager ==
    /\ pc = "start" /\ n = Len(Comms)
    /\ bm' = "on" /\ pc' = "register"
    /\ UNCHANGED <<n, services, started, stopped, comms, listener, processor, ds, calls, bad, http>>

RegisterMessageProcessor ==
    /\ pc = "register" /\ processor' = TRUE /\ pc' = "running"
    /\ UNCHANGED <<n, services, started, stopped, comms, listener, bm, ds, calls, bad, http>>

-----------------------------------------------------------------------------
(* What runs meanwhile: each call uses what it needs and ends. *)

Begin(c, kind, i) ==
    /\ calls[c] = Idle /\ calls' = [calls EXCEPT ![c] = [kind |-> kind, com |-> i]]
    /\ UNCHANGED <<pc, n, services, started, stopped, comms, listener, bm, processor, ds, bad, http>>

Contact(c) ==
    /\ EarlyContacts \/ bm # "nil"
    /\ \E i \in DOMAIN comms : comms[i] = "running" /\ Begin(c, "contact", i)

\* ProcessMessages, called by the datastore on backlogged messages.
Backlog(c) == processor /\ ds = "open" /\ Begin(c, "backlog", 0)
AdminCall(c) == HasAdmin /\ pc # "stopped" /\ Begin(c, "admin", 0)

\* A request over a connection that is open already is served even when the http
\* listener has been closed.
Notification(c) ==
    /\ listener = "on" \/ (http /\ listener # "off")
    /\ Begin(c, "notification", 0)

\* The handler of /files/ does not call startProcessing: it begins, over an open
\* connection, whatever has become of its communicator, and nobody waits for it.
FileRequest(c) == (\E i \in DOMAIN comms : comms[i] # "new") /\ Begin(c, "file", 0)

\* A message is processed: the services it may go to, and the client data and
\* message results in the datastore.
Uses(kind) ==
    (IF kind \in {"contact", "backlog"} /\ ds = "closed" THEN {"closed datastore"} ELSE {})
    \cup (IF kind = "admin" /\ ds = "closed" THEN {"admin call on the closed datastore"} ELSE {})
    \cup (IF kind = "file" /\ ds = "closed" THEN {"file request on the closed datastore"} ELSE {})
    \cup (IF kind \in {"contact", "backlog"} /\ \E s \in Names : services[s] \in stopped
          THEN {"stopped service"} ELSE {})
    \cup (IF kind = "contact" /\ bm = "nil" THEN {"nil broadcast manager"} ELSE {})
    \cup (IF kind = "contact" /\ bm = "closed" THEN {"closed broadcast manager"} ELSE {})
    \cup (IF kind = "notification" /\ listener = "closed" THEN {"notification on the closed channel"} ELSE {})

End(c) ==
    /\ calls[c] # Idle
    /\ bad' = bad \cup Uses(calls[c].kind)
    /\ calls' = [calls EXCEPT ![c] = Idle]
    /\ UNCHANGED <<pc, n, services, started, stopped, comms, listener, bm, processor, ds, http>>

-----------------------------------------------------------------------------
(* Stop. *)

StopCalled ==
    /\ pc = "running" /\ pc' = "processor" /\ processor' = FALSE
    /\ UNCHANGED <<n, services, started, stopped, comms, listener, bm, ds, calls, bad, http>>

\* Variant: the processor's calls are not waited for.
StopMessageProcessorAtOnce ==
    /\ pc = "processor" /\ pc' = "comms" /\ n' = 0
    /\ UNCHANGED <<services, started, stopped, comms, listener, bm, processor, ds, calls, bad, http>>

\* It returns once the calls of the processor have.
StopMessageProcessor ==
    /\ pc = "processor" /\ Of("backlog") = {} /\ pc' = "comms" /\ n' = 0
    /\ UNCHANGED <<services, started, stopped, comms, listener, bm, processor, ds, calls, bad, http>>

\* A communicator's Stop takes no more contacts and waits for those it has.
StopComm ==
    /\ pc = "comms" /\ n < Len(Comms)
    /\ \/ /\ comms[n + 1] = "running" /\ comms' = [comms EXCEPT ![n + 1] = "stopping"]
          /\ UNCHANGED n
       \/ /\ comms[n + 1] = "stopping" /\ ContactsOf(n + 1) = {}
          /\ comms' = [comms EXCEPT ![n + 1] = "stopped"] /\ n' = n + 1
    /\ UNCHANGED <<pc, services, started, stopped, listener, bm, processor, ds, calls, bad, http>>

\* listener.Stop: no new notification is taken.
ListenerStop ==
    /\ pc = "comms" /\ n = Len(Comms) /\ listener = "on" /\ listener' = "closing"
    /\ UNCHANGED <<pc, n, services, started, stopped, comms, bm, processor, ds, calls, bad, http>>

\* The channel is closed.  The local listener waits, under its lock, for those who
\* are sending on it; for the http one, http.Serve returns without waiting for its
\* handlers.
LocalStop == ~http /\ Of("notification") = {}
runServer == http

CloseChannel ==
    /\ listener = "closing" /\ (LocalStop \/ runServer)
    /\ listener' = "closed" /\ pc' = "services"
    /\ UNCHANGED <<n, services, started, stopped, comms, bm, processor, ds, calls, bad, http>>

\* Manager.Stop stops every service it has.
StopServices ==
    /\ pc = "services"
    /\ stopped' = stopped \cup {services[s] : s \in Names}
    /\ services' = [s \in Names |-> None] /\ pc' = "broadcasts"
    /\ UNCHANGED <<n, started, comms, listener, bm, processor, ds, calls, bad, http>>

BroadcastsClose ==
    /\ pc = "broadcasts" /\ bm' = "closed" /\ pc' = "datastore"
    /\ UNCHANGED <<n, services, started, stopped, comms, listener, processor, ds, calls, bad, http>>

DatastoreClose ==
    /\ pc = "datastore" /\ ds' = "closed" /\ pc' = "admin"
    /\ UNCHANGED <<n, services, started, stopped, comms, listener, bm, processor, calls, bad, http>>

\* The cache, then the admin server: its Stop cancels the calls in progress.
AdminStop ==
    /\ pc = "admin" /\ pc' = "stopped"
    /\ calls' = [c \in Calls |-> IF calls[c].kind = "admin" THEN Idle ELSE calls[c]]
    /\ UNCHANGED <<n, services, started, stopped, comms, listener, bm, processor, ds, bad, http>>

-----------------------------------------------------------------------------

MakeServer == ListenerStart \/ Install \/ Installed \/ StartComm \/ MakeManager
                \/ RegisterMessageProcessor
Stop == StopMessageProcessor \/ StopComm \/ ListenerStop \/ CloseChannel \/ StopServices \/ BroadcastsClose
          \/ DatastoreClose \/ AdminStop

Next ==
    \/ MakeServer \/ StopCalled \/ Stop
    \/ \E c \in Calls : Contact(c) \/ Backlog(c) \/ AdminCall(c) \/ Notification(c) \/ FileRequest(c) \/ End(c)

Spec == Init /\ [][Next]_vars

\* Calls end, and MakeServer and Stop go on when they can.
FairSpec ==
    Spec /\ WF_vars(MakeServer) /\ WF_vars(Stop) /\ \A c \in Calls : WF_vars(End(c))

-----------------------------------------------------------------------------

TypeOK ==
    /\ n \in 0..(Len(Configs) + Len(Comms))
    /\ listener \in {"off", "on", "closing", "closed"} /\ bm \in {"nil", "on", "closed"}
    /\ \A i \in DOMAIN comms : comms[i] \in {"new", "running", "stopping", "stopped"}
    /\ stopped \subseteq started \cup {None}
    /\ \A c \in Calls : calls[c].kind \in {"idle", "contact", "backlog", "admin", "notification", "file"}

\* Stop takes its steps in an order in which no contact and no backlogged message
\* meets a stopped service, the closed broadcast manager or the closed datastore, and
\* the local listener's channel is closed under nobody's hands.  What it does not wait
\* for, or MakeServer not yet have made, is met: by a call of the admin interface, by
\* a request for a file, by a notification over http, and by a contact that comes
\* before the broadcast manager is made.
NoUseAfterStop ==
    /\ bad \subseteq {"admin call on the closed datastore", "file request on the closed datastore",
                      "notification on the closed channel", "nil broadcast manager"}
    /\ "notification on the closed channel" \in bad => http

\* Every service that was started is stopped in the end.
ServicesStopped == pc = "stopped" => started \subseteq stopped

Ending == pc = "processor"
Ended == pc = "stopped"

=============================================================================
