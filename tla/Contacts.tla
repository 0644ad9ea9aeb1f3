------------------------------- MODULE Contacts -------------------------------
(***************************************************************************)
(* The server's side of a contact, from the accepted connection to the     *)
(* answer: the https communicator with its start, its stop and the count of*)
(* pending requests (server/https), the handlers of polls and of streams,  *)
(* and InitializeConnection with the four questions to the Authorizer.     *)
(* Requests of one client run concurrently.  What a handler checks without *)
(* touching shared state (method, size, certificate, body, signatures) is  *)
(* a step that succeeds or ends the request.                               *)
(***************************************************************************)
EXTENDS Integers, FiniteSets

CONSTANTS
    Polls, Streams,   \* requests to /message and to /streaming-message
    None,
    MayFail           \* datastore and network may fail

Reqs == Polls \cup Streams

VARIABLES
    comm,      \* "off", "serving", "running", "closing", "waiting" or "stopped"
    running,   \* Communicator.running
    pending,   \* Communicator.pending
    known,     \* the client has a row in the datastore
    contacts,  \* requests for which RecordClientContact committed
    stored,    \* requests whose messages were handled, some of them at least
    reg,       \* the stream registered with the Dispatcher, or None
    at,        \* by request: the last step that was taken
    isNew,     \* by request: getClientInfo did not find the client
    status     \* by request: PollInfo.Status, 0 until it is set

server == <<comm, running>>
db == <<known, contacts, stored>>
vars == <<server, pending, db, reg, at, isNew, status>>

Init ==
    /\ comm = "off" /\ running = FALSE /\ pending = 0
    /\ known \in BOOLEAN
    /\ contacts = {} /\ stored = {} /\ reg = None
    /\ at = [r \in Reqs |-> "none"]
    /\ isNew = [r \in Reqs |-> FALSE]
    /\ status = [r \in Reqs |-> 0]

To(r, step) == at' = [at EXCEPT ![r] = step] /\ UNCHANGED status
Ends(r, code) == at' = [at EXCEPT ![r] = "leaving"] /\ status' = [status EXCEPT ![r] = code]

-----------------------------------------------------------------------------
(* The communicator. *)

\* Start: the goroutine that serves begins before running is set.
Serve ==
    /\ comm = "off" /\ comm' = "serving"
    /\ UNCHANGED <<running, pending, db, reg, at, isNew, status>>

Start ==
    /\ comm = "serving" /\ comm' = "running"
    /\ running' = TRUE
    /\ UNCHANGED <<pending, db, reg, at, isNew, status>>

\* Stop: close the listener; clear running; close stopping; wait.
StopListening ==
    /\ comm = "running" /\ comm' = "closing"
    /\ UNCHANGED <<running, pending, db, reg, at, isNew, status>>

StopRunning ==
    /\ comm = "closing" /\ comm' = "waiting"
    /\ running' = FALSE
    /\ UNCHANGED <<pending, db, reg, at, isNew, status>>

StopReturns ==
    /\ comm = "waiting" /\ pending = 0
    /\ comm' = "stopped"
    /\ UNCHANGED <<running, pending, db, reg, at, isNew, status>>

\* guardedListener.Accept with Allow1, or another request on an open connection.
Accept(r) ==
    /\ comm # "off" /\ at[r] = "none"
    /\ To(r, "accepted")
    /\ UNCHANGED <<server, pending, db, reg, isNew>>

\* Variant: the request is counted once it has been read.
startProcessingUncounted(r) ==
    /\ at[r] = "accepted"
    /\ IF running THEN To(r, "started")
       ELSE at' = [at EXCEPT ![r] = "end"] /\ status' = [status EXCEPT ![r] = 500]
    /\ UNCHANGED <<server, pending, db, reg, isNew>>

\* Counted and checked under one lock; a request that comes too early or too late
\* is refused.
startProcessing(r) ==
    /\ at[r] = "accepted"
    /\ IF running THEN To(r, "started") /\ pending' = pending + 1
       ELSE /\ at' = [at EXCEPT ![r] = "end"] /\ status' = [status EXCEPT ![r] = 500]
            /\ UNCHANGED pending
    /\ UNCHANGED <<server, db, reg, isNew>>

stopProcessing(r) ==
    /\ at[r] = "leaving"
    /\ To(r, "end")
    /\ pending' = pending - 1
    /\ UNCHANGED <<server, db, reg, isNew>>

\* The client certificate, from TLS or from the headers the frontend is configured
\* for, gives the id of the client.
GetClientCert(r) ==
    /\ at[r] = "started"
    /\ To(r, "known") \/ Ends(r, 400)
    /\ UNCHANGED <<server, pending, db, reg, isNew>>

readWrappedContactData(r) ==
    /\ at[r] = "known"
    /\ To(r, "read") \/ Ends(r, 400)
    /\ UNCHANGED <<server, pending, db, reg, isNew>>

-----------------------------------------------------------------------------
(* InitializeConnection.  A refusal by the Authorizer is a 503, any other error *)
(* a 500.                                                                       *)

Allow2(r) ==
    /\ at[r] = "read"
    /\ To(r, "allow2") \/ Ends(r, 503)
    /\ UNCHANGED <<server, pending, db, reg, isNew>>

getClientInfo(r) ==
    /\ at[r] = "allow2"
    /\ \/ To(r, "info") /\ isNew' = [isNew EXCEPT ![r] = ~known]
       \/ MayFail /\ Ends(r, 500) /\ UNCHANGED isNew
    /\ UNCHANGED <<server, pending, db, reg>>

Allow3(r) ==
    /\ at[r] = "info"
    /\ To(r, IF isNew[r] THEN "add" ELSE "sigs") \/ Ends(r, 503)
    /\ UNCHANGED <<server, pending, db, reg, isNew>>

\* addClient and the labels of the contact; a client another request has added in
\* the meantime is an error, a label that cannot be added is not.
addClient(r) ==
    /\ at[r] = "add"
    /\ \/ /\ ~known /\ To(r, "sigs")
          /\ known' = TRUE
       \/ (known \/ MayFail) /\ Ends(r, 500) /\ UNCHANGED known
    /\ UNCHANGED <<server, pending, contacts, stored, reg, isNew>>

\* The signatures of the contact: an unusable one is an error, a wrong one is left
\* to the Authorizer.
ValidateWrappedContactData(r) ==
    /\ at[r] = "sigs"
    /\ To(r, "signed") \/ Ends(r, 500)
    /\ UNCHANGED <<server, pending, db, reg, isNew>>

\* Allow4, and the contact data itself: that it can be parsed and has no more than
\* the allowed number of messages.
Allow4(r) ==
    /\ at[r] = "signed"
    /\ To(r, "allowed") \/ Ends(r, 503) \/ Ends(r, 500)
    /\ UNCHANGED <<server, pending, db, reg, isNew>>

RecordClientContact(r) ==
    /\ at[r] = "allowed"
    /\ \/ To(r, "recorded") /\ contacts' = contacts \cup {r}
       \/ MayFail /\ Ends(r, 500) /\ UNCHANGED contacts
    /\ UNCHANGED <<server, pending, known, stored, reg, isNew>>

\* The messages are stored chunk by chunk; an error may leave some of them behind.
handleMessagesFromClient(r) ==
    /\ at[r] = "recorded"
    /\ To(r, IF r \in Streams THEN "handled" ELSE "find") \/ (MayFail /\ Ends(r, 500))
    /\ stored' = stored \cup {r}
    /\ UNCHANGED <<server, pending, known, contacts, reg, isNew>>

Register(r) ==
    /\ at[r] = "handled"
    /\ To(r, "find") /\ reg' = r
    /\ UNCHANGED <<server, pending, db, isNew>>

\* The function Register returned, on a stream: a later registration is left alone.
Fin(r) == reg' = IF reg = r THEN None ELSE reg

findMessagesForClient(r) ==
    /\ at[r] = "find"
    /\ \/ To(r, "reply") /\ UNCHANGED reg
       \/ MayFail /\ Ends(r, 500) /\ Fin(r)
    /\ UNCHANGED <<server, pending, db, isNew>>

\* Variant: the registration is forgotten when the first answer cannot be written.
ReplyKeeps(r) ==
    /\ at[r] = "reply"
    /\ \/ IF r \in Streams THEN To(r, "streaming") ELSE Ends(r, 200)
       \/ MayFail /\ Ends(r, IF r \in Streams THEN 500 ELSE 400)
    /\ UNCHANGED <<server, pending, db, reg, isNew>>

\* The answer: the end of a poll, the beginning of a stream.
Reply(r) ==
    /\ at[r] = "reply"
    /\ \/ /\ IF r \in Streams THEN To(r, "streaming") ELSE Ends(r, 200)
          /\ UNCHANGED reg
       \/ MayFail /\ Ends(r, IF r \in Streams THEN 500 ELSE 400) /\ Fin(r)
    /\ UNCHANGED <<server, pending, db, isNew>>

\* Variant: a stream only ends when its lifespan is over.
StreamEndsUnasked(r) ==
    /\ at[r] = "streaming" /\ comm # "waiting"
    /\ Ends(r, 200) /\ Fin(r)
    /\ UNCHANGED <<server, pending, db, isNew>>

\* The lifespan of the stream is over, its context is cancelled, or stopping was
\* closed; its loops end (Streaming).
StreamEnds(r) ==
    /\ at[r] = "streaming"
    /\ Ends(r, 200) /\ Fin(r)
    /\ UNCHANGED <<server, pending, db, isNew>>

-----------------------------------------------------------------------------

InitializeConnection(r) ==
    \/ Allow2(r) \/ getClientInfo(r) \/ Allow3(r) \/ addClient(r)
    \/ ValidateWrappedContactData(r) \/ Allow4(r)
    \/ RecordClientContact(r) \/ handleMessagesFromClient(r) \/ Register(r)
    \/ findMessagesForClient(r)

ServeHTTP(r) ==
    \/ startProcessing(r) \/ GetClientCert(r) \/ readWrappedContactData(r)
    \/ InitializeConnection(r) \/ Reply(r) \/ StreamEnds(r) \/ stopProcessing(r)

Stop == StopListening \/ StopRunning \/ StopReturns

Next == Serve \/ Start \/ Stop \/ \E r \in Reqs : Accept(r) \/ ServeHTTP(r)

Spec == Init /\ [][Next]_vars

\* Handlers run to their end, and a Stop that was begun goes on.
Fairness == (\A r \in Reqs : WF_vars(ServeHTTP(r))) /\ WF_vars(StopRunning \/ StopReturns)
FairSpec == Spec /\ Fairness

-----------------------------------------------------------------------------

TypeOK ==
    /\ comm \in {"off", "serving", "running", "closing", "waiting", "stopped"}
    /\ running \in BOOLEAN /\ pending \in 0..Cardinality(Reqs)
    /\ known \in BOOLEAN
    /\ contacts \subseteq Reqs /\ stored \subseteq Reqs
    /\ reg \in Streams \cup {None}
    /\ at \in [Reqs -> {"none", "accepted", "started", "known", "read", "allow2", "info", "add",
                        "sigs", "signed", "allowed", "recorded", "handled", "find", "reply",
                        "streaming", "leaving", "end"}]
    /\ isNew \in [Reqs -> BOOLEAN] /\ status \in [Reqs -> {0, 200, 400, 500, 503}]

\* Once Stop has returned, no handler of a contact is at work, so that none uses
\* the datastore the server closes next.  (The handler of /files/ does not call
\* startProcessing, https.go:182: ServerLifecycle models what it may do.)
StopWaits == comm = "stopped" => \A r \in Reqs : at[r] \in {"none", "accepted", "end"}

\* A contact the Authorizer has refused, at whichever of its questions, leaves
\* neither a contact nor a message in the datastore.
RefusedStoresNoMessages == \A r \in Reqs : status[r] = 503 => r \notin contacts \cup stored

\* Whatever way a stream ends, it does not leave its registration with the
\* Dispatcher, which would swallow the notifications for the client.
RegistrationReleased == \A r \in Reqs : at[r] \in {"leaving", "end"} => reg # r

Ending == comm = "closing"
Ended == comm = "stopped"

=============================================================================
