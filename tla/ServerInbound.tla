---------------------------- MODULE ServerInbound ----------------------------
(***************************************************************************)
(* The way of a message from a client to a service of the server: the      *)
(* contact handler (server/comms.go), the service manager that processes   *)
(* a message and records the outcome (server/internal/services), and the   *)
(* message loop that retries what has no result yet (messageLooper of the  *)
(* datastore).  Every server runs one handler and one looper over the same *)
(* datastore; servers may crash and restart, transactions may fail, and    *)
(* the answer to a contact may be lost on its way to the client.           *)
(***************************************************************************)
EXTENDS MessageStore

CONSTANTS
    Servers,         \* servers that share the datastore
    Unstored,        \* messages that are invalid, name no service, or are for a
                     \* service that processes whole batches
    Unserved,        \* messages for a service this installation lacks
    MaxParallelism,  \* maxParallelism of the (one) service
    ChunkSize,       \* processingChunkSize of comms.go
    LooperLimit,     \* messages a looper takes at a time
    MaxCrashes       \* bound: crashes of a behaviour

ASSUME InboundAssumption ==
    /\ IsFiniteSet(Servers) /\ IsFiniteSet(ServerMsgs)
    /\ Unstored \subseteq ServerMsgs
    /\ Unserved \subseteq ServerMsgs
    /\ MaxParallelism \in Nat
    /\ ChunkSize \in Nat \ {0}
    /\ LooperLimit \in Nat \ {0}
    /\ MaxCrashes \in Nat

VARIABLES
    outbox,       \* messages a client has not been told are safe
    contact,      \* messages of the contact a worker is serving
    rest,         \* those of them it has not started on
    job,          \* state of the goroutine a worker runs for a message
    parallelism,  \* calls counted against the service, by server
    crashes

vars == <<db, outbox, contact, rest, job, parallelism, crashes>>

Handlers == Servers \X {"handler"}
Loopers == Servers \X {"looper"}
Workers == Handlers \cup Loopers

Counted == {"running", "dropped"}
JobState == {"out", "new"} \cup Counted \cup Outcome
NoJob == [m \in ServerMsgs |-> "out"]

Idle(w) == contact[w] = {} /\ job[w] = NoJob
Finished(w) == ~Idle(w) /\ \A m \in ServerMsgs : job[w][m] \in {"out"} \cup Outcome

Init ==
    /\ db = [m \in Msgs |-> NoRow]
    /\ outbox = ServerMsgs
    /\ contact = [w \in Workers |-> {}]
    /\ rest = [w \in Workers |-> {}]
    /\ job = [w \in Workers |-> NoJob]
    /\ parallelism = [s \in Servers |-> 0]
    /\ crashes = 0

\* Start a goroutine for every message of C, the others of todo stay behind.
StartChunk(w, todo, C) ==
    /\ UpTo(ChunkSize, todo, C)
    /\ rest' = [rest EXCEPT ![w] = todo \ C]
    /\ job' = [job EXCEPT ![w] = [m \in ServerMsgs |-> IF m \in C THEN "new" ELSE "out"]]

\* A client delivers some of its messages.  Those that are invalid or name no
\* service are dropped, and the ones for batched services are processed here and
\* now: whatever their outcome they are not stored.  The others go to
\* HandleNewMessages in chunks.
handleMessagesFromClient(w, B) ==
    /\ Idle(w)
    /\ B # {} /\ B \subseteq outbox
    /\ contact' = [contact EXCEPT ![w] = B]
    /\ \E C \in SUBSET (B \ Unstored) : StartChunk(w, B \ Unstored, C)
    /\ UNCHANGED <<db, outbox, parallelism, crashes>>

\* messageLooper.processMessages reserves overdue messages for ProcessMessages.
processMessages(w) ==
    /\ Idle(w)
    /\ \E B \in SUBSET ServerMsgs :
        /\ B # {} /\ UpTo(LooperLimit, DueIn(ServerMsgs), B)
        /\ Reschedule(B)
        /\ job' = [job EXCEPT ![w] = [m \in ServerMsgs |-> IF m \in B THEN "new" ELSE "out"]]
    /\ UNCHANGED <<outbox, contact, rest, parallelism, crashes>>

\* The goroutine of a message for an unknown service settles it as failed.
UnknownService(w, m) ==
    /\ job[w][m] = "new" /\ m \in Unserved
    /\ job' = [job EXCEPT ![w][m] = "failed"]
    /\ UNCHANGED <<db, outbox, contact, rest, parallelism, crashes>>

\* Variant: the limit is compared with the calls before this one.
BeginProcessOffByOne(w, m) ==
    /\ job[w][m] = "new" /\ m \notin Unserved
    /\ parallelism' = [parallelism EXCEPT ![w[1]] = @ + 1]
    /\ job' = [job EXCEPT ![w][m] =
                 IF parallelism[w[1]] > MaxParallelism THEN "dropped" ELSE "running"]
    /\ UNCHANGED <<db, outbox, contact, rest, crashes>>

\* liveService.processMessage: count the call, then either make it or, above
\* the limit, drop the message for a later retry.
BeginProcess(w, m) ==
    /\ job[w][m] = "new" /\ m \notin Unserved
    /\ parallelism' = [parallelism EXCEPT ![w[1]] = @ + 1]
    /\ job' = [job EXCEPT ![w][m] =
                 IF parallelism'[w[1]] > MaxParallelism THEN "dropped" ELSE "running"]
    /\ UNCHANGED <<db, outbox, contact, rest, crashes>>

\* Variant: a dropped message is taken off the counter where it is dropped and
\* once more on return.
EndProcessCountsTwice(w, m, r) ==
    /\ job[w][m] \in Counted
    /\ job[w][m] = "dropped" => r = "none"
    /\ job' = [job EXCEPT ![w][m] = r]
    /\ parallelism' = [parallelism EXCEPT ![w[1]] = IF job[w][m] = "dropped" THEN @ - 2 ELSE @ - 1]
    /\ UNCHANGED <<db, outbox, contact, rest, crashes>>

\* ... and its return: no result for a dropped message or a temporary error.
EndProcess(w, m, r) ==
    /\ job[w][m] \in Counted
    /\ job[w][m] = "dropped" => r = "none"
    /\ job' = [job EXCEPT ![w][m] = r]
    /\ parallelism' = [parallelism EXCEPT ![w[1]] = @ - 1]
    /\ UNCHANGED <<db, outbox, contact, rest, crashes>>

\* Variant: messages without a result are not stored.
ResultsOnlySettled(w, R) ==
    [m \in {n \in ServerMsgs : job[w][n] \in R \ {"none"}} |-> job[w][m]]

\* The messages worker w is done with, restricted to the results in R.
Results(w, R) == [m \in {n \in ServerMsgs : job[w][n] \in R} |-> job[w][m]]

\* End of HandleNewMessages: every message is stored, with or without a result.
\* After the last chunk the contact succeeds; `told' is whether the client
\* learns of it.
HandleNewMessages(w, told) ==
    /\ w \in Handlers /\ Finished(w)
    /\ StoreMessages(Results(w, Outcome))
    /\ \/ /\ rest[w] # {}
          /\ \E C \in SUBSET rest[w] : StartChunk(w, rest[w], C)
          /\ UNCHANGED <<outbox, contact>>
       \/ /\ rest[w] = {}
          /\ contact' = [contact EXCEPT ![w] = {}]
          /\ job' = [job EXCEPT ![w] = NoJob]
          /\ outbox' = IF told THEN outbox \ contact[w] ELSE outbox
          /\ UNCHANGED rest
    /\ UNCHANGED <<parallelism, crashes>>

\* End of ProcessMessages: only the messages that got a result are stored.
ProcessMessages(w) ==
    /\ w \in Loopers /\ Finished(w)
    /\ StoreMessages(Results(w, {"ok", "failed"}))
    /\ job' = [job EXCEPT ![w] = NoJob]
    /\ UNCHANGED <<outbox, contact, rest, parallelism, crashes>>

\* The context expired or the transaction failed: the contact is answered with
\* an error and the outcomes are forgotten.
StoreFails(w) ==
    /\ Finished(w)
    /\ contact' = [contact EXCEPT ![w] = {}]
    /\ rest' = [rest EXCEPT ![w] = {}]
    /\ job' = [job EXCEPT ![w] = NoJob]
    /\ UNCHANGED <<db, outbox, parallelism, crashes>>

\* A server stops at any point and comes back with only the datastore.
Crash(s) ==
    /\ crashes < MaxCrashes
    /\ crashes' = crashes + 1
    /\ contact' = [w \in Workers |-> IF w[1] = s THEN {} ELSE contact[w]]
    /\ rest' = [w \in Workers |-> IF w[1] = s THEN {} ELSE rest[w]]
    /\ job' = [w \in Workers |-> IF w[1] = s THEN NoJob ELSE job[w]]
    /\ parallelism' = [parallelism EXCEPT ![s] = 0]
    /\ UNCHANGED <<db, outbox>>

Tick == /\ \E m \in ServerMsgs : BecomesDue(m)
        /\ UNCHANGED <<outbox, contact, rest, job, parallelism, crashes>>

\* The steps worker w takes once it has work.
Work(w) ==
    \/ \E m \in ServerMsgs : UnknownService(w, m) \/ BeginProcess(w, m)
    \/ \E m \in ServerMsgs, r \in Outcome : EndProcess(w, m, r)
    \/ \E told \in BOOLEAN : HandleNewMessages(w, told)
    \/ ProcessMessages(w)
    \/ StoreFails(w)

Next ==
    \/ \E w \in Handlers, B \in SUBSET ServerMsgs : handleMessagesFromClient(w, B)
    \/ \E w \in Loopers : processMessages(w)
    \/ \E w \in Workers : Work(w)
    \/ \E s \in Servers : Crash(s)
    \/ Tick

Spec == Init /\ [][Next]_vars

-----------------------------------------------------------------------------

TypeOK ==
    /\ db \in [Msgs -> Row]
    /\ outbox \subseteq ServerMsgs
    /\ contact \in [Workers -> SUBSET ServerMsgs]
    /\ rest \in [Workers -> SUBSET ServerMsgs]
    /\ job \in [Workers -> [ServerMsgs -> JobState]]
    /\ parallelism \in [Servers -> Nat]
    /\ crashes \in 0..MaxCrashes

\* The calls in progress on server s, as pairs of worker and message.
InCall(s, J) == {c \in Workers \X ServerMsgs : c[1][1] = s /\ job[c[1]][c[2]] \in J}

\* A message the client was told to forget is in the datastore, with its result
\* or waiting to be retried: a contact is only answered with success after the
\* last of its chunks is stored (comms.go:439-448), whatever failed, timed out,
\* crashed or was retried elsewhere in between.  The Unstored ones are forgotten.
AckedIsStored == \A m \in ServerMsgs \ (outbox \cup Unstored) : db[m].result # "absent"

\* The counter of processMessage (manager.go:252-255) is exactly the number of
\* calls that still have to decrement it, so it never underflows its uint32 and
\* a service is never shed for calls that are over.
ParallelismExact == \A s \in Servers : parallelism[s] = Cardinality(InCall(s, Counted))

\* Load shedding works: a server never has more than maxParallelism calls of
\* ProcessMessage open, handler and looper together.
CallsBounded == \A s \in Servers : Cardinality(InCall(s, {"running"})) <= MaxParallelism

\* The results of the messages change as the contract of StoreMessages says,
\* although handler and loopers store the outcomes of overlapping attempts at
\* the same message in any order.
Lifecycle == INSTANCE MessageLifecycle WITH status <- [m \in Msgs |-> db[m].result]
ResultsFollowContract == Lifecycle!LSpec

\* A message never leaves the datastore and a successful one is never processed
\* again from the backlog: once it has a result no looper reserves it.
NoReservationOfSettled ==
    [][\A w \in Loopers, m \in ServerMsgs :
          job[w][m] = "out" /\ job'[w][m] = "new" => db[m].result = "none"]_vars

-----------------------------------------------------------------------------
(***************************************************************************)
(* Fairness: the scheduler runs every goroutine that can run and the       *)
(* looper's ticker fires for ever; a client that delivers the same message *)
(* over and over is told so once, a service that is asked for ever answers *)
(* once with success or a permanent error, the loopers are not shed for    *)
(* ever although there is capacity, and not every result they have to      *)
(* store is lost to a failing transaction.                                 *)
(***************************************************************************)
Told(m) == \E w \in Handlers : HandleNewMessages(w, TRUE) /\ m \in contact[w]
Admitted(m) == \E w \in Loopers : BeginProcess(w, m) /\ job'[w][m] = "running"
Answered(m) == \E w \in Loopers, r \in {"ok", "failed"} : EndProcess(w, m, r)
Recorded(m) == \E w \in Loopers : ProcessMessages(w) /\ job[w][m] \in {"ok", "failed"}

Fairness ==
    /\ WF_vars(Tick)
    /\ \A w \in Workers : WF_vars(Work(w))
    /\ \A w \in Loopers : WF_vars(processMessages(w))
    /\ \A m \in ServerMsgs :
          SF_vars(Told(m)) /\ SF_vars(Admitted(m)) /\ SF_vars(Answered(m)) /\ SF_vars(Recorded(m))

FairSpec == Spec /\ Fairness

Unprocessed(m) == db[m].result = "none"
Processed(m) == db[m].result \in {"ok", "failed"}

\* A stored message without a result gets one: the looper keeps retrying what
\* was dropped, failed temporarily or was in the hands of a crashed server.
EventuallyProcessed == \A m \in ServerMsgs : Unprocessed(m) ~> Processed(m)
=============================================================================
