---------------------------- MODULE ClientMessages ----------------------------
(***************************************************************************)
(* The way of a message through a Fleetspeak client: a service hands it to *)
(* Client.ProcessMessage, the RetryLoop of its priority keeps it until it  *)
(* is acknowledged, SortLoop queues it by priority, and a Communicator     *)
(* takes it from the outbox and calls its Ack or its Nack.  Client.Stop    *)
(* shuts all of this down.                                                 *)
(*                                                                         *)
(* All channels but acks and nacks are unbuffered: a send and the receive  *)
(* that meets it are one action.                                           *)
(***************************************************************************)
EXTENDS Naturals, Sequences, FiniteSetsExt, Functions

CONSTANTS Msgs,       \* messages of the services to the server
          PriorityOf, \* Message.Priority, a function of Msgs
          SizeOf,     \* proto.Size, a function of Msgs
          Patient,    \* messages whose context has no deadline
          maxSize, maxCount,
          Filterable, \* priorities that somebody may filter
          FilterSets  \* how often Filter.Set is called at most

Priorities == {"high", "medium", "low"}

Above(p) == CASE p = "high" -> {} [] p = "medium" -> {"high"}
                                  [] p = "low" -> {"high", "medium"}

\* Finitely many messages, each with a priority and a size, and limits that are no less than 0.
MessagesAssumption ==
  /\ IsFiniteSet(Msgs) /\ PriorityOf \in [Msgs -> Priorities] /\ SizeOf \in [Msgs -> Nat]
  /\ maxSize \in Nat /\ maxCount \in Nat /\ Filterable \subseteq Priorities

VARIABLES
  at,       \* where a message is
  loop,     \* per priority: what RetryLoop does, and its size and count
  queue,    \* the lists high, medium and low of SortLoop
  sort,     \* what SortLoop does
  filter,   \* the priorities that the Filter holds back
  seen,     \* the filter as SortLoop read it last
  late,     \* messages sent to the outbox since their priority is filtered
  sets,     \* calls of Filter.Set so far
  com,      \* the Communicator
  stop      \* how far Client.Stop is

vars == <<at, loop, queue, sort, filter, seen, late, sets, com, stop>>

\* "sending": blocked in ProcessMessage; "hand": RetryLoop offers it;
\* "acks", "nacks": in the channels of the callbacks; "acked": RetryLoop knows.
Places == {"new", "sending", "refused", "hand", "queue", "taken",
           "acks", "nacks", "acked"}

Stages == {"running", "com", "services", "retry", "sort", "done"}

Of(p, places) == {m \in Msgs : PriorityOf[m] = p /\ at[m] \in places}

\* What RetryLoop counts: accepted and not yet known to be acknowledged.
Pending(p) == Of(p, {"hand", "queue", "taken", "acks", "nacks"})

TypeOK ==
  /\ at \in [Msgs -> Places]
  /\ loop \in [Priorities -> [pc : {"select", "out", "done"}, size : Nat, count : Nat]]
  /\ \A p \in Priorities : /\ Range(queue[p]) = Of(p, {"queue"})
                           /\ Len(queue[p]) = Cardinality(Range(queue[p]))
  /\ sort \in {"loop", "drain", "done"}
  /\ filter \subseteq Priorities /\ seen \subseteq Priorities
  /\ late \in [Priorities -> Nat] /\ sets \in 0 .. FilterSets
  /\ com \in {"running", "stopping", "stopped"} /\ stop \in Stages

\* The goroutines that New starts.
Init ==
  /\ at = [m \in Msgs |-> "new"]
  /\ loop = [p \in Priorities |-> [pc |-> "select", size |-> 0, count |-> 0]]
  /\ queue = [p \in Priorities |-> <<>>]
  /\ sort = "loop" /\ filter = {} /\ seen = {} /\ sets = 0
  /\ late = [p \in Priorities |-> 0]
  /\ com = "running" /\ stop = "running"

-----------------------------------------------------------------------------
(* Services *)

\* A service calls Send; it waits in ProcessMessage for its RetryLoop.  Once
\* sc.Stop has returned there is no service left.
ProcessMessage(m) ==
  /\ at[m] = "new" /\ stop \in {"running", "com", "services"}
  /\ at' = [at EXCEPT ![m] = "sending"]
  /\ UNCHANGED <<loop, queue, sort, filter, seen, late, sets, com, stop>>

\* The context of the call expires first.
ContextDone(m) ==
  /\ at[m] = "sending" /\ m \notin Patient
  /\ at' = [at EXCEPT ![m] = "refused"]
  /\ UNCHANGED <<loop, queue, sort, filter, seen, late, sets, com, stop>>

-----------------------------------------------------------------------------
(* RetryLoop *)

\* Variant: compares with > instead of >=.
HasRoomOffByOne(p) == loop[p].size <= maxSize /\ loop[p].count <= maxCount

\* optIn is the input channel, not nil.
HasRoom(p) == loop[p].size < maxSize /\ loop[p].count < maxCount

Accept(m) ==
  LET p == PriorityOf[m] IN
  /\ at[m] = "sending" /\ loop[p].pc = "select" /\ HasRoom(p)
  /\ at' = [at EXCEPT ![m] = "hand"]
  /\ loop' = [loop EXCEPT ![p] = [pc |-> "out", size |-> @.size + SizeOf[m],
                                  count |-> @.count + 1]]
  /\ UNCHANGED <<queue, sort, filter, seen, late, sets, com, stop>>

\* Variant: counts the message that is sent once more as another one.
RetryCountedAgain(m) ==
  LET p == PriorityOf[m] IN
  /\ at[m] = "nacks" /\ loop[p].pc = "select"
  /\ at' = [at EXCEPT ![m] = "hand"]
  /\ loop' = [loop EXCEPT ![p].pc = "out", ![p].count = @ + 1]
  /\ UNCHANGED <<queue, sort, filter, seen, late, sets, com, stop>>

Retry(m) ==
  LET p == PriorityOf[m] IN
  /\ at[m] = "nacks" /\ loop[p].pc = "select"
  /\ at' = [at EXCEPT ![m] = "hand"]
  /\ loop' = [loop EXCEPT ![p].pc = "out"]
  /\ UNCHANGED <<queue, sort, filter, seen, late, sets, com, stop>>

Acknowledged(m) ==
  LET p == PriorityOf[m] IN
  /\ at[m] = "acks" /\ loop[p].pc = "select"
  /\ at' = [at EXCEPT ![m] = "acked"]
  /\ loop' = [loop EXCEPT ![p].size = @ - SizeOf[m], ![p].count = @ - 1]
  /\ UNCHANGED <<queue, sort, filter, seen, late, sets, com, stop>>

\* The input channel is closed, which a loop without room does not notice.
LoopEnds(p) ==
  /\ stop = "retry" /\ loop[p].pc = "select" /\ HasRoom(p)
  /\ loop' = [loop EXCEPT ![p].pc = "done"]
  /\ UNCHANGED <<at, queue, sort, filter, seen, late, sets, com, stop>>

-----------------------------------------------------------------------------
(* SortLoop reads the filter and then waits in select; whatever it does there *)
(* it reads the filter again afterwards.                                      *)

Receive(m) ==
  /\ sort = "loop" /\ at[m] = "hand"
  /\ at' = [at EXCEPT ![m] = "queue"]
  /\ loop' = [loop EXCEPT ![PriorityOf[m]].pc = "select"]
  /\ queue' = [queue EXCEPT ![PriorityOf[m]] = Append(@, m)]
  /\ seen' = filter
  /\ UNCHANGED <<sort, filter, late, sets, com, stop>>

FilterPoll ==
  /\ sort = "loop" /\ seen # filter
  /\ seen' = filter
  /\ UNCHANGED <<at, loop, queue, sort, filter, late, sets, com, stop>>

\* Variant: sends what the filter holds back if nothing else waits.
OffersUnfilteredFirst(p) ==
  /\ queue[p] # <<>>
  /\ p \in seen => \A q \in Priorities \ seen : queue[q] = <<>>
  /\ \A q \in Above(p) \ seen : queue[q] = <<>>

\* The case of the switch that offers the head of queue[p].
Offers(p) ==
  /\ queue[p] # <<>> /\ p \notin seen
  /\ \A q \in Above(p) \ seen : queue[q] = <<>>

\* Somebody receives from outbox: the Communicator, or the goroutine of Stop,
\* which acknowledges at once.
Outbox(m) ==
  \/ com = "running" /\ at' = [at EXCEPT ![m] = "taken"]
  \/ stop \in {"retry", "sort"} /\ at' = [at EXCEPT ![m] = "acks"]

Send(p) ==
  /\ sort = "loop" /\ Offers(p)
  /\ Outbox(Head(queue[p]))
  /\ queue' = [queue EXCEPT ![p] = Tail(@)]
  /\ late' = IF p \in filter THEN [late EXCEPT ![p] = @ + 1] ELSE late
  /\ seen' = filter
  /\ UNCHANGED <<loop, sort, filter, sets, com, stop>>

\* The deferred function: high, medium, low, filtered or not.
DrainBegins ==
  /\ sort = "loop" /\ stop = "sort"
  /\ sort' = "drain"
  /\ UNCHANGED <<at, loop, queue, filter, seen, late, sets, com, stop>>

Drain(p) ==
  /\ sort = "drain" /\ queue[p] # <<>>
  /\ \A q \in Above(p) : queue[q] = <<>>
  /\ Outbox(Head(queue[p]))
  /\ queue' = [queue EXCEPT ![p] = Tail(@)]
  /\ UNCHANGED <<loop, sort, filter, seen, late, sets, com, stop>>

DrainEnds ==
  /\ sort = "drain" /\ \A p \in Priorities : queue[p] = <<>>
  /\ sort' = "done"
  /\ UNCHANGED <<at, loop, queue, filter, seen, late, sets, com, stop>>

\* Filter.Set, called by whoever shares the Filter with the client.
SetFilter(f) ==
  /\ sets < FilterSets /\ f # filter /\ stop # "done"
  /\ sets' = sets + 1 /\ filter' = f
  /\ late' = [p \in Priorities |-> IF p \in f /\ p \notin filter THEN 0 ELSE late[p]]
  /\ UNCHANGED <<at, loop, queue, sort, seen, com, stop>>

-----------------------------------------------------------------------------
(* The Communicator calls exactly one of Ack and Nack for what it took. *)

Ack(m) ==
  /\ at[m] = "taken"
  /\ Cardinality(Of(PriorityOf[m], {"acks"})) < maxCount
  /\ at' = [at EXCEPT ![m] = "acks"]
  /\ UNCHANGED <<loop, queue, sort, filter, seen, late, sets, com, stop>>

Nack(m) ==
  /\ at[m] = "taken"
  /\ Cardinality(Of(PriorityOf[m], {"nacks"})) < maxCount
  /\ at' = [at EXCEPT ![m] = "nacks"]
  /\ UNCHANGED <<loop, queue, sort, filter, seen, late, sets, com, stop>>

\* Communicator.Stop returns when everything it took is settled.
ComStopped ==
  /\ com = "stopping" /\ \A m \in Msgs : at[m] # "taken"
  /\ com' = "stopped"
  /\ UNCHANGED <<at, loop, queue, sort, filter, seen, late, sets, stop>>

-----------------------------------------------------------------------------
(* Client.Stop *)

StopCalled ==
  /\ stop = "running"
  /\ stop' = "com" /\ com' = "stopping"
  /\ UNCHANGED <<at, loop, queue, sort, filter, seen, late, sets>>

StopServices ==
  /\ stop = "com" /\ com = "stopped"
  /\ stop' = "services"
  /\ UNCHANGED <<at, loop, queue, sort, filter, seen, late, sets, com>>

\* Variant: does not wait for the services.
CloseInputsEarly ==
  /\ stop = "services"
  /\ stop' = "retry"
  /\ UNCHANGED <<at, loop, queue, sort, filter, seen, late, sets, com>>

\* sc.Stop waits for the services, the ones in ProcessMessage included; then
\* the draining starts and the inputs are closed.
CloseInputs ==
  /\ stop = "services" /\ \A m \in Msgs : at[m] # "sending"
  /\ stop' = "retry"
  /\ UNCHANGED <<at, loop, queue, sort, filter, seen, late, sets, com>>

\* Variant: closes outUnsorted without waiting for the retry loops.
CloseUnsortedEarly ==
  /\ stop = "retry"
  /\ stop' = "sort"
  /\ UNCHANGED <<at, loop, queue, sort, filter, seen, late, sets, com>>

CloseUnsorted ==
  /\ stop = "retry" /\ \A p \in Priorities : loop[p].pc = "done"
  /\ stop' = "sort"
  /\ UNCHANGED <<at, loop, queue, sort, filter, seen, late, sets, com>>

StopDone ==
  /\ stop = "sort" /\ sort = "done"
  /\ stop' = "done"
  /\ UNCHANGED <<at, loop, queue, sort, filter, seen, late, sets, com>>

Stopped == stop = "done" /\ UNCHANGED vars

-----------------------------------------------------------------------------
Step ==
  \/ \E m \in Msgs : \/ ContextDone(m) \/ Accept(m) \/ Retry(m) \/ Acknowledged(m)
                     \/ Receive(m) \/ Ack(m) \/ Nack(m)
  \/ \E p \in Priorities : LoopEnds(p) \/ Send(p) \/ Drain(p)
  \/ FilterPoll \/ DrainBegins \/ DrainEnds
  \/ ComStopped \/ StopServices \/ CloseInputs \/ CloseUnsorted \/ StopDone

Next ==
  \/ \E m \in Msgs : ProcessMessage(m)
  \/ \E f \in SUBSET Filterable : SetFilter(f)
  \/ StopCalled
  \/ Step
  \/ Stopped

\* Goroutines that can run do.  A message that is taken again and again is
\* acknowledged one day: the connection does not fail for ever.
Fairness == WF_vars(Step) /\ \A m \in Msgs : SF_vars(Ack(m))

Spec == Init /\ [][Next]_vars /\ Fairness

-----------------------------------------------------------------------------
(* Properties *)

\* Ack and Nack never block their caller (the comment at retry.go:40): with
\* everything that is taken the channels still have room.
CallbacksNeverBlock ==
  \A p \in Priorities :
    Cardinality(Of(p, {"taken", "acks"})) <= maxCount /\ Cardinality(Of(p, {"taken", "nacks"})) <= maxCount

\* size and count of a RetryLoop are those of its pending messages, across
\* retries and acknowledgements in any order, and pass the limit of bytes by
\* less than the last message accepted.
PendingExact ==
  \A p \in Priorities :
    /\ loop[p].count = Cardinality(Pending(p))
    /\ loop[p].size = MapThenSumSet(LAMBDA m : SizeOf[m], Pending(p))
    /\ \E m \in Msgs : loop[p].size < maxSize + SizeOf[m]

\* After Filter.Set at most one more message of a priority it holds back goes
\* to the outbox: SortLoop offers what it chose before, and reads again.
FilterLag == \A p \in Priorities : p \in filter => late[p] <= 1

\* Nothing is sent on a closed channel: no service waits in ProcessMessage once
\* the inputs are closed, no RetryLoop offers a message once outUnsorted is.
NoSendOnClosed ==
  /\ stop \in {"retry", "sort", "done"} => \A m \in Msgs : at[m] # "sending"
  /\ stop \in {"sort", "done"} => \A m \in Msgs : at[m] # "hand"

Offered(m) == at[m] = "hand"
Answered(m) == at[m] = "acked" \/ stop # "running" \/ filter # {}

\* An accepted message is acknowledged, unless the client is stopped or filters.
EventuallyAcknowledged == \A m \in Msgs : Offered(m) ~> Answered(m)

Ending == stop # "running"
Ended == stop = "done"

\* "so that the RetryLoops are guaranteed to terminate" (client.go:278): Stop
\* returns.
StopReturns == Ending ~> Ended
=============================================================================
