------------------------------- MODULE Polling -------------------------------
(***************************************************************************)
(* The polling Communicator and the server's /message handler.  The loop   *)
(* collects messages of the outbox and posts them; Stop, Reset and Flush   *)
(* are called by other goroutines.  A channel that only signals its end is *)
(* a number, closed or not; numbers no longer referred to are used again.  *)
(***************************************************************************)
EXTENDS Naturals, FiniteSetsExt

CONSTANTS Msgs, sendCountThreshold,
          MayFlush,      \* whether Flush is called: the loop does not depend on it
          MaxRekeys, MaxResets, MaxFailures    \* bounds of a behaviour

VARIABLES
  outbox, toSend,
  pc,           \* of processingLoop
  final,        \* it makes its last poll
  ctxDone,      \* c.ctx is cancelled
  request,      \* the context of the request: cancelled, child of an older c.ctx
  rekeyed,      \* CurrentID is not c.id
  wakeUp,
  pollDone, myDone, closed, lastPollErr,
  flush,        \* a call of Flush: step, its channel, what was to be sent
  stop,
  fate,         \* of messages the loop has taken: "acked", "nacked"
  stored,       \* messages the server has stored
  rekeys, resets, failures

vars == <<outbox, toSend, pc, final, ctxDone, request, rekeyed, wakeUp, pollDone, myDone, closed,
          lastPollErr, flush, stop, fate, stored, rekeys, resets, failures>>
bounds == <<rekeys, resets, failures>>

Chans == 1 .. 4
NoRequest == [done |-> FALSE, old |-> FALSE]

TypeOK ==
  /\ outbox \subseteq Msgs /\ toSend \subseteq Msgs /\ stored \subseteq Msgs
  /\ pc \in {"wait", "begin", "configure", "request", "ok", "failed", "delay", "exit"}
  /\ request \in [done : BOOLEAN, old : BOOLEAN]
  /\ {final, ctxDone, rekeyed, wakeUp, lastPollErr} \subseteq BOOLEAN
  /\ pollDone \in Chans /\ myDone \in Chans /\ closed \subseteq Chans
  /\ flush.pc \in {"no", "waiting", "nil", "error"} /\ stop \in {"no", "waiting", "returned"}
  /\ fate \in [Msgs -> {"none", "acked", "nacked"}]

\* Setup: the first channel is closed.
Init ==
  /\ outbox = Msgs /\ toSend = {} /\ pc = "wait" /\ final = FALSE /\ ctxDone = FALSE
  /\ request = NoRequest /\ rekeyed = FALSE /\ wakeUp = FALSE
  /\ pollDone = 1 /\ myDone = 1 /\ closed = {1} /\ lastPollErr = FALSE
  /\ flush = [pc |-> "no", done |-> 1] /\ stop = "no"
  /\ fate = [m \in Msgs |-> "none"] /\ stored = {} /\ rekeys = 0 /\ resets = 0 /\ failures = 0

NewChan == Min(Chans \ {pollDone, myDone, flush.done})
Reopened == IF pollDone \in closed THEN NewChan ELSE pollDone

-----------------------------------------------------------------------------
(* processingLoop *)

\* A message of the outbox; there is a poll at once if there are enough.
Take(m) ==
  /\ pc = "wait" /\ m \in outbox
  /\ outbox' = outbox \ {m} /\ toSend' = toSend \cup {m}
  /\ pollDone' = Reopened /\ closed' = closed \ {Reopened} /\ myDone' = Reopened
  /\ pc' = IF Cardinality(toSend') >= sendCountThreshold THEN "begin" ELSE "wait"
  /\ UNCHANGED <<final, ctxDone, request, rekeyed, wakeUp, lastPollErr, flush, stop, fate, stored, bounds>>

\* The time for the next poll has come, or wakeUp was signalled.
Due ==
  /\ pc = "wait" /\ pc' = "begin"
  /\ wakeUp' \in {wakeUp, FALSE}
  /\ UNCHANGED <<outbox, toSend, final, ctxDone, request, rekeyed, pollDone, myDone, closed, lastPollErr,
                 flush, stop, fate, stored, bounds>>

\* c.ctx is cancelled: one more poll if there is something to send.
Cancelled ==
  /\ pc = "wait" /\ ctxDone
  /\ final' = TRUE /\ pc' = IF toSend # {} THEN "begin" ELSE "exit"
  /\ UNCHANGED <<outbox, toSend, ctxDone, request, rekeyed, wakeUp, pollDone, myDone, closed, lastPollErr,
                 flush, stop, fate, stored, bounds>>

\* The start of poll: its channel and its context.
BeginPoll ==
  /\ pc = "begin" /\ pc' = "configure"
  /\ pollDone' = Reopened /\ closed' = closed \ {Reopened} /\ myDone' = Reopened
  /\ request' = [done |-> ctxDone, old |-> FALSE]
  /\ UNCHANGED <<outbox, toSend, final, ctxDone, rekeyed, wakeUp, lastPollErr, flush, stop, fate, stored, bounds>>

\* configure, if the client has a new identity: it replaces c.ctx and c.wakeUp.
configure ==
  /\ pc = "configure" /\ pc' = "request"
  /\ IF rekeyed
     THEN rekeyed' = FALSE /\ ctxDone' = FALSE /\ wakeUp' = FALSE /\ request' = [request EXCEPT !.old = TRUE]
     ELSE UNCHANGED <<rekeyed, ctxDone, wakeUp, request>>
  /\ UNCHANGED <<outbox, toSend, final, pollDone, myDone, closed, lastPollErr, flush, stop, fate, stored, bounds>>

\* pollHost for one host after the other.  Without success, servers may still
\* have stored the messages: the answer was lost, or the context cancelled.
poll ==
  /\ pc = "request"
  /\ \/ /\ ~request.done /\ pc' = "ok" /\ stored' = stored \cup toSend /\ UNCHANGED failures
     \/ /\ request.done \/ failures < MaxFailures
        /\ failures' = IF request.done THEN failures ELSE failures + 1
        /\ pc' = "failed" /\ stored' \in {stored, stored \cup toSend}
  /\ UNCHANGED <<outbox, toSend, final, ctxDone, request, rekeyed, wakeUp, pollDone, myDone, closed,
                 lastPollErr, flush, stop, fate, rekeys, resets>>

\* The end of poll; the loop ends after it if c.ctx is cancelled, and returns
\* what it has left.
EndPoll(err) ==
  /\ lastPollErr' = err /\ myDone' = pollDone
  /\ closed' = (closed \cup {myDone}) \cap {pollDone, flush.done}
  /\ request' = NoRequest
  /\ pc' = IF ctxDone \/ final THEN "exit" ELSE "wait"

Settle(outcome) ==
  /\ fate' = [m \in Msgs |-> IF m \in toSend THEN outcome ELSE fate[m]]
  /\ toSend' = {}

Acks ==
  /\ pc = "ok"
  /\ Settle("acked") /\ EndPoll(FALSE)
  /\ UNCHANGED <<outbox, final, ctxDone, rekeyed, wakeUp, pollDone, flush, stop, stored, bounds>>

\* A request that Reset cancelled keeps its messages for the next poll.
WasReset ==
  /\ pc = "failed" /\ request.done /\ ~ctxDone
  /\ EndPoll(TRUE)
  /\ IF final THEN Settle("nacked") ELSE UNCHANGED <<toSend, fate>>
  /\ UNCHANGED <<outbox, final, ctxDone, rekeyed, wakeUp, pollDone, flush, stop, stored, bounds>>

\* Any other failure gives them back, and waits.
Nacks ==
  /\ pc = "failed" /\ ~(request.done /\ ~ctxDone)
  /\ Settle("nacked") /\ pc' = "delay"
  /\ UNCHANGED <<outbox, final, ctxDone, request, rekeyed, wakeUp, pollDone, myDone, closed, lastPollErr,
                 flush, stop, stored, bounds>>

DelayEnds ==
  /\ pc = "delay"
  /\ wakeUp' \in {wakeUp, FALSE}
  /\ EndPoll(TRUE)
  /\ UNCHANGED <<outbox, toSend, final, ctxDone, rekeyed, pollDone, flush, stop, fate, stored, bounds>>

-----------------------------------------------------------------------------
(* The other goroutines *)

\* The system service has rekeyed.
Rekey ==
  /\ rekeys < MaxRekeys /\ rekeyed' = TRUE /\ rekeys' = rekeys + 1
  /\ UNCHANGED <<outbox, toSend, pc, final, ctxDone, request, wakeUp, pollDone, myDone, closed, lastPollErr,
                 flush, stop, fate, stored, resets, failures>>

Polling == pc \in {"configure", "request", "ok", "failed", "delay"}

Reset ==
  /\ resets < MaxResets /\ resets' = resets + 1
  /\ request' = IF Polling THEN [request EXCEPT !.done = TRUE] ELSE request
  /\ pollDone' = NewChan /\ closed' = closed \ {NewChan}
  /\ wakeUp' = TRUE
  /\ UNCHANGED <<outbox, toSend, pc, final, ctxDone, rekeyed, myDone, lastPollErr, flush, stop, fate, stored,
                 rekeys, failures>>

FlushCalled ==
  /\ MayFlush /\ flush.pc = "no"
  /\ flush' = [pc |-> "waiting", done |-> pollDone]
  /\ UNCHANGED <<outbox, toSend, pc, final, ctxDone, request, rekeyed, wakeUp, pollDone, myDone, closed,
                 lastPollErr, stop, fate, stored, bounds>>

\* Its channel is closed: it waits again after a poll that Reset cancelled.
FlushWakes ==
  /\ flush.pc = "waiting" /\ flush.done \in closed
  /\ flush' = IF lastPollErr /\ pollDone # flush.done THEN [flush EXCEPT !.done = pollDone]
              ELSE [flush EXCEPT !.pc = IF lastPollErr THEN "error" ELSE "nil", !.done = pollDone]
  /\ UNCHANGED <<outbox, toSend, pc, final, ctxDone, request, rekeyed, wakeUp, pollDone, myDone, closed,
                 lastPollErr, stop, fate, stored, bounds>>

\* c.ctx or the caller's context ends.
FlushCancelled ==
  /\ flush.pc = "waiting"
  /\ flush' = [flush EXCEPT !.pc = "error", !.done = pollDone]
  /\ UNCHANGED <<outbox, toSend, pc, final, ctxDone, request, rekeyed, wakeUp, pollDone, myDone, closed,
                 lastPollErr, stop, fate, stored, bounds>>

StopCalled ==
  /\ stop = "no"
  /\ stop' = "waiting" /\ ctxDone' = TRUE
  /\ request' = IF Polling /\ ~request.old THEN [request EXCEPT !.done = TRUE] ELSE request
  /\ UNCHANGED <<outbox, toSend, pc, final, rekeyed, wakeUp, pollDone, myDone, closed, lastPollErr, flush,
                 fate, stored, bounds>>

StopReturns ==
  /\ stop = "waiting" /\ pc = "exit"
  /\ stop' = "returned"
  /\ UNCHANGED <<outbox, toSend, pc, final, ctxDone, request, rekeyed, wakeUp, pollDone, myDone, closed,
                 lastPollErr, flush, fate, stored, bounds>>

Rest == stop = "returned" /\ UNCHANGED vars

Loop == (\E m \in Msgs : Take(m)) \/ Due \/ Cancelled \/ BeginPoll \/ configure \/ poll \/ Acks
        \/ WasReset \/ Nacks \/ DelayEnds

Next == Loop \/ Rekey \/ Reset \/ FlushCalled \/ FlushWakes \/ FlushCancelled \/ StopCalled \/ StopReturns \/ Rest

\* The loop runs; a select with several ready cases takes each of them at some time.
DueToSend == Due /\ toSend # {}
Fairness == WF_vars(Loop) /\ SF_vars(Cancelled) /\ WF_vars(StopReturns) /\ SF_vars(DueToSend)

Spec == Init /\ [][Next]_vars /\ Fairness

-----------------------------------------------------------------------------
(* Properties *)

\* Only what a server has stored is acknowledged.
AckedIsStored == \A m \in Msgs : fate[m] = "acked" => m \in stored

\* poll closes its channel once, although Take, Reset and poll itself replace
\* it: closing a closed channel panics.
ClosedOnce == Polling => myDone \notin closed

Offered(m) == m \in toSend
Answered(m) == m \notin toSend

\* What the loop has taken is acknowledged or given back.
EventuallyReturned == \A m \in Msgs : Offered(m) ~> Answered(m)

\* Stop cancelled a c.ctx that configure has replaced since (polling.go:118,
\* 230): the loop goes on, and Stop waits for it.
Hung == stop = "waiting" /\ ~ctxDone /\ ~final

Ending == stop = "waiting"
Ended == stop = "returned" \/ Hung


\* The exception is no wider than it must be: what is hung stays so.
HungKept == Hung => Hung'
=============================================================================
