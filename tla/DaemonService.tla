---------------------------- MODULE DaemonService ----------------------------
(***************************************************************************)
(* The client's daemon service: client/daemonservice/daemonservice.go      *)
(* (executionManagerLoop, feedExecution, monitorExecution), the execution  *)
(* of its child process in execution/execution.go and the pipes between    *)
(* the two in client/channel/channel.go.                                   *)
(*                                                                         *)
(* One execution runs at a time.  Its record ex holds where each of its    *)
(* goroutines is, what they share (the mutex e.mu, the channels            *)
(* shuttingDown, dead, Out and magicRead) and the child process.  Messages *)
(* are model values; the bytes of standard output are counted.             *)
(***************************************************************************)
EXTENDS Naturals, FiniteSets

CONSTANTS Msgs,           \* messages the service manager passes to ProcessMessage
          None,           \* no message
          LazyStart,      \* the service's lazy_start
          Inactivity,     \* whether inactivity_timeout is set
          outFlushBytes,  \* bytes of output that trigger a StdOutput message
          StdParams,      \* whether std_params is set
          Monitoring,     \* unless disable_resource_monitoring is set
          MaxStarts,      \* bound on the executions
          MaxHeard,       \* bound on the messages of one process
          MaxWritten      \* bound on the bytes one process prints

VARIABLES input,      \* messages ProcessMessage was not yet called with
          msg,        \* executionManagerLoop's msg, the next one to feed
          mgr,        \* where executionManagerLoop is
          feed,       \* where feedExecution is, SendMsg included
          monitor,    \* where monitorExecution is
          cancelled,  \* whether the context of this execution is done
          stopped,    \* whether Stop cancelled the service's context
          ex,         \* the execution
          starts,     \* executions started
          taken,      \* messages the channel's writer received
          overwritten, \* messages msg held when a lazy start replaced it
          panicked    \* a goroutine sent on a closed channel

vars == <<input, msg, mgr, feed, monitor, cancelled, stopped, ex, starts, taken, overwritten, panicked>>

\* What New leaves behind: its goroutines, the channel's two loops and Wait.
NewExecution ==
    [shuttingDown |-> FALSE, outClosed |-> FALSE, mu |-> "free", shutdown |-> "no",
     proc |-> "new", dead |-> FALSE, done |-> FALSE,
     reader |-> "magic", writer |-> "magic", magicRead |-> "none", err |-> FALSE,
     inRoutine |-> "read", waiter |-> "wait",
     stats |-> IF Monitoring THEN "on" ELSE "done", flush |-> IF StdParams THEN "on" ELSE "done",
     wait |-> "shutting", heard |-> 0, active |-> FALSE,
     written |-> 0, out |-> 0, copying |-> "no", sent |-> 0]

\* Before the first execution there is nothing to wait for.
NoExecution ==
    [NewExecution EXCEPT !.proc = "exited", !.reader = "done", !.writer = "done",
                         !.inRoutine = "done", !.waiter = "done", !.stats = "done",
                         !.flush = "done", !.wait = "done", !.shutdown = "done"]

Init ==
    /\ input = Msgs
    /\ msg = None
    /\ mgr = "top"
    /\ feed = "off"
    /\ monitor = "off"
    /\ cancelled = FALSE
    /\ stopped = FALSE
    /\ ex = NoExecution
    /\ starts = 0
    /\ taken = {}
    /\ overwritten = {}
    /\ panicked = FALSE

\* The contexts: stopping the service ends the execution's context, which ends
\* the one its goroutines run under.
Cancelled == cancelled \/ stopped
Done == ex.done \/ ex.shuttingDown \/ Cancelled

-----------------------------------------------------------------------------
(* daemonservice.go *)

\* Stop: cancel the context; executionManagerLoop's return ends the call.  It is
\* called for a restart of the service, or by Client.Stop, which has stopped the
\* Communicator and holds the lock of the services until it returns.
Stop ==
    /\ ~stopped
    /\ stopped' = TRUE
    /\ UNCHANGED <<input, msg, mgr, feed, monitor, cancelled, ex, starts, taken, overwritten, panicked>>

\* The top of executionManagerLoop.
Top ==
    /\ mgr = "top"
    /\ mgr' = IF stopped THEN "done" ELSE IF LazyStart THEN "lazy" ELSE "start"
    /\ UNCHANGED <<input, msg, feed, monitor, cancelled, stopped, ex, starts, taken, overwritten, panicked>>

\* The lazy start waits for a message, which becomes msg, whatever msg was.
Lazy ==
    /\ mgr = "lazy"
    /\ \/ stopped /\ mgr' = "done" /\ UNCHANGED <<input, msg, overwritten>>
       \/ /\ \E m \in input : msg' = m /\ input' = input \ {m}
          /\ overwritten' = overwritten \cup ({msg} \ {None})
          /\ mgr' = "start"
    /\ UNCHANGED <<feed, monitor, cancelled, stopped, ex, starts, taken, panicked>>

\* newExec up to the call of execution.New.  When the respawn delay is over the
\* context is not looked at; after a failed start the delay has just begun.
newExec ==
    /\ \/ mgr \in {"start", "retry"} /\ stopped /\ mgr' = "done"
       \/ /\ mgr = "start" \/ (mgr = "retry" /\ ~stopped)
          /\ starts < MaxStarts
          /\ mgr' = "new"
    /\ UNCHANGED <<input, msg, feed, monitor, cancelled, stopped, ex, starts, taken, overwritten,
                   panicked>>

\* execution.New: GetLocalInfo takes the lock of the client's services, which in
\* a Client.Stop it does not get.  If the command starts, feedExecution,
\* monitorExecution and Wait start with it.
New ==
    /\ mgr = "new"
    /\ \/ /\ mgr' \in {"retry"} \cup (IF stopped THEN {"stuck"} ELSE {})
          /\ UNCHANGED <<feed, monitor, cancelled, ex, starts>>
       \/ /\ mgr' = "run"
          /\ feed' = "select"
          /\ monitor' = "on"
          /\ cancelled' = FALSE
          /\ ex' = NewExecution
          /\ starts' = starts + 1
    /\ UNCHANGED <<input, msg, stopped, taken, overwritten, panicked>>

\* eg.Wait: both feedExecution and monitorExecution have returned.
Joined ==
    /\ mgr = "run" /\ feed = "off" /\ monitor = "off"
    /\ mgr' = "shutdown"
    /\ cancelled' = TRUE
    /\ UNCHANGED <<input, msg, feed, monitor, stopped, ex, starts, taken, overwritten, panicked>>

\* waitEg.Wait: Wait has returned.
WaitJoinedEarly ==
    /\ mgr = "join"
    /\ mgr' = "top"
    /\ UNCHANGED <<input, msg, feed, monitor, cancelled, stopped, ex, starts, taken, overwritten, panicked>>

WaitJoined ==
    /\ mgr = "join" /\ ex.wait = "done"
    /\ mgr' = "top"
    /\ UNCHANGED <<input, msg, feed, monitor, cancelled, stopped, ex, starts, taken, overwritten, panicked>>

\* monitorExecution: the context is done, or its timer finds the process
\* inactive.  lastActive starts at the epoch, so a process that was never
\* heard of counts as inactive.
monitorExecution ==
    /\ monitor = "on"
    /\ \/ Cancelled /\ UNCHANGED cancelled
       \/ Inactivity /\ ~ex.active /\ cancelled' = TRUE
    /\ monitor' = "off"
    /\ UNCHANGED <<input, msg, mgr, feed, stopped, ex, starts, taken, overwritten, panicked>>

\* The inactivity timeout passes without a message or output.
Idle ==
    /\ ex.active
    /\ ex' = [ex EXCEPT !.active = FALSE]
    /\ UNCHANGED <<input, msg, mgr, feed, monitor, cancelled, stopped, starts, taken, overwritten, panicked>>

\* feedExecution returns: an error cancels the execution's context, and m is
\* what executionManagerLoop keeps for the next execution.
FeedReturns(m) ==
    /\ feed' = "off"
    /\ msg' = m
    /\ cancelled' = TRUE

\* feedExecution's wait for a message, skipped while it holds one.
feedExecution ==
    /\ feed = "select"
    /\ \/ /\ msg # None
          /\ feed' = "check"
          /\ UNCHANGED <<input, msg, cancelled>>
       \/ /\ msg = None /\ Cancelled
          /\ FeedReturns(None)
          /\ UNCHANGED input
       \/ /\ msg = None
          /\ \E m \in input : msg' = m /\ input' = input \ {m}
          /\ feed' = "check"
          /\ UNCHANGED cancelled
    /\ UNCHANGED <<mgr, monitor, stopped, ex, starts, taken, overwritten, panicked>>

-----------------------------------------------------------------------------
(* execution.go: SendMsg *)

\* SendMsg's first select: ErrShuttingDown returns the message to the caller.
SendMsgCheckDrops ==
    /\ feed = "check"
    /\ IF ex.shuttingDown THEN FeedReturns(None) ELSE feed' = "lock" /\ UNCHANGED <<msg, cancelled>>
    /\ UNCHANGED <<input, mgr, monitor, stopped, ex, starts, taken, overwritten, panicked>>

SendMsgCheck ==
    /\ feed = "check"
    /\ IF ex.shuttingDown THEN FeedReturns(msg) ELSE feed' = "lock" /\ UNCHANGED <<msg, cancelled>>
    /\ UNCHANGED <<input, mgr, monitor, stopped, ex, starts, taken, overwritten, panicked>>

\* e.mu.Lock.
SendMsgLock ==
    /\ feed = "lock" /\ ex.mu = "free"
    /\ feed' = "send"
    /\ ex' = [ex EXCEPT !.mu = "feed"]
    /\ UNCHANGED <<input, msg, mgr, monitor, cancelled, stopped, starts, taken, overwritten, panicked>>

\* SendMsg's second select.  Sending on the closed Out panics.
SendMsgSend ==
    /\ feed = "send"
    /\ \/ /\ Cancelled
          /\ FeedReturns(msg)
          /\ ex' = [ex EXCEPT !.mu = "free"]
          /\ UNCHANGED <<taken, panicked>>
       \/ /\ ex.outClosed
          /\ panicked' = TRUE
          /\ UNCHANGED <<feed, msg, cancelled, ex, taken>>
       \/ /\ ~ex.outClosed /\ ex.writer = "range"
          /\ ex' = [ex EXCEPT !.mu = "free", !.writer = "write"]
          /\ taken' = taken \cup {msg}
          /\ msg' = None
          /\ feed' = "select"
          /\ UNCHANGED <<cancelled, panicked>>
    /\ UNCHANGED <<input, mgr, monitor, stopped, starts, overwritten>>

-----------------------------------------------------------------------------
(* The steps of an execution change ex only. *)

ServiceUnchanged ==
    UNCHANGED <<input, msg, mgr, feed, monitor, cancelled, stopped, starts, taken, overwritten, panicked>>

\* Shutdown runs once (shutdown.Do); the goroutines at "shutdown" wait for it.
\* It closes Out, waits for the process to exit (a SoftKill follows after a
\* second), kills it and waits for a last second.
Callers ==
    \/ ex.inRoutine = "shutdown"
    \/ ex.waiter = "shutdown"
    \/ mgr = "shutdown"

Shutdown ==
    /\ \/ /\ ex.shutdown = "no" /\ Callers
          /\ ex' = [ex EXCEPT !.shuttingDown = TRUE, !.shutdown = "lock"]
       \/ /\ ex.shutdown = "lock" /\ ex.mu = "free"
          /\ ex' = [ex EXCEPT !.outClosed = TRUE, !.shutdown = "sleep"]
       \/ /\ ex.shutdown \in {"sleep", "kill"} /\ ex.dead
          /\ ex' = [ex EXCEPT !.shutdown = "done"]
       \/ /\ ex.shutdown = "sleep"
          /\ ex' = [ex EXCEPT !.shutdown = "kill"]
       \/ /\ ex.shutdown = "kill"
          /\ ex' = [ex EXCEPT !.shutdown = "done"]
    /\ ServiceUnchanged

\* executionManagerLoop's own call of Shutdown returns.
ShutdownReturns ==
    /\ mgr = "shutdown" /\ ex.shutdown = "done"
    /\ mgr' = "join"
    /\ UNCHANGED <<input, msg, feed, monitor, cancelled, stopped, ex, starts, taken, overwritten, panicked>>

\* Wait: shuttingDown, then the rest of channel.In, the channel's loops and its
\* errors, then the goroutines; the caller cancels the execution's context.
Drain ==
    /\ ex.wait = "drain" /\ ex.reader = "push"
    /\ ex' = [ex EXCEPT !.reader = "size"]
    /\ ServiceUnchanged

GoroutinesEnded ==
    ex.inRoutine = "done" /\ ex.waiter = "done" /\ ex.stats = "done" /\ ex.flush = "done"

Wait ==
    \/ /\ \/ /\ ex.wait = "shutting" /\ ex.shuttingDown
             /\ ex' = [ex EXCEPT !.wait = "drain"]
          \/ /\ ex.wait = "drain" /\ ex.reader = "done"
             /\ ex' = [ex EXCEPT !.wait = "channel"]
          \/ /\ ex.wait = "channel" /\ ex.writer = "done"
             /\ ex' = [ex EXCEPT !.wait = "group", !.err = FALSE, !.done = TRUE]
       /\ ServiceUnchanged
    \/ /\ ex.wait = "group" /\ GoroutinesEnded
       /\ ex' = [ex EXCEPT !.wait = "done"]
       /\ cancelled' = TRUE
       /\ UNCHANGED <<input, msg, mgr, feed, monitor, stopped, starts, taken, overwritten, panicked>>

\* sc.Send(context.Background(), ...): without a Communicator it may find the
\* RetryLoops full, and then never returns.
SendEnds(returned) == {returned} \cup (IF stopped THEN {"stuck"} ELSE {})

\* inRoutine: readMsg, then the message goes to the server (sc.Send) unless it
\* is one for "system".  Its return cancels the context and calls Shutdown.
inRoutine ==
    /\ \/ /\ ex.inRoutine = "read" /\ (Done \/ ex.reader = "done" \/ ex.err)
          /\ ex' = [ex EXCEPT !.inRoutine = "shutdown", !.done = TRUE]
       \/ /\ ex.inRoutine = "read" /\ ex.reader = "push"
          /\ \E next \in {"read", "send"} :
                ex' = [ex EXCEPT !.reader = "size", !.active = Inactivity, !.inRoutine = next]
       \/ /\ ex.inRoutine = "send"
          /\ \E next \in SendEnds("read") : ex' = [ex EXCEPT !.inRoutine = next]
       \/ /\ ex.inRoutine = "shutdown" /\ ex.shutdown = "done"
          /\ ex' = [ex EXCEPT !.inRoutine = "done"]
    /\ ServiceUnchanged

\* The goroutine of cmd.Wait, which also waits for writeToOut: dead is closed, the
\* final ResourceUsage is sent, or not within 30 seconds, the context is
\* cancelled and Shutdown is called.
waitRoutine ==
    /\ \/ /\ ex.waiter = "wait" /\ ex.proc = "exited" /\ ex.copying = "no"
          /\ ex' = [ex EXCEPT !.dead = TRUE, !.done = TRUE, !.waiter = "shutdown"]
       \/ /\ ex.waiter = "shutdown" /\ ex.shutdown = "done"
          /\ ex' = [ex EXCEPT !.waiter = "done"]
    /\ ServiceUnchanged

\* statsRoutine: waitForStartupData, which gives up after a timeout, then the
\* resource monitor, both until the context is done.
statsRoutine ==
    /\ ex.stats = "on" /\ Done
    /\ ex' = [ex EXCEPT !.stats = "done", !.done = TRUE]
    /\ ServiceUnchanged

\* flushOut: what is buffered goes out as one StdOutput message.
flushOut(e) ==
    IF e.out = 0 THEN e ELSE [e EXCEPT !.sent = @ + e.out, !.out = 0, !.active = Inactivity]

\* writeToOut of one byte: a buffer that is full goes out first, under the lock
\* of the output.
writeToOut ==
    /\ StdParams /\ ex.copying = "no"
    /\ ex.proc = "up" /\ ex.written < MaxWritten
    /\ ex' = IF ex.out + 1 <= outFlushBytes /\ ex.flush # "stuck"
             THEN [ex EXCEPT !.out = @ + 1, !.written = @ + 1]
             ELSE [ex EXCEPT !.copying = "yes", !.written = @ + 1]
    /\ ServiceUnchanged

WriteFlushed ==
    /\ ex.copying = "yes" /\ ex.flush # "stuck"
    /\ \E next \in SendEnds("no") :
          ex' = IF next = "stuck" THEN [ex EXCEPT !.copying = next]
                ELSE [flushOut(ex) EXCEPT !.out = 1, !.copying = next]
    /\ ServiceUnchanged

\* stdFlushRoutine: on its ticker, and a last time when the process is dead.
stdFlushRoutineEarly ==
    /\ ex.flush = "on" /\ ex.copying = "no"
    /\ \/ ex.out > 0 /\ ex' = flushOut(ex)
       \/ ex.shuttingDown /\ ex' = [flushOut(ex) EXCEPT !.flush = "done"]
       \/ ex.out > 0 /\ stopped /\ ex' = [ex EXCEPT !.flush = "stuck"]
    /\ ServiceUnchanged

stdFlushRoutine ==
    /\ ex.flush = "on" /\ ex.copying = "no"
    /\ \/ ex.out > 0 /\ ex' = flushOut(ex)
       \/ ex.dead /\ ex' = [flushOut(ex) EXCEPT !.flush = "done"]
       \/ ex.out > 0 /\ stopped /\ ex' = [ex EXCEPT !.flush = "stuck"]
    /\ ServiceUnchanged

-----------------------------------------------------------------------------
(* channel.go *)

\* The end of readLoop: In is closed, and writeLoop is told when no magic
\* number was read.
ReadLoopEnds(e, err) ==
    [e EXCEPT !.reader = "done", !.err = @ \/ err,
              !.magicRead = IF @ = "none" THEN "false" ELSE @]

\* The magic number after a message is read with the message.
readLoop ==
    /\ \/ /\ ex.reader = "magic" /\ ex.proc = "up"
          /\ ex' = [ex EXCEPT !.reader = "size", !.magicRead = "true"]
       \/ /\ ex.reader = "magic" /\ ex.proc = "exited"
          /\ ex' = ReadLoopEnds(ex, TRUE)
       \/ /\ ex.reader = "size" /\ ex.proc = "exited"
          /\ ex' = ReadLoopEnds(ex, FALSE)
    /\ ServiceUnchanged

\* The timer of a read of the magic number: the error is reported, the read
\* goes on.
ReadTimeout ==
    /\ ex.reader = "magic" /\ ~ex.err /\ ex.wait \in {"shutting", "drain"}
    /\ ex' = [ex EXCEPT !.err = TRUE]
    /\ ServiceUnchanged

\* writeLoop: the magic number, readLoop's verdict on the other side's, then
\* the messages of Out until it is closed.  A write to a dead process fails.
writeLoop ==
    /\ \/ /\ ex.writer \in {"magic", "write"} /\ ex.proc = "exited"
          /\ ex' = [ex EXCEPT !.writer = "done", !.err = TRUE]
       \/ /\ ex.writer = "magic" /\ ex.magicRead # "none"
          /\ ex' = [ex EXCEPT !.writer = IF ex.magicRead = "true" THEN "range" ELSE "done"]
       \/ /\ ex.writer = "range" /\ ex.outClosed
          /\ ex' = [ex EXCEPT !.writer = "done"]
    /\ ServiceUnchanged

-----------------------------------------------------------------------------
(* The child process, external. *)

\* It writes its magic number, sends a message, reads what writeLoop writes.
Process ==
    /\ \/ /\ ex.proc = "new"
          /\ ex' = [ex EXCEPT !.proc = "up"]
       \/ /\ ex.proc = "up" /\ ex.reader = "size" /\ ex.heard < MaxHeard
          /\ ex' = [ex EXCEPT !.reader = "push", !.heard = @ + 1]
       \/ /\ ex.proc = "up" /\ ex.writer = "write"
          /\ ex' = [ex EXCEPT !.writer = "range"]
    /\ ServiceUnchanged

\* It exits: on its own, since its input ended, or since it was killed.
Exits ==
    /\ ex.proc # "exited"
    /\ ex' = [ex EXCEPT !.proc = "exited"]
    /\ ServiceUnchanged

-----------------------------------------------------------------------------

\* The goroutines of the service and of the execution.
Step ==
    \/ Top \/ Lazy \/ newExec \/ New \/ Joined \/ WaitJoined \/ ShutdownReturns
    \/ monitorExecution \/ feedExecution \/ SendMsgCheck \/ SendMsgLock \/ SendMsgSend
    \/ Shutdown \/ Drain \/ Wait \/ inRoutine \/ waitRoutine \/ statsRoutine
    \/ WriteFlushed \/ stdFlushRoutine \/ readLoop \/ writeLoop

\* A panic ends the client.
Next ==
    /\ ~panicked
    /\ \/ Step
       \/ Stop \/ Idle \/ writeToOut \/ ReadTimeout \/ Process \/ Exits

\* Every goroutine goes on while it can, and the system ends a killed process.
Killed == ex.shutdown \in {"kill", "done"} /\ Exits

Run(g) ==
    /\ ~panicked
    /\ CASE g = "manager" -> Top \/ Lazy \/ newExec \/ New \/ Joined \/ WaitJoined \/ ShutdownReturns
         [] g = "monitor" -> monitorExecution
         [] g = "feed" -> feedExecution \/ SendMsgCheck \/ SendMsgLock \/ SendMsgSend
         [] g = "shutdown" -> Shutdown
         [] g = "wait" -> Drain \/ Wait
         [] g = "in" -> inRoutine
         [] g = "exit" -> waitRoutine
         [] g = "stats" -> statsRoutine
         [] g = "flush" -> WriteFlushed \/ stdFlushRoutine
         [] g = "read" -> readLoop
         [] g = "write" -> writeLoop
         [] g = "kill" -> Killed

Goroutines == {"manager", "monitor", "feed", "shutdown", "wait", "in", "exit", "stats", "flush",
               "read", "write", "kill"}
Fairness == \A g \in Goroutines : WF_vars(Run(g))

Spec == Init /\ [][Next]_vars
FairSpec == Spec /\ Fairness

-----------------------------------------------------------------------------

TypeOK ==
    /\ input \subseteq Msgs /\ taken \subseteq Msgs
    /\ msg \in Msgs \cup {None}
    /\ overwritten \subseteq Msgs
    /\ mgr \in {"top", "lazy", "start", "retry", "new", "stuck", "run", "shutdown", "join", "done"}
    /\ feed \in {"off", "select", "check", "lock", "send"}
    /\ monitor \in {"off", "on"}
    /\ cancelled \in BOOLEAN /\ stopped \in BOOLEAN /\ panicked \in BOOLEAN
    /\ starts \in 0..MaxStarts
    /\ ex.written \in 0..MaxWritten /\ ex.out \in 0..outFlushBytes
    /\ ex.mu \in {"free", "feed"}

\* A message ProcessMessage accepted is not dropped: until the channel of some
\* execution takes it, executionManagerLoop keeps it for the next one
\* (feedExecution "returns the message for the next execution to process").
\* With lazy_start the next message that comes replaces it (daemonservice.go:213).
Retained ==
    /\ input \cup taken \cup ({msg} \ {None}) \cup overwritten = Msgs
    /\ overwritten # {} => LazyStart /\ starts > 0

\* An execution starts only when the one before is over: its process was
\* reaped, its goroutines and both loops of its channel have returned, and all
\* that the process printed was sent to the server.
CleanRestart ==
    mgr \in {"top", "lazy", "start", "retry", "new"} =>
        /\ ex.proc = "exited" /\ GoroutinesEnded
        /\ ex.reader = "done" /\ ex.writer = "done"
        /\ ex.sent = ex.written

\* SendMsg returns ErrShuttingDown rather than send on the channel that
\* Shutdown closed.
NoSendOnClosed == ~panicked

\* SendMsg waits for a writer that has ended, with the mutex that Shutdown needs,
\* for a context that Wait cancels, after Shutdown (execution.go:562-568, 453).
SendBlocked ==
    /\ feed = "send" /\ ex.writer = "done" /\ ex.shutdown = "lock"
    /\ ~Cancelled /\ ~Inactivity

Died == ex.dead
Noticed == mgr # "run" \/ panicked \/ SendBlocked

\* The service notices that its process died: the manager leaves the
\* execution, unless SendMsg is in its way.
DeathNoticed == Died ~> Noticed

\* What Stop waits for cannot come: the lock that Client.Stop has taken itself
\* (GetLocalInfo), or room in a RetryLoop that the Communicator no longer empties
\* (execution.go:353, 542).
Hung == mgr = "stuck" \/ "stuck" \in {ex.inRoutine, ex.copying, ex.flush}

Ending == stopped
Ended == (mgr = "done" /\ ex.proc = "exited") \/ panicked \/ Hung

\* Stop returns: the process is gone and the manager's loop has ended, unless it
\* is Hung.
StopReturns == Ending ~> Ended

\* The exceptions are no wider than they must be: nothing but Stop or an end of
\* the process ends them.
HungKept == (SendBlocked => SendBlocked' \/ stopped') /\ (Hung => Hung' /\ mgr' # "done")
=============================================================================
