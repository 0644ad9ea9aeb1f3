---------------------------- MODULE ClientServices ----------------------------
(***************************************************************************)
(* The services of a client.  The Communicator puts messages of the server *)
(* into the inbox of their service, whose processingLoop processes them    *)
(* and passes the outcome to the acks or errs channel; ackLoop and errLoop *)
(* of the system service report from there to the server.  A message to    *)
(* the system service can restart another service, and Stop ends them all. *)
(*                                                                         *)
(* An instance is one serviceData: a restart replaces it by a new one.     *)
(***************************************************************************)
EXTENDS Naturals, Sequences, FiniteSets, Functions

CONSTANTS Names,        \* services besides the system service
          Msgs,         \* messages of the server
          DestOf,       \* Destination.ServiceName, a function of Msgs
          RestartOf,    \* the service a RestartService message names, or None
          Dies,         \* Die messages to the system service, not forced
          Asking,       \* messages whose processing calls GetLocalInfo
          Replying,     \* messages whose processing calls Send, without a deadline
          inboxSize, acksSize, errsSize,
          MaxInstances, \* bound: instances of services in a behaviour
          None

Services == Names \cup {"system"}

VARIABLES
  services, \* the map of serviceConfiguration: an instance, or 0
  inst,     \* the instances that were started, a sequence
  com,      \* the Communicator: where it is with which message
  left,     \* messages the server has not sent yet
  restart,  \* RestartService in the system service: step and instance
  stop,     \* Stop: step, instance it waits for, instances it has yet to stop,
            \* and whether it was called a second time
  full,     \* whether the RetryLoops are full and nobody empties them any more
  acks, errs,         \* the channels
  ackLoop, errLoop,   \* the loops of the system service: pc and messages in hand
  fate      \* of a message: what the client did with it

vars == <<services, inst, com, left, restart, stop, full, acks, errs, ackLoop, errLoop, fate>>

Idle == [pc |-> "idle", m |-> None, i |-> 0]
Fates == {"none", "uninstalled", "dropped", "accepted", "ok", "failed", "acked", "errored", "unreported"}

NewInstance(s) == [name |-> s, inbox |-> <<>>, closed |-> FALSE, pc |-> "recv", m |-> None,
                   acceptCount |-> 0, processedCount |-> 0]

TypeOK ==
  /\ services \in [Services -> 0 .. MaxInstances]
  /\ \A i \in DOMAIN inst :
       /\ inst[i].pc \in {"recv", "work", "ack", "err", "done"}
       /\ inst[i].m \in Msgs \cup {None} /\ Len(inst[i].inbox) <= inboxSize
  /\ com.pc \in {"idle", "sending", "counting", "stopped"} /\ left \subseteq Msgs
  /\ restart.pc \in {"no", "removed", "stopping", "installing", "publishing"}
  /\ stop.pc \in {"no", "locking", "next", "waiting", "done", "crashed"}
  /\ stop.again \in BOOLEAN /\ full \in BOOLEAN
  /\ Len(acks) <= acksSize /\ Len(errs) <= errsSize
  /\ ackLoop.pc \in {"recv", "group", "done"} /\ errLoop.pc \in {"recv", "send", "done"}
  /\ fate \in [Msgs -> Fates]

\* Services are installed in the order of their instance numbers by New.
Init ==
  /\ \E order \in [1 .. Cardinality(Names) -> Names] :
       /\ IsInjective(order)
       /\ inst = <<NewInstance("system")>> \o [k \in DOMAIN order |-> NewInstance(order[k])]
       /\ services = [s \in Services |-> IF s = "system" THEN 1
                                         ELSE 1 + CHOOSE k \in DOMAIN order : order[k] = s]
  /\ com = Idle /\ left = Msgs
  /\ restart = [pc |-> "no", i |-> 0] /\ full = FALSE
  /\ stop = [pc |-> "no", i |-> 0, todo |-> {}, again |-> FALSE]
  /\ acks = <<>> /\ errs = <<>>
  /\ ackLoop = [pc |-> "recv", ms |-> {}] /\ errLoop = [pc |-> "recv", ms |-> {}]
  /\ fate = [m \in Msgs |-> "none"]

\* serviceConfiguration.lock: only Stop keeps it while it waits for something.
Locked == stop.pc \in {"next", "waiting"}

-----------------------------------------------------------------------------
(* ProcessContactData hands over one message after the other. *)

\* serviceConfiguration.ProcessMessage: looks the service up under the lock.
ProcessMessage(m) ==
  /\ com.pc = "idle" /\ m \in left /\ ~Locked
  /\ left' = left \ {m}
  /\ IF services[DestOf[m]] = 0
     THEN fate' = [fate EXCEPT ![m] = "uninstalled"] /\ UNCHANGED com
     ELSE com' = [pc |-> "sending", m |-> m, i |-> services[DestOf[m]]] /\ UNCHANGED fate
  /\ UNCHANGED <<services, inst, restart, stop, full, acks, errs, ackLoop, errLoop>>

\* The client panics: the service may have closed the inbox by now that the
\* message is sent to, or Stop closes a channel that it has closed before.
Panics == (com.pc = "sending" /\ inst[com.i].closed) \/ stop.pc = "crashed"

\* The context of a streaming connection ends before the inbox has room.
GiveUp ==
  /\ com.pc = "sending"
  /\ fate' = [fate EXCEPT ![com.m] = "dropped"] /\ com' = Idle
  /\ UNCHANGED <<services, inst, left, restart, stop, full, acks, errs, ackLoop, errLoop>>

Enqueue ==
  /\ com.pc = "sending" /\ ~Panics /\ Len(inst[com.i].inbox) < inboxSize
  /\ inst' = [inst EXCEPT ![com.i].inbox = Append(@, com.m)]
  /\ fate' = [fate EXCEPT ![com.m] = "accepted"]
  /\ com' = [com EXCEPT !.pc = "counting"]
  /\ UNCHANGED <<services, left, restart, stop, full, acks, errs, ackLoop, errLoop>>

CountAccepted ==
  /\ com.pc = "counting"
  /\ inst' = [inst EXCEPT ![com.i].acceptCount = @ + 1]
  /\ com' = Idle
  /\ UNCHANGED <<services, left, restart, stop, full, acks, errs, ackLoop, errLoop, fate>>

-----------------------------------------------------------------------------
(* processingLoop *)

\* The count grows when a message is taken, and once more when the inbox is
\* closed and empty.
Take(i) ==
  /\ inst[i].pc = "recv" /\ (inst[i].inbox # <<>> \/ inst[i].closed)
  /\ inst' = [inst EXCEPT ![i] =
       IF @.inbox = <<>>
       THEN [@ EXCEPT !.processedCount = @ + 1, !.pc = "done"]
       ELSE [@ EXCEPT !.processedCount = @ + 1, !.pc = "work", !.m = Head(inst[i].inbox),
                      !.inbox = Tail(@)]]
  /\ UNCHANGED <<services, com, left, restart, stop, full, acks, errs, ackLoop, errLoop, fate>>

\* What happens to the outcome of a message: a Die message is not reported.
Finish(i, outcome) ==
  LET m == inst[i].m IN
  /\ fate' = [fate EXCEPT ![m] = outcome]
  /\ inst' = [inst EXCEPT ![i].pc = IF m \in Dies THEN "recv"
                                    ELSE IF outcome = "ok" THEN "ack" ELSE "err",
                          ![i].m = IF m \in Dies THEN None ELSE @]

\* A service processes a message; it may call GetLocalInfo, which takes the lock,
\* and Send, which waits for room in a RetryLoop.
Process(i) ==
  /\ inst[i].pc = "work"
  /\ RestartOf[inst[i].m] = None /\ inst[i].m \notin Dies
  /\ inst[i].m \in Asking => ~Locked
  /\ inst[i].m \in Replying => ~full
  /\ \E outcome \in {"ok", "failed"} : Finish(i, outcome)
  /\ UNCHANGED <<services, com, left, restart, stop, full, acks, errs, ackLoop, errLoop>>

\* Variant: calls Client.Stop itself instead of in a goroutine.
DieWaits(i) ==
  /\ inst[i].pc = "work" /\ inst[i].m \in Dies
  /\ \/ stop.pc = "no" /\ stop' = [stop EXCEPT !.pc = "locking"] /\ UNCHANGED <<inst, fate>>
     \/ stop.pc = "done" /\ Finish(i, "ok") /\ UNCHANGED stop
  /\ UNCHANGED <<services, com, left, restart, full, acks, errs, ackLoop, errLoop>>

\* systemService.ProcessMessage of a Die message: a goroutine calls Client.Stop,
\* whoever else has called it.
Die(i) ==
  /\ inst[i].pc = "work" /\ inst[i].m \in Dies
  /\ Finish(i, "ok")
  /\ stop' = IF stop.pc = "no" THEN [stop EXCEPT !.pc = "locking"] ELSE [stop EXCEPT !.again = TRUE]
  /\ UNCHANGED <<services, com, left, restart, full, acks, errs, ackLoop, errLoop>>

\* Variant: counts the message again when it has been processed.
ReportCounted(i) ==
  LET m == inst[i].m IN
  /\ \/ inst[i].pc = "ack" /\ Len(acks) < acksSize
        /\ acks' = Append(acks, m) /\ UNCHANGED errs
     \/ inst[i].pc = "err" /\ Len(errs) < errsSize
        /\ errs' = Append(errs, m) /\ UNCHANGED acks
  /\ inst' = [inst EXCEPT ![i].pc = "recv", ![i].m = None, ![i].processedCount = @ + 1]
  /\ UNCHANGED <<services, com, left, restart, stop, full, ackLoop, errLoop, fate>>

\* Variant: does not wait for room in the channel of acknowledgements.
ReportUnbounded(i) ==
  LET m == inst[i].m IN
  /\ \/ inst[i].pc = "ack" /\ acks' = Append(acks, m) /\ UNCHANGED errs
     \/ inst[i].pc = "err" /\ errs' = Append(errs, m) /\ UNCHANGED acks
  /\ inst' = [inst EXCEPT ![i].pc = "recv", ![i].m = None]
  /\ UNCHANGED <<services, com, left, restart, stop, full, ackLoop, errLoop, fate>>

Report(i) ==
  LET m == inst[i].m IN
  /\ \/ inst[i].pc = "ack" /\ Len(acks) < acksSize
        /\ acks' = Append(acks, m) /\ UNCHANGED errs
     \/ inst[i].pc = "err" /\ Len(errs) < errsSize
        /\ errs' = Append(errs, m) /\ UNCHANGED acks
  /\ inst' = [inst EXCEPT ![i].pc = "recv", ![i].m = None]
  /\ UNCHANGED <<services, com, left, restart, stop, full, ackLoop, errLoop, fate>>

-----------------------------------------------------------------------------
(* RestartService, called by the system service in its processingLoop. *)

\* validateServiceName refuses the system service.
RestartRefused(i) ==
  /\ inst[i].pc = "work" /\ RestartOf[inst[i].m] = "system"
  /\ Finish(i, "failed")
  /\ UNCHANGED <<services, com, left, restart, stop, full, acks, errs, ackLoop, errLoop>>

\* removeService, under the lock: an error if the service is not there.
removeService(i) ==
  LET s == RestartOf[inst[i].m] IN
  /\ inst[i].pc = "work" /\ s \in Names /\ restart.pc = "no" /\ ~Locked
  /\ IF services[s] = 0
     THEN Finish(i, "failed") /\ UNCHANGED <<services, restart>>
     ELSE /\ services' = [services EXCEPT ![s] = 0]
          /\ restart' = [pc |-> "removed", i |-> services[s]]
          /\ UNCHANGED <<inst, fate>>
  /\ UNCHANGED <<com, left, stop, full, acks, errs, ackLoop, errLoop>>

\* serviceData.stop of the old instance.
CloseOld ==
  /\ restart.pc = "removed"
  /\ inst' = [inst EXCEPT ![restart.i].closed = TRUE]
  /\ restart' = [restart EXCEPT !.pc = "stopping"]
  /\ UNCHANGED <<services, com, left, stop, full, acks, errs, ackLoop, errLoop, fate>>

\* Variant: does not wait for the processingLoop of the old instance.
OldStoppedEarly ==
  /\ restart.pc = "stopping"
  /\ restart' = [restart EXCEPT !.pc = "installing"]
  /\ UNCHANGED <<services, inst, com, left, stop, full, acks, errs, ackLoop, errLoop, fate>>

\* serviceData.stop has waited for the processingLoop of the old instance.
OldStopped ==
  /\ restart.pc = "stopping" /\ inst[restart.i].pc = "done"
  /\ restart' = [restart EXCEPT !.pc = "installing"]
  /\ UNCHANGED <<services, inst, com, left, stop, full, acks, errs, ackLoop, errLoop, fate>>

\* InstallService creates and starts a new instance, or fails, which leaves the
\* client without the service.
InstallBegins(i) ==
  /\ inst[i].pc = "work" /\ inst[i].name = "system" /\ restart.pc = "installing"
  /\ \/ restart' = [restart EXCEPT !.pc = "publishing"] /\ UNCHANGED <<inst, fate>>
     \/ restart' = [pc |-> "no", i |-> 0] /\ Finish(i, "failed")
  /\ UNCHANGED <<services, com, left, stop, full, acks, errs, ackLoop, errLoop>>

\* It publishes the instance under the lock.
InstallService(i) ==
  LET s == inst[restart.i].name IN
  /\ inst[i].pc = "work" /\ inst[i].name = "system" /\ restart.pc = "publishing"
  /\ ~Locked /\ Len(inst) < MaxInstances
  /\ services' = [services EXCEPT ![s] = Len(inst) + 1]
  /\ inst' = Append([inst EXCEPT ![i].pc = "ack"], NewInstance(s))
  /\ fate' = [fate EXCEPT ![inst[i].m] = "ok"]
  /\ restart' = [pc |-> "no", i |-> 0]
  /\ UNCHANGED <<com, left, stop, full, acks, errs, ackLoop, errLoop>>

-----------------------------------------------------------------------------
(* ackLoop groups the acknowledgements of a second, errLoop sends one by one. *)

\* Variant: forgets what it has grouped.
AckReceiveForgets ==
  /\ ackLoop.pc \in {"recv", "group"} /\ acks # <<>>
  /\ ackLoop' = [pc |-> "group", ms |-> {Head(acks)}]
  /\ acks' = Tail(acks)
  /\ UNCHANGED <<services, inst, com, left, restart, stop, full, errs, errLoop, fate>>

AckReceive ==
  /\ ackLoop.pc \in {"recv", "group"} /\ acks # <<>>
  /\ ackLoop' = [pc |-> "group", ms |-> ackLoop.ms \cup {Head(acks)}]
  /\ acks' = Tail(acks)
  /\ UNCHANGED <<services, inst, com, left, restart, stop, full, errs, errLoop, fate>>

\* Send succeeds, or gives up after 5 seconds, which is only logged.
AckSend ==
  /\ ackLoop.pc = "group"
  /\ \E f \in {"acked", "unreported"} :
       fate' = [m \in Msgs |-> IF m \in ackLoop.ms THEN f ELSE fate[m]]
  /\ ackLoop' = [pc |-> "recv", ms |-> {}]
  /\ UNCHANGED <<services, inst, com, left, restart, stop, full, acks, errs, errLoop>>

ErrReceive ==
  /\ errLoop.pc = "recv" /\ errs # <<>>
  /\ errLoop' = [pc |-> "send", ms |-> {Head(errs)}]
  /\ errs' = Tail(errs)
  /\ UNCHANGED <<services, inst, com, left, restart, stop, full, acks, ackLoop, fate>>

ErrSend ==
  /\ errLoop.pc = "send"
  /\ \E f \in {"errored", "unreported"} :
       fate' = [m \in Msgs |-> IF m \in errLoop.ms THEN f ELSE fate[m]]
  /\ errLoop' = [pc |-> "recv", ms |-> {}]
  /\ UNCHANGED <<services, inst, com, left, restart, stop, full, acks, errs, ackLoop>>

-----------------------------------------------------------------------------
(* Client.Stop: the Communicator, then serviceConfiguration.Stop. *)

StopCalled ==
  /\ stop.pc = "no"
  /\ stop' = [stop EXCEPT !.pc = "locking"]
  /\ UNCHANGED <<services, inst, com, left, restart, full, acks, errs, ackLoop, errLoop, fate>>

\* com.Stop waits for the message in hand.
ComStops ==
  /\ stop.pc = "locking" /\ com.pc = "idle"
  /\ com' = [Idle EXCEPT !.pc = "stopped"]
  /\ UNCHANGED <<services, inst, left, restart, stop, full, acks, errs, ackLoop, errLoop, fate>>

\* From then on what the services send stays in the RetryLoops.
Fill ==
  /\ com.pc = "stopped" /\ full' = TRUE
  /\ UNCHANGED <<services, inst, com, left, restart, stop, acks, errs, ackLoop, errLoop, fate>>

\* A second Stop stops the watchdog of the Communicator again.
StopAgain ==
  /\ stop.again /\ com.pc = "stopped" /\ stop.pc # "done"
  /\ stop' = [stop EXCEPT !.pc = "crashed"]
  /\ UNCHANGED <<services, inst, com, left, restart, full, acks, errs, ackLoop, errLoop, fate>>

StopLocks ==
  /\ stop.pc = "locking" /\ com.pc = "stopped"
  /\ stop' = [stop EXCEPT !.pc = "next", !.todo = {services[s] : s \in Services} \ {0}]
  /\ UNCHANGED <<services, inst, com, left, restart, full, acks, errs, ackLoop, errLoop, fate>>

\* serviceData.stop of the next service, in the order of a Go map, which is any.
StopNext(i) ==
  /\ stop.pc = "next" /\ i \in stop.todo
  /\ inst' = [inst EXCEPT ![i].closed = TRUE]
  /\ stop' = [stop EXCEPT !.pc = "waiting", !.i = i, !.todo = @ \ {i}]
  /\ UNCHANGED <<services, com, left, restart, full, acks, errs, ackLoop, errLoop, fate>>

\* The processingLoop is done; Stop of the system service also ends its loops,
\* which finish a Send, and drop the acknowledgements they have grouped.
StopWaited ==
  /\ stop.pc = "waiting" /\ inst[stop.i].pc = "done"
  /\ stop' = [stop EXCEPT !.pc = "next"]
  /\ IF inst[stop.i].name = "system"
     THEN /\ errLoop.pc = "recv"
          /\ ackLoop' = [ackLoop EXCEPT !.pc = "done"] /\ errLoop' = [errLoop EXCEPT !.pc = "done"]
          /\ fate' = [m \in Msgs |-> IF m \in ackLoop.ms THEN "unreported" ELSE fate[m]]
     ELSE UNCHANGED <<ackLoop, errLoop, fate>>
  /\ UNCHANGED <<services, inst, com, left, restart, full, acks, errs>>

StopDone ==
  /\ stop.pc = "next" /\ stop.todo = {}
  /\ stop' = [stop EXCEPT !.pc = "done"]
  /\ services' = [s \in Services |-> 0]
  /\ UNCHANGED <<inst, com, left, restart, full, acks, errs, ackLoop, errLoop, fate>>

\* The processingLoop of an instance waits for what cannot come: the lock that
\* Stop keeps (services.go:203), asked for by GetLocalInfo or, in the system
\* service, by RestartService (services.go:139, 156); room in a RetryLoop when
\* the Communicator has stopped (client.go:268); room in a channel whose reader
\* ended with the system service (services.go:321, 326).
WaitsForLock(i) ==
  /\ inst[i].pc = "work" /\ Locked
  /\ inst[i].m \in Asking \/ (RestartOf[inst[i].m] \in Names /\ restart.pc \in {"no", "publishing"})
WaitsForRoom(i) == inst[i].pc = "work" /\ inst[i].m \in Replying /\ full
WaitsForReader(i) ==
  \/ inst[i].pc = "ack" /\ Len(acks) = acksSize /\ ackLoop.pc = "done"
  \/ inst[i].pc = "err" /\ Len(errs) = errsSize /\ errLoop.pc = "done"
Stuck(i) == WaitsForLock(i) \/ WaitsForRoom(i) \/ WaitsForReader(i)

\* Stop hangs: it waits for an instance that is stuck, or for the system service
\* that waits for the instance it restarts.
Hung ==
  /\ stop.pc = "waiting"
  /\ \/ Stuck(stop.i)
     \/ inst[stop.i].name = "system" /\ restart.pc = "stopping" /\ Stuck(restart.i)

\* Nothing to do, or nothing can be done any more.
Rest ==
  /\ \/ stop.pc = "done" \/ Panics \/ Hung
     \/ /\ stop.pc = "no" /\ left = {} /\ com.pc = "idle" /\ acks = <<>> /\ errs = <<>>
        /\ ackLoop.pc = "recv" /\ errLoop.pc = "recv"
        /\ \A i \in DOMAIN inst : inst[i].pc = "done" \/ (inst[i].pc = "recv" /\ inst[i].inbox = <<>>)
  /\ UNCHANGED vars

-----------------------------------------------------------------------------
Step ==
  \/ Enqueue \/ CountAccepted
  \/ \E i \in DOMAIN inst : Take(i) \/ Process(i) \/ Die(i) \/ Report(i) \/ RestartRefused(i)
                            \/ removeService(i) \/ InstallBegins(i) \/ InstallService(i) \/ StopNext(i)
  \/ CloseOld \/ OldStopped \/ AckReceive \/ AckSend \/ ErrReceive \/ ErrSend
  \/ ComStops \/ StopLocks \/ StopWaited \/ StopDone

Next ==
  \/ ~Panics /\ (Step \/ StopCalled \/ Fill \/ StopAgain \/ GiveUp \/ \E m \in Msgs : ProcessMessage(m))
  \/ Rest

\* Goroutines that can run do.
Fairness == WF_vars(Step)

Spec == Init /\ [][Next]_vars /\ Fairness

-----------------------------------------------------------------------------
(* Properties *)

\* Where the messages are that were accepted and are not settled yet.
Held(m) ==
  Cardinality({i \in DOMAIN inst : inst[i].m = m}) + Cardinality({i \in DOMAIN inst : m \in Range(inst[i].inbox)})
  + (IF m \in Range(acks) THEN 1 ELSE 0) + (IF m \in Range(errs) THEN 1 ELSE 0)
  + (IF m \in ackLoop.ms /\ ackLoop.pc = "group" THEN 1 ELSE 0)
  + (IF m \in errLoop.ms /\ errLoop.pc = "send" THEN 1 ELSE 0)

\* An accepted message is in exactly one place until its outcome is reported or
\* given up, across restarts that close the inbox it waits in.
AcceptedOnce ==
  \A m \in Msgs :
    Held(m) = IF fate[m] = "accepted" \/ (fate[m] \in {"ok", "failed"} /\ m \notin Dies) THEN 1 ELSE 0

\* A restarted service does not overlap with its predecessor: the new instance
\* is published when the old one has processed everything it accepted.
RestartsInTurn ==
  \A i, j \in DOMAIN inst :
    i < j /\ inst[i].name = inst[j].name => inst[i].pc = "done" /\ inst[i].inbox = <<>>

\* acceptCount and processedCount lag behind the inbox by at most one message,
\* in either direction, and by the extra count of a closed inbox: what
\* MakeContactData computes from them is off by no more.
CountsLag ==
  \A i \in DOMAIN inst :
    LET held == Len(inst[i].inbox) + inst[i].processedCount IN
    /\ inst[i].acceptCount <= held
    /\ held <= inst[i].acceptCount + 1 + (IF inst[i].pc = "done" THEN 1 ELSE 0)

Ending == stop.pc = "locking"
Ended == stop.pc = "done" \/ Panics \/ Hung

\* "Stop shuts the client down gracefully.  This includes stopping all
\* communicators and services" (client.go:265): Stop returns, unless the process
\* panics or Stop is Hung.
ServicesStop == Ending ~> Ended

\* The exceptions are no wider than they must be: what is hung stays so.
HungKept == Hung => Hung' \/ stop'.pc = "crashed"
=============================================================================
