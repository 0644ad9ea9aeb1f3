------------------------------ MODULE MCClient ------------------------------
(***************************************************************************)
(* Instances of the specifications of the client and its agents, side by   *)
(* side, to check what must always hold. FlowControl runs under its own    *)
(* names, and once more with a restart of the service; DaemonService three *)
(* times, each with Stop: with messages over restarts, with output over    *)
(* restarts, and started lazily with inactivity; StreamingLoop over two    *)
(* connections and with calls of Stop, Polling with Reset, Flush, rekeying *)
(* and Stop at once. The variable part chooses the one that runs; its k-th *)
(* variable is xk.                                                         *)
(***************************************************************************)
EXTENDS Integers, Sequences, FlowControl

CONSTANTS None, StartupData

VARIABLES
    part,
    x1, x2, x3, x4, x5, x6, x7, x8, x9, x10, x11, x12, x13, x14, x15, x16, x17, x18, x19, x20,
    x21, x22, x23, x24, x25, x26

mcVars == <<part, vars, x1, x2, x3, x4, x5, x6, x7, x8, x9, x10, x11, x12, x13, x14, x15, x16,
            x17, x18, x19, x20, x21, x22, x23, x24, x25, x26>>

Msg == INSTANCE ClientMessages WITH
    Msgs <- {"h1", "h2", "h3", "l1"},
    PriorityOf <- [h1 |-> "high", h2 |-> "high", h3 |-> "high", l1 |-> "low"],
    SizeOf <- [h1 |-> 1, h2 |-> 2, h3 |-> 1, l1 |-> 2], Patient <- {}, maxSize <- 3,
    maxCount <- 2, Filterable <- {"low"}, FilterSets <- 1, at <- x1, loop <- x2, queue <- x3,
    sort <- x4, filter <- x5, seen <- x6, late <- x7, sets <- x8, com <- x9, stop <- x10

ASSUME MessagesInstance == Msg!MessagesAssumption

Svc == INSTANCE ClientServices WITH
    Names <- {"s"}, Msgs <- {"a", "b", "r"}, DestOf <- [a |-> "s", b |-> "s", r |-> "system"],
    RestartOf <- [a |-> None, b |-> None, r |-> "s"], Dies <- {}, Asking <- {"a"},
    Replying <- {"b"}, inboxSize <- 2, acksSize <- 1, errsSize <- 1, MaxInstances <- 3,
    None <- None, services <- x1, inst <- x2, com <- x3, left <- x4, restart <- x5, stop <- x6,
    acks <- x7, errs <- x8, ackLoop <- x9, errLoop <- x10, fate <- x11, full <- x12

Flr == INSTANCE FlowControl WITH
    inboxSize <- 2, FindLimit <- 2, Modulus <- 16, Processors <- {1}, MaxMessages <- 1,
    MaxLocal <- 1, MaxRestarts <- 1, installed <- x1, inbox <- x2, acceptCount <- x3,
    processedCount <- x4, base <- x5, hand <- x6, counting <- x7, up <- x8, down <- x9,
    tokens <- x10, waiting <- x11, notices <- x12, localNotices <- x13, notify <- x14,
    proc <- x15, short <- x16, created <- x17, locals <- x18, restarts <- x19

Cfg == INSTANCE ConfigManager WITH
    Serials <- {"x", "y"}, Configured <- <<"x">>, MaxKeys <- 2, MaxNonce <- 2, MaxStarts <- 2,
    state <- x1, revoked <- x2, dirty <- x3, pc <- x4,
    arg <- x5, file <- x6, tmp <- x7, starts <- x8, keys <- x9

Poll == INSTANCE Polling WITH
    Msgs <- {"a", "b"}, sendCountThreshold <- 2, MayFlush <- TRUE,
    MaxRekeys <- 1, MaxResets <- 1, MaxFailures <- 1, outbox <- x1, toSend <- x2, pc <- x3,
    final <- x4, ctxDone <- x5, request <- x6, rekeyed <- x7, wakeUp <- x8, pollDone <- x9,
    myDone <- x10, closed <- x11, lastPollErr <- x12, flush <- x13, stop <- x14, fate <- x15,
    stored <- x16, rekeys <- x17, resets <- x18, failures <- x19

Loop == INSTANCE StreamingLoop WITH
    Msgs <- {"a"}, NumServers <- 2, MaxConns <- 2, MaxRekeys <- 1, MaxResets <- 1,
    MaxBeacons <- 1, MayStop <- FALSE, loop <- x1, hosts <- x2, i <- x3, id <- x4,
    currentId <- x5, conns <- x6, curCon <- x7, live <- x8, writing <- x9, reading <- x10,
    pending <- x11, pendingEmpty <- x12, beacons <- x13, outbox <- x14, acked <- x15,
    wakeUp <- x16, fin <- x17, flush <- x18, resets <- x19

Lst == INSTANCE StreamingLoop WITH
    Msgs <- {"a"}, NumServers <- 2, MaxConns <- 1, MaxRekeys <- 1, MaxResets <- 1,
    MaxBeacons <- 1, MayStop <- TRUE, loop <- x1, hosts <- x2, i <- x3, id <- x4,
    currentId <- x5, conns <- x6, curCon <- x7, live <- x8, writing <- x9, reading <- x10,
    pending <- x11, pendingEmpty <- x12, beacons <- x13, outbox <- x14, acked <- x15,
    wakeUp <- x16, fin <- x17, flush <- x18, resets <- x19

Sta == INSTANCE ClientStart WITH
    Handlers <- {"filesystem", "registry", "noop"}, Files <- {"o", "p", "q", "r"},
    Name <- [o |-> "s", p |-> "s", q |-> "s", r |-> "t"],
    Dir <- [o |-> "fixed", p |-> "signed", q |-> "text", r |-> "text"], None <- None,
    MaxStarts <- 2, MaxFaults <- 1, handler <- x1, listed <- x2, form <- x3, communicator <- x4,
    state <- x5, pc <- x6, todo <- x7, key <- x8, cc <- x9, services <- x10, starts <- x11,
    faults <- x12, lastKey <- x13

Soc == INSTANCE SocketService WITH
    Up <- {"a", "b"}, Down <- {"d"}, None <- None, StartupData <- StartupData, InCap <- 1,
    size <- 2, OutCap <- 2, MaxBreaks <- 1, Concurrent <- TRUE, MayStop <- FALSE, offer <- x1,
    todo <- x2, In <- x3, got <- x4, pending <- x5, loop <- x6, resend <- x7, held <- x8,
    acked <- x9, chan <- x10, gen <- x11, link <- x12, upL <- x13, downL <- x14, ack <- x15,
    hold <- x16, toAck <- x17, acks <- x18, mon <- x19, msg <- x20, inbox <- x21, outbox <- x22,
    calling <- x23, stored <- x24, lost <- x25, stop <- x26

Dae == INSTANCE DaemonService WITH
    Msgs <- {"a"}, None <- None, LazyStart <- FALSE, Inactivity <- FALSE, outFlushBytes <- 1,
    StdParams <- FALSE, Monitoring <- TRUE, MaxStarts <- 2, MaxHeard <- 0, MaxWritten <- 0, input <- x1, msg <- x2,
    mgr <- x3, feed <- x4, monitor <- x5, cancelled <- x6, stopped <- x7, ex <- x8,
    starts <- x9, taken <- x10, overwritten <- x11, panicked <- x12

Out == INSTANCE DaemonService WITH
    Msgs <- {}, None <- None, LazyStart <- FALSE, Inactivity <- FALSE, outFlushBytes <- 1,
    StdParams <- TRUE, Monitoring <- FALSE, MaxStarts <- 2, MaxHeard <- 1, MaxWritten <- 2, input <- x1, msg <- x2,
    mgr <- x3, feed <- x4, monitor <- x5, cancelled <- x6, stopped <- x7, ex <- x8,
    starts <- x9, taken <- x10, overwritten <- x11, panicked <- x12

Laz == INSTANCE DaemonService WITH
    Msgs <- {"a", "b"}, None <- None, LazyStart <- TRUE, Inactivity <- TRUE, outFlushBytes <- 1,
    StdParams <- FALSE, Monitoring <- FALSE, MaxStarts <- 2, MaxHeard <- 0, MaxWritten <- 0, input <- x1, msg <- x2,
    mgr <- x3, feed <- x4, monitor <- x5, cancelled <- x6, stopped <- x7, ex <- x8,
    starts <- x9, taken <- x10, overwritten <- x11, panicked <- x12

Agt == INSTANCE AgentConnection WITH
    Senders <- {"s", "t"}, Receivers <- {"q", "r"}, Incoming <- <<"x", "y">>, MaxSends <- 2,
    StartupData <- StartupData, Free <- None, out <- x1, in <- x2, left <- x3, wlock <- x4,
    rlock <- x5, at <- x6, sent <- x7, size <- x8, got <- x9, errors <- x10,
    overlapped <- x11

Grpc == INSTANCE GrpcService WITH
    Msgs <- {"a", "b"}, Misaddressed <- {"b"}, Conns <- {1, 2}, timeout <- 3,
    single_try_timeout <- 2, MaxLosses <- 1, MayStop <- TRUE, conn <- x1, live <- x2,
    writer <- x3, st <- x4, err <- x5, handled <- x6, losses <- x7, now <- x8, deadline <- x9,
    sleep <- x10, cur <- x11, call <- x12, id <- x13, rows <- x14, keepalive <- x15

Res == INSTANCE ResourceMonitor WITH
    SampleSize <- 2, initialSampleSize <- 3, memoryLimit <- 3, Memories <- {1, 2, 3},
    MaxCPU <- 2, MaxReports <- 1, cpu <- x1, clock <- x2, prevRU <- x3, aggRU <- x4,
    numSamplesCollected <- x5, initialSample <- x6, taken <- x7, reports <- x8, kills <- x9

\* The variables after the k-th, and their value in a part that has only k.
After19 == <<x20, x21, x22, x23, x24, x25, x26>>
Blank19 == 
    /\ x20 = None /\ x21 = None /\ x22 = None /\ x23 = None /\ x24 = None /\ x25 = None
    /\ x26 = None
After15 == <<x16, x17, x18, x19, After19>>
Blank15 == x16 = None /\ x17 = None /\ x18 = None /\ x19 = None /\ Blank19
After13 == <<x14, x15, After15>>
Blank13 == x14 = None /\ x15 = None /\ Blank15
After12 == <<x13, After13>>
Blank12 == x13 = None /\ Blank13
After11 == <<x12, After12>>
Blank11 == x12 = None /\ Blank12
After10 == <<x11, After11>>
Blank10 == x11 = None /\ Blank11
After9 == <<x10, After10>>
Blank9 == x10 = None /\ Blank10
After0 == <<x1, x2, x3, x4, x5, x6, x7, x8, x9, After9>>
Blank0 == 
    /\ x1 = None /\ x2 = None /\ x3 = None /\ x4 = None /\ x5 = None /\ x6 = None
    /\ x7 = None /\ x8 = None /\ x9 = None /\ Blank9

MCInit ==
    /\ Init
    /\ \/ part = "flow" /\ Blank0
       \/ part = "messages" /\ Msg!Init /\ Blank10
       \/ part = "services" /\ Svc!Init /\ Blank12
       \/ part = "restart" /\ Flr!Init /\ Blank19
       \/ part = "config" /\ Cfg!Init /\ Blank9
       \/ part = "polling" /\ Poll!Init /\ Blank19
       \/ part = "streaming" /\ Loop!Init /\ Blank19
       \/ part = "stopping" /\ Lst!Init /\ Blank19
       \/ part = "start" /\ Sta!Init /\ Blank13
       \/ part = "socket" /\ Soc!Init
       \/ part = "daemon" /\ Dae!Init /\ Blank12
       \/ part = "output" /\ Out!Init /\ Blank12
       \/ part = "lazy" /\ Laz!Init /\ Blank12
       \/ part = "agent" /\ Agt!Init /\ Blank11
       \/ part = "grpc" /\ Grpc!Init /\ Blank15
       \/ part = "resources" /\ Res!Init /\ Blank9

MCNext ==
    \/ part = "flow" /\ Next /\ UNCHANGED <<part, After0>>
    \/ part = "messages" /\ Msg!Next /\ UNCHANGED <<part, vars, After10>>
    \/ part = "services" /\ Svc!Next /\ UNCHANGED <<part, vars, After12>>
    \/ part = "restart" /\ Flr!Next /\ UNCHANGED <<part, vars, After19>>
    \/ part = "config" /\ Cfg!Next /\ UNCHANGED <<part, vars, After9>>
    \/ part = "polling" /\ Poll!Next /\ UNCHANGED <<part, vars, After19>>
    \/ part = "streaming" /\ Loop!Next /\ UNCHANGED <<part, vars, After19>>
    \/ part = "stopping" /\ Lst!Next /\ UNCHANGED <<part, vars, After19>>
    \/ part = "start" /\ Sta!Next /\ UNCHANGED <<part, vars, After13>>
    \/ part = "socket" /\ Soc!Next /\ UNCHANGED <<part, vars>>
    \/ part = "daemon" /\ Dae!Next /\ UNCHANGED <<part, vars, After12>>
    \/ part = "output" /\ Out!Next /\ UNCHANGED <<part, vars, After12>>
    \/ part = "lazy" /\ Laz!Next /\ UNCHANGED <<part, vars, After12>>
    \/ part = "agent" /\ Agt!Next /\ UNCHANGED <<part, vars, After11>>
    \/ part = "grpc" /\ Grpc!Next /\ UNCHANGED <<part, vars, After15>>
    \/ part = "resources" /\ Res!Next /\ UNCHANGED <<part, vars, After9>>

MCSpec == MCInit /\ [][MCNext]_mcVars

-----------------------------------------------------------------------------
\* The part that runs keeps the types of its state.
TypesOK ==
    CASE part = "flow" -> TypeOK
      [] part = "messages" -> Msg!TypeOK
      [] part = "services" -> Svc!TypeOK
      [] part = "restart" -> Flr!TypeOK
      [] part = "config" -> Cfg!TypeOK
      [] part = "polling" -> Poll!TypeOK
      [] part = "streaming" -> Loop!TypeOK
      [] part = "stopping" -> Lst!TypeOK
      [] part = "start" -> Sta!TypeOK
      [] part = "socket" -> Soc!TypeOK
      [] part = "daemon" -> Dae!TypeOK
      [] part = "output" -> Out!TypeOK
      [] part = "lazy" -> Laz!TypeOK
      [] part = "agent" -> Agt!TypeOK
      [] part = "grpc" -> Grpc!TypeOK
      [] part = "resources" -> Res!TypeOK
      [] OTHER -> TRUE

(* The callbacks of the communicator never block on the channels of the     *)
(* RetryLoops: with everything that is taken they still have room.  (What   *)
(* the callback of a service's own Ack does is not in this.)  Size and      *)
(* count of a loop are those of its pending messages, across retries; a     *)
(* filtered priority sends at most one message more; nothing is sent on a   *)
(* channel that Stop has closed.                                            *)
CallbacksNeverBlock ==
    part = "messages" => Msg!CallbacksNeverBlock /\ Msg!PendingExact /\ Msg!FilterLag /\ Msg!NoSendOnClosed

(* A restarted service, and a restarted process of a daemon service, does   *)
(* not overlap with the one before, whose messages and output are dealt     *)
(* with; meanwhile a message that was accepted is in exactly one place.     *)
(* The exception: a daemon service with lazy_start forgets the message its  *)
(* last process did not take when the next one comes (daemonservice.go:213).*)
RestartsInTurn ==
    /\ part = "services" => Svc!RestartsInTurn /\ Svc!AcceptedOnce /\ Svc!CountsLag
    /\ part = "daemon" => Dae!CleanRestart /\ Dae!Retained
    /\ part = "output" => Out!CleanRestart
    /\ part = "lazy" => Laz!Retained /\ Laz!CleanRestart

(* What is not marked dirty is on disk, in a file that is never torn: a     *)
(* sync cannot clear the mark of a change it did not write, and a revoked   *)
(* certificate is refused ever after, whenever the client crashes.          *)
CleanIsWritten ==
    part = "config" => Cfg!CleanIsWritten /\ Cfg!FileNeverTorn /\ Cfg!RevokedStay /\ Cfg!SerialsGrowth

(* Whoever hands over a message is told one outcome, and a true one: an     *)
(* acknowledged message was stored (polling, socket service), one that was  *)
(* reported handled was seen by the callback (gRPC service), each one that  *)
(* a streaming connection took is acknowledged or given back, and a Flush   *)
(* after a Reset does not report on the connection that was torn down.      *)
(* What the gRPC service reports failed for good was refused, or its        *)
(* callback raised an exception.                                            *)
OutcomesTrue ==
    /\ part = "polling" => Poll!AckedIsStored /\ Poll!ClosedOnce
    /\ part = "socket" => Soc!AckedIsStored /\ Soc!DownKept
    /\ part = "grpc" => Grpc!ReportTrue /\ Grpc!StoredOnce /\ Grpc!ReturnsInTime
    /\ part = "streaming" => Loop!OneOutcome /\ Loop!FlushIsFresh
    /\ part = "stopping" => Lst!OneOutcome

(* A host that could always read and write its state keeps its client's     *)
(* identity over restarts, and a client that is up runs the services        *)
(* configured on the host, whatever else in its configuration is bad or     *)
(* missing.                                                                 *)
IdentityKept == part = "start" => Sta!IdentityKept /\ Sta!ServicesOfHost

(* Whatever threads of an agent send at the same time, the client reads     *)
(* whole frames.  Its threads read whole frames too, as long as no Recv is  *)
(* called during another one; connector.py:78 promises it without that.     *)
FramesWhole == part = "agent" => Agt!FramesWhole /\ Agt!RecvSafe

(* A resource report covers exactly its samples: none from before an error  *)
(* or an earlier report counts.                                             *)
ReportIsOfItsSamples == part = "resources" => Res!ReportIsOfItsSamples
=============================================================================
