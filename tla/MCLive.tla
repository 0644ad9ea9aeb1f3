------------------------------- MODULE MCLive -------------------------------
(***************************************************************************)
(* Small instances of the specifications, side by side. MessagesSpec runs  *)
(* the ones that messages pass through, to check that they get where they  *)
(* should, StopsSpec the ones of what is stopped, replaced or watched      *)
(* over, to check that it comes to its end. The variable part chooses the  *)
(* one that runs; its k-th variable is xk. The fairness of each            *)
(* specification is stated conjunct by conjunct, the n-th ones of all of   *)
(* them together. Where a component can really get stuck, the state it is  *)
(* stuck in is a predicate of its module, named in the property as its     *)
(* exception, and the instances here reach it.                             *)
(***************************************************************************)
EXTENDS Integers, Sequences, FiniteSets

CONSTANTS None, StartupData

VARIABLES
    part,
    x1, x2, x3, x4, x5, x6, x7, x8, x9, x10, x11, x12, x13, x14, x15, x16, x17, x18, x19, x20,
    x21, x22, x23, x24, x25, x26

vars == <<part, x1, x2, x3, x4, x5, x6, x7, x8, x9, x10, x11, x12, x13, x14, x15, x16, x17, x18,
          x19, x20, x21, x22, x23, x24, x25, x26>>

Inb == INSTANCE ServerInbound WITH
    ServerMsgs <- {"m"}, ClientMsgs <- {}, Unstored <- {}, Unserved <- {}, MaxParallelism <- 1,
    ChunkSize <- 1, LooperLimit <- 2, Servers <- {"s"}, MaxCrashes <- 2, db <- x1, outbox <- x2,
    contact <- x3, rest <- x4, job <- x5, parallelism <- x6, crashes <- x7

Out == INSTANCE ServerOutbound WITH
    ServerMsgs <- {}, ClientMsgs <- {"m"}, Die <- {}, Broadcasted <- {}, Rekey <- {},
    Contacts <- {"c"}, Reporters <- {"p"}, FindLimit <- 1, db <- x1, blacklisted <- x2,
    pc <- x3, batch <- x4, dies <- x5, wire <- x6, processed <- x7, rejected <- x8,
    reports <- x9, reading <- x10

Ntf == INSTANCE Notifications WITH
    Servers <- {"s"}, Conns <- {"c"}, AdminMsgs <- {"m"}, None <- None, maxMessagesPerContact <- 1,
    MaxFaults <- 1, Bcasts <- {}, lastTo <- x1, recent <- x2, store <- x3, sentB <- x4,
    ins <- x5, to <- x6, cache <- x7, infos <- x8, reg <- x9, taken <- x10, all <- x11,
    cur <- x12, conn <- x13, faults <- x14

Sp == INSTANCE SpannerMessages WITH
    ServerMsgs <- {1}, ClientMsgs <- {}, Conns <- {}, Handlers <- {"h"}, MaxPublished <- 2,
    MaxDue <- 1, MaxCrashes <- 1, result <- x1,
    storing <- x2, topic <- x3, published <- x4, handler <- x5, stopped <- x6, sched <- x7,
    conn <- x8, handed <- x9, dues <- x10, crashes <- x11, arrived <- x12

Frr == INSTANCE Frr WITH
    Clients <- {"c"}, None <- None, NumMessages <- 1, MaxJitter <- 1, Limit <- 1, Cap <- 1,
    MaxCopies <- 2, MaxLost <- 1, MayTimeOut <- FALSE, MayStop <- TRUE, traffic <- x1,
    file <- x2, copies <- x3, asked <- x4, runs <- x5, stopped <- x6, net <- x7, requests <- x8,
    downloads <- x9, calls <- x10, completed <- x11, told <- x12, lost <- x13

Str == INSTANCE Streaming WITH
    Msgs <- {"a"}, MaxPerClientBatchProcessors <- 1, OutCap <- 1, MaxBatches <- 1, MaxData <- 0,
    MaxFaults <- 1, outbox <- x1, acked <- x2, toSend <- x3, con <- x4, pending <- x5,
    cctx <- x6, serverDone <- x7, writingDone <- x8, writer <- x9, wcnt <- x10, reader <- x11,
    rcnt <- x12, up <- x13, down <- x14, link <- x15, sctx <- x16, readL <- x17, notifyL <- x18,
    writeL <- x19, scnt <- x20, batchCh <- x21, procs <- x22, out <- x23, stored <- x24,
    ndata <- x25, faults <- x26

Soc == INSTANCE SocketService WITH
    None <- None, StartupData <- StartupData, InCap <- 1, size <- 1, OutCap <- 2,
    MaxBreaks <- 1, Concurrent <- TRUE, MayStop <- FALSE, Down <- {}, Up <- {"a", "b"},
    offer <- x1, todo <- x2, In <- x3, got <- x4, pending <- x5, loop <- x6, resend <- x7,
    held <- x8, acked <- x9, chan <- x10, gen <- x11, link <- x12, upL <- x13, downL <- x14,
    ack <- x15, hold <- x16, toAck <- x17, acks <- x18, mon <- x19, msg <- x20, inbox <- x21,
    outbox <- x22, calling <- x23, stored <- x24, lost <- x25, stop <- x26

Soq == INSTANCE SocketService WITH
    None <- None, StartupData <- StartupData, InCap <- 1, size <- 2, OutCap <- 2,
    MaxBreaks <- 0, Concurrent <- FALSE, MayStop <- FALSE, Down <- {"d", "e"}, Up <- {"a"},
    offer <- x1, todo <- x2, In <- x3, got <- x4, pending <- x5, loop <- x6, resend <- x7,
    held <- x8, acked <- x9, chan <- x10, gen <- x11, link <- x12, upL <- x13, downL <- x14,
    ack <- x15, hold <- x16, toAck <- x17, acks <- x18, mon <- x19, msg <- x20, inbox <- x21,
    outbox <- x22, calling <- x23, stored <- x24, lost <- x25, stop <- x26

Sob == INSTANCE SocketService WITH
    None <- None, StartupData <- StartupData, InCap <- 1, size <- 1, OutCap <- 1,
    MaxBreaks <- 0, Concurrent <- TRUE, MayStop <- FALSE, Down <- {}, Up <- {"a", "b", "c", "d"},
    offer <- x1, todo <- x2, In <- x3, got <- x4, pending <- x5, loop <- x6, resend <- x7,
    held <- x8, acked <- x9, chan <- x10, gen <- x11, link <- x12, upL <- x13, downL <- x14,
    ack <- x15, hold <- x16, toAck <- x17, acks <- x18, mon <- x19, msg <- x20, inbox <- x21,
    outbox <- x22, calling <- x23, stored <- x24, lost <- x25, stop <- x26

Msg == INSTANCE ClientMessages WITH
    Msgs <- {"a", "b"}, PriorityOf <- [a |-> "high", b |-> "low"], SizeOf <- [a |-> 1, b |-> 2],
    Patient <- {}, maxSize <- 3, maxCount <- 1, Filterable <- {}, FilterSets <- 0, at <- x1,
    loop <- x2, queue <- x3, sort <- x4, filter <- x5, seen <- x6, late <- x7, sets <- x8,
    com <- x9, stop <- x10

Poll == INSTANCE Polling WITH
    Msgs <- {"a"}, sendCountThreshold <- 2, MayFlush <- FALSE, MaxRekeys <- 1, MaxResets <- 1,
    MaxFailures <- 1, outbox <- x1, toSend <- x2, pc <- x3, final <- x4, ctxDone <- x5, request <- x6,
    rekeyed <- x7, wakeUp <- x8, pollDone <- x9, myDone <- x10, closed <- x11,
    lastPollErr <- x12, flush <- x13, stop <- x14, fate <- x15, stored <- x16, rekeys <- x17,
    resets <- x18, failures <- x19

Grpc == INSTANCE GrpcService WITH
    Msgs <- {"a", "b"}, Misaddressed <- {"b"}, Conns <- {1, 2}, timeout <- 0,
    single_try_timeout <- 0, MaxLosses <- 1, MayStop <- TRUE, conn <- x1, live <- x2,
    writer <- x3, st <- x4, err <- x5, handled <- x6, losses <- x7, now <- x8, deadline <- x9,
    sleep <- x10, cur <- x11, call <- x12, id <- x13, rows <- x14, keepalive <- x15

Sts == INSTANCE Streaming WITH
    Msgs <- {"a"}, MaxPerClientBatchProcessors <- 1, OutCap <- 1, MaxBatches <- 1, MaxData <- 0,
    MaxFaults <- 0, outbox <- x1, acked <- x2, toSend <- x3, con <- x4, pending <- x5,
    cctx <- x6, serverDone <- x7, writingDone <- x8, writer <- x9, wcnt <- x10, reader <- x11,
    rcnt <- x12, up <- x13, down <- x14, link <- x15, sctx <- x16, readL <- x17, notifyL <- x18,
    writeL <- x19, scnt <- x20, batchCh <- x21, procs <- x22, out <- x23, stored <- x24,
    ndata <- x25, faults <- x26

Sst == INSTANCE SocketService WITH
    Up <- {"a"}, Down <- {"d"}, None <- None, StartupData <- StartupData, InCap <- 1, size <- 2,
    OutCap <- 2, MaxBreaks <- 1, Concurrent <- TRUE, MayStop <- TRUE, offer <- x1, todo <- x2,
    In <- x3, got <- x4, pending <- x5, loop <- x6, resend <- x7, held <- x8, acked <- x9,
    chan <- x10, gen <- x11, link <- x12, upL <- x13, downL <- x14, ack <- x15, hold <- x16,
    toAck <- x17, acks <- x18, mon <- x19, msg <- x20, inbox <- x21, outbox <- x22,
    calling <- x23, stored <- x24, lost <- x25, stop <- x26

Svc == INSTANCE ClientServices WITH
    Names <- {"s"}, Msgs <- {"a", "b", "d"}, DestOf <- [a |-> "s", b |-> "s", d |-> "system"],
    RestartOf <- [m \in {"a", "b", "d"} |-> None], Dies <- {"d"}, Asking <- {"a"},
    Replying <- {"b"}, inboxSize <- 2, acksSize <- 1, errsSize <- 1, MaxInstances <- 2,
    None <- None, services <- x1, inst <- x2, com <- x3, left <- x4, restart <- x5, stop <- x6,
    acks <- x7, errs <- x8, ackLoop <- x9, errLoop <- x10, fate <- x11, full <- x12

Rst == INSTANCE ClientServices WITH
    Names <- {"s"}, Msgs <- {"a", "r"}, DestOf <- [a |-> "s", r |-> "system"],
    RestartOf <- [a |-> None, r |-> "s"], Dies <- {}, Asking <- {"a"}, Replying <- {},
    inboxSize <- 1, acksSize <- 1, errsSize <- 1, MaxInstances <- 3,
    None <- None, services <- x1, inst <- x2, com <- x3, left <- x4, restart <- x5, stop <- x6,
    acks <- x7, errs <- x8, ackLoop <- x9, errLoop <- x10, fate <- x11, full <- x12

Con == INSTANCE Contacts WITH
    Polls <- {"p"}, Streams <- {"q"}, None <- None, MayFail <- TRUE, comm <- x1, running <- x2,
    pending <- x3, known <- x4, contacts <- x5, stored <- x6, reg <- x7, at <- x8, isNew <- x9,
    status <- x10

Bro == INSTANCE Broadcasts WITH
    Servers <- {"s"}, Clients <- {"c", "d"}, Limits <- {1, 9}, BroadcastUnlimited <- 9,
    AllocDen <- 5, MaxInfos <- 2, granted <- x1, bc <- x2, alloc <- x3, expiry <- x4,
    sentTo <- x5, msgs <- x6, local <- x7, made <- x8, info <- x9, phase <- x10, keep <- x11,
    listed <- x12, fresh <- x13, dead <- x14, pc <- x15, uses <- x16

Ent == INSTANCE Entry WITH
    Windows <- FALSE, MaxEdits <- 1, MaxReloads <- 1, MayFail <- TRUE, ctx <- x1, inner <- x2,
    watching <- x3, sighup <- x4, main <- x5, control <- x6, procTimer <- x7, clientTimer <- x8,
    file <- x9, loaded <- x10, asked <- x11, reloads <- x12, exit <- x13

Win == INSTANCE Entry WITH
    Windows <- TRUE, MaxEdits <- 0, MaxReloads <- 1, MayFail <- TRUE, ctx <- x1, inner <- x2,
    watching <- x3, sighup <- x4, main <- x5, control <- x6, procTimer <- x7, clientTimer <- x8,
    file <- x9, loaded <- x10, asked <- x11, reloads <- x12, exit <- x13

Loop == INSTANCE StreamingLoop WITH
    Msgs <- {"a"}, NumServers <- 2, MaxConns <- 1, MaxRekeys <- 1, MaxResets <- 1,
    MaxBeacons <- 0, MayStop <- TRUE, loop <- x1, hosts <- x2, i <- x3, id <- x4,
    currentId <- x5, conns <- x6, curCon <- x7, live <- x8, writing <- x9, reading <- x10,
    pending <- x11, pendingEmpty <- x12, beacons <- x13, outbox <- x14, acked <- x15,
    wakeUp <- x16, fin <- x17, flush <- x18, resets <- x19

Lif == INSTANCE ServerLifecycle WITH
    Configs <- <<<<"a", "a1">>>>, Comms <- <<"k">>, Calls <- {"c"}, None <- None,
    HasAdmin <- TRUE, EarlyContacts <- TRUE, MayFail <- TRUE, pc <- x1, n <- x2, services <- x3,
    started <- x4, stopped <- x5, comms <- x6, listener <- x7, bm <- x8, processor <- x9,
    ds <- x10, calls <- x11, bad <- x12, http <- x13

Dae == INSTANCE DaemonService WITH
    Msgs <- {"a"}, None <- None, LazyStart <- FALSE, Inactivity <- FALSE, outFlushBytes <- 1,
    StdParams <- FALSE, Monitoring <- FALSE, MaxStarts <- 1, MaxHeard <- 0, MaxWritten <- 0,
    input <- x1, msg <- x2, mgr <- x3, feed <- x4, monitor <- x5, cancelled <- x6, stopped <- x7, ex <- x8,
    starts <- x9, taken <- x10, overwritten <- x11, panicked <- x12

Dan == INSTANCE DaemonService WITH
    Msgs <- {}, None <- None, LazyStart <- FALSE, Inactivity <- FALSE, outFlushBytes <- 1,
    StdParams <- FALSE, Monitoring <- FALSE, MaxStarts <- 1, MaxHeard <- 1, MaxWritten <- 0,
    input <- x1, msg <- x2, mgr <- x3, feed <- x4, monitor <- x5, cancelled <- x6, stopped <- x7, ex <- x8,
    starts <- x9, taken <- x10, overwritten <- x11, panicked <- x12

Cfg == INSTANCE ConfigManager WITH
    Serials <- {"x"}, Configured <- <<"x">>, MaxKeys <- 2, MaxNonce <- 1, MaxStarts <- 1,
    state <- x1, revoked <- x2, dirty <- x3, pc <- x4,
    arg <- x5, file <- x6, tmp <- x7, starts <- x8, keys <- x9

Hb == INSTANCE Heartbeats WITH
    initialHeartbeatTimeout <- 4, heartbeatTimeout <- 3, Grace <- 2, MaxQueued <- 2,
    MayCancel <- TRUE, proc <- x1, wrote <- x2, queued <- x3, sending <- x4, age <- x5,
    monitor <- x6, left <- x7, cancelled <- x8

Wd == INSTANCE Watchdog WITH
    duration <- 3, Extra <- 1, exit <- FALSE, watch <- x1, left <- x2, quiet <- x3,
    stopped <- x4, expired <- x5

\* The variables after the k-th, and their value in a part that has only k.
After19 == <<x20, x21, x22, x23, x24, x25, x26>>
Blank19 == 
    /\ x20 = None /\ x21 = None /\ x22 = None /\ x23 = None /\ x24 = None /\ x25 = None
    /\ x26 = None
After16 == <<x17, x18, x19, After19>>
Blank16 == x17 = None /\ x18 = None /\ x19 = None /\ Blank19
After15 == <<x16, After16>>
Blank15 == x16 = None /\ Blank16
After14 == <<x15, After15>>
Blank14 == x15 = None /\ Blank15
After13 == <<x14, After14>>
Blank13 == x14 = None /\ Blank14
After12 == <<x13, After13>>
Blank12 == x13 = None /\ Blank13
After11 == <<x12, After12>>
Blank11 == x12 = None /\ Blank12
After10 == <<x11, After11>>
Blank10 == x11 = None /\ Blank11
After9 == <<x10, After10>>
Blank9 == x10 = None /\ Blank10
After8 == <<x9, After9>>
Blank8 == x9 = None /\ Blank9
After7 == <<x8, After8>>
Blank7 == x8 = None /\ Blank8
After5 == <<x6, x7, After7>>
Blank5 == x6 = None /\ x7 = None /\ Blank7

\* A step of a part.
OfInb(A) == part = "inbound" /\ A /\ UNCHANGED <<part, After7>>
OfOut(A) == part = "outbound" /\ A /\ UNCHANGED <<part, After10>>
OfNtf(A) == part = "notifications" /\ A /\ UNCHANGED <<part, After14>>
OfSp(A) == part = "spanner" /\ A /\ UNCHANGED <<part, After12>>
OfFrr(A) == part = "frr" /\ A /\ UNCHANGED <<part, After13>>
OfStr(A) == part = "streaming" /\ A /\ UNCHANGED part
OfSoc(A) == part = "socket" /\ A /\ UNCHANGED part
OfSoq(A) == part = "reader" /\ A /\ UNCHANGED part
OfSob(A) == part = "acks" /\ A /\ UNCHANGED part
OfMsg(A) == part = "messages" /\ A /\ UNCHANGED <<part, After10>>
OfPoll(A) == part = "polling" /\ A /\ UNCHANGED <<part, After19>>
OfGrpc(A) == part = "grpc" /\ A /\ UNCHANGED <<part, After15>>
OfSts(A) == part = "streaming_stop" /\ A /\ UNCHANGED part
OfSst(A) == part = "socket_stop" /\ A /\ UNCHANGED part
OfSvc(A) == part = "services" /\ A /\ UNCHANGED <<part, After12>>
OfRst(A) == part = "restart" /\ A /\ UNCHANGED <<part, After12>>
OfCon(A) == part = "contacts" /\ A /\ UNCHANGED <<part, After10>>
OfBro(A) == part = "broadcasts" /\ A /\ UNCHANGED <<part, After16>>
OfEnt(A) == part = "entry" /\ A /\ UNCHANGED <<part, After13>>
OfWin(A) == part = "windows" /\ A /\ UNCHANGED <<part, After13>>
OfLoop(A) == part = "loop" /\ A /\ UNCHANGED <<part, After19>>
OfLif(A) == part = "lifecycle" /\ A /\ UNCHANGED <<part, After13>>
OfDae(A) == part = "daemon" /\ A /\ UNCHANGED <<part, After12>>
OfDan(A) == part = "answers" /\ A /\ UNCHANGED <<part, After12>>
OfConfig == part \in {"config", "sync"}
OfCfg(A) == OfConfig /\ A /\ UNCHANGED <<part, After9>>
OfUpdate(A) == part = "config" /\ A /\ UNCHANGED <<part, After9>>
OfSync(A) == part = "sync" /\ A /\ UNCHANGED <<part, After9>>
OfHb(A) == part = "heartbeats" /\ A /\ UNCHANGED <<part, After8>>
OfWd(A) == part = "watchdog" /\ A /\ UNCHANGED <<part, After5>>

-----------------------------------------------------------------------------
(* Messages *)

MessagesInit ==
    \/ part = "inbound" /\ Inb!Init /\ Blank7
    \/ part = "outbound" /\ Out!Init /\ Blank10
    \/ part = "notifications" /\ Ntf!Init /\ Blank14
    \/ part = "spanner" /\ Sp!Init /\ Blank12
    \/ part = "frr" /\ Frr!Init /\ Blank13
    \/ part = "streaming" /\ Str!Init
    \/ part = "socket" /\ Soc!Init
    \/ part = "reader" /\ Soq!Init
    \/ part = "acks" /\ Sob!Init
    \/ part = "messages" /\ Msg!Init /\ Blank10
    \/ part = "polling" /\ Poll!Init /\ Blank19
    \/ part = "grpc" /\ Grpc!Init /\ Blank15

MessagesNext ==
    \/ OfInb(Inb!Next) \/ OfOut(Out!Next) \/ OfNtf(Ntf!Next) \/ OfSp(Sp!Next)
    \/ OfFrr(Frr!Next) \/ OfStr(Str!Next) \/ OfSoc(Soc!Next) \/ OfSoq(Soq!Next) \/ OfSob(Sob!Next) \/ OfMsg(Msg!Next)
    \/ OfPoll(Poll!Next) \/ OfGrpc(Grpc!Next)

\* The fairness of the specifications, a conjunct of each at a time.
MessagesFairness ==
    /\ WF_vars(\/ OfInb(Inb!Tick)
               \/ OfOut(Out!ContactEnds("c"))
               \/ OfNtf(Ntf!Steps)
               \/ OfSp(Sp!CommitStore(1))
               \/ OfFrr(Frr!Respond)
               \/ OfStr(\E B \in SUBSET {"a"} : Str!connect(B))
               \/ OfSoc(\E m \in {"a", "b"} : Soc!Offer(m)) \/ OfSoq(Soq!Offer("a"))
               \/ OfSob(\E m \in {"a", "b", "c", "d"} : Sob!Offer(m))
               \/ OfMsg(Msg!Step)
               \/ OfPoll(Poll!Loop)
               \/ OfGrpc(Grpc!Update))
    /\ WF_vars(\/ OfInb(Inb!Work(<<"s", "handler">>))
               \/ OfOut(Out!ReportFails("p"))
               \/ OfNtf(Ntf!Due("m"))
               \/ OfSp(Sp!Receive("h") \/ Sp!CheckResult("h"))
               \/ OfFrr(Frr!Record("c"))
               \/ OfStr(Str!initialPoll)
               \/ OfSoc(Soc!Read) \/ OfSoq(Soq!Read) \/ OfSob(Sob!Read)
               \/ OfPoll(Poll!StopReturns)
               \/ OfGrpc(Grpc!Stop))
    /\ WF_vars(\/ OfInb(Inb!Work(<<"s", "looper">>))
               \/ OfOut(Out!TimePasses("m"))
               \/ OfNtf(Ntf!Initialize("c"))
               \/ OfSp(\E r \in {"none", "ok", "failed"} : Sp!ProcessMessages("h", r))
               \/ OfFrr(Frr!Watch)
               \/ OfStr(Str!Connected \/ Str!ConnectFails)
               \/ OfSoc(Soc!AgentLoop) \/ OfSoq(Soq!AgentLoop) \/ OfSob(Sob!AgentLoop)
               \/ OfGrpc(Grpc!Call("a")))
    /\ WF_vars(\/ OfInb(Inb!processMessages(<<"s", "looper">>))
               \/ OfNtf(Ntf!notifyLoop("c"))
               \/ OfStr(Str!NackPending)
               \/ OfSoc(Soc!AckLoop) \/ OfSoq(Soq!AckLoop) \/ OfSob(Sob!AckLoop)
               \/ OfGrpc(Grpc!Call("b")))
    /\ WF_vars(\/ OfNtf(Ntf!LifespanEnds("c"))
               \/ OfStr(Str!ClientStop)
               \/ OfSoc(Soc!Monitor) \/ OfSoq(Soq!Monitor) \/ OfSob(Sob!Monitor))
    /\ WF_vars(\/ OfNtf(Ntf!Fin("c"))
               \/ OfStr(Str!WriteBatch \/ Str!WriterStops \/ Str!StepDown)
               \/ OfSoc(Soc!Feeder) \/ OfSoq(Soq!Feeder) \/ OfSob(Sob!Feeder))
    /\ WF_vars(\/ OfStr(Str!ReadAck \/ Str!ReadData \/ Str!ReadDone \/ Str!WriterDone \/ Str!ReaderStops)
               \/ OfSoc(Soc!Communicator) \/ OfSoq(Soq!Communicator) \/ OfSob(Sob!Communicator))
    /\ WF_vars(OfStr(Str!ReadBatch \/ Str!ReadLoopEnds))
    /\ WF_vars(OfStr(Str!TakeBatch(1) \/ Str!processOne(1) \/ Str!ProcessFails(1) \/ Str!SendAck(1)))
    /\ WF_vars(OfStr(Str!NotifyDone \/ Str!NotifySend \/ Str!NotifyStops))
    /\ WF_vars(OfStr(Str!ServerStop))
    /\ WF_vars(OfStr(Str!WriteOne \/ Str!WriteFails \/ Str!WriteCancelled \/ Str!Drain \/ Str!StreamOver))
    /\ SF_vars(\/ OfInb(Inb!Told("m"))
               \/ OfOut(Out!Found("m"))
               \/ OfSp(Sp!Delivered)
               \/ OfStr(Str!connect({"a"}))
               \/ OfMsg(Msg!Ack("a"))
               \/ OfPoll(Poll!Cancelled)
               \/ OfGrpc(Grpc!ContextDone("a")))
    /\ SF_vars(\/ OfInb(Inb!Admitted("m"))
               \/ OfOut(Out!Linked("m"))
               \/ OfSp(\E r \in {"ok", "failed"} : Sp!ProcessMessages("h", r))
               \/ OfMsg(Msg!Ack("b"))
               \/ OfPoll(Poll!DueToSend)
               \/ OfGrpc(Grpc!ContextDone("b")))
    /\ SF_vars(\/ OfInb(Inb!Answered("m"))
               \/ OfOut(Out!Handed("m"))
               \/ OfGrpc(Grpc!ProcessMessage("a")))
    /\ SF_vars(\/ OfInb(Inb!Recorded("m"))
               \/ OfOut(Out!ClientProcess("m", "ack"))
               \/ OfGrpc(Grpc!ProcessMessage("b")))
    /\ SF_vars(OfOut(Out!Reported("m")))
    /\ SF_vars(OfOut(Out!Recorded("m")))

MessagesSpec == MessagesInit /\ [][MessagesNext]_vars /\ MessagesFairness

-----------------------------------------------------------------------------
(* Stops *)

StopsInit ==
    \/ part = "messages" /\ Msg!Init /\ Blank10
    \/ part = "grpc" /\ Grpc!Init /\ Blank15
    \/ part = "streaming_stop" /\ Sts!Init
    \/ part = "socket_stop" /\ Sst!Init
    \/ part = "services" /\ Svc!Init /\ Blank12
    \/ part = "restart" /\ Rst!Init /\ Blank12
    \/ part = "contacts" /\ Con!Init /\ Blank10
    \/ part = "broadcasts" /\ Bro!Init /\ Blank16
    \/ part = "entry" /\ Ent!Init /\ Blank13
    \/ part = "windows" /\ Win!Init /\ Blank13
    \/ part = "polling" /\ Poll!Init /\ Blank19
    \/ part = "loop" /\ Loop!Init /\ Blank19
    \/ part = "lifecycle" /\ Lif!Init /\ Blank13
    \/ part = "daemon" /\ Dae!Init /\ Blank12
    \/ part = "answers" /\ Dan!Init /\ Blank12
    \/ part \in {"config", "sync"} /\ Cfg!Init /\ Blank9
    \/ part = "heartbeats" /\ Hb!Init /\ Blank8
    \/ part = "watchdog" /\ Wd!Init /\ Blank5

StopsNext ==
    \/ OfMsg(Msg!Next) \/ OfGrpc(Grpc!Next) \/ OfSts(Sts!Next) \/ OfSst(Sst!Next)
    \/ OfSvc(Svc!Next) \/ OfRst(Rst!Next) \/ OfCon(Con!Next) \/ OfBro(Bro!Next) \/ OfEnt(Ent!Next)
    \/ OfWin(Win!Next) \/ OfPoll(Poll!Next) \/ OfLoop(Loop!Next) \/ OfLif(Lif!Next)
    \/ OfDae(Dae!Next) \/ OfDan(Dan!Next) \/ OfCfg(Cfg!Next) \/ OfHb(Hb!Next) \/ OfWd(Wd!Next)

\* The fairness of the specifications, a conjunct of each at a time.
StopsFairness ==
    /\ WF_vars(\/ OfMsg(Msg!Step)
               \/ OfGrpc(Grpc!Update)
               \/ OfSts(\E B \in SUBSET {"a"} : Sts!connect(B))
               \/ OfSst(Sst!Offer("a"))
               \/ OfSvc(Svc!Step)
               \/ OfRst(Rst!Step)
               \/ OfCon(Con!ServeHTTP("p"))
               \/ OfBro(Bro!Refresh("s"))
               \/ OfEnt(Ent!Run("main"))
               \/ OfWin(Win!Run("main"))
               \/ OfPoll(Poll!Loop)
               \/ OfLoop(Loop!Run("loop"))
               \/ OfLif(Lif!MakeServer)
               \/ OfDae(Dae!Run("manager")) \/ OfDan(Dan!Run("manager"))
               \/ OfCfg(Cfg!pollRevokedCerts("new"))
               \/ OfHb(Hb!inRoutine))
    /\ WF_vars(\/ OfGrpc(Grpc!Stop)
               \/ OfSts(Sts!initialPoll)
               \/ OfSst(Sst!Read)
               \/ OfCon(Con!ServeHTTP("q"))
               \/ OfBro(Bro!SaveBroadcastMessage("c", "s") \/ Bro!SaveFails("c", "s"))
               \/ OfEnt(Ent!Run("watch"))
               \/ OfWin(Win!Run("watch"))
               \/ OfPoll(Poll!StopReturns)
               \/ OfLoop(Loop!Run("writer"))
               \/ OfLif(Lif!Stop)
               \/ OfDae(Dae!Run("monitor")) \/ OfDan(Dan!Run("monitor"))
               \/ OfCfg(Cfg!Tick)
               \/ OfHb(Hb!Sent))
    /\ WF_vars(\/ OfGrpc(Grpc!Call("a"))
               \/ OfSts(Sts!Connected \/ Sts!ConnectFails)
               \/ OfSst(Sst!AgentLoop)
               \/ OfCon(Con!StopRunning \/ Con!StopReturns)
               \/ OfBro(Bro!SaveBroadcastMessage("d", "s") \/ Bro!SaveFails("d", "s"))
               \/ OfEnt(Ent!Run("start"))
               \/ OfWin(Win!Run("start"))
               \/ OfLoop(Loop!Run("reader"))
               \/ OfLif(Lif!End("c"))
               \/ OfDae(Dae!Run("feed")) \/ OfDan(Dan!Run("feed"))
               \/ OfUpdate(Cfg!WriteFile) \/ OfSync(Cfg!Received)
               \/ OfHb(Hb!Check \/ Hb!Recheck \/ Hb!Ends))
    /\ WF_vars(\/ OfGrpc(Grpc!Call("b"))
               \/ OfSts(Sts!NackPending)
               \/ OfSst(Sst!AckLoop)
               \/ OfEnt(Ent!Run("fire"))
               \/ OfWin(Win!Run("fire"))
               \/ OfDae(Dae!Run("shutdown")) \/ OfDan(Dan!Run("shutdown"))
               \/ OfUpdate(Cfg!Rename) \/ OfSync(Cfg!Writers)
               \/ OfHb(Hb!Tick))
    /\ WF_vars(\/ OfSts(Sts!ClientStop)
               \/ OfSst(Sst!Monitor)
               \/ OfDae(Dae!Run("wait")) \/ OfDan(Dan!Run("wait"))
               \/ OfUpdate(Cfg!needsSync \/ Cfg!LockForSync) \/ OfSync(Cfg!Readers))
    /\ WF_vars(\/ OfSts(Sts!WriteBatch \/ Sts!WriterStops \/ Sts!StepDown)
               \/ OfSst(Sst!Feeder)
               \/ OfDae(Dae!Run("in")) \/ OfDan(Dan!Run("in"))
               \/ OfSync(Cfg!Revoke("cfg")))
    /\ WF_vars(\/ OfSts(Sts!ReadAck \/ Sts!ReadData \/ Sts!ReadDone \/ Sts!WriterDone \/ Sts!ReaderStops)
               \/ OfSst(Sst!Communicator)
               \/ OfDae(Dae!Run("exit")) \/ OfDan(Dan!Run("exit")))
    /\ WF_vars(\/ OfSts(Sts!ReadBatch \/ Sts!ReadLoopEnds)
               \/ OfDae(Dae!Run("stats")) \/ OfDan(Dan!Run("stats")))
    /\ WF_vars(\/ OfSts(Sts!TakeBatch(1) \/ Sts!processOne(1) \/ Sts!ProcessFails(1) \/ Sts!SendAck(1))
               \/ OfDae(Dae!Run("flush")) \/ OfDan(Dan!Run("flush")))
    /\ WF_vars(\/ OfSts(Sts!NotifyDone \/ Sts!NotifySend \/ Sts!NotifyStops)
               \/ OfDae(Dae!Run("read")) \/ OfDan(Dan!Run("read")))
    /\ WF_vars(\/ OfSts(Sts!ServerStop)
               \/ OfDae(Dae!Run("write")) \/ OfDan(Dan!Run("write")))
    /\ WF_vars(\/ OfSts(Sts!WriteOne \/ Sts!WriteFails \/ Sts!WriteCancelled \/ Sts!Drain \/ Sts!StreamOver)
               \/ OfDae(Dae!Run("kill")) \/ OfDan(Dan!Run("kill")))
    /\ SF_vars(\/ OfMsg(Msg!Ack("a"))
               \/ OfGrpc(Grpc!ContextDone("a"))
               \/ OfSts(Sts!connect({"a"}))
               \/ OfPoll(Poll!Cancelled)
               \/ OfUpdate(Cfg!Received) \/ OfSync(Cfg!needsSync \/ Cfg!LockForSync))
    /\ SF_vars(\/ OfMsg(Msg!Ack("b"))
               \/ OfGrpc(Grpc!ContextDone("b"))
               \/ OfPoll(Poll!DueToSend)
               \/ OfUpdate(Cfg!Writers) \/ OfSync(Cfg!Written))
    /\ SF_vars(\/ OfGrpc(Grpc!ProcessMessage("a"))
               \/ OfUpdate(Cfg!Readers) \/ OfSync(Cfg!Renamed))
    /\ SF_vars(\/ OfGrpc(Grpc!ProcessMessage("b"))
               \/ OfUpdate(Cfg!Revoke("cfg")))

StopsSpec == StopsInit /\ [][StopsNext]_vars /\ StopsFairness

-----------------------------------------------------------------------------
(* Only one part runs, so what is to happen in each of them is one formula: *)
(* from the beginning to the end that its specification names.              *)
Waiting ==
    CASE part = "inbound" -> Inb!Unprocessed("m")
      [] part = "outbound" -> Out!Unsettled("m")
      [] part = "notifications" -> Ntf!Unsent("m")
      [] part = "spanner" -> Sp!Unprocessed(1)
      [] part = "frr" -> Frr!Reached("c")
      [] OTHER -> FALSE

Settled ==
    CASE part = "inbound" -> Inb!Processed("m")
      [] part = "outbound" -> Out!SettledOrBlacklisted("m")
      [] part = "notifications" -> Ntf!Sent("m")
      [] part = "spanner" -> Sp!ProcessedOrStopped(1)
      [] part = "frr" -> Frr!ToldOrExcused("c")
      [] OTHER -> FALSE

(* A message that is stored does not stay where it is.  One for the server  *)
(* is processed, by whichever server, after crashes and load shedding, from *)
(* the backlog or, if it was announced, by Pub/Sub; one for a client is     *)
(* sent over this connection or a later one and retried until it has a      *)
(* result; the watcher of the FRR master hears of a request that reached a  *)
(* client once, and whose service there does not stop.  And what is settled *)
(* for a client stays settled, whatever arrives late.                       *)
EventuallySettled ==
    /\ Waiting ~> Settled
    /\ [][part = "outbound" => Out!ResultKept]_vars

Offered(m) ==
    CASE part = "streaming" -> Str!Offered(m)
      [] part = "socket" -> Soc!Offered(m)
      [] part = "reader" -> Soq!Offered(m)
      [] part = "acks" -> Sob!Offered(m)
      [] part = "messages" -> Msg!Offered(m)
      [] part = "polling" -> Poll!Offered(m)
      [] part = "grpc" -> Grpc!Offered(m)
      [] OTHER -> FALSE

Answered(m) ==
    CASE part = "streaming" -> Str!Answered(m)
      [] part = "socket" -> Soc!Answered(m)
      [] part = "reader" -> Soq!Answered(m)
      [] part = "acks" -> Sob!Answered(m)
      [] part = "messages" -> Msg!Answered(m)
      [] part = "polling" -> Poll!Answered(m)
      [] part = "grpc" -> Grpc!Answered(m)
      [] OTHER -> FALSE

(* Who hands over a message gets an answer, although connections break and  *)
(* channels fail in between: the client of a streaming connection and an    *)
(* agent at a socket an acknowledgement, a service of the client one from   *)
(* the retry loop, the polling communicator's sender one or the message     *)
(* back, and the server one from a gRPC service that has moved.  The        *)
(* exceptions are at the socket, and last as long as the connection: an     *)
(* agent that does not read while it hands over its own messages, or a      *)
(* full buffer of acknowledgements whose reader has ended or waits for the  *)
(* one who fills it.                                                        *)
EventuallyAcked ==
    /\ \A m \in {"a", "b"} : Offered(m) ~> Answered(m)
    /\ [][/\ part = "socket" => Soc!BlockedKept
          /\ part = "reader" => Soq!BlockedKept
          /\ part = "acks" => Sob!BlockedKept]_vars

Ending ==
    CASE part = "streaming_stop" -> Sts!Ending
      [] part = "socket_stop" -> Sst!Ending
      [] part = "messages" -> Msg!Ending
      [] part = "services" -> Svc!Ending
      [] part = "restart" -> Rst!Ending
      [] part = "contacts" -> Con!Ending
      [] part = "entry" -> Ent!Ending
      [] part = "windows" -> Win!Ending
      [] part = "polling" -> Poll!Ending
      [] part = "loop" -> Loop!Ending
      [] part = "lifecycle" -> Lif!Ending
      [] part = "grpc" -> Grpc!Ending
      [] part = "daemon" -> Dae!Ending
      [] part = "answers" -> Dan!Ending
      [] part = "broadcasts" -> Bro!Ending("s")
      [] OTHER -> FALSE

Ended ==
    CASE part = "streaming_stop" -> Sts!Ended
      [] part = "socket_stop" -> Sst!Ended
      [] part = "messages" -> Msg!Ended
      [] part = "services" -> Svc!Ended
      [] part = "restart" -> Rst!Ended
      [] part = "contacts" -> Con!Ended
      [] part = "entry" -> Ent!Ended
      [] part = "windows" -> Win!Ended
      [] part = "polling" -> Poll!Ended
      [] part = "loop" -> Loop!Ended
      [] part = "lifecycle" -> Lif!Ended
      [] part = "grpc" -> Grpc!Ended
      [] part = "daemon" -> Dae!Ended
      [] part = "answers" -> Dan!Ended
      [] part = "broadcasts" -> Bro!Ended("s")
      [] OTHER -> FALSE


Changed ==
    CASE part = "config" -> Cfg!Updating
      [] part = "sync" -> Cfg!Unsynced
      [] part = "entry" -> Ent!Asked(1)
      [] OTHER -> FALSE

Taken ==
    CASE part = "config" -> Cfg!Updated
      [] part = "sync" -> Cfg!Synced
      [] part = "entry" -> Ent!LoadedOrEnded(1)
      [] OTHER -> FALSE

(* A change of the configuration is not lost: a rekey is announced to the   *)
(* server (part config) and written to disk (part sync) although the        *)
(* goroutines of the client contend for the manager's lock, unless they     *)
(* are Deadlocked, for ever: SendConfigUpdate keeps the read lock until     *)
(* cfgLoop takes the update, and cfgLoop waits for the lock.  And after a   *)
(* SIGHUP a client runs with the configuration as it was then, or a later   *)
(* one, unless the process ends.                                            *)
ConfigUpdateSent ==
    /\ Changed ~> Taken
    /\ [][OfConfig => Cfg!DeadlockKept]_vars

Failed ==
    CASE part = "heartbeats" -> Hb!Hung
      [] part = "daemon" -> Dae!Died
      [] part = "answers" -> Dan!Died
      [] OTHER -> FALSE

Noticed ==
    CASE part = "heartbeats" -> Hb!KilledOrOver
      [] part = "daemon" -> Dae!Noticed
      [] part = "answers" -> Dan!Noticed
      [] OTHER -> FALSE

(* A daemon process that hangs is killed, and one that died is noticed,     *)
(* unless its service is SendBlocked: SendMsg waits, with the lock that     *)
(* Shutdown needs, for a writer that has ended, until the service is        *)
(* stopped.  A process that works is never killed, neither after a          *)
(* suspension of the machine nor when its messages wait for room; and the   *)
(* watchdog of the client expires only when nothing was heard for the whole *)
(* time.                                                                    *)
KilledIffHung ==
    /\ Failed ~> Noticed
    /\ [][/\ part = "heartbeats" => Hb!OnlyHungKilled
          /\ part = "watchdog" => Wd!QuietWhenExpires]_vars
=============================================================================
