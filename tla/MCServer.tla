------------------------------ MODULE MCServer ------------------------------
(***************************************************************************)
(* Instances of the specifications of the server and its datastores, side  *)
(* by side, to check what must always hold. Notifications runs under its   *)
(* own names, with failures, broadcasts and two connections, and once more *)
(* with two messages; MysqlMessages three times, with message loops and    *)
(* rollbacks, with stores, and with two connections that repeat            *)
(* transactions; ClientData with two connections and with two ClientInfo   *)
(* messages in work; Admin with messages and with the other tables. The    *)
(* variable part chooses the one that runs; its k-th variable is xk.       *)
(***************************************************************************)
EXTENDS Integers, Sequences, Notifications

VARIABLES
    part,
    x1, x2, x3, x4, x5, x6, x7, x8, x9, x10, x11, x12, x13, x14

mcVars == <<part, vars, x1, x2, x3, x4, x5, x6, x7, x8, x9, x10, x11, x12, x13, x14>>

Inb == INSTANCE ServerInbound WITH
    Servers <- {"s", "t"}, ServerMsgs <- {"m"}, ClientMsgs <- {}, Unstored <- {}, Unserved <- {},
    MaxParallelism <- 1, ChunkSize <- 1, LooperLimit <- 2, MaxCrashes <- 1, db <- x1,
    outbox <- x2, contact <- x3, rest <- x4, job <- x5, parallelism <- x6, crashes <- x7

Out == INSTANCE ServerOutbound WITH
    ServerMsgs <- {}, ClientMsgs <- {"die", "new"}, Die <- {"die"}, Broadcasted <- {"new"},
    Rekey <- {"new"}, Contacts <- {"c", "d"}, Reporters <- {"p"}, FindLimit <- 2, db <- x1,
    blacklisted <- x2, pc <- x3, batch <- x4, dies <- x5, wire <- x6, processed <- x7,
    rejected <- x8, reports <- x9, reading <- x10

\* The hypothesis of the theorems about ServerOutbound holds of this instance.
ASSUME OutboundInstance == Out!OutboundAssumption

Con == INSTANCE Contacts WITH
    Polls <- {"p"}, Streams <- {"q", "r"}, None <- None, MayFail <- TRUE, comm <- x1,
    running <- x2, pending <- x3, known <- x4, contacts <- x5, stored <- x6, reg <- x7,
    at <- x8, isNew <- x9, status <- x10

Dat == INSTANCE ClientData WITH
    Servers <- {"s"}, Readers <- {"p", "q"}, Workers <- {"w"},
    Home <- [x \in {"p", "q", "w"} |-> "s"], Labels <- {"a", "b"}, Infos <- {{"a"}, {"b"}},
    None <- None, MaxAge <- 1, MaxRead <- 1, MaxLife <- 2, MaxFaults <- 0, labels <- x1,
    black <- x2, cache <- x3, rd <- x4, queue <- x5, work <- x6, faults <- x7, conn <- x8,
    overlapped <- x9

Lab == INSTANCE ClientData WITH
    Servers <- {"s"}, Readers <- {"p"}, Workers <- {"v", "w"},
    Home <- [x \in {"p", "v", "w"} |-> "s"], Labels <- {"a", "b"}, Infos <- {{"a"}, {"b"}},
    None <- None, MaxAge <- 1, MaxRead <- 1, MaxLife <- 1, MaxFaults <- 1, labels <- x1,
    black <- x2, cache <- x3, rd <- x4, queue <- x5, work <- x6, faults <- x7, conn <- x8,
    overlapped <- x9

Lif == INSTANCE ServerLifecycle WITH
    Configs <- <<<<"a", "a1">>, <<"b", "b1">>>>, Comms <- <<"k", "l">>, Calls <- {"c", "d"},
    None <- None, HasAdmin <- TRUE, EarlyContacts <- TRUE, MayFail <- TRUE, pc <- x1, n <- x2,
    services <- x3, started <- x4, stopped <- x5, comms <- x6, listener <- x7, bm <- x8,
    processor <- x9, ds <- x10, calls <- x11, bad <- x12, http <- x13

Xfc == INSTANCE XfccHeader WITH
    Keys <- {"C", "H"}, fieldName <- "C", Letters <- {"x", ";", "q"}, MaxFields <- 2,
    MaxLen <- 2, fields <- x1, whole <- x2, header <- x3, i <- x4, state <- x5, keyStr <- x6,
    valueStr <- x7, result <- x8

His == INSTANCE History WITH
    Machines <- {"m", "n"}, Addresses <- {"x"}, MaxContacts <- 3, MaxImages <- 1, MaxLost <- 1,
    Skew <- 3, log <- x1, oldest <- x2, nonce <- x3, images <- x4, restores <- x5, lost <- x6

Frr == INSTANCE Frr WITH
    Clients <- {"c"}, None <- None, NumMessages <- 2, MaxJitter <- 1, Limit <- 1, Cap <- 1,
    MaxCopies <- 2, MaxLost <- 1, MayTimeOut <- TRUE, MayStop <- FALSE, traffic <- x1,
    file <- x2, copies <- x3, asked <- x4, runs <- x5, stopped <- x6, net <- x7, requests <- x8,
    downloads <- x9, calls <- x10, completed <- x11, told <- x12, lost <- x13

Adm == INSTANCE Admin WITH
    ServerMsgs <- {}, ClientMsgs <- {"a"}, Callers <- {"p", "q"}, Clients <- {"c"},
    Dest <- [m \in {"a"} |-> "c"], Unfit <- {}, TooLarge <- {}, Bcasts <- {}, Source <- <<>>,
    Names <- {}, Garbled <- None, RestrictPayloadRetrieval <- TRUE, MaxFaults <- 1, db <- x1,
    known <- x2, bcasts <- x3, files <- x4, call <- x5, accepted <- x6, noticed <- x7,
    status <- x8, disabled <- x9, answer <- x10, faults <- x11

Adt == INSTANCE Admin WITH
    ServerMsgs <- {"u"}, ClientMsgs <- {"b"}, Callers <- {"p"}, Clients <- {"c"},
    Dest <- [m \in {"b"} |-> "c"], Unfit <- {"u"}, TooLarge <- {"b"}, Bcasts <- {"x", "y"},
    Source <- [b \in {"x", "y"} |-> b], Names <- {"", "f"}, Garbled <- None,
    RestrictPayloadRetrieval <- FALSE, MaxFaults <- 0, db <- x1, known <- x2, bcasts <- x3,
    files <- x4, call <- x5, accepted <- x6, noticed <- x7, status <- x8, disabled <- x9,
    answer <- x10, faults <- x11

Bat == INSTANCE Notifications WITH
    Servers <- {"s"}, Conns <- {"c", "d"}, AdminMsgs <- {"m", "n"}, Bcasts <- {}, None <- None,
    maxMessagesPerContact <- 1, MaxFaults <- 0, lastTo <- x1, recent <- x2, store <- x3,
    sentB <- x4, ins <- x5, to <- x6, cache <- x7, infos <- x8, reg <- x9, taken <- x10,
    all <- x11, cur <- x12, conn <- x13, faults <- x14

Ms == INSTANCE MessageStores WITH
    ServerMsgs <- {1}, ClientMsgs <- {3, 4}, Service <- [m \in {1, 3, 4} |-> "s"],
    late <- x6, lite <- x1, my <- x2, span <- x3, topic <- x4, answers <- x5

Cs == INSTANCE ClientStores WITH
    Clients <- {"c"}, Labels <- {"l"}, Msgs <- {"m", "n"}, MaxContacts <- 2, MaxUsage <- 1,
    lite <- x1, my <- x2, span <- x3, answers <- x4, differs <- x5

Bs == INSTANCE BroadcastStores WITH
    Broadcasts <- {"b"}, Clients <- {"c", "d"}, Limits <- {2, 9}, BroadcastUnlimited <- 9,
    AllocDen <- 5, Expiries <- {3}, MaxAllocs <- 2, MaxTime <- 3, lite <- x1, my <- x2,
    span <- x3, answers <- x4, made <- x5, now <- x6, differs <- x7

Fs == INSTANCE Files WITH
    Contents <- {"a", "b"}, Hosts <- 2, Ticks <- 2, MaxTime <- 3, MaxStoring <- 2,
    FileServerAuthorization <- TRUE, lite <- x1, my <- x2, span <- x3, now <- x4, last <- x5,
    answers <- x6, request <- x7, copy <- x8, told <- x9, storing <- x10, versions <- x11

My == INSTANCE MysqlMessages WITH
    ServerMsgs <- {1, 2}, ClientMsgs <- {}, Loops <- {"p", "q"}, Conns <- {}, Storers <- {},
    Orders <- {<<<<1, 2>>, <<>>>>, <<<<2>>, <<1>>>>}, lim <- 2, serviceLimit <- 2,
    MaxRetries <- 1, MaxDue <- 1, MayStop <- FALSE, None <- None, db <- x1, lock <- x2, pc <- x3,
    left <- x4, room <- x5, dbms <- x6, tries <- x7, stopping <- x8, conn <- x9, job <- x10,
    due <- x11, notified <- x12, again <- x13

Mt == INSTANCE MysqlMessages WITH
    ServerMsgs <- {1}, ClientMsgs <- {3}, Loops <- {"p"}, Conns <- {"k"}, Storers <- {"t"},
    Orders <- {<<<<1>>, <<>>>>}, lim <- 1, serviceLimit <- 1, MaxRetries <- 1, MaxDue <- 1,
    MayStop <- TRUE, None <- None, db <- x1, lock <- x2, pc <- x3, left <- x4, room <- x5,
    dbms <- x6, tries <- x7, stopping <- x8, conn <- x9, job <- x10, due <- x11, notified <- x12,
    again <- x13

Mc == INSTANCE MysqlMessages WITH
    ServerMsgs <- {}, ClientMsgs <- {3, 4}, Loops <- {}, Conns <- {"k", "l"}, Storers <- {},
    Orders <- {}, lim <- 2, serviceLimit <- 3, MaxRetries <- 1, MaxDue <- 2, MayStop <- FALSE,
    None <- None, db <- x1, lock <- x2, pc <- x3, left <- x4, room <- x5, dbms <- x6,
    tries <- x7, stopping <- x8, conn <- x9, job <- x10, due <- x11, notified <- x12,
    again <- x13

Sp == INSTANCE SpannerMessages WITH
    ServerMsgs <- {1}, ClientMsgs <- {3}, Conns <- {"k", "l"}, Handlers <- {"h", "i"},
    MaxPublished <- 2, MaxDue <- 1, MaxCrashes <- 1,
    result <- x1, storing <- x2, topic <- x3, published <- x4, handler <- x5, stopped <- x6,
    sched <- x7, conn <- x8, handed <- x9, dues <- x10, crashes <- x11, arrived <- x12

Rf == INSTANCE RowForms WITH
    ClientIds <- {"", "x", "short"}, DataValues <- {"", "v"}, Serialized <- {None, "v"},
    Nil <- None, kind <- x1, given <- x2, store <- x3, row <- x4, got <- x5

\* The variables after the k-th, and their value in a part that has only k.
After13 == <<x14>>
Blank13 == x14 = None
After12 == <<x13, After13>>
Blank12 == x13 = None /\ Blank13
After11 == <<x12, After12>>
Blank11 == x12 = None /\ Blank12
After10 == <<x11, After11>>
Blank10 == x11 = None /\ Blank11
After9 == <<x10, After10>>
Blank9 == x10 = None /\ Blank10
After8 == <<x9, After9>>
Blank8 == x9 = None /\ Blank9
After7 == <<x8, After8>>
Blank7 == x8 = None /\ Blank8
After6 == <<x7, After7>>
Blank6 == x7 = None /\ Blank7
After5 == <<x6, After6>>
Blank5 == x6 = None /\ Blank6
After4 == <<x5, After5>>
Blank4 == x5 = None /\ Blank5
After0 == <<x1, x2, x3, x4, After4>>
Blank0 == x1 = None /\ x2 = None /\ x3 = None /\ x4 = None /\ Blank4

MCInit ==
    /\ Init
    /\ \/ part = "notifications" /\ Blank0
       \/ part = "inbound" /\ Inb!Init /\ Blank7
       \/ part = "outbound" /\ Out!Init /\ Blank10
       \/ part = "contacts" /\ Con!Init /\ Blank10
       \/ part = "data" /\ Dat!Init /\ Blank9
       \/ part = "labels" /\ Lab!Init /\ Blank9
       \/ part = "lifecycle" /\ Lif!Init /\ Blank13
       \/ part = "header" /\ Xfc!Init /\ Blank8
       \/ part = "history" /\ His!Init /\ Blank6
       \/ part = "frr" /\ Frr!Init /\ Blank13
       \/ part = "admin" /\ Adm!Init /\ Blank11
       \/ part = "admin_tables" /\ Adt!Init /\ Blank11
       \/ part = "batches" /\ Bat!Init
       \/ part = "message_stores" /\ Ms!Init /\ Blank6
       \/ part = "client_stores" /\ Cs!Init /\ Blank5
       \/ part = "broadcast_stores" /\ Bs!Init /\ Blank7
       \/ part = "files" /\ Fs!Init /\ Blank11
       \/ part = "mysql" /\ My!Init /\ Blank13
       \/ part = "mysql_store" /\ Mt!Init /\ Blank13
       \/ part = "mysql_client" /\ Mc!Init /\ Blank13
       \/ part = "spanner" /\ Sp!Init /\ Blank12
       \/ part = "rows" /\ Rf!Init /\ Blank5

MCNext ==
    \/ part = "notifications" /\ Next /\ UNCHANGED <<part, After0>>
    \/ part = "inbound" /\ Inb!Next /\ UNCHANGED <<part, vars, After7>>
    \/ part = "outbound" /\ Out!Next /\ UNCHANGED <<part, vars, After10>>
    \/ part = "contacts" /\ Con!Next /\ UNCHANGED <<part, vars, After10>>
    \/ part = "data" /\ Dat!Next /\ UNCHANGED <<part, vars, After9>>
    \/ part = "labels" /\ Lab!Next /\ UNCHANGED <<part, vars, After9>>
    \/ part = "lifecycle" /\ Lif!Next /\ UNCHANGED <<part, vars, After13>>
    \/ part = "header" /\ Xfc!Next /\ UNCHANGED <<part, vars, After8>>
    \/ part = "history" /\ His!Next /\ UNCHANGED <<part, vars, After6>>
    \/ part = "frr" /\ Frr!Next /\ UNCHANGED <<part, vars, After13>>
    \/ part = "admin" /\ Adm!Next /\ UNCHANGED <<part, vars, After11>>
    \/ part = "admin_tables" /\ Adt!Next /\ UNCHANGED <<part, vars, After11>>
    \/ part = "batches" /\ Bat!Next /\ UNCHANGED <<part, vars>>
    \/ part = "message_stores" /\ Ms!Next /\ UNCHANGED <<part, vars, After6>>
    \/ part = "client_stores" /\ Cs!Next /\ UNCHANGED <<part, vars, After5>>
    \/ part = "broadcast_stores" /\ Bs!Next /\ UNCHANGED <<part, vars, After7>>
    \/ part = "files" /\ Fs!Next /\ UNCHANGED <<part, vars, After11>>
    \/ part = "mysql" /\ My!Next /\ UNCHANGED <<part, vars, After13>>
    \/ part = "mysql_store" /\ Mt!Next /\ UNCHANGED <<part, vars, After13>>
    \/ part = "mysql_client" /\ Mc!Next /\ UNCHANGED <<part, vars, After13>>
    \/ part = "spanner" /\ Sp!Next /\ UNCHANGED <<part, vars, After12>>
    \/ part = "rows" /\ Rf!Next /\ UNCHANGED <<part, vars, After5>>

MCSpec == MCInit /\ [][MCNext]_mcVars

-----------------------------------------------------------------------------
\* The part that runs keeps the types of its state.
TypesOK ==
    CASE part = "notifications" -> TypeOK
      [] part = "inbound" -> Inb!TypeOK
      [] part = "outbound" -> Out!TypeOK
      [] part = "contacts" -> Con!TypeOK
      [] part = "data" -> Dat!TypeOK
      [] part = "labels" -> Lab!TypeOK
      [] part = "lifecycle" -> Lif!TypeOK
      [] part = "frr" -> Frr!TypeOK
      [] part = "admin" -> Adm!TypeOK
      [] part = "admin_tables" -> Adt!TypeOK
      [] part = "batches" -> Bat!TypeOK
      [] part = "message_stores" -> Ms!TypeOK
      [] part = "client_stores" -> Cs!TypeOK
      [] part = "files" -> Fs!TypeOK
      [] part = "mysql" -> My!TypeOK
      [] part = "mysql_store" -> Mt!TypeOK
      [] part = "mysql_client" -> Mc!TypeOK
      [] part = "spanner" -> Sp!TypeOK
      [] OTHER -> TRUE

(* The server records success for a message to a client only if the client  *)
(* processed it, keeps a message pending exactly while it has no result,    *)
(* and settles a Die message before it reaches the client it kills, however *)
(* contacts, duplicate deliveries, stale reports and the admin interleave.  *)
(* Two servers that work on the same message for the server keep it pending *)
(* likewise, tell the client only what is stored, and bound their calls.    *)
(* What a caller of the admin interface was told of a message or a          *)
(* broadcast stays true, and a server is told of a message only when the    *)
(* message is stored.                                                       *)
OkOnlyIfProcessed ==
    /\ part = "inbound" => Inb!PendingIffUnprocessed /\ Inb!AckedIsStored /\ Inb!CallsBounded
    /\ part = "outbound" => Out!OkOnlyIfProcessed /\ Out!PendingIffUnprocessed /\ Out!DieSettledBeforeSent
    /\ part = "admin" => Adm!AnswersStayTrue /\ Adm!NoticeAfterStore
    /\ part = "admin_tables" => Adt!AnswersStayTrue

(* Once the communicator's Stop has returned, no handler of a contact is at *)
(* work, so that none uses the datastore the server closes next (those of   *)
(* /files/ are not counted: see NoUseAfterStop).  No stream leaves          *)
(* its registration behind, and a contact the Authorizer has refused, at    *)
(* whichever of its questions, leaves neither a contact nor a message.  An  *)
(* open connection is the registered one, whatever the teardown of an       *)
(* earlier one does, also when messages are handed out in several batches,  *)
(* and then no message is left behind either.                               *)
ContactsContained ==
    /\ CurrentIsRegistered
    /\ part = "contacts" => Con!StopWaits /\ Con!RegistrationReleased /\ Con!RefusedStoresNoMessages
    /\ part = "batches" => Bat!CurrentIsRegistered /\ Bat!NoLostWakeup

(* What a server's cache hands out was true at most the age limit of the    *)
(* cache and the duration of a read ago; a contact keeps what it was given  *)
(* until it ends, so that a blacklisting takes a stream's lifespan longer   *)
(* to reach it.  The labels left when all ClientInfo messages are processed *)
(* are those of one of them, unless two of them were in work at a time.     *)
StaleBounded ==
    /\ part = "data" => Dat!StaleBounded /\ Dat!LabelsOfOne
    /\ part = "labels" => Lab!StaleBounded /\ Lab!LabelsOfOne

(* Stop takes its steps in an order in which no contact and no backlogged   *)
(* message meets a component that is gone; calls of the admin interface,    *)
(* requests for files and notifications over http, which it does not wait   *)
(* for, may.  Every service that was started is stopped.                    *)
NoUseAfterStop == part = "lifecycle" => Lif!NoUseAfterStop /\ Lif!ServicesStopped

(* Whatever characters the values of a certificate header hold, the value   *)
(* of the first field of the name looked for is returned unchanged.         *)
ExtractsFirst == part = "header" => Xfc!ExtractsFirst

(* The contact history of a client shows at least as many skips as splits,  *)
(* whatever part of the log is left and whatever was restored, cloned or    *)
(* lost, and neither when nothing was.                                      *)
SplitsWithinSkips == part = "history" => His!SplitsWithinSkips /\ His!NormalIsZero


(* After any history of calls the sqlite and the mysql datastore hold the   *)
(* same messages, clients, broadcasts and files and gave the same answer to *)
(* the last call, and so does spanner, apart from the calls and the answers *)
(* that the modules name: what is stored twice, or late, or is missing.     *)
StoresAgree ==
    /\ part = "message_stores" => Ms!StoresAgree
    /\ part = "client_stores" => Cs!StoresAgree
    /\ part = "broadcast_stores" => Bs!StoresAgree
    /\ part = "files" => Fs!StoresAgree


(* A message for the server that spanner holds without a result, and of     *)
(* which some announcement reached the topic, is announced or being         *)
(* handled, whatever callbacks fail and whenever the server stops or        *)
(* crashes: nothing else would ever bring it up again.                      *)
NeverForgotten == part = "spanner" => Sp!NeverForgotten

(* When a server answers a client's If-Modified-Since with "not modified",  *)
(* the client's copy is the file that is stored now, unless the copy is of  *)
(* a version with a time in the same second or a later one, which HTTP      *)
(* cannot tell from it.                                                     *)
NotModifiedIsCurrent == part = "files" => Fs!NotModifiedIsCurrent

(* What a datastore returns of a message or a broadcast is what was stored, *)
(* but for the data of a processed message, which is not kept, and the      *)
(* outcome of one, which sqlite and mysql return through GetMessageResult   *)
(* only; with spanner, data that is empty comes back as none.               *)
StoredWhole == part = "rows" => Rf!StoredWhole
=============================================================================
