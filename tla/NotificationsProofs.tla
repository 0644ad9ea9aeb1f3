------------------------- MODULE NotificationsProofs -------------------------
(***************************************************************************)
(* Proofs that no wakeup of a connection is lost and that registrations    *)
(* are exact, for any servers, connections, messages and broadcasts and    *)
(* any limit of a batch.                                                   *)
(***************************************************************************)
EXTENDS Notifications, FiniteSetTheorems, TLAPS

Unregistered == {"off", "miss", "known", "recorded"}
Serving == {"first", "wait", "settle", "find", "backoff"}

\* A connection that exists is at a server; one that has not registered yet has no
\* open channel.
Placed ==
    \A c \in Conns : /\ conn[c].st # "off" => conn[c].srv \in Servers
                     /\ conn[c].st \in Unregistered => ~conn[c].open

\* The registrations of a server and the open channels are the same.
Exact ==
    /\ \A c \in Conns : conn[c].open => reg[conn[c].srv] = c
    /\ \A s \in Servers : reg[s] # None => conn[reg[s]].open /\ conn[reg[s]].srv = s

\* Without a fault a connection that is neither being set up nor torn down is the
\* one the client holds, and its channel is open.
Alone ==
    faults = 0 =>
    \A c \in Conns : /\ conn[c].st \notin {"off", "closing"} => cur = c
                     /\ conn[c].st \in Serving => conn[c].open

\* A message that was announced to the server of a waiting connection and still is
\* new has left a notice, or an id that will become one.
Told ==
    \A c \in Conns, m \in AdminMsgs :
        /\ conn[c].st = "wait" /\ conn[c].open /\ ~conn[c].hid
        /\ ins[m] = "done" /\ to[m] = conn[c].srv /\ store[m] = "new"
        => conn[c].notice \/ taken[conn[c].srv]

IndInv == TypeOK /\ Placed /\ Exact /\ Alone /\ Told

-----------------------------------------------------------------------------

\* What moving a connection on leaves alone.
LEMMA GotoMoves ==
    ASSUME TypeOK, NEW c \in Conns, NEW st \in ConnStates, Goto(c, st)
    PROVE  /\ conn' \in [Conns -> Connection]
           /\ \A d \in Conns :
                /\ conn'[d].srv = conn[d].srv /\ conn'[d].notice = conn[d].notice
                /\ conn'[d].open = conn[d].open /\ conn'[d].hid = conn[d].hid
                /\ conn'[d].st = IF d = c THEN st ELSE conn[d].st
  BY DEF TypeOK, Goto, ConnStates, Connection

\* What a notice changes.
LEMMA NoticeMarks ==
    ASSUME TypeOK, NEW s \in Servers, conn' = Notice(s)
    PROVE  /\ conn' \in [Conns -> Connection]
           /\ \A d \in Conns :
                /\ conn'[d].srv = conn[d].srv /\ conn'[d].st = conn[d].st
                /\ conn'[d].open = conn[d].open /\ conn'[d].hid = conn[d].hid
                /\ conn'[d].notice <=> conn[d].notice \/ d = reg[s]
  <1>1. CASE reg[s] = None
    BY <1>1, NotificationsAssumption, Zenon DEF TypeOK, Notice
  <1>2. CASE reg[s] # None
    <2>1. conn' = [conn EXCEPT ![reg[s]].notice = TRUE] /\ reg[s] \in Conns
      BY <1>2, Zenon DEF TypeOK, Notice
    <2> DEFINE r == reg[s]
    <2>2. conn' = [conn EXCEPT ![r].notice = TRUE] /\ r \in Conns
      BY <2>1, Zenon
    <2> HIDE DEF r
    <2>3. /\ conn' \in [Conns -> Connection]
          /\ \A d \in Conns :
                /\ conn'[d].srv = conn[d].srv /\ conn'[d].st = conn[d].st
                /\ conn'[d].open = conn[d].open /\ conn'[d].hid = conn[d].hid
                /\ conn'[d].notice = IF d = r THEN TRUE ELSE conn[d].notice
      <3>1. conn[r] \in Connection
        BY <2>2, Zenon DEF TypeOK
      <3> DEFINE w == [conn[r] EXCEPT !.notice = TRUE]
      <3>2. /\ w \in Connection /\ w.notice = TRUE /\ w.srv = conn[r].srv /\ w.st = conn[r].st
            /\ w.open = conn[r].open /\ w.hid = conn[r].hid
        BY <3>1, Zenon DEF Connection
      <3>3. conn' = [conn EXCEPT ![r] = w]
        BY <2>2, Zenon
      <3> HIDE DEF w
      <3> QED
        BY <2>2, <3>2, <3>3, ZenonT(30) DEF TypeOK
    <2> QED
      BY <2>3, Zenon DEF r
  <1> QED
    BY <1>1, <1>2, Zenon

-----------------------------------------------------------------------------

\* Nothing is connected and nothing was inserted at the start.
LEMMA InitInd == Init => IndInv
  <1> SUFFICES ASSUME Init PROVE IndInv
    BY Zenon
  <1>1. conn = [c \in Conns |-> NoConn] /\ \A c \in Conns : conn[c] = NoConn
    BY Zenon DEF Init
  <1>2. NoConn \in Connection
    BY Zenon DEF NoConn, ConnStates, Connection
  <1>3. TypeOK
    <2>1. conn \in [Conns -> Connection]
      BY <1>1, <1>2, Zenon
    <2>2. faults \in 0..MaxFaults
      BY NotificationsAssumption DEF Init
    <2> QED
      BY <2>1, <2>2, Zenon DEF Init, TypeOK
  <1>4. NoConn.st = "off" /\ ~NoConn.open
    BY Zenon DEF NoConn
  <1>5. Placed /\ Exact /\ Alone /\ Told
    BY <1>1, <1>4, NotificationsAssumption, Zenon
    DEF Init, Placed, Exact, Alone, Told, Serving
  <1> QED
    BY <1>3, <1>5, Zenon DEF IndInv

\* InsertMessage up to the announcement: where the client is, then the store.
LEMMA InsertStep ==
    ASSUME IndInv, NEW m \in AdminMsgs, ListClients(m) \/ StoreMessages(m)
    PROVE  IndInv'
  <1>1. TypeOK'
    BY DEF IndInv, TypeOK, ListClients, StoreMessages, db, server
  <1>2. UNCHANGED <<reg, taken, cur, conn, faults>>
    BY Zenon DEF ListClients, StoreMessages, server
  <1>3. \A n \in AdminMsgs : ins'[n] = "done" =>
          ins[n] = "done" /\ to'[n] = to[n] /\ store'[n] = store[n]
    BY Zenon DEF IndInv, TypeOK, ListClients, StoreMessages, db
  <1>4. Placed' /\ Exact' /\ Alone'
    BY <1>2, Zenon DEF IndInv, Placed, Exact, Alone
  <1>5. Told'
    BY <1>2, <1>3 DEF IndInv, Told
  <1> QED
    BY <1>1, <1>4, <1>5, Zenon DEF IndInv

\* The announcement leaves an id, or none for this server.
LEMMA AnnounceStep ==
    ASSUME IndInv, NEW m \in AdminMsgs, NewMessageForClient(m)
    PROVE  IndInv'
  <1>a. faults' \in 0..MaxFaults
    BY NotificationsAssumption DEF IndInv, TypeOK, NewMessageForClient, Fault
  <1>b. /\ ins' \in [AdminMsgs -> {"idle", "read", "stored", "done"}]
        /\ to' \in [AdminMsgs -> Servers \cup {None}]
    BY Zenon DEF IndInv, TypeOK, NewMessageForClient
  <1>c. taken' \in [Servers -> BOOLEAN]
    BY Zenon DEF IndInv, TypeOK, NewMessageForClient
  <1>1. TypeOK'
    BY <1>a, <1>b, <1>c, Zenon DEF IndInv, TypeOK, NewMessageForClient, db
  <1>2. UNCHANGED <<reg, cur, conn, store>> /\ (faults' = 0 => faults = 0)
    BY DEF IndInv, TypeOK, NewMessageForClient, Fault, db
  <1>3. \A s \in Servers : taken[s] => taken'[s]
    BY Zenon DEF IndInv, TypeOK, NewMessageForClient
  <1>4. \A n \in AdminMsgs, s \in Servers : ins'[n] = "done" /\ to'[n] = s =>
          taken'[s] \/ (ins[n] = "done" /\ to[n] = s)
    BY NotificationsAssumption DEF IndInv, TypeOK, NewMessageForClient
  <1>5. Placed' /\ Exact' /\ Alone'
    BY <1>2, Zenon DEF IndInv, Placed, Exact, Alone
  <1>6. Told'
    BY <1>2, <1>3, <1>4, Zenon DEF IndInv, Placed, Told
  <1> QED
    BY <1>1, <1>5, <1>6, Zenon DEF IndInv

\* An id becomes a notice of the registered connection, the only open one there.
LEMMA DispatchStep ==
    ASSUME IndInv, NEW s \in Servers, Dispatch(s)
    PROVE  IndInv'
  <1>1. UNCHANGED <<db, admin, cache, infos, reg, all, cur, faults>>
    BY Zenon DEF Dispatch
  <1>2. taken' = [taken EXCEPT ![s] = FALSE] /\ conn' = Notice(s)
    BY Zenon DEF Dispatch
  <1>3. TypeOK'
    BY <1>1, <1>2, NoticeMarks, Zenon DEF IndInv, TypeOK, db, admin
  <1>4. Placed' /\ Exact' /\ Alone'
    BY <1>1, <1>2, NoticeMarks, NotificationsAssumption DEF IndInv, TypeOK, Placed, Exact, Alone
  <1>5. UNCHANGED <<store, ins, to>>
    BY <1>1, Zenon DEF db, admin
  <1>6. Told'
    BY <1>1, <1>2, <1>5, NoticeMarks DEF IndInv, TypeOK, Placed, Exact, Told
  <1> QED
    BY <1>3, <1>4, <1>6, Zenon DEF IndInv

\* The broadcast manager's notices, and the steps that leave the connections alone.
LEMMA ServerStep ==
    ASSUME IndInv,
           \/ \E s \in Servers : NotifyAll(s) \/ Expire(s)
           \/ \E s \in Servers, b \in Bcasts : refreshInfo(s, b)
           \/ \E m \in AdminMsgs : Due(m)
           \/ ClientGivesUp \/ Aged
    PROVE  IndInv'
  <1>1. UNCHANGED <<ins, to, reg, taken>>
    BY Zenon DEF NotifyAll, Expire, Aged, refreshInfo, Due, ClientGivesUp, db, admin, server
  <1>2. (conn' = conn \/ \E s \in Servers : conn' = Notice(s)) /\ (faults' = 0 => UNCHANGED <<faults, cur>>)
    BY DEF IndInv, TypeOK, NotifyAll, Expire, Aged, refreshInfo, Due, ClientGivesUp, Fault
  <1>3. \A m \in AdminMsgs : store'[m] = "new" => store[m] = "new"
    BY Zenon DEF IndInv, TypeOK, NotifyAll, Expire, Aged, refreshInfo, Due, ClientGivesUp, db
  <1>4. conn' \in [Conns -> Connection]
    BY <1>2, NoticeMarks, Zenon DEF IndInv, TypeOK
  <1>5. faults' \in 0..MaxFaults /\ cur' \in Conns \cup {None}
    BY NotificationsAssumption DEF IndInv, TypeOK, NotifyAll, Expire, Aged, refreshInfo, Due, ClientGivesUp, Fault
  <1>6. /\ lastTo' \in Servers \cup {None} /\ recent' \in BOOLEAN
        /\ store' \in [AdminMsgs -> {"none", "new", "reserved", "due", "sent"}]
        /\ sentB' \subseteq Bcasts
    BY Zenon DEF IndInv, TypeOK, NotifyAll, Expire, Aged, refreshInfo, Due, ClientGivesUp, db
  <1>a. all' \in [Servers -> BOOLEAN]
    BY Zenon DEF IndInv, TypeOK, NotifyAll, Expire, Aged, refreshInfo, Due, ClientGivesUp, server
  <1>b. cache' \in [Servers -> BOOLEAN]
    BY Zenon DEF IndInv, TypeOK, NotifyAll, Expire, Aged, refreshInfo, Due, ClientGivesUp, server
  <1>7. infos' \in [Servers -> SUBSET Bcasts]
    BY DEF IndInv, TypeOK, NotifyAll, Expire, Aged, refreshInfo, Due, ClientGivesUp, server
  <1>8. TypeOK'
    BY <1>1, <1>4, <1>5, <1>6, <1>7, <1>a, <1>b, Zenon DEF IndInv, TypeOK
  <1>9. \A d \in Conns :
          /\ conn'[d].srv = conn[d].srv /\ conn'[d].st = conn[d].st
          /\ conn'[d].open = conn[d].open /\ conn'[d].hid = conn[d].hid
          /\ conn[d].notice => conn'[d].notice
    BY <1>2, NoticeMarks, Zenon DEF IndInv
  <1>10. Placed' /\ Exact' /\ Alone'
    BY <1>1, <1>2, <1>9, NotificationsAssumption DEF IndInv, TypeOK, Placed, Exact, Alone
  <1>11. Told'
    BY <1>1, <1>3, <1>9 DEF IndInv, Told
  <1> QED
    BY <1>8, <1>10, <1>11, Zenon DEF IndInv

-----------------------------------------------------------------------------

\* A step that only moves one connection on, to a state that keeps its channel and
\* is not the waiting one.
LEMMA MoveStep ==
    ASSUME IndInv, NEW c \in Conns, NEW st \in ConnStates \ {"off", "wait"}, Goto(c, st),
           UNCHANGED <<store, ins, to, reg, taken>>,
           conn[c].st # "off",
           st \in Unregistered => conn[c].st \in Unregistered,
           conn[c].st = "closing" => st = "closing",
           faults' = 0 => /\ faults = 0
                          /\ \/ cur' = cur
                             \/ st = "closing" /\ cur' = IF cur = c THEN None ELSE cur
                          /\ st \in Serving => conn[c].st \in Serving
    PROVE  Placed' /\ Exact' /\ Alone' /\ Told'
  <1>1. \A d \in Conns :
          /\ conn'[d].srv = conn[d].srv /\ conn'[d].notice = conn[d].notice
          /\ conn'[d].open = conn[d].open /\ conn'[d].hid = conn[d].hid
          /\ conn'[d].st = IF d = c THEN st ELSE conn[d].st
    BY GotoMoves, Zenon DEF IndInv
  <1>2. Placed'
    BY <1>1, Zenon DEF IndInv, Placed
  <1>3. Exact'
    BY <1>1, NotificationsAssumption DEF IndInv, TypeOK, Exact
  <1>4. Alone'
    BY <1>1, Zenon DEF IndInv, Alone
  <1>5. Told'
    BY <1>1 DEF IndInv, Told
  <1> QED
    BY <1>2, <1>3, <1>4, <1>5, Zenon

\* The steps of InitializeConnection between the look up and the registration.
LEMMA SetUpStep ==
    ASSUME IndInv, NEW c \in Conns, CacheUpdate(c) \/ RecordClientContact(c)
    PROVE  IndInv'
  <1>1. CASE CacheUpdate(c)
    <2>1. Goto(c, "known") /\ conn[c].st = "miss"
      BY <1>1, Zenon DEF CacheUpdate
    <2>2. /\ UNCHANGED <<lastTo, recent, store, sentB, ins, to, infos, reg, taken, all, cur, faults>>
          /\ cache' = [cache EXCEPT ![conn[c].srv] = TRUE]
      BY <1>1, Zenon DEF CacheUpdate, db, admin
    <2>a. cache' \in [Servers -> BOOLEAN]
      BY <2>2, Zenon DEF IndInv, TypeOK
    <2>b. conn' \in [Conns -> Connection]
      <3>1. TypeOK /\ "known" \in ConnStates
        BY Zenon DEF IndInv, ConnStates
      <3> QED
        BY <2>1, <3>1, GotoMoves, Zenon
    <2>3. TypeOK'
      BY <2>2, <2>a, <2>b, Zenon DEF IndInv, TypeOK
    <2>4. Placed' /\ Exact' /\ Alone' /\ Told'
      BY <2>1, <2>2, MoveStep, Zenon DEF ConnStates, Unregistered, Serving
    <2> QED
      BY <2>3, <2>4, Zenon DEF IndInv
  <1>2. CASE RecordClientContact(c)
    <2>1. Goto(c, "recorded") /\ conn[c].st = "known"
      BY <1>2, Zenon DEF RecordClientContact
    <2>2. /\ UNCHANGED <<store, sentB, ins, to, cache, infos, reg, taken, all, cur, faults>>
          /\ lastTo' = conn[c].srv /\ recent' = TRUE
      BY <1>2, Zenon DEF RecordClientContact, server, admin
    <2>3. conn[c].srv \in Servers
      BY <2>1, Zenon DEF IndInv, Placed
    <2>4. TypeOK'
      BY <2>1, <2>2, <2>3, GotoMoves, Zenon DEF IndInv, TypeOK, ConnStates
    <2>5. Placed' /\ Exact' /\ Alone' /\ Told'
      BY <2>1, <2>2, MoveStep, Zenon DEF ConnStates, Unregistered, Serving
    <2> QED
      BY <2>4, <2>5, Zenon DEF IndInv
  <1> QED
    BY <1>1, <1>2, Zenon

\* Failures of a search, the retry, the end of the registration seen by notifyLoop
\* and the end of the connection.
LEMMA MovedStep ==
    ASSUME IndInv, NEW c \in Conns, NEW st \in ConnStates \ {"off", "wait"}, Goto(c, st),
           UNCHANGED <<db, admin, server>>,
           conn[c].st \notin Unregistered, st \notin Unregistered,
           conn[c].st = "closing" => st = "closing",
           st \in Serving => conn[c].st \in Serving,
           \/ UNCHANGED <<cur, faults>>
           \/ UNCHANGED cur /\ Fault
           \/ st = "closing" /\ cur' = (IF cur = c THEN None ELSE cur) /\ (Fault \/ UNCHANGED faults)
    PROVE  IndInv'
  <1>1. UNCHANGED <<lastTo, recent, store, sentB, ins, to, cache, infos, reg, taken, all>>
    BY Zenon DEF db, admin, server
  <1>2. faults' \in 0..MaxFaults /\ cur' \in Conns \cup {None} /\ (faults' = 0 => UNCHANGED faults)
    BY NotificationsAssumption DEF IndInv, TypeOK, Fault
  <1>3. TypeOK'
    BY <1>1, <1>2, GotoMoves, Zenon DEF IndInv, TypeOK
  <1>4. /\ conn[c].st # "off"
        /\ faults' = 0 => cur' = cur \/ (st = "closing" /\ cur' = IF cur = c THEN None ELSE cur)
    BY <1>2, Zenon DEF Unregistered
  <1>5. Placed' /\ Exact' /\ Alone' /\ Told'
    BY <1>1, <1>2, <1>4, MoveStep, Zenon
  <1> QED
    BY <1>3, <1>5, Zenon DEF IndInv

\* The look up puts a connection at a server, without a channel.
LEMMA DialStep ==
    ASSUME IndInv, NEW c \in Conns, NEW s \in Servers, getClientInfo(c, s)
    PROVE  IndInv'
  <1>1. UNCHANGED <<lastTo, recent, store, sentB, ins, to, cache, infos, reg, taken, all, faults>>
    BY Zenon DEF getClientInfo, db, admin, server
  <1>2. cur = None /\ conn[c].st = "off" /\ cur' = c
    BY Zenon DEF getClientInfo
  <1> DEFINE w == [NoConn EXCEPT !.srv = s, !.cached = cache[s],
                                 !.st = IF cache[s] THEN "known" ELSE "miss"]
  <1>3. w \in Connection /\ w.srv = s /\ w.st \in {"known", "miss"} /\ ~w.open
    BY Zenon DEF IndInv, TypeOK, NoConn, Connection, ConnStates
  <1>4. conn' = [conn EXCEPT ![c] = w]
    BY Zenon DEF getClientInfo
  <1> HIDE DEF w
  <1>5. TypeOK' /\ conn'[c] = w /\ \A d \in Conns \ {c} : conn'[d] = conn[d]
    BY <1>1, <1>2, <1>3, <1>4, Zenon DEF IndInv, TypeOK
  <1>6. ~conn[c].open
    BY <1>2, Zenon DEF IndInv, Placed, Unregistered
  <1>7. Placed'
    BY <1>3, <1>5, Zenon DEF IndInv, Placed, Unregistered
  <1>8. Exact'
    BY <1>1, <1>3, <1>5, <1>6, NotificationsAssumption DEF IndInv, TypeOK, Exact
  <1>9. Alone'
    BY <1>1, <1>2, <1>3, <1>5, NotificationsAssumption, Zenon DEF IndInv, Alone, Serving
  <1>10. Told'
    BY <1>1, <1>3, <1>5 DEF IndInv, Told
  <1> QED
    BY <1>5, <1>7, <1>8, <1>9, <1>10, Zenon DEF IndInv

\* Register takes the place of whatever connection was registered there.
LEMMA RegisterStep ==
    ASSUME IndInv, NEW c \in Conns, Register(c)
    PROVE  IndInv'
  <1> DEFINE s == conn[c].srv
  <1>1. UNCHANGED <<lastTo, recent, store, sentB, ins, to, cache, infos, taken, all, cur, faults>>
    BY Zenon DEF Register, db, admin
  <1>2. conn[c].st = "recorded" /\ s \in Servers /\ ~conn[c].open
    BY Zenon DEF Register, IndInv, Placed, Unregistered
  <1>3. reg' = [reg EXCEPT ![s] = c]
    BY Zenon DEF Register
  <1>4. /\ conn' \in [Conns -> Connection]
        /\ \A d \in Conns :
             /\ conn'[d].srv = conn[d].srv /\ conn'[d].hid = conn[d].hid
             /\ conn'[d].st = IF d = c THEN "first" ELSE conn[d].st
             /\ conn'[d].open <=> d = c \/ (conn[d].open /\ d # reg[s])
             /\ d # c => conn'[d].notice = conn[d].notice
    <2>1. conn \in [Conns -> Connection]
      BY Zenon DEF IndInv, TypeOK
    <2> DEFINE w == [conn[c] EXCEPT !.st = "first", !.open = TRUE, !.notice = FALSE]
               v(d) == [conn[d] EXCEPT !.open = FALSE]
    <2>2. w \in Connection /\ w.srv = s /\ w.hid = conn[c].hid /\ w.st = "first" /\ w.open
      BY <2>1, Zenon DEF Connection, ConnStates
    <2>3. \A d \in Conns : /\ v(d) \in Connection /\ v(d).srv = conn[d].srv /\ ~v(d).open
                           /\ v(d).hid = conn[d].hid /\ v(d).st = conn[d].st
                           /\ v(d).notice = conn[d].notice
      BY <2>1, Zenon DEF Connection
    <2>4. conn' = [d \in Conns |-> IF d = c THEN w ELSE IF d = reg[s] THEN v(d) ELSE conn[d]]
      BY Zenon DEF Register
    <2> HIDE DEF w, v, s
    <2>5. conn' \in [Conns -> Connection]
      BY <2>1, <2>2, <2>3, <2>4, Zenon
    <2>6. \A d \in Conns : conn'[d] = IF d = c THEN w ELSE IF d = reg[s] THEN v(d) ELSE conn[d]
      BY <2>4, Zenon
    <2> QED
      BY <2>2, <2>3, <2>5, <2>6 DEF s
  <1> HIDE DEF s
  <1>5. TypeOK'
    BY <1>1, <1>2, <1>3, <1>4, Zenon DEF IndInv, TypeOK
  <1>6. Placed'
    BY <1>2, <1>4, Zenon DEF IndInv, Placed, Unregistered, s
  <1>7. Exact'
    BY <1>2, <1>3, <1>4, NotificationsAssumption DEF IndInv, TypeOK, Placed, Exact, Unregistered, s
  <1>8. Alone'
    BY <1>1, <1>2, <1>4, <1>7 DEF IndInv, Alone, Serving
  <1>9. Told'
    BY <1>1, <1>2, <1>4 DEF IndInv, Told
  <1> QED
    BY <1>5, <1>6, <1>7, <1>8, <1>9, Zenon DEF IndInv

\* A notice is taken and the loop goes on to search.
LEMMA NoticedStep ==
    ASSUME IndInv, NEW c \in Conns, conn[c].st \in {"wait", "settle"},
           conn' = [conn EXCEPT ![c].st = "settle", ![c].notice = FALSE],
           UNCHANGED <<db, admin, server, cur, faults>>
    PROVE  IndInv'
  <1>1. UNCHANGED <<lastTo, recent, store, sentB, ins, to, cache, infos, reg, taken, all>>
    BY Zenon DEF db, admin, server
  <1>2. /\ conn' \in [Conns -> Connection]
        /\ \A d \in Conns :
             /\ conn'[d].srv = conn[d].srv /\ conn'[d].open = conn[d].open
             /\ conn'[d].hid = conn[d].hid
             /\ conn'[d].st = IF d = c THEN "settle" ELSE conn[d].st
             /\ d # c => conn'[d].notice = conn[d].notice
    <2>1. conn \in [Conns -> Connection]
      BY Zenon DEF IndInv, TypeOK
    <2> DEFINE w == [conn[c] EXCEPT !.st = "settle", !.notice = FALSE]
    <2>2. /\ w \in Connection /\ w.srv = conn[c].srv /\ w.open = conn[c].open
          /\ w.hid = conn[c].hid /\ w.st = "settle"
      BY <2>1, Zenon DEF Connection, ConnStates
    <2>3. conn' = [conn EXCEPT ![c] = w]
      BY <2>1, Zenon
    <2> HIDE DEF w
    <2> QED
      BY <2>1, <2>2, <2>3, Zenon
  <1>3. TypeOK'
    BY <1>1, <1>2, Zenon DEF IndInv, TypeOK
  <1>4. Placed'
    BY <1>2 DEF IndInv, Placed, Unregistered
  <1>5. Exact'
    BY <1>1, <1>2, NotificationsAssumption DEF IndInv, TypeOK, Exact
  <1>6. Alone'
    BY <1>2 DEF IndInv, Alone, Serving
  <1>7. Told'
    BY <1>1, <1>2 DEF IndInv, Told
  <1> QED
    BY <1>3, <1>4, <1>5, <1>6, <1>7, Zenon DEF IndInv

\* A connection that has ended is off, and its own registration, if it still has
\* one, is gone.
LEMMA GoneStep ==
    ASSUME IndInv, NEW c \in Conns,
           conn' = [conn EXCEPT ![c] = NoConn],
           UNCHANGED <<lastTo, recent, store, sentB, ins, to, cache, infos, taken, all>>,
           reg' = IF reg[conn[c].srv] = c THEN [reg EXCEPT ![conn[c].srv] = None] ELSE reg,
           faults' \in 0..MaxFaults, cur' \in Conns \cup {None},
           conn[c].st # "off",
           faults' = 0 => UNCHANGED <<faults, cur>>
    PROVE  IndInv'
  <1> DEFINE s == conn[c].srv
  <1>1. s \in Servers
    BY Zenon DEF IndInv, Placed
  <1>2. NoConn \in Connection /\ NoConn.st = "off" /\ ~NoConn.open
    BY Zenon DEF NoConn, Connection, ConnStates
  <1>3. conn'[c] = NoConn /\ conn' \in [Conns -> Connection] /\ \A d \in Conns \ {c} : conn'[d] = conn[d]
    BY <1>2, Zenon DEF IndInv, TypeOK
  <1>4. /\ reg' \in [Servers -> Conns \cup {None}]
        /\ \A t \in Servers : reg'[t] = IF t = s /\ reg[s] = c THEN None ELSE reg[t]
    BY <1>1, Zenon DEF IndInv, TypeOK
  <1>5. TypeOK'
    BY <1>3, <1>4, Zenon DEF IndInv, TypeOK
  <1>6. Placed'
    BY <1>2, <1>3, Zenon DEF IndInv, Placed
  <1> HIDE DEF s
  <1>7. \A d \in Conns : conn'[d].open => reg'[conn'[d].srv] = d
    BY <1>2, <1>3, <1>4, NotificationsAssumption DEF IndInv, TypeOK, Placed, Exact, Unregistered
  <1>8. \A t \in Servers : reg'[t] # None => conn'[reg'[t]].open /\ conn'[reg'[t]].srv = t
    BY <1>1, <1>3, <1>4, NotificationsAssumption DEF IndInv, TypeOK, Exact, s
  <1>9. Alone'
    BY <1>2, <1>3, Zenon DEF IndInv, Alone, Serving
  <1>10. Told'
    BY <1>2, <1>3, Zenon DEF IndInv, Told
  <1> QED
    BY <1>5, <1>6, <1>7, <1>8, <1>9, <1>10, Zenon DEF IndInv, Exact

\* A search hands out everything, or a full batch. It ends in the waiting state only
\* if nothing is left, or if broadcasts joined a full batch.
LEMMA FindStep ==
    ASSUME IndInv, NEW c \in Conns, findMessagesForClient(c)
    PROVE  IndInv'
  <1>1. PICK F \in SUBSET AdminMsgs : Found(c, F)
    BY Zenon DEF findMessagesForClient
  <1>2. UNCHANGED <<lastTo, recent, ins, to, cache, infos, reg, taken, all, cur, faults>>
    BY Zenon DEF findMessagesForClient, admin, server
  <1>3. conn[c].st \in {"first", "find"}
    BY Zenon DEF findMessagesForClient
  <1> DEFINE n == Cardinality(F) + Cardinality(NewBroadcasts(c))
             full == Cardinality(F) = maxMessagesPerContact /\ NewBroadcasts(c) # {}
             st == AfterFind(n)
  <1>4. st \in {"find", "wait"} /\ (st = "wait" => n # maxMessagesPerContact)
    BY Zenon DEF AfterFind
  <1>5. conn' = [conn EXCEPT ![c].st = st, ![c].hid = full] /\ full \in BOOLEAN
    BY <1>1, Zenon DEF Found
  <1>6. /\ store' = [m \in AdminMsgs |-> IF m \notin F THEN store[m]
                                    ELSE IF cur = c THEN "sent" ELSE "reserved"]
        /\ sentB' = sentB \cup NewBroadcasts(c) /\ F \subseteq Pending
        /\ F = Pending \/ Cardinality(F) = maxMessagesPerContact
    BY <1>1, Zenon DEF Found
  <1>7. st = "wait" => F = Pending \/ full
    <2> SUFFICES ASSUME Cardinality(F) = maxMessagesPerContact, NewBroadcasts(c) = {}
                 PROVE  n = maxMessagesPerContact
      BY <1>4, <1>6, Zenon
    <2>1. Cardinality(NewBroadcasts(c)) = 0
      BY FS_EmptySet, Zenon
    <2> QED
      BY <2>1, NotificationsAssumption
  <1> HIDE DEF n, full, st
  <1>8. /\ conn' \in [Conns -> Connection]
        /\ \A d \in Conns :
             /\ conn'[d].srv = conn[d].srv /\ conn'[d].open = conn[d].open
             /\ conn'[d].notice = conn[d].notice
             /\ conn'[d].st = IF d = c THEN st ELSE conn[d].st
             /\ conn'[d].hid = IF d = c THEN full ELSE conn[d].hid
    <2>1. conn \in [Conns -> Connection]
      BY Zenon DEF IndInv, TypeOK
    <2> DEFINE w == [conn[c] EXCEPT !.st = st, !.hid = full]
    <2>2. /\ w \in Connection /\ w.srv = conn[c].srv /\ w.open = conn[c].open
          /\ w.notice = conn[c].notice /\ w.st = st /\ w.hid = full
      BY <1>4, <1>5, <2>1, ZenonT(30) DEF Connection, ConnStates
    <2>3. conn' = [conn EXCEPT ![c] = w]
      BY <1>5, <2>1, Zenon
    <2> HIDE DEF w
    <2> QED
      BY <2>1, <2>2, <2>3, Zenon
  <1>9. \A m \in AdminMsgs : store'[m] = "new" => store[m] = "new" /\ m \notin F
    BY <1>6, Zenon
  <1>10. st = "wait" /\ ~full => \A m \in AdminMsgs : store'[m] # "new"
    BY <1>7, <1>9, Zenon DEF Pending
  <1>11. store' \in [AdminMsgs -> {"none", "new", "reserved", "due", "sent"}]
    BY <1>6, Zenon DEF IndInv, TypeOK
  <1>12. sentB' \subseteq Bcasts
    BY <1>3, <1>6, Zenon DEF IndInv, TypeOK, Placed, NewBroadcasts
  <1>13. TypeOK'
    BY <1>2, <1>8, <1>11, <1>12, Zenon DEF IndInv, TypeOK
  <1>14. Placed'
    BY <1>3, <1>4, <1>8, Zenon DEF IndInv, Placed, Unregistered
  <1>15. Exact'
    BY <1>2, <1>8, NotificationsAssumption DEF IndInv, TypeOK, Exact
  <1>16. Alone'
    BY <1>2, <1>3, <1>8, Zenon DEF IndInv, Alone, Serving
  <1>17. Told'
    BY <1>2, <1>8, <1>9, <1>10 DEF IndInv, Told
  <1> QED
    BY <1>13, <1>14, <1>15, <1>16, <1>17, Zenon DEF IndInv

\* One step of any kind.
LEMMA NextInd == IndInv /\ [Next]_vars => IndInv'
  <1> SUFFICES ASSUME IndInv, [Next]_vars PROVE IndInv'
    BY Zenon
  <1>1. ASSUME NEW m \in AdminMsgs, Insert(m) \/ Due(m) PROVE IndInv'
    BY <1>1, InsertStep, AnnounceStep, ServerStep, Zenon DEF Insert
  <1>2. ASSUME NEW s \in Servers,
               Dispatch(s) \/ NotifyAll(s) \/ Expire(s) \/ \E b \in Bcasts : refreshInfo(s, b)
        PROVE IndInv'
    BY <1>2, DispatchStep, ServerStep, Zenon
  <1>3. ASSUME NEW c \in Conns, Initialize(c) PROVE IndInv'
    BY <1>3, DialStep, SetUpStep, RegisterStep, Zenon DEF Initialize
  <1>4. ASSUME NEW c \in Conns, notifyLoop(c) PROVE IndInv'
    <2>1. CASE findMessagesForClient(c)
      BY <2>1, FindStep, Zenon
    <2>2. CASE Backoff(c)
      BY <2>2, MovedStep, Zenon DEF Backoff, ConnStates, Unregistered, Serving
    <2>3. CASE Noticed(c)
      <3>1. CASE conn' = [conn EXCEPT ![c].st = "settle", ![c].notice = FALSE]
        BY <2>3, <3>1, NoticedStep, Zenon DEF Noticed
      <3>2. CASE Goto(c, "ended")
        BY <2>3, <3>2, MovedStep, Zenon DEF Noticed, ConnStates, Unregistered, Serving
      <3> QED
        BY <2>3, <3>1, <3>2, Zenon DEF Noticed
    <2>4. CASE Settle(c)
      <3>1. CASE conn' = [conn EXCEPT ![c].notice = FALSE]
        <4>1. conn' = [conn EXCEPT ![c].st = "settle", ![c].notice = FALSE]
          BY <2>4, <3>1, Zenon DEF Settle, IndInv, TypeOK, Connection
        <4> QED
          BY <2>4, <4>1, NoticedStep, Zenon DEF Settle
      <3>2. CASE Goto(c, "find")
        BY <2>4, <3>2, MovedStep, Zenon DEF Settle, ConnStates, Unregistered, Serving
      <3> QED
        BY <2>4, <3>1, <3>2, Zenon DEF Settle
    <2> QED
      BY <1>4, <2>1, <2>2, <2>3, <2>4, Zenon DEF notifyLoop
  <1>5. ASSUME NEW c \in Conns, LifespanEnds(c) PROVE IndInv'
    BY <1>5, MovedStep, Zenon DEF LifespanEnds, ConnStates, Unregistered, Serving
  <1>6. ASSUME NEW c \in Conns, FindFails(c) PROVE IndInv'
    BY <1>6, MovedStep, Zenon DEF FindFails, ConnStates, Unregistered, Serving
  <1>7. ASSUME NEW c \in Conns, Fin(c) PROVE IndInv'
    BY <1>7, GoneStep, Zenon DEF Fin, IndInv, TypeOK, db, admin
  <1>8. ASSUME NEW c \in Conns, InitializeFails(c) PROVE IndInv'
    <2>1. reg[conn[c].srv] # c /\ conn[c].st # "off"
      BY <1>8, NotificationsAssumption DEF InitializeFails, IndInv, Placed, Exact, Unregistered
    <2>2. faults' \in 0..MaxFaults /\ cur' \in Conns \cup {None} /\ faults' # 0
      BY <1>8, NotificationsAssumption DEF InitializeFails, Fault, IndInv, TypeOK
    <2> QED
      BY <1>8, <2>1, <2>2, GoneStep, Zenon DEF InitializeFails, db, admin, server
  <1>9. CASE UNCHANGED vars
    BY <1>9 DEF vars, db, admin, server, IndInv, TypeOK, Placed, Exact, Alone, Told
  <1> QED
    BY <1>1, <1>2, <1>3, <1>4, <1>5, <1>6, <1>7, <1>8, <1>9, ServerStep, Zenon DEF Next

\* The invariant holds in every state, under the fair specification as well.
THEOREM Inductive == Spec => []IndInv
  BY InitInd, NextInd, PTL DEF Spec

\* The model is well typed.
THEOREM TypeCorrect == Spec => []TypeOK
  <1>1. IndInv => TypeOK
    BY Zenon DEF IndInv
  <1> QED
    BY <1>1, Inductive, PTL

\* InsertMessage stores and then announces, InitializeConnection registers and then
\* searches: no message that was announced to the server of a connection is left
\* behind by a notifyLoop that sleeps, but for the batch that broadcasts hide.
THEOREM WakeupsKept == Spec => []NoLostWakeup
  <1>1. ASSUME IndInv, NEW c \in Conns, NEW m \in AdminMsgs, Asleep(c),
               ins[m] = "done", to[m] = conn[c].srv
        PROVE  store[m] # "new" \/ conn[c].hid
    <2>1. conn[c].st = "wait" /\ ~conn[c].notice /\ reg[conn[c].srv] = c /\ ~taken[conn[c].srv]
      BY <1>1, Zenon DEF Asleep
    <2>2. conn[c].srv \in Servers /\ conn[c].open
      BY <1>1, <2>1, NotificationsAssumption DEF IndInv, Placed, Exact
    <2> QED
      BY <1>1, <2>1, <2>2, Zenon DEF IndInv, Told
  <1>2. IndInv => NoLostWakeup
    BY <1>1, Zenon DEF NoLostWakeup
  <1> QED
    BY <1>2, Inductive, PTL

\* The Dispatcher has the open connections registered and no other; without a fault
\* the connection the client holds is one of them.
THEOREM RegistrationsExact == Spec => []CurrentIsRegistered
  <1>1. IndInv => CurrentIsRegistered
    BY Zenon DEF IndInv, Exact, Alone, CurrentIsRegistered, Serving
  <1> QED
    BY <1>1, Inductive, PTL

=============================================================================
