------------------------ MODULE ClientMessagesProofs ------------------------
(***************************************************************************)
(* Proofs, for any messages, priorities, sizes and limits, that the        *)
(* callbacks of a client's messages never block, that nothing is sent on a *)
(* channel that Client.Stop has closed, and that a filter lags by at most  *)
(* one message.                                                            *)
(***************************************************************************)
EXTENDS ClientMessages, Integers, FiniteSetTheorems, TLAPS

Loop == [pc : {"select", "out", "done"}, size : Int, count : Nat]

Typed ==
    /\ at \in [Msgs -> Places] /\ loop \in [Priorities -> Loop]
    /\ queue \in [Priorities -> Seq(Msgs)]
    /\ filter \subseteq Priorities /\ seen \subseteq Priorities
    /\ late \in [Priorities -> Nat] /\ stop \in Stages

\* A queue holds messages of its priority that are queued, each of them once.
Queued ==
    \A p \in Priorities :
        /\ \A i \in 1..Len(queue[p]) : PriorityOf[queue[p][i]] = p /\ at[queue[p][i]] = "queue"
        /\ \A i, j \in 1..Len(queue[p]) : queue[p][i] = queue[p][j] => i = j

\* A RetryLoop counts its pending messages, and accepts no more than maxCount.
Counted ==
    \A p \in Priorities : loop[p].count = Cardinality(Pending(p)) /\ loop[p].count <= maxCount

\* A RetryLoop offers one message at a time, and while it does it does nothing else.
InHand ==
    \A m \in Msgs : at[m] = "hand" =>
        /\ loop[PriorityOf[m]].pc = "out"
        /\ \A n \in Msgs : at[n] = "hand" /\ PriorityOf[n] = PriorityOf[m] => n = m

\* Stop closes the inputs when no service sends, and outUnsorted when the loops ended.
Closing ==
    /\ stop \in {"retry", "sort", "done"} => \A m \in Msgs : at[m] # "sending"
    /\ stop \in {"sort", "done"} => \A p \in Priorities : loop[p].pc = "done"

\* A message of a filtered priority goes out only if SortLoop has not read the filter.
Lag == \A p \in filter : late[p] <= 1 /\ (p \notin seen => late[p] = 0)

IndInv == Typed /\ Queued /\ Counted /\ InHand /\ Closing /\ Lag

-----------------------------------------------------------------------------

InLoop == {"hand", "queue", "taken", "acks", "nacks"}

\* The pending messages are finitely many.
LEMMA PendingFinite ==
    ASSUME MessagesAssumption, NEW p
    PROVE  IsFiniteSet(Pending(p)) /\ Cardinality(Pending(p)) \in Nat
<1>1. IsFiniteSet(Pending(p))
  BY FS_Subset, Zenon DEF MessagesAssumption, Pending, Of
<1> QED
  BY <1>1, FS_CardinalityType, Zenon

\* The place of one message changes.
LEMMA Moves ==
    ASSUME Typed, NEW m \in Msgs, NEW pl \in Places, at' = [at EXCEPT ![m] = pl]
    PROVE  /\ at' \in [Msgs -> Places] /\ at'[m] = pl
           /\ \A n \in Msgs : n # m => at'[n] = at[n]
  BY Zenon DEF Typed

\* A message that stays with its RetryLoop, or was and is not there, leaves the count alone.
LEMMA PendingStays ==
    ASSUME Typed, NEW m \in Msgs, NEW pl \in Places, at' = [at EXCEPT ![m] = pl],
           at[m] \in InLoop <=> pl \in InLoop
    PROVE  \A p \in Priorities : Pending(p)' = Pending(p)
<1>1. at'[m] = pl /\ \A n \in Msgs : n # m => at'[n] = at[n]
  BY Moves, Zenon
<1> QED
  BY <1>1, Zenon DEF Pending, Of, InLoop

\* A step of a message that its RetryLoop does not count, does not offer and has not
\* queued, neither before nor after.
LEMMA OutsideStep ==
    ASSUME IndInv, NEW m \in Msgs, NEW pl \in Places, at' = [at EXCEPT ![m] = pl],
           at[m] \in InLoop <=> pl \in InLoop, at[m] \notin {"queue", "hand"}, pl # "hand",
           pl = "sending" => stop \notin {"retry", "sort", "done"},
           UNCHANGED <<loop, queue, filter, seen, late, stop>>
    PROVE  IndInv'
<1>1. /\ at' \in [Msgs -> Places] /\ at'[m] = pl
      /\ \A n \in Msgs : n # m => at'[n] = at[n]
  BY Moves, Zenon DEF IndInv
<1>2. \A p \in Priorities : Pending(p)' = Pending(p)
  BY PendingStays, Zenon DEF IndInv
<1>3. Typed' /\ Lag'
  BY <1>1, Zenon DEF IndInv, Typed, Lag
<1>4. Queued'
  <2>1. \A p \in Priorities : \A i \in 1..Len(queue[p]) : queue[p][i] \in Msgs /\ queue[p][i] # m
    BY DEF IndInv, Typed, Queued
  <2> QED
    BY <1>1, <2>1, Zenon DEF IndInv, Queued
<1>5. Counted'
  BY <1>2, Zenon DEF IndInv, Counted
<1>6. InHand'
  BY <1>1, Zenon DEF IndInv, InHand
<1>7. Closing'
  BY <1>1, Zenon DEF IndInv, Closing
<1> QED
  BY <1>3, <1>4, <1>5, <1>6, <1>7, Zenon DEF IndInv

\* A RetryLoop goes on to w: its own messages are in no queue.
LEMMA LoopStep ==
    ASSUME IndInv, MessagesAssumption, NEW m \in Msgs, NEW pl \in Places, NEW w \in Loop,
           at' = [at EXCEPT ![m] = pl], loop' = [loop EXCEPT ![PriorityOf[m]] = w],
           at[m] \notin {"queue", "hand"}, pl # "queue", pl # "sending",
           loop[PriorityOf[m]].pc = "select",
           pl = "hand" => w.pc = "out",
           w.count = Cardinality(Pending(PriorityOf[m])') /\ w.count <= maxCount,
           UNCHANGED <<queue, filter, seen, late, stop>>
    PROVE  IndInv'
<1>1. /\ at' \in [Msgs -> Places] /\ at'[m] = pl
      /\ \A n \in Msgs : n # m => at'[n] = at[n]
  BY Moves, Zenon DEF IndInv
<1>2. /\ PriorityOf[m] \in Priorities /\ loop' \in [Priorities -> Loop] /\ loop'[PriorityOf[m]] = w
      /\ \A p \in Priorities : p # PriorityOf[m] => loop'[p] = loop[p]
  BY Zenon DEF IndInv, Typed, MessagesAssumption
<1>3. Typed' /\ Lag'
  BY <1>1, <1>2, Zenon DEF IndInv, Typed, Lag
<1>4. Queued'
  <2>1. \A p \in Priorities : \A i \in 1..Len(queue[p]) : queue[p][i] \in Msgs /\ queue[p][i] # m
    BY DEF IndInv, Typed, Queued
  <2> QED
    BY <1>1, <2>1 DEF IndInv, Queued
<1>5. Counted'
  <2>1. \A p \in Priorities : p # PriorityOf[m] => Pending(p)' = Pending(p)
    BY <1>1, Zenon DEF Pending, Of
  <2> QED
    BY <1>2, <2>1, Zenon DEF IndInv, Counted
<1>6. InHand'
  <2>1. \A n \in Msgs : at[n] = "hand" => PriorityOf[n] # PriorityOf[m] /\ PriorityOf[n] \in Priorities
    <3>1. "select" # "out"
      OBVIOUS
    <3> QED
      BY <3>1, Zenon DEF IndInv, InHand, MessagesAssumption
  <2> QED
    BY <1>1, <1>2, <2>1 DEF IndInv, InHand
<1>7. Closing'
  <2>1. "select" # "done"
    OBVIOUS
  <2>2. stop \notin {"sort", "done"}
    BY <1>2, <2>1, Zenon DEF IndInv, Closing
  <2> QED
    BY <1>1, <2>2, Zenon DEF IndInv, Closing
<1> QED
  BY <1>3, <1>4, <1>5, <1>6, <1>7, Zenon DEF IndInv

-----------------------------------------------------------------------------
(* Services, RetryLoops and callbacks. *)

\* Messages are sent, refused, acknowledged by the communicator or given back.
LEMMA ServiceStep ==
    ASSUME IndInv, NEW m \in Msgs, ProcessMessage(m) \/ ContextDone(m) \/ Ack(m) \/ Nack(m)
    PROVE  IndInv'
<1>0. UNCHANGED <<loop, queue, filter, seen, late, stop>>
  BY Zenon DEF ProcessMessage, ContextDone, Ack, Nack
<1>1. CASE ProcessMessage(m)
  <2>1. /\ at' = [at EXCEPT ![m] = "sending"] /\ at[m] = "new"
        /\ stop \notin {"retry", "sort", "done"}
    BY <1>1 DEF ProcessMessage
  <2>2. /\ at[m] \notin InLoop /\ "sending" \notin InLoop /\ "sending" \in Places
        /\ at[m] \notin {"queue", "hand"} /\ "sending" # "hand"
    BY <2>1 DEF InLoop, Places
  <2> QED
    BY <1>0, <2>1, <2>2, OutsideStep, Zenon
<1>2. CASE ContextDone(m)
  <2>1. at' = [at EXCEPT ![m] = "refused"] /\ at[m] = "sending"
    BY <1>2 DEF ContextDone
  <2>2. /\ at[m] \notin InLoop /\ "refused" \notin InLoop /\ "refused" \in Places
        /\ at[m] \notin {"queue", "hand"} /\ "refused" # "hand" /\ "refused" # "sending"
    BY <2>1 DEF InLoop, Places
  <2> QED
    BY <1>0, <2>1, <2>2, OutsideStep, Zenon
<1>3. ASSUME NEW pl \in {"acks", "nacks"}, at' = [at EXCEPT ![m] = pl], at[m] = "taken"
      PROVE  IndInv'
  <2>2. /\ at[m] \in InLoop /\ pl \in InLoop /\ pl \in Places
        /\ at[m] \notin {"queue", "hand"} /\ pl # "hand" /\ pl # "sending"
    BY <1>3 DEF InLoop, Places
  <2> QED
    BY <1>0, <1>3, <2>2, OutsideStep, Zenon
<1>4. Ack(m) \/ Nack(m) => \E pl \in {"acks", "nacks"} : at' = [at EXCEPT ![m] = pl] /\ at[m] = "taken"
  BY Zenon DEF Ack, Nack
<1> QED
  BY <1>1, <1>2, <1>3, <1>4, Zenon

\* A RetryLoop with room takes a message: one more is pending, within the limit.
LEMMA AcceptInd ==
    ASSUME IndInv, MessagesAssumption, NEW m \in Msgs, Accept(m)
    PROVE  IndInv'
<1> DEFINE p == PriorityOf[m]
           w == [pc |-> "out", size |-> loop[p].size + SizeOf[m], count |-> loop[p].count + 1]
<1>1. /\ at[m] = "sending" /\ loop[p].pc = "select" /\ loop[p].count < maxCount
      /\ at' = [at EXCEPT ![m] = "hand"] /\ loop' = [loop EXCEPT ![p] = w]
      /\ UNCHANGED <<queue, filter, seen, late, stop>>
  BY DEF Accept, HasRoom
<1>2. /\ p \in Priorities /\ loop[p].size \in Int /\ loop[p].count \in Nat /\ SizeOf[m] \in Nat
      /\ maxCount \in Nat /\ loop[p].count = Cardinality(Pending(p))
  BY DEF IndInv, Typed, Loop, Counted, MessagesAssumption
<1>3. /\ w \in Loop /\ w.pc = "out" /\ w.count = loop[p].count + 1 /\ w.count <= maxCount
  BY <1>1, <1>2 DEF Loop
<1>4. "hand" \in Places /\ at[m] \notin InLoop /\ "hand" \in InLoop
  BY <1>1 DEF Places, InLoop
<1>5. at'[m] = "hand" /\ \A n \in Msgs : n # m => at'[n] = at[n]
  BY <1>1, <1>4, Moves, Zenon DEF IndInv
<1>6. Pending(p)' = Pending(p) \cup {m} /\ m \notin Pending(p)
  BY <1>4, <1>5, Zenon DEF Pending, Of, InLoop
<1>7. Cardinality(Pending(p)') = Cardinality(Pending(p)) + 1
  BY <1>6, PendingFinite, FS_AddElement, Zenon
<1> HIDE DEF w
<1>8. /\ w.count = Cardinality(Pending(p)')
      /\ at[m] \notin {"queue", "hand"} /\ "hand" # "queue" /\ "hand" # "sending"
  BY <1>1, <1>2, <1>3, <1>7
<1> QED
  BY <1>1, <1>3, <1>4, <1>8, LoopStep, Zenon

\* A RetryLoop offers again what was given back: as many are pending as before.
LEMMA RetryInd ==
    ASSUME IndInv, MessagesAssumption, NEW m \in Msgs, Retry(m)
    PROVE  IndInv'
<1> DEFINE p == PriorityOf[m]
           w == [loop[p] EXCEPT !.pc = "out"]
<1>1. p \in Priorities /\ loop[p] \in Loop /\ loop[p].count <= maxCount
      /\ loop[p].count = Cardinality(Pending(p))
  BY Zenon DEF IndInv, Typed, Counted, MessagesAssumption
<1>2. /\ at[m] = "nacks" /\ loop[p].pc = "select"
      /\ at' = [at EXCEPT ![m] = "hand"] /\ loop' = [loop EXCEPT ![p] = w]
      /\ UNCHANGED <<queue, filter, seen, late, stop>>
  BY <1>1 DEF Retry, IndInv, Typed
<1>3. w \in Loop /\ w.pc = "out" /\ w.count = loop[p].count
  BY <1>1 DEF Loop
<1>4. /\ "hand" \in Places /\ at[m] \in InLoop /\ "hand" \in InLoop
      /\ at[m] \notin {"queue", "hand"} /\ "hand" # "queue" /\ "hand" # "sending"
  BY <1>2 DEF Places, InLoop
<1>5. Pending(p)' = Pending(p)
  BY <1>1, <1>2, <1>4, PendingStays, Zenon DEF IndInv
<1> HIDE DEF w
<1>6. w.count = Cardinality(Pending(p)') /\ w.count <= maxCount
  BY <1>1, <1>3, <1>5, Zenon
<1> QED
  BY <1>2, <1>3, <1>4, <1>6, LoopStep, Zenon

\* A RetryLoop learns of an acknowledgement: one less is pending.
LEMMA AcknowledgedInd ==
    ASSUME IndInv, MessagesAssumption, NEW m \in Msgs, Acknowledged(m)
    PROVE  IndInv'
<1> DEFINE p == PriorityOf[m]
           w == [loop[p] EXCEPT !.size = loop[p].size - SizeOf[m], !.count = loop[p].count - 1]
<1>1. /\ p \in Priorities /\ loop[p] \in Loop /\ loop[p].count <= maxCount
      /\ loop[p].count = Cardinality(Pending(p))
  BY Zenon DEF IndInv, Typed, Counted, MessagesAssumption
<1>2. /\ at[m] = "acks" /\ loop[p].pc = "select"
      /\ at' = [at EXCEPT ![m] = "acked"] /\ loop' = [loop EXCEPT ![p] = w]
      /\ UNCHANGED <<queue, filter, seen, late, stop>>
  BY <1>1, Zenon DEF Acknowledged, IndInv, Typed
<1>3. /\ "acked" \in Places /\ at[m] \in InLoop /\ "acked" \notin InLoop
      /\ at[m] \notin {"queue", "hand"} /\ "acked" # "queue" /\ "acked" # "sending" /\ "acked" # "hand"
  BY <1>2 DEF Places, InLoop
<1>4. at'[m] = "acked" /\ \A n \in Msgs : n # m => at'[n] = at[n]
  BY <1>2, <1>3, Moves, Zenon DEF IndInv
<1>5. Pending(p)' = Pending(p) \ {m} /\ m \in Pending(p)
  BY <1>3, <1>4, Zenon DEF Pending, Of, InLoop
<1>6. Cardinality(Pending(p)') = Cardinality(Pending(p)) - 1 /\ Cardinality(Pending(p)') \in Nat
  <2>1. IsFiniteSet(Pending(p)) /\ IsFiniteSet(Pending(p) \ {m})
    BY PendingFinite, FS_RemoveElement, Zenon
  <2> QED
    BY <1>5, <2>1, FS_RemoveElement, FS_CardinalityType, Zenon
<1>7. SizeOf[m] \in Nat /\ maxCount \in Nat
  BY Zenon DEF MessagesAssumption
<1>8. /\ w \in Loop /\ w.count = Cardinality(Pending(p)') /\ w.count <= maxCount
  <2>1. /\ loop[p].size - SizeOf[m] \in Int /\ loop[p].count - 1 \in Nat
        /\ loop[p].count - 1 = Cardinality(Pending(p)') /\ loop[p].count - 1 <= maxCount
    BY <1>1, <1>6, <1>7 DEF Loop
  <2>2. w \in Loop /\ w.count = loop[p].count - 1
    BY <1>1, <2>1, Zenon DEF Loop
  <2> HIDE DEF w
  <2> QED
    BY <2>1, <2>2, Zenon
<1> HIDE DEF w
<1> QED
  BY <1>2, <1>3, <1>8, LoopStep, Zenon

\* A RetryLoop whose input was closed ends.
LEMMA LoopEndsInd ==
    ASSUME IndInv, MessagesAssumption, NEW p \in Priorities, LoopEnds(p)
    PROVE  IndInv'
<1> DEFINE w == [loop[p] EXCEPT !.pc = "done"]
<1>1. /\ loop[p].pc = "select" /\ loop[p] \in Loop /\ loop' = [loop EXCEPT ![p] = w]
      /\ UNCHANGED <<at, queue, filter, seen, late, stop>> /\ stop = "retry"
  BY DEF LoopEnds, IndInv, Typed
<1>2. w \in Loop /\ w.pc = "done" /\ w.count = loop[p].count
  BY <1>1 DEF Loop
<1> HIDE DEF w
<1>3. /\ loop' \in [Priorities -> Loop] /\ loop'[p] = w
      /\ \A q \in Priorities : q # p => loop'[q] = loop[q]
  BY <1>1, <1>2, Zenon DEF IndInv, Typed
<1>4. Typed' /\ Lag' /\ Queued'
  BY <1>1, <1>3, Zenon DEF IndInv, Typed, Lag, Queued
<1>5. Counted'
  <2>1. \A q \in Priorities : Pending(q)' = Pending(q)
    BY <1>1, Zenon DEF Pending, Of
  <2> QED
    BY <1>2, <1>3, <2>1, Zenon DEF IndInv, Counted
<1>6. InHand'
  <2>1. \A m \in Msgs : at[m] = "hand" => PriorityOf[m] # p /\ PriorityOf[m] \in Priorities
    BY <1>1 DEF IndInv, InHand, MessagesAssumption
  <2> QED
    BY <1>1, <1>3, <2>1, Zenon DEF IndInv, InHand
<1>7. Closing'
  <2>1. stop \notin {"sort", "done"}
    BY <1>1
  <2> QED
    BY <1>1, <2>1, Zenon DEF IndInv, Closing
<1> QED
  BY <1>4, <1>5, <1>6, <1>7, Zenon DEF IndInv

-----------------------------------------------------------------------------
(* SortLoop and the filter. *)

\* SortLoop takes the message a RetryLoop offers and reads the filter again.
LEMMA ReceiveInd ==
    ASSUME IndInv, MessagesAssumption, NEW m \in Msgs, Receive(m)
    PROVE  IndInv'
<1> DEFINE p == PriorityOf[m]
           w == [loop[p] EXCEPT !.pc = "select"]
<1>1. p \in Priorities /\ loop[p] \in Loop /\ queue[p] \in Seq(Msgs)
  BY Zenon DEF IndInv, Typed, MessagesAssumption
<1>2. /\ at[m] = "hand" /\ at' = [at EXCEPT ![m] = "queue"]
      /\ loop' = [loop EXCEPT ![p] = w] /\ queue' = [queue EXCEPT ![p] = Append(queue[p], m)]
      /\ seen' = filter /\ filter' = filter /\ late' = late /\ stop' = stop
  BY <1>1 DEF Receive, IndInv, Typed
<1>3. w \in Loop /\ w.pc = "select" /\ w.count = loop[p].count
  BY <1>1 DEF Loop
<1> HIDE DEF w
<1>4. /\ "queue" \in Places /\ "queue" \in InLoop /\ at[m] \in InLoop
      /\ "queue" # "hand" /\ "queue" # "sending"
  BY <1>2 DEF Places, InLoop
<1>5. /\ at' \in [Msgs -> Places] /\ at'[m] = "queue"
      /\ \A n \in Msgs : n # m => at'[n] = at[n]
  BY <1>2, <1>4, Moves, Zenon DEF IndInv
<1>6. /\ loop' \in [Priorities -> Loop] /\ loop'[p] = w
      /\ \A q \in Priorities : q # p => loop'[q] = loop[q]
  BY <1>1, <1>2, <1>3, Zenon DEF IndInv, Typed
<1>7. /\ queue' \in [Priorities -> Seq(Msgs)]
      /\ \A q \in Priorities : q # p => queue'[q] = queue[q]
      /\ Len(queue'[p]) = Len(queue[p]) + 1 /\ queue'[p][Len(queue[p]) + 1] = m
      /\ \A i \in 1..Len(queue[p]) : queue'[p][i] = queue[p][i]
      /\ Len(queue[p]) \in Nat
  BY <1>1, <1>2 DEF IndInv, Typed
<1>8. Typed' /\ Lag'
  <2>1. Typed'
    BY <1>2, <1>5, <1>6, <1>7, Zenon DEF IndInv, Typed
  <2> QED
    BY <1>2, <2>1, Zenon DEF IndInv, Lag
<1>9. Queued'
  <2>1. \A q \in Priorities : \A i \in 1..Len(queue[q]) :
            queue[q][i] \in Msgs /\ queue[q][i] # m /\ at'[queue[q][i]] = "queue"
    BY <1>2, <1>5 DEF IndInv, Typed, Queued
  <2>2. \A i \in 1..Len(queue'[p]) : i \in 1..Len(queue[p]) \/ i = Len(queue[p]) + 1
    BY <1>7
  <2>3. \A i \in 1..Len(queue'[p]) : PriorityOf[queue'[p][i]] = p /\ at'[queue'[p][i]] = "queue"
    <3>1. \A i \in 1..Len(queue[p]) : PriorityOf[queue[p][i]] = p
      BY <1>1 DEF IndInv, Queued
    <3> QED
      BY <1>1, <1>5, <1>7, <2>1, <2>2, <3>1
  <2>4. ASSUME NEW i \in 1..Len(queue'[p]), NEW j \in 1..Len(queue'[p]), queue'[p][i] = queue'[p][j]
        PROVE  i = j
    <3>1. CASE i \in 1..Len(queue[p]) /\ j \in 1..Len(queue[p])
      <4>1. \A k, l \in 1..Len(queue[p]) : queue[p][k] = queue[p][l] => k = l
        BY <1>1 DEF IndInv, Queued
      <4>2. queue'[p][i] = queue[p][i] /\ queue'[p][j] = queue[p][j]
        BY <1>7, <3>1, Zenon
      <4> QED
        BY <2>4, <3>1, <4>1, <4>2, Zenon
    <3>2. CASE i = Len(queue[p]) + 1 /\ j \in 1..Len(queue[p])
      BY <1>1, <1>7, <2>1, <2>4, <3>2, Zenon
    <3>3. CASE j = Len(queue[p]) + 1 /\ i \in 1..Len(queue[p])
      BY <1>1, <1>7, <2>1, <2>4, <3>3, Zenon
    <3> QED
      BY <2>2, <3>1, <3>2, <3>3, Zenon
  <2>5. ASSUME NEW q \in Priorities, q # p
        PROVE  /\ \A i \in 1..Len(queue'[q]) : PriorityOf[queue'[q][i]] = q /\ at'[queue'[q][i]] = "queue"
               /\ \A i, j \in 1..Len(queue'[q]) : queue'[q][i] = queue'[q][j] => i = j
    <3>1. queue'[q] = queue[q]
      BY <1>7, <2>5, Zenon
    <3>2. /\ \A i \in 1..Len(queue[q]) : PriorityOf[queue[q][i]] = q
          /\ \A i, j \in 1..Len(queue[q]) : queue[q][i] = queue[q][j] => i = j
      BY Zenon DEF IndInv, Queued
    <3>3. \A i \in 1..Len(queue[q]) : PriorityOf[queue[q][i]] = q /\ at'[queue[q][i]] = "queue"
      BY <2>1, <3>2, Zenon
    <3>4. \A i \in 1..Len(queue'[q]) : PriorityOf[queue'[q][i]] = q /\ at'[queue'[q][i]] = "queue"
      BY <3>1, <3>3
    <3>5. ASSUME NEW i \in 1..Len(queue'[q]), NEW j \in 1..Len(queue'[q]), queue'[q][i] = queue'[q][j]
          PROVE  i = j
      BY <3>1, <3>2, <3>5
    <3> QED
      BY <3>4, <3>5, Zenon
  <2>6. \A i, j \in 1..Len(queue'[p]) : queue'[p][i] = queue'[p][j] => i = j
    BY <2>4, Zenon
  <2> QED
    BY <2>3, <2>5, <2>6, Zenon DEF Queued
<1>10. Counted'
  <2>1. \A q \in Priorities : Pending(q)' = Pending(q)
    BY <1>2, <1>4, PendingStays, Zenon DEF IndInv
  <2> QED
    BY <1>1, <1>3, <1>6, <2>1, Zenon DEF IndInv, Counted
<1>11. InHand'
  <2>1. \A n \in Msgs : at'[n] = "hand" => n # m /\ at[n] = "hand" /\ PriorityOf[n] # p /\ PriorityOf[n] \in Priorities
    BY <1>2, <1>4, <1>5, Zenon DEF IndInv, InHand, MessagesAssumption
  <2> QED
    BY <1>6, <2>1, Zenon DEF IndInv, InHand
<1>12. Closing'
  <2>1. "out" # "done"
    OBVIOUS
  <2>2. loop[p].pc = "out"
    BY <1>2, Zenon DEF IndInv, InHand
  <2>3. stop \notin {"sort", "done"}
    BY <1>1, <2>1, <2>2, Zenon DEF IndInv, Closing
  <2> QED
    BY <1>2, <1>4, <1>5, <2>3, Zenon DEF IndInv, Closing
<1> QED
  BY <1>8, <1>9, <1>10, <1>11, <1>12, Zenon DEF IndInv

\* The head of a queue goes to the outbox.
LEMMA OutboxStep ==
    ASSUME IndInv, MessagesAssumption, NEW p \in Priorities, queue[p] # <<>>,
           Outbox(Head(queue[p])), queue' = [queue EXCEPT ![p] = Tail(queue[p])],
           UNCHANGED <<loop, stop>>
    PROVE  /\ at' \in [Msgs -> Places] /\ queue' \in [Priorities -> Seq(Msgs)]
           /\ Queued' /\ Counted' /\ InHand' /\ Closing'
<1> DEFINE m == Head(queue[p])
<1>1. /\ queue[p] \in Seq(Msgs) /\ m \in Msgs /\ m = queue[p][1] /\ 1 \in 1..Len(queue[p])
      /\ Len(queue[p]) \in Nat
  BY DEF IndInv, Typed
<1>2. PriorityOf[m] = p /\ at[m] = "queue"
  BY <1>1 DEF IndInv, Queued
<1>3. PICK pl \in {"taken", "acks"} : at' = [at EXCEPT ![m] = pl]
  BY Zenon DEF Outbox
<1> HIDE DEF m
<1>4. /\ pl \in Places /\ pl \in InLoop /\ at[m] \in InLoop /\ "queue" # "hand"
      /\ pl # "hand" /\ pl # "sending" /\ pl # "queue"
  BY <1>2, <1>3 DEF Places, InLoop
<1>5. /\ at' \in [Msgs -> Places] /\ at'[m] = pl
      /\ \A n \in Msgs : n # m => at'[n] = at[n]
  BY <1>1, <1>3, <1>4, Moves, Zenon DEF IndInv
<1>6. /\ queue' \in [Priorities -> Seq(Msgs)]
      /\ \A q \in Priorities : q # p => queue'[q] = queue[q]
      /\ \A i \in 1..Len(queue'[p]) : /\ i + 1 \in 1..Len(queue[p]) /\ i + 1 # 1 /\ i \in Nat
                                      /\ queue'[p][i] = queue[p][i + 1]
  BY <1>1 DEF IndInv, Typed
<1>7. Queued'
  <2>1. \A q \in Priorities : q # p => \A i \in 1..Len(queue[q]) : queue[q][i] # m
    BY <1>2 DEF IndInv, Queued
  <2>2. \A i \in 1..Len(queue'[p]) : queue'[p][i] # m
    BY <1>1, <1>6 DEF IndInv, Queued
  <2>3. \A q \in Priorities : \A i \in 1..Len(queue[q]) : queue[q][i] \in Msgs
    BY DEF IndInv, Typed
  <2>4. ASSUME NEW q \in Priorities, q # p
        PROVE  /\ \A i \in 1..Len(queue'[q]) : PriorityOf[queue'[q][i]] = q /\ at'[queue'[q][i]] = "queue"
               /\ \A i, j \in 1..Len(queue'[q]) : queue'[q][i] = queue'[q][j] => i = j
    <3>1. queue'[q] = queue[q]
      BY <1>6, <2>4, Zenon
    <3>2. /\ \A i \in 1..Len(queue[q]) : PriorityOf[queue[q][i]] = q /\ at[queue[q][i]] = "queue"
          /\ \A i, j \in 1..Len(queue[q]) : queue[q][i] = queue[q][j] => i = j
      BY Zenon DEF IndInv, Queued
    <3>3. \A i \in 1..Len(queue[q]) : at'[queue[q][i]] = at[queue[q][i]]
      BY <1>5, <2>1, <2>3, <2>4, Zenon
    <3>4. \A i \in 1..Len(queue[q]) : PriorityOf[queue[q][i]] = q /\ at'[queue[q][i]] = "queue"
      BY <3>2, <3>3, Zenon
    <3>5. \A i \in 1..Len(queue'[q]) : PriorityOf[queue'[q][i]] = q /\ at'[queue'[q][i]] = "queue"
      BY <3>1, <3>4
    <3>6. ASSUME NEW i \in 1..Len(queue'[q]), NEW j \in 1..Len(queue'[q]), queue'[q][i] = queue'[q][j]
          PROVE  i = j
      BY <3>1, <3>2, <3>6
    <3> QED
      BY <3>5, <3>6, Zenon
  <2>5. \A i \in 1..Len(queue'[p]) : PriorityOf[queue'[p][i]] = p /\ at'[queue'[p][i]] = "queue"
    BY <1>5, <1>6, <2>2, <2>3 DEF IndInv, Queued
  <2>6. \A i, j \in 1..Len(queue'[p]) : queue'[p][i] = queue'[p][j] => i = j
    <3> SUFFICES ASSUME NEW i \in 1..Len(queue'[p]), NEW j \in 1..Len(queue'[p]),
                        queue'[p][i] = queue'[p][j]
                 PROVE  i = j
      BY Zenon
    <3>1. i + 1 = j + 1
      BY <1>6 DEF IndInv, Queued
    <3>2. i \in Nat /\ j \in Nat
      BY <1>6, Zenon
    <3> QED
      BY <3>1, <3>2
  <2>7. \A q \in Priorities :
            /\ \A i \in 1..Len(queue'[q]) : PriorityOf[queue'[q][i]] = q /\ at'[queue'[q][i]] = "queue"
            /\ \A i, j \in 1..Len(queue'[q]) : queue'[q][i] = queue'[q][j] => i = j
    <3> SUFFICES ASSUME NEW q \in Priorities
                 PROVE  /\ \A i \in 1..Len(queue'[q]) : PriorityOf[queue'[q][i]] = q /\ at'[queue'[q][i]] = "queue"
                        /\ \A i, j \in 1..Len(queue'[q]) : queue'[q][i] = queue'[q][j] => i = j
      OBVIOUS
    <3>1. CASE q = p
      BY <2>5, <2>6, <3>1, Zenon
    <3>2. CASE q # p
      BY <2>4, <3>2, Zenon
    <3> QED
      BY <3>1, <3>2, Zenon
  <2> QED
    BY <2>7, Zenon DEF Queued
<1>8. Counted'
  <2>1. \A q \in Priorities : Pending(q)' = Pending(q)
    BY <1>1, <1>3, <1>4, PendingStays, Zenon DEF IndInv
  <2> QED
    BY <2>1, Zenon DEF IndInv, Counted
<1>9. InHand' /\ Closing'
  BY <1>1, <1>4, <1>5 DEF IndInv, InHand, Closing
<1> QED
  BY <1>5, <1>6, <1>7, <1>8, <1>9, Zenon

\* SortLoop sends, with the filter as it read it last, and drains.
LEMMA SendInd ==
    ASSUME IndInv, MessagesAssumption, NEW p \in Priorities, Send(p) \/ Drain(p)
    PROVE  IndInv'
<1>1. /\ queue[p] # <<>> /\ Outbox(Head(queue[p])) /\ queue' = [queue EXCEPT ![p] = Tail(queue[p])]
      /\ UNCHANGED <<loop, stop>> /\ filter' = filter
  BY Zenon DEF Send, Drain, Offers
<1>2. /\ at' \in [Msgs -> Places] /\ queue' \in [Priorities -> Seq(Msgs)]
      /\ Queued' /\ Counted' /\ InHand' /\ Closing'
  BY <1>1, OutboxStep, Zenon
<1>3. CASE late' = late /\ (seen' = seen \/ seen' = filter)
  <2>1. Typed' /\ Lag'
    BY <1>1, <1>2, <1>3, Zenon DEF IndInv, Typed, Lag
  <2> QED
    BY <1>2, <2>1, Zenon DEF IndInv
<1>4. CASE p \in filter /\ p \notin seen /\ late' = [late EXCEPT ![p] = late[p] + 1] /\ seen' = filter
  <2>1. late' \in [Priorities -> Nat] /\ \A q \in filter : late'[q] <= 1
    BY <1>4 DEF IndInv, Typed, Lag
  <2>2. Typed' /\ Lag'
    BY <1>1, <1>2, <1>4, <2>1, Zenon DEF IndInv, Typed, Lag
  <2> QED
    BY <1>2, <2>2, Zenon DEF IndInv
<1> QED
  BY <1>3, <1>4, Zenon DEF Send, Drain, Offers, IndInv, Typed

\* The filter is set, or read once more.
LEMMA FilterStep ==
    ASSUME IndInv, UNCHANGED <<at, loop, queue, stop>>, filter' \subseteq Priorities,
           \/ seen' = filter /\ filter' = filter /\ late' = late
           \/ /\ seen' = seen
              /\ late' = [p \in Priorities |-> IF p \in filter' /\ p \notin filter THEN 0 ELSE late[p]]
    PROVE  IndInv'
<1>1. Queued' /\ InHand' /\ Closing'
  BY DEF IndInv, Queued, InHand, Closing
<1>2. Counted'
  <2>1. \A q \in Priorities : Pending(q)' = Pending(q)
    BY Zenon DEF Pending, Of
  <2> QED
    BY <2>1, Zenon DEF IndInv, Counted
<1>3. late' \in [Priorities -> Nat] /\ seen' \subseteq Priorities
  <2>1. late \in [Priorities -> Nat] /\ filter \subseteq Priorities /\ seen \subseteq Priorities
    BY Zenon DEF IndInv, Typed
  <2>2. CASE late' = late
    BY <2>1, <2>2, Zenon
  <2>3. CASE late' = [p \in Priorities |-> IF p \in filter' /\ p \notin filter THEN 0 ELSE late[p]]
    <3>1. late' \in [Priorities -> Nat]
      BY <2>1, <2>3
    <3> QED
      BY <2>1, <3>1, Zenon
  <2> QED
    BY <2>2, <2>3, Zenon
<1>4. Typed'
  BY <1>3, Zenon DEF IndInv, Typed
<1>5. Lag'
  BY DEF IndInv, Typed, Lag
<1> QED
  BY <1>1, <1>2, <1>4, <1>5, Zenon DEF IndInv

-----------------------------------------------------------------------------
(* Client.Stop, and the results. *)

\* A stage of Stop begins when what it closes is no longer used.
LEMMA StageStep ==
    ASSUME IndInv, stop' \in Stages, UNCHANGED <<at, loop, queue, filter, seen, late>>,
           \/ stop' \in {"running", "com", "services"}
           \/ stop' = "retry" /\ \A m \in Msgs : at[m] # "sending"
           \/ stop' = stop
           \/ /\ stop' \in {"sort", "done"} /\ stop \in {"retry", "sort", "done"}
              /\ \A p \in Priorities : loop[p].pc = "done"
    PROVE  IndInv'
<1>1. Typed' /\ Queued' /\ InHand' /\ Lag'
  BY DEF IndInv, Typed, Queued, InHand, Lag
<1>2. Counted'
  <2>1. \A q \in Priorities : Pending(q)' = Pending(q)
    BY Zenon DEF Pending, Of
  <2> QED
    BY <2>1, Zenon DEF IndInv, Counted
<1>3. Closing'
  BY DEF IndInv, Closing
<1> QED
  BY <1>1, <1>2, <1>3, Zenon DEF IndInv

\* The steps of Stop, and those in which nothing of the invariant changes.
LEMMA StopInd ==
    ASSUME IndInv,
           \/ DrainBegins \/ DrainEnds \/ ComStopped \/ StopCalled \/ StopServices
           \/ CloseInputs \/ CloseUnsorted \/ StopDone \/ UNCHANGED vars
    PROVE  IndInv'
<1>1. UNCHANGED <<at, loop, queue, filter, seen, late>>
  BY Zenon DEF DrainBegins, DrainEnds, ComStopped, StopCalled, StopServices, CloseInputs,
     CloseUnsorted, StopDone, vars
<1>2. CASE stop' = stop
  BY <1>1, <1>2, StageStep, Zenon DEF IndInv, Typed
<1>3. CASE StopCalled \/ StopServices
  <2>1. stop' \in Stages /\ stop' \in {"running", "com", "services"}
    BY <1>3 DEF StopCalled, StopServices, Stages
  <2> QED
    BY <1>1, <2>1, StageStep, Zenon
<1>4. CASE CloseInputs
  <2>1. stop' \in Stages /\ stop' = "retry" /\ \A m \in Msgs : at[m] # "sending"
    BY <1>4 DEF CloseInputs, Stages
  <2> QED
    BY <1>1, <2>1, StageStep, Zenon
<1>5. CASE CloseUnsorted
  <2>1. /\ stop' \in Stages /\ stop' \in {"sort", "done"} /\ stop \in {"retry", "sort", "done"}
        /\ \A p \in Priorities : loop[p].pc = "done"
    BY <1>5 DEF CloseUnsorted, Stages
  <2> QED
    BY <1>1, <2>1, StageStep, Zenon
<1>6. CASE StopDone
  <2>1. /\ stop' \in Stages /\ stop' \in {"sort", "done"} /\ stop \in {"retry", "sort", "done"}
        /\ stop \in {"sort", "done"}
    BY <1>6 DEF StopDone, Stages
  <2>2. \A p \in Priorities : loop[p].pc = "done"
    BY <2>1, Zenon DEF IndInv, Closing
  <2> QED
    BY <1>1, <2>1, <2>2, StageStep, Zenon
<1> QED
  BY <1>2, <1>3, <1>4, <1>5, <1>6, Zenon DEF DrainBegins, DrainEnds, ComStopped, vars

\* The invariant holds at the start.
LEMMA InitInd ==
    ASSUME MessagesAssumption, Init
    PROVE  IndInv
<1> DEFINE w == [pc |-> "select", size |-> 0, count |-> 0]
<1>1. w \in Loop /\ w.pc = "select" /\ w.count = 0
  BY DEF Loop
<1>2. /\ at = [m \in Msgs |-> "new"] /\ loop = [p \in Priorities |-> w]
      /\ queue = [p \in Priorities |-> <<>>] /\ late = [p \in Priorities |-> 0]
      /\ filter = {} /\ seen = {} /\ stop = "running"
  BY DEF Init
<1> HIDE DEF w
<1>3. Typed
  BY <1>1, <1>2 DEF Typed, Places, Stages
<1>4. Queued /\ Lag /\ InHand /\ Closing
  BY <1>2 DEF Queued, Lag, InHand, Closing
<1>5. Counted
  <2>1. \A p : Pending(p) = {}
    BY <1>2 DEF Pending, Of
  <2>2. Cardinality({}) = 0 /\ maxCount \in Nat
    BY FS_EmptySet, Zenon DEF MessagesAssumption
  <2>3. \A p \in Priorities : loop[p].count = 0
    BY <1>1, <1>2, Zenon
  <2> QED
    BY <2>1, <2>2, <2>3 DEF Counted
<1> QED
  BY <1>3, <1>4, <1>5, Zenon DEF IndInv

\* Every step of the goroutines of a client, its services, its communicator and of
\* Client.Stop keeps the invariant.
THEOREM Inductive ==
    ASSUME MessagesAssumption
    PROVE  /\ Init => IndInv
           /\ IndInv /\ [Next]_vars => IndInv'
<1>1. Init => IndInv
  BY InitInd, Zenon
<1>2. ASSUME IndInv, [Next]_vars PROVE IndInv'
  <2>1. CASE \E m \in Msgs : \/ ProcessMessage(m) \/ ContextDone(m) \/ Accept(m) \/ Retry(m)
                             \/ Acknowledged(m) \/ Receive(m) \/ Ack(m) \/ Nack(m)
    BY <1>2, <2>1, ServiceStep, AcceptInd, RetryInd, AcknowledgedInd, ReceiveInd, Zenon
  <2>2. CASE \E p \in Priorities : LoopEnds(p) \/ Send(p) \/ Drain(p)
    BY <1>2, <2>2, LoopEndsInd, SendInd, Zenon
  <2>3. CASE FilterPoll
    <3>1. filter \subseteq Priorities
      BY <1>2, Zenon DEF IndInv, Typed
    <3> QED
      BY <1>2, <2>3, <3>1, FilterStep, Zenon DEF FilterPoll
  <2>4. CASE \E f \in SUBSET Filterable : SetFilter(f)
    <3>1. PICK f \in SUBSET Filterable : SetFilter(f)
      BY <2>4, Zenon
    <3>2. filter' \subseteq Priorities
      BY <3>1, Zenon DEF SetFilter, MessagesAssumption
    <3>3. /\ UNCHANGED <<at, loop, queue, stop>> /\ seen' = seen
          /\ late' = [p \in Priorities |-> IF p \in filter' /\ p \notin filter THEN 0 ELSE late[p]]
      BY <3>1, Zenon DEF SetFilter
    <3> QED
      BY <1>2, <3>2, <3>3, FilterStep, Zenon
  <2>5. CASE \/ DrainBegins \/ DrainEnds \/ ComStopped \/ StopCalled \/ StopServices
             \/ CloseInputs \/ CloseUnsorted \/ StopDone \/ UNCHANGED vars
    BY <1>2, <2>5, StopInd, Zenon
  <2> QED
    BY <1>2, <2>1, <2>2, <2>3, <2>4, <2>5, Zenon DEF Next, Step, Stopped
<1> QED
  BY <1>1, <1>2, Zenon

(* The callbacks of the communicator never block (the comment at retry.go:40):     *)
(* what it has taken and the acknowledgements, or the messages given back, that a   *)
(* RetryLoop has not read are within the capacity of its channels, for any messages *)
(* and limits.                                                                      *)
THEOREM NeverBlocked ==
    ASSUME MessagesAssumption
    PROVE  Spec => []CallbacksNeverBlock
<1>1. ASSUME IndInv PROVE CallbacksNeverBlock
  <2> SUFFICES ASSUME NEW p \in Priorities, NEW places, places \subseteq InLoop
               PROVE  Cardinality(Of(p, places)) <= maxCount
    <3>1. {"taken", "acks"} \subseteq InLoop /\ {"taken", "nacks"} \subseteq InLoop
      BY DEF InLoop
    <3> QED
      BY <3>1, Zenon DEF CallbacksNeverBlock
  <2>1. Of(p, places) \subseteq Pending(p)
    BY Zenon DEF Of, Pending, InLoop
  <2>2. /\ IsFiniteSet(Of(p, places)) /\ IsFiniteSet(Pending(p))
        /\ Cardinality(Of(p, places)) <= Cardinality(Pending(p))
    BY <2>1, PendingFinite, FS_Subset, Zenon
  <2>3. Cardinality(Of(p, places)) \in Nat /\ Cardinality(Pending(p)) \in Nat /\ maxCount \in Nat
    BY <2>2, FS_CardinalityType, Zenon DEF MessagesAssumption
  <2>4. Cardinality(Pending(p)) <= maxCount
    BY <1>1, Zenon DEF IndInv, Counted
  <2> QED
    BY <2>2, <2>3, <2>4
<1>2. IndInv => CallbacksNeverBlock
  BY <1>1, Zenon
<1> QED
  BY <1>2, Inductive, PTL DEF Spec

(* Nothing is sent on a channel that Client.Stop has closed: no service waits in    *)
(* ProcessMessage once the inputs are closed, no RetryLoop offers a message once    *)
(* outUnsorted is.                                                                  *)
THEOREM NothingOnClosed ==
    ASSUME MessagesAssumption
    PROVE  Spec => []NoSendOnClosed
<1>1. ASSUME IndInv PROVE NoSendOnClosed
  <2>1. "out" # "done" /\ \A m \in Msgs : PriorityOf[m] \in Priorities
    BY DEF MessagesAssumption
  <2> QED
    BY <1>1, <2>1, Zenon DEF IndInv, Closing, InHand, NoSendOnClosed
<1>2. IndInv => NoSendOnClosed
  BY <1>1, Zenon
<1> QED
  BY <1>2, Inductive, PTL DEF Spec

(* After Filter.Set at most one more message of a priority that is held back goes   *)
(* to the outbox.                                                                   *)
THEOREM FilterLagsByOne ==
    ASSUME MessagesAssumption
    PROVE  Spec => []FilterLag
<1>1. ASSUME IndInv PROVE FilterLag
  BY <1>1, Zenon DEF IndInv, Lag, FilterLag
<1>2. IndInv => FilterLag
  BY <1>1, Zenon
<1> QED
  BY <1>2, Inductive, PTL DEF Spec
=============================================================================
