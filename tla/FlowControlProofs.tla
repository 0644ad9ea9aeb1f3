-------------------------- MODULE FlowControlProofs --------------------------
(***************************************************************************)
(* Proofs that the tokens of the flow control are conserved and that the   *)
(* server is never short of them, for any size of the inbox, any number of *)
(* goroutines and any limit of a search.                                   *)
(***************************************************************************)
EXTENDS FlowControl, FiniteSetTheorems, TLAPS

-----------------------------------------------------------------------------
(* Arithmetic modulo 2^64. *)

\* The modulus is a positive number.
LEMMA ModulusPositive == Modulus \in Nat /\ Modulus > 0 /\ inboxSize \in Nat /\ MaxLocal \in Nat
  BY FlowAssumption

\* Counts are numbers.
LEMMA CountsNat == Counts \subseteq Nat
  BY ModulusPositive DEF Counts

\* A difference of counts is a count.
LEMMA MinusType ==
    ASSUME NEW a \in Counts, NEW b \in Counts
    PROVE  Minus(a, b) \in Counts /\ Minus(a, a) = 0
  BY ModulusPositive DEF Minus, Counts

\* A count that grows by one grows the difference by one, unless that wraps around.
LEMMA MinusStep ==
    ASSUME NEW a \in Counts, NEW b \in Counts, Minus(a, b) + 1 < Modulus
    PROVE  Minus((a + 1) % Modulus, b) = Minus(a, b) + 1
  <1>1. CASE a >= b
    <2>1. Minus(a, b) = a - b
      BY <1>1, ModulusPositive DEF Minus, Counts
    <2>2. CASE a + 1 < Modulus
      <3>1. (a + 1) % Modulus = a + 1
        BY <2>2, ModulusPositive DEF Counts
      <3> QED
        BY <1>1, <2>1, <2>2, <3>1, ModulusPositive DEF Minus, Counts
    <2>3. CASE a + 1 = Modulus
      <3>1. (a + 1) % Modulus = 0
        BY <2>3, ModulusPositive DEF Counts
      <3>2. b > 0
        BY <2>1, <2>3, ModulusPositive DEF Counts
      <3> QED
        BY <2>1, <2>3, <3>1, <3>2, ModulusPositive DEF Minus, Counts
    <2> QED
      BY <2>2, <2>3, ModulusPositive DEF Counts
  <1>2. CASE a < b
    <2>1. Minus(a, b) = a + Modulus - b
      BY <1>2, ModulusPositive DEF Minus, Counts
    <2>2. (a + 1) % Modulus = a + 1 /\ a + 1 < b
      BY <1>2, <2>1, ModulusPositive DEF Counts
    <2> QED
      BY <1>2, <2>1, <2>2, ModulusPositive DEF Minus, Counts
  <1> QED
    BY <1>1, <1>2, ModulusPositive DEF Counts

\* A sum below the modulus does not wrap around.
LEMMA NoWrap == ASSUME NEW x \in Nat, x < Modulus PROVE x % Modulus = x
  BY ModulusPositive

-----------------------------------------------------------------------------
(* Sums. *)

Column(i, n) == {i} \X (1 .. n)

\* A column of units has as many as its height.
LEMMA ColumnSize ==
    ASSUME NEW i, NEW n \in Nat
    PROVE  IsFiniteSet(Column(i, n)) /\ Cardinality(Column(i, n)) = n
  <1>1. IsFiniteSet(1 .. n) /\ Cardinality(1 .. n) = n
    BY FS_Interval
  <1>2. IsFiniteSet({i}) /\ Cardinality({i}) = 1
    BY FS_Singleton, Zenon
  <1> QED
    BY <1>1, <1>2, FS_Product DEF Column

\* The sum of finitely many counts is a number.
LEMMA SumType ==
    ASSUME NEW D, IsFiniteSet(D), NEW f \in [D -> Counts]
    PROVE  IsFiniteSet(Units(f)) /\ Sum(f) \in Nat
  <1>1. IsFiniteSet(1 .. Modulus)
    BY FS_Interval, ModulusPositive
  <1>2. IsFiniteSet(D \X (1 .. Modulus))
    BY <1>1, FS_Product, Zenon
  <1>3. Units(f) \subseteq D \X (1 .. Modulus)
    BY Zenon DEF Units
  <1> QED
    BY <1>2, <1>3, FS_Subset, FS_CardinalityType, Zenon DEF Sum

\* Two disjoint sets of units.
LEMMA DisjointSize ==
    ASSUME NEW A, NEW B, IsFiniteSet(A), IsFiniteSet(B), A \cap B = {}
    PROVE  IsFiniteSet(A \cup B) /\ Cardinality(A \cup B) = Cardinality(A) + Cardinality(B)
  <1>1. Cardinality(A \cap B) = 0
    BY FS_EmptySet, Zenon
  <1>2. Cardinality(A) \in Nat /\ Cardinality(B) \in Nat
    BY FS_CardinalityType, Zenon
  <1>3. IsFiniteSet(A \cup B)
        /\ Cardinality(A \cup B) = Cardinality(A) + Cardinality(B) - Cardinality(A \cap B)
    BY FS_Union, Zenon
  <1> QED
    BY <1>1, <1>2, <1>3

\* The sum when one value changes.
LEMMA SumChange ==
    ASSUME NEW D, IsFiniteSet(D), NEW f \in [D -> Counts], NEW g \in [D -> Counts], NEW p \in D,
           \A d \in D \ {p} : g[d] = f[d]
    PROVE  Sum(g) + f[p] = Sum(f) + g[p]
  <1> DEFINE R == {u \in Units(f) : u[1] # p}
  <1>1. IsFiniteSet(R) /\ Cardinality(R) \in Nat
    <2>1. R \subseteq Units(f)
      BY Zenon
    <2> QED
      BY <2>1, SumType, FS_Subset, FS_CardinalityType, Zenon
  <1>2. f[p] \in Nat /\ g[p] \in Nat
    BY DEF Counts
  <1>3. Units(f) = R \cup Column(p, f[p]) /\ Units(g) = R \cup Column(p, g[p])
    BY ModulusPositive DEF Units, Column, Counts
  <1>4. R \cap Column(p, f[p]) = {} /\ R \cap Column(p, g[p]) = {}
    BY Zenon DEF Column
  <1> HIDE DEF R
  <1>5. Sum(f) = Cardinality(R) + f[p]
    <2>1. IsFiniteSet(Column(p, f[p])) /\ Cardinality(Column(p, f[p])) = f[p]
      BY <1>2, ColumnSize, Zenon
    <2>2. Cardinality(R \cup Column(p, f[p])) = Cardinality(R) + Cardinality(Column(p, f[p]))
      BY <1>1, <1>4, <2>1, DisjointSize, Zenon
    <2> QED
      BY <1>3, <2>1, <2>2, Zenon DEF Sum
  <1>6. Sum(g) = Cardinality(R) + g[p]
    <2>1. IsFiniteSet(Column(p, g[p])) /\ Cardinality(Column(p, g[p])) = g[p]
      BY <1>2, ColumnSize, Zenon
    <2>2. Cardinality(R \cup Column(p, g[p])) = Cardinality(R) + Cardinality(Column(p, g[p]))
      BY <1>1, <1>4, <2>1, DisjointSize, Zenon
    <2> QED
      BY <1>3, <2>1, <2>2, Zenon DEF Sum
  <1> QED
    BY <1>1, <1>2, <1>5, <1>6

\* A sequence of counts has a sum.
LEMMA SeqSum ==
    ASSUME NEW s \in Seq(Counts)
    PROVE  IsFiniteSet(Units(s)) /\ Sum(s) \in Nat
  <1>1. s \in [1 .. Len(s) -> Counts] /\ IsFiniteSet(1 .. Len(s))
    BY FS_Interval
  <1> QED
    BY <1>1, SumType, Zenon

\* A count at the end adds to the sum.
LEMMA SumAppend ==
    ASSUME NEW s \in Seq(Counts), NEW v \in Counts
    PROVE  Sum(Append(s, v)) = Sum(s) + v
  <1> DEFINE n == Len(s) + 1
  <1>1. v \in Nat /\ n \in Nat
    BY DEF Counts
  <1>2. Units(Append(s, v)) = Units(s) \cup Column(n, v)
    BY ModulusPositive DEF Units, Column, Counts
  <1>3. Units(s) \cap Column(n, v) = {}
    BY DEF Units, Column
  <1> HIDE DEF n
  <1>4. IsFiniteSet(Column(n, v)) /\ Cardinality(Column(n, v)) = v
    BY <1>1, ColumnSize, Zenon
  <1>5. IsFiniteSet(Units(s))
    BY SeqSum, Zenon
  <1>6. Cardinality(Units(s) \cup Column(n, v)) = Cardinality(Units(s)) + Cardinality(Column(n, v))
    BY <1>3, <1>4, <1>5, DisjointSize, Zenon
  <1> QED
    BY <1>2, <1>4, <1>6, Zenon DEF Sum

\* The count at the front leaves the sum with it.
LEMMA SumTail ==
    ASSUME NEW s \in Seq(Counts), s # <<>>
    PROVE  Head(s) \in Counts /\ Sum(s) = Head(s) + Sum(Tail(s))
  <1>1. Head(s) = s[1] /\ s[1] \in Counts /\ Len(s) > 0 /\ Tail(s) \in Seq(Counts)
    OBVIOUS
  <1> DEFINE T == Units(Tail(s))
             U == {u \in Units(s) : u[1] # 1}
             f == [u \in T |-> <<u[1] + 1, u[2]>>]
  <1>2. IsFiniteSet(T) /\ Sum(Tail(s)) \in Nat
    BY <1>1, SeqSum, Zenon
  <1>3. ASSUME NEW u \in T
        PROVE  u[1] \in 1 .. Len(s) - 1 /\ u[2] \in 1 .. Modulus /\ u[2] <= s[u[1] + 1]
    BY <1>1 DEF Units
  <1>4. f \in [T -> U]
    BY <1>1, <1>3 DEF Units
  <1>5. \A t, u \in T : f[t] = f[u] => t = u
    BY <1>3 DEF Units
  <1>6. \A u \in U : \E t \in T : f[t] = u
    <2> SUFFICES ASSUME NEW u \in U PROVE \E t \in T : f[t] = u
      BY Zenon
    <2>1. u[1] \in 2 .. Len(s) /\ u[2] \in 1 .. Modulus /\ u[2] <= s[u[1]] /\ u = <<u[1], u[2]>>
      BY DEF Units
    <2>2. <<u[1] - 1, u[2]>> \in T
      BY <1>1, <2>1 DEF Units
    <2> QED
      BY <2>1, <2>2
  <1>7. ExistsBijection(T, U)
    <2> HIDE DEF f, T, U
    <2>a. DOMAIN f = T
      BY <1>4, Zenon
    <2>1. f \in Injection(T, U)
      BY <1>4, <1>5, <2>a, Zenon DEF Injection, IsInjective
    <2>2. f \in Surjection(T, U)
      BY <1>4, <1>6, Zenon DEF Surjection
    <2> QED
      BY <2>1, <2>2, Zenon DEF ExistsBijection, Bijection
  <1>8. IsFiniteSet(U) /\ Cardinality(U) = Sum(Tail(s))
    BY <1>2, <1>7, FS_Bijection, Zenon DEF Sum
  <1>9. Units(s) = U \cup Column(1, s[1]) /\ U \cap Column(1, s[1]) = {}
    BY <1>1, ModulusPositive DEF Units, Column, Counts
  <1>10. s[1] \in Nat
    BY <1>1 DEF Counts
  <1> HIDE DEF U, T
  <1>11. Sum(s) = Cardinality(U) + s[1]
    <2>1. IsFiniteSet(Column(1, s[1])) /\ Cardinality(Column(1, s[1])) = s[1]
      BY <1>10, ColumnSize, Zenon
    <2>2. Cardinality(U \cup Column(1, s[1])) = Cardinality(U) + Cardinality(Column(1, s[1]))
      BY <1>8, <1>9, <2>1, DisjointSize, Zenon
    <2> QED
      BY <1>9, <2>1, <2>2, Zenon DEF Sum
  <1> QED
    BY <1>1, <1>2, <1>8, <1>10, <1>11

-----------------------------------------------------------------------------
(* The invariant. *)

\* Before a restart of the service every contact but the first grants what was
\* processed since the one before, and notifyLoop holds no more messages than there
\* are tokens.
Flow ==
  restarts = 0 =>
    /\ installed /\ base \in Counts /\ ~short /\ TokensConserved
    /\ notify.pc = "subtract" => notify.found <= tokens

IndInv == TypeOK /\ Flow

\* The terms of Outstanding are numbers.
LEMMA Terms ==
    ASSUME TypeOK
    PROVE  /\ Sum(up) \in Nat /\ Sum(down) \in Nat /\ Sum(Granted) \in Nat
           /\ Granted \in [Processors -> Counts]
           /\ tokens \in Nat /\ tokens < Modulus /\ hand \in Nat /\ inbox \in Nat
           /\ inbox <= inboxSize /\ locals \in Nat /\ locals <= MaxLocal
           /\ base \in Counts => Minus(processedCount, base) \in Nat
  <1>1. Sum(up) \in Nat /\ Sum(down) \in Nat
    BY SeqSum, Zenon DEF TypeOK
  <1>2. Granted \in [Processors -> Counts]
    BY ModulusPositive DEF TypeOK, Granted, Counts
  <1>3. Sum(Granted) \in Nat
    BY <1>2, SumType, FlowAssumption, Zenon
  <1>4. /\ tokens \in Nat /\ tokens < Modulus /\ hand \in Nat /\ inbox \in Nat
        /\ inbox <= inboxSize /\ locals \in Nat /\ locals <= MaxLocal
    BY ModulusPositive DEF TypeOK, Counts
  <1>5. base \in Counts => Minus(processedCount, base) \in Nat
    <2>1. processedCount \in Counts /\ Counts \subseteq Nat
      BY ModulusPositive DEF TypeOK, Counts
    <2> QED
      BY <2>1, MinusType, Zenon
  <1> QED
    BY <1>1, <1>2, <1>3, <1>4, <1>5, Zenon

\* While the tokens are conserved, all that is outstanding is below the modulus.
LEMMA Bounded ==
    ASSUME TypeOK, base \in Counts, TokensConserved
    PROVE  tokens + Sum(up) + Sum(Granted) + Minus(processedCount, base) + Sum(down) + hand + inbox
             < Modulus
  BY Terms, FlowAssumption, ModulusPositive DEF TokensConserved, Outstanding

\* The start of a connection.
LEMMA InitInd == Init => IndInv
  <1> SUFFICES ASSUME Init PROVE IndInv
    BY Zenon
  <1>1. 0 \in Counts /\ inboxSize \in Counts
    BY FlowAssumption, ModulusPositive DEF Counts
  <1>2. TypeOK
    <2>1. proc \in [Processors -> [pc : {"free", "add", "check"}, delta : Counts, blocked : BOOLEAN]]
      BY <1>1, Zenon DEF Init, Free
    <2>2. notify \in [pc : {"wait", "find", "subtract"}, found : Counts]
      BY <1>1, Zenon DEF Init
    <2>3. up \in Seq(Counts) /\ down \in Seq(Counts)
      BY DEF Init
    <2>4. inbox \in 0 .. inboxSize /\ locals \in 0 .. MaxLocal /\ {hand, waiting, created, restarts} \subseteq Nat
      BY ModulusPositive DEF Init
    <2> QED
      BY <1>1, <2>1, <2>2, <2>3, <2>4, Zenon DEF Init, TypeOK
  <1>3. Sum(<<>>) = 0
    BY FS_EmptySet DEF Sum, Units
  <1>4. Sum(Granted) = 0
    <2>1. Granted = [p \in Processors |-> 0]
      BY Zenon DEF Init, Granted, Free
    <2>2. Units(Granted) = {}
      BY <2>1 DEF Units
    <2> QED
      BY <2>2, FS_EmptySet, Zenon DEF Sum
  <1>5. Minus(processedCount, base) = 0
    BY <1>1, MinusType, Zenon DEF Init
  <1>6. TokensConserved
    BY <1>3, <1>4, <1>5, ModulusPositive DEF Init, TokensConserved, Outstanding
  <1>7. installed /\ base \in Counts /\ ~short /\ notify.pc = "find"
    BY <1>1, Zenon DEF Init
  <1> QED
    BY <1>2, <1>6, <1>7, Zenon DEF IndInv, Flow

\* A contact takes what was processed since the last one onto the wire.
LEMMA SendContactInd == ASSUME IndInv, SendContact PROVE IndInv'
  <1>1. UNCHANGED <<installed, inbox, acceptCount, processedCount, hand, counting, down, tokens, waiting,
                    notices, localNotices, notify, proc, short, created, locals, restarts>>
    BY Zenon DEF SendContact, serverVars, bounds
  <1>2. up' = Append(up, allowedMessages) /\ base' = processed
    BY Zenon DEF SendContact
  <1>3. allowedMessages \in Counts
    BY MinusType, FlowAssumption, ModulusPositive DEF allowedMessages, IndInv, TypeOK, Counts, Minus
  <1>4. TypeOK'
    BY <1>1, <1>2, <1>3 DEF IndInv, TypeOK, processed
  <1>5. CASE restarts = 0
    <2>1. installed /\ base \in Counts /\ processedCount \in Counts
      BY <1>5, Zenon DEF IndInv, Flow, TypeOK
    <2>2. allowedMessages = Minus(processedCount, base) /\ base' = processedCount
      BY <1>2, <2>1, ModulusPositive DEF allowedMessages, processed, NoBase, Counts
    <2>3. Minus(processedCount, base)' = 0
      BY <1>1, <2>1, <2>2, MinusType, Zenon
    <2>4. Sum(up') = Sum(up) + Minus(processedCount, base)
      BY <1>2, <1>3, <2>2, SumAppend, Zenon DEF IndInv, TypeOK
    <2>5. Granted' = Granted /\ Sum(down)' = Sum(down)
      BY <1>1, Zenon DEF Granted
    <2>6. TokensConserved'
      BY <1>1, <1>5, <2>1, <2>3, <2>4, <2>5, Terms DEF IndInv, Flow, TokensConserved, Outstanding
    <2> QED
      BY <1>1, <1>4, <1>5, <2>1, <2>2, <2>6, Zenon DEF IndInv, Flow
  <1>6. CASE restarts # 0
    BY <1>1, <1>4, <1>6, Zenon DEF IndInv, Flow
  <1> QED
    BY <1>5, <1>6, Zenon

\* The steps of the client between the wire and the count of what is accepted.
LEMMA ReceiveInd == ASSUME IndInv, ReadContactData \/ Deliver \/ CountAccepted PROVE IndInv'
  <1>1. UNCHANGED <<installed, processedCount, base, up, tokens, waiting,
                    notices, localNotices, notify, proc, short, created, locals, restarts>>
    BY Zenon DEF ReadContactData, Deliver, CountAccepted, serverVars, bounds
  <1>2. Sum(down') + hand' + inbox' = Sum(down) + hand + inbox \/ ~installed
    <2>1. CASE ReadContactData
      <3>1. /\ down # <<>> /\ hand = 0 /\ hand' = Head(down) /\ down' = Tail(down) /\ inbox' = inbox
            /\ down \in Seq(Counts)
        BY <2>1, Zenon DEF ReadContactData, IndInv, TypeOK
      <3>2. Tail(down) \in Seq(Counts)
        BY <3>1
      <3>3. Sum(down) = Head(down) + Sum(Tail(down)) /\ Head(down) \in Nat /\ Sum(Tail(down)) \in Nat
        BY <3>1, <3>2, SumTail, SeqSum, CountsNat, Zenon
      <3>4. inbox \in Nat
        BY Terms, Zenon DEF IndInv
      <3> QED
        BY <3>1, <3>3, <3>4
    <2>2. CASE Deliver
      BY <2>2, Terms DEF Deliver, IndInv
    <2>3. CASE CountAccepted
      BY <2>3, Zenon DEF CountAccepted
    <2> QED
      BY <2>1, <2>2, <2>3, Zenon
  <1>3. hand' \in Nat /\ down' \in Seq(Counts)
    <2>1. CASE ReadContactData
      BY <2>1, SumTail DEF ReadContactData, IndInv, TypeOK, Counts
    <2>2. CASE Deliver \/ CountAccepted
      BY <2>2 DEF Deliver, CountAccepted, IndInv, TypeOK
    <2> QED
      BY <2>1, <2>2, Zenon
  <1>4. inbox' \in 0 .. inboxSize /\ acceptCount' \in Counts /\ counting' \in BOOLEAN
    <2>1. acceptCount \in Counts /\ inbox \in 0 .. inboxSize /\ counting \in BOOLEAN
      BY Zenon DEF IndInv, TypeOK
    <2>2. (acceptCount + 1) % Modulus \in Counts
      BY <2>1, ModulusPositive DEF Counts
    <2>3. CASE ReadContactData
      BY <2>1, <2>3, Zenon DEF ReadContactData
    <2>4. CASE Deliver
      <3>1. acceptCount' = acceptCount
        BY <2>4, Zenon DEF Deliver
      <3>2. CASE UNCHANGED <<inbox, counting>>
        BY <2>1, <3>1, <3>2, Zenon
      <3>3. CASE inbox < inboxSize /\ inbox' = inbox + 1 /\ counting' = TRUE
        BY <2>1, <3>1, <3>3, ModulusPositive
      <3> QED
        BY <2>4, <3>2, <3>3, Zenon DEF Deliver
    <2>5. CASE CountAccepted
      BY <2>1, <2>2, <2>5, Zenon DEF CountAccepted
    <2> QED
      BY <2>3, <2>4, <2>5, Zenon
  <1>5. TypeOK'
    BY <1>1, <1>3, <1>4, Zenon DEF IndInv, TypeOK
  <1>6. CASE restarts = 0
    <2>1. installed /\ Granted' = Granted
      BY <1>1, <1>6, Zenon DEF IndInv, Flow, Granted
    <2>2. TokensConserved'
      <3>1. Sum(down') \in Nat /\ hand' \in Nat /\ inbox' \in Nat
        BY <1>3, <1>4, SeqSum, ModulusPositive
      <3>2. base \in Counts /\ TokensConserved
        BY <1>6, Zenon DEF IndInv, Flow
      <3>3. TypeOK
        BY Zenon DEF IndInv
      <3> QED
        BY <1>1, <1>2, <2>1, <3>1, <3>2, <3>3, Terms DEF TokensConserved, Outstanding
    <2> QED
      BY <1>1, <1>5, <1>6, <2>2, Zenon DEF IndInv, Flow
  <1>7. CASE restarts # 0
    BY <1>1, <1>5, <1>7, Zenon DEF IndInv, Flow
  <1> QED
    BY <1>6, <1>7, Zenon

\* The service processes a message: what the next contact grants grows by one and
\* does not wrap around.
LEMMA ProcessInd == ASSUME IndInv, Process PROVE IndInv'
  <1>1. UNCHANGED <<installed, acceptCount, base, hand, counting, up, down, tokens, waiting,
                    notices, localNotices, notify, proc, short, created, locals, restarts>>
    BY Zenon DEF Process, serverVars, bounds
  <1>2. inbox > 0 /\ inbox' = inbox - 1 /\ processedCount' = (processedCount + 1) % Modulus
    BY Zenon DEF Process
  <1>3. TypeOK'
    BY <1>1, <1>2, ModulusPositive DEF IndInv, TypeOK, Counts
  <1>4. CASE restarts = 0
    <2>1. base \in Counts /\ TokensConserved /\ processedCount \in Counts /\ Granted' = Granted
      BY <1>1, <1>4, Zenon DEF IndInv, TypeOK, Flow, Granted
    <2>2. Minus(processedCount, base) + 1 < Modulus
      BY <1>2, <2>1, Bounded, Terms, ModulusPositive DEF IndInv
    <2>3. Minus(processedCount, base)' = Minus(processedCount, base) + 1
      BY <1>1, <1>2, <2>1, <2>2, MinusStep, Zenon
    <2>4. TokensConserved'
      BY <1>1, <1>2, <2>1, <2>3, Terms DEF IndInv, TokensConserved, Outstanding
    <2> QED
      BY <1>1, <1>3, <1>4, <2>4, Zenon DEF IndInv, Flow
  <1>5. CASE restarts # 0
    BY <1>1, <1>3, <1>5, Zenon DEF IndInv, Flow
  <1> QED
    BY <1>4, <1>5, Zenon

\* A message from another service takes no token.
LEMMA LocalInd == ASSUME IndInv, LocalMessage PROVE IndInv'
  <1>1. UNCHANGED <<installed, processedCount, base, hand, counting, up, down, tokens, waiting,
                    notices, localNotices, notify, proc, short, created, restarts>>
    BY Zenon DEF LocalMessage, serverVars
  <1>2. /\ locals < MaxLocal /\ inbox < inboxSize /\ inbox' = inbox + 1
        /\ acceptCount' = (acceptCount + 1) % Modulus /\ locals' = locals + 1
    BY Zenon DEF LocalMessage
  <1>3. TypeOK'
    BY <1>1, <1>2, ModulusPositive DEF IndInv, TypeOK, Counts
  <1>4. CASE restarts = 0
    <2>1. base \in Counts /\ TokensConserved /\ Granted' = Granted
      BY <1>1, <1>4, Zenon DEF IndInv, Flow, Granted
    <2>2. TokensConserved'
      BY <1>1, <1>2, <2>1, Terms, ModulusPositive DEF IndInv, TokensConserved, Outstanding
    <2> QED
      BY <1>1, <1>3, <1>4, <2>2, Zenon DEF IndInv, Flow
  <1>5. CASE restarts # 0
    BY <1>1, <1>3, <1>5, Zenon DEF IndInv, Flow
  <1> QED
    BY <1>4, <1>5, Zenon

\* A restart ends what the invariant says.
LEMMA RestartInd == ASSUME IndInv, RestartBegins \/ RestartEnds PROVE IndInv'
  <1>1. restarts' # 0
    BY DEF RestartBegins, RestartEnds, IndInv, TypeOK, Flow, bounds
  <1>2. TypeOK'
    <2>1. 0 \in Counts
      BY ModulusPositive DEF Counts
    <2>2. UNCHANGED <<inbox, base, hand, counting, up, down, tokens, waiting, notices, localNotices, notify,
                      proc, short, created, locals>>
      BY Zenon DEF RestartBegins, RestartEnds, serverVars, bounds
    <2>3. installed' \in BOOLEAN /\ restarts' \in Nat /\ acceptCount' \in Counts /\ processedCount' \in Counts
      <3>1. restarts \in Nat /\ acceptCount \in Counts /\ processedCount \in Counts
        BY Zenon DEF IndInv, TypeOK
      <3>2. CASE RestartBegins
        <4>1. installed' = FALSE /\ restarts' = restarts + 1 /\ UNCHANGED <<acceptCount, processedCount>>
          BY <3>2, Zenon DEF RestartBegins
        <4>2. restarts + 1 \in Nat
          BY <3>1
        <4> QED
          BY <3>1, <4>1, <4>2, Zenon
      <3>3. CASE RestartEnds
        BY <2>1, <3>1, <3>3, Zenon DEF RestartEnds, bounds
      <3> QED
        BY <3>2, <3>3, Zenon
    <2> QED
      BY <2>2, <2>3, Zenon DEF IndInv, TypeOK
  <1> QED
    BY <1>1, <1>2, Zenon DEF IndInv, Flow

-----------------------------------------------------------------------------
(* The server. *)

\* The steps that leave the tokens alone: a new message, a notice and a wake-up.
LEMMA WakeInd == ASSUME IndInv, NewMessage \/ Wake PROVE IndInv'
  <1>1. UNCHANGED <<installed, inbox, acceptCount, processedCount, base, hand, counting, up, down, tokens,
                    proc, short, locals, restarts>>
    BY Zenon DEF NewMessage, Wake, clientVars, bounds
  <1>2. /\ waiting' \in Nat /\ created' \in Nat /\ notices' \in BOOLEAN /\ localNotices' \in BOOLEAN
        /\ notify' \in [pc : {"wait", "find", "subtract"}, found : Counts]
        /\ notify' = notify \/ notify'.pc = "find"
    <2>1. CASE NewMessage
      BY <2>1 DEF NewMessage, IndInv, TypeOK
    <2>2. CASE Wake
      <3>1. notify' = [notify EXCEPT !.pc = "find"] /\ UNCHANGED <<waiting, created>> /\ notices' = FALSE
        BY <2>2, Zenon DEF Wake, bounds
      <3>2. localNotices' \in BOOLEAN
        BY <2>2, Zenon DEF Wake, IndInv, TypeOK
      <3>3. notify \in [pc : {"wait", "find", "subtract"}, found : Counts]
        BY Zenon DEF IndInv, TypeOK
      <3> QED
        BY <3>1, <3>2, <3>3, Zenon DEF IndInv, TypeOK
    <2> QED
      BY <2>1, <2>2, Zenon
  <1>3. TypeOK'
    BY <1>1, <1>2, Zenon DEF IndInv, TypeOK
  <1>4. TokensConserved' = TokensConserved
    BY <1>1, Zenon DEF TokensConserved, Outstanding, Granted
  <1> QED
    BY <1>1, <1>2, <1>3, <1>4, Zenon DEF IndInv, Flow

\* processOne takes the tokens off the wire.
LEMMA ProcessContactInd ==
    ASSUME IndInv, NEW p \in Processors, ProcessContact(p) PROVE IndInv'
  <1>1. UNCHANGED <<installed, inbox, acceptCount, processedCount, base, hand, counting, down, tokens,
                    waiting, notices, localNotices, notify, short, created, locals, restarts>>
    BY Zenon DEF ProcessContact, clientVars, bounds
  <1>2. /\ proc[p].pc = "free" /\ up # <<>> /\ up' = Tail(up)
        /\ proc' = [proc EXCEPT ![p] = [pc |-> "add", delta |-> Head(up), blocked |-> tokens = 0]]
    BY Zenon DEF ProcessContact
  <1>3. TypeOK /\ up \in Seq(Counts)
    BY Zenon DEF IndInv, TypeOK
  <1>4. Head(up) \in Counts /\ Tail(up) \in Seq(Counts) /\ Sum(up) = Head(up) + Sum(Tail(up))
    BY <1>2, <1>3, SumTail
  <1>5. proc' \in [Processors -> [pc : {"free", "add", "check"}, delta : Counts, blocked : BOOLEAN]]
    BY <1>2, <1>3, <1>4, Zenon DEF TypeOK
  <1>6. TypeOK'
    BY <1>1, <1>2, <1>3, <1>4, <1>5, Zenon DEF TypeOK
  <1>7. /\ Granted \in [Processors -> Counts] /\ Granted' \in [Processors -> Counts]
        /\ Granted[p] = 0 /\ Granted'[p] = Head(up)
        /\ \A q \in Processors \ {p} : Granted'[q] = Granted[q]
    <2>1. Granted \in [Processors -> Counts]
      BY <1>3, Terms, Zenon
    <2>2. Granted' \in [Processors -> Counts]
      BY <1>5, ModulusPositive DEF Granted, Counts
    <2>3. proc'[p].pc = "add" /\ proc'[p].delta = Head(up) /\ \A q \in Processors \ {p} : proc'[q] = proc[q]
      BY <1>2, <1>3, Zenon DEF TypeOK
    <2> QED
      BY <1>2, <2>1, <2>2, <2>3 DEF Granted
  <1>8. Sum(Granted') = Sum(Granted) + Head(up)
    <2>1. Sum(Granted') + 0 = Sum(Granted) + Head(up)
      BY <1>7, SumChange, FlowAssumption
    <2>2. Sum(Granted') \in Nat
      BY <1>7, SumType, FlowAssumption, Zenon
    <2> QED
      BY <2>1, <2>2
  <1>9. ASSUME restarts = 0 PROVE TokensConserved'
    <2>1. base \in Counts /\ TokensConserved
      BY <1>9, Zenon DEF IndInv, Flow
    <2>2. Head(up) \in Nat /\ Sum(Tail(up)) \in Nat
      BY <1>4, SeqSum, CountsNat, Zenon
    <2> QED
      <3>1. /\ Sum(up) \in Nat /\ Sum(down) \in Nat /\ Sum(Granted) \in Nat /\ tokens \in Nat
            /\ hand \in Nat /\ inbox \in Nat /\ Minus(processedCount, base) \in Nat
        BY <1>3, <2>1, Terms, Zenon
      <3>2. /\ UNCHANGED <<tokens, processedCount, base, down, hand, inbox, locals>>
            /\ Sum(up') = Sum(Tail(up)) /\ Sum(up) = Head(up) + Sum(Tail(up))
            /\ Sum(Granted') = Sum(Granted) + Head(up)
        BY <1>1, <1>2, <1>4, <1>8, Zenon
      <3> QED
        BY <2>1, <2>2, <3>1, <3>2 DEF TokensConserved, Outstanding
  <1> QED
    BY <1>1, <1>6, <1>9, Zenon DEF IndInv, Flow

\* Adding them to those of the client does not wrap around.
LEMMA AddTokensInd ==
    ASSUME IndInv, NEW p \in Processors, AddMessageTokens(p) PROVE IndInv'
  <1>1. UNCHANGED <<installed, inbox, acceptCount, processedCount, base, hand, counting, up, down,
                    waiting, notices, localNotices, notify, short, created, locals, restarts>>
    BY Zenon DEF AddMessageTokens, clientVars, bounds
  <1>2. /\ proc[p].pc = "add" /\ proc' = [proc EXCEPT ![p].pc = "check"]
        /\ tokens' = (tokens + proc[p].delta) % Modulus
    BY Zenon DEF AddMessageTokens
  <1>3. TypeOK /\ proc[p].delta \in Counts /\ tokens \in Counts
    BY Zenon DEF IndInv, TypeOK
  <1>4. /\ proc' \in [Processors -> [pc : {"free", "add", "check"}, delta : Counts, blocked : BOOLEAN]]
        /\ proc'[p].pc = "check" /\ \A q \in Processors \ {p} : proc'[q] = proc[q]
    BY <1>2, <1>3, Zenon DEF TypeOK
  <1>5. tokens' \in Counts
    BY <1>2, <1>3, ModulusPositive DEF Counts
  <1>6. TypeOK'
    BY <1>1, <1>3, <1>4, <1>5, Zenon DEF TypeOK
  <1>7. /\ Granted \in [Processors -> Counts] /\ Granted' \in [Processors -> Counts]
        /\ Granted[p] = proc[p].delta /\ Granted'[p] = 0
        /\ \A q \in Processors \ {p} : Granted'[q] = Granted[q]
    <2>1. Granted \in [Processors -> Counts]
      BY <1>3, Terms, Zenon
    <2>2. Granted' \in [Processors -> Counts]
      BY <1>4, ModulusPositive DEF Granted, Counts
    <2> QED
      BY <1>2, <1>4, <2>1, <2>2, Zenon DEF Granted
  <1>8. Sum(Granted') + proc[p].delta = Sum(Granted) + 0 /\ Sum(Granted') \in Nat
    BY <1>7, SumChange, SumType, FlowAssumption
  <1>9. ASSUME restarts = 0 PROVE TokensConserved' /\ tokens' >= tokens
    <2>1. base \in Counts /\ TokensConserved
      BY <1>9, Zenon DEF IndInv, Flow
    <2>2. proc[p].delta \in Nat
      BY <1>3, ModulusPositive DEF Counts
    <2>3. tokens + proc[p].delta < Modulus
      BY <1>3, <1>8, <2>1, <2>2, Bounded, Terms, ModulusPositive
    <2>4. tokens' = tokens + proc[p].delta
      BY <1>2, <1>3, <2>2, <2>3, NoWrap, Terms
    <2> QED
      BY <1>1, <1>3, <1>8, <2>1, <2>2, <2>4, Terms DEF TokensConserved, Outstanding
  <1>10. notify.found \in Nat /\ tokens \in Nat /\ tokens' \in Nat
    BY <1>3, <1>5, ModulusPositive DEF TypeOK, Counts
  <1> QED
    BY <1>1, <1>6, <1>9, <1>10 DEF IndInv, Flow

\* The goroutine is done with the contact.
LEMMA UnblockInd ==
    ASSUME IndInv, NEW p \in Processors, NotifyUnblocked(p) PROVE IndInv'
  <1>1. UNCHANGED <<installed, inbox, acceptCount, processedCount, base, hand, counting, up, down, tokens,
                    waiting, notices, notify, short, created, locals, restarts>>
    BY Zenon DEF NotifyUnblocked, clientVars, bounds
  <1>2. proc[p].pc = "check" /\ proc' = [proc EXCEPT ![p] = Free] /\ localNotices' \in BOOLEAN
    BY Zenon DEF NotifyUnblocked
  <1>3. TypeOK
    BY Zenon DEF IndInv
  <1>4. Free \in [pc : {"free", "add", "check"}, delta : Counts, blocked : BOOLEAN] /\ Free.pc = "free"
    BY ModulusPositive DEF Free, Counts
  <1>5. /\ proc' \in [Processors -> [pc : {"free", "add", "check"}, delta : Counts, blocked : BOOLEAN]]
        /\ proc'[p] = Free /\ \A q \in Processors \ {p} : proc'[q] = proc[q]
    BY <1>2, <1>3, <1>4, Zenon DEF TypeOK
  <1>6. TypeOK'
    BY <1>1, <1>2, <1>3, <1>5, Zenon DEF TypeOK
  <1>7. Granted' = Granted
    BY <1>2, <1>4, <1>5, Zenon DEF Granted
  <1>8. TokensConserved' = TokensConserved
    BY <1>1, <1>7, Zenon DEF TokensConserved, Outstanding
  <1> QED
    BY <1>1, <1>6, <1>8, Zenon DEF IndInv, Flow

\* The least of three numbers.
LEMMA MinThree ==
    ASSUME NEW a \in Nat, NEW b \in Nat, NEW c \in Nat
    PROVE  LET n == Min({a, b, c}) IN n \in Nat /\ n <= a /\ n <= b
  <1>1. \E x \in {a, b, c} : \A y \in {a, b, c} : x <= y
    OBVIOUS
  <1>2. Min({a, b, c}) \in {a, b, c} /\ \A y \in {a, b, c} : Min({a, b, c}) <= y
    BY <1>1, Zenon DEF Min
  <1> QED
    BY <1>2, Zenon

\* A search finds no more messages than it has read tokens.
LEMMA FindInd == ASSUME IndInv, FindMessages PROVE IndInv'
  <1> DEFINE n == Min({tokens, waiting, FindLimit})
  <1>1. UNCHANGED <<installed, inbox, acceptCount, processedCount, base, hand, counting, up, down, tokens,
                    notices, localNotices, proc, short, created, locals, restarts>>
    BY Zenon DEF FindMessages, clientVars, bounds
  <1>2. waiting' = waiting - n /\ notify' = [pc |-> "subtract", found |-> n]
    BY Zenon DEF FindMessages
  <1>3. TypeOK /\ tokens \in Counts /\ waiting \in Nat
    BY Zenon DEF IndInv, TypeOK
  <1>4. n \in Nat /\ n <= tokens /\ n <= waiting
    BY <1>3, CountsNat, FlowAssumption, MinThree, Zenon
  <1> HIDE DEF n
  <1>5. waiting' \in Nat /\ n \in Counts
    BY <1>2, <1>3, <1>4, ModulusPositive DEF Counts
  <1>6. TypeOK'
    BY <1>1, <1>2, <1>3, <1>5, Zenon DEF TypeOK
  <1>7. TokensConserved' = TokensConserved
    BY <1>1, Zenon DEF TokensConserved, Outstanding, Granted
  <1>8. notify'.found = n
    BY <1>2, Zenon
  <1> QED
    BY <1>1, <1>4, <1>6, <1>7, <1>8, Zenon DEF IndInv, Flow

\* They are still there when they are taken away.
LEMMA SubtractInd == ASSUME IndInv, SubtractMessageTokens PROVE IndInv'
  <1> DEFINE n == notify.found
  <1>1. UNCHANGED <<installed, inbox, acceptCount, processedCount, base, hand, counting, up, waiting,
                    notices, localNotices, proc, created, locals, restarts>>
    BY Zenon DEF SubtractMessageTokens, clientVars, bounds
  <1>2. /\ notify.pc = "subtract"
        /\ IF n > tokens THEN short' = TRUE /\ UNCHANGED tokens
           ELSE tokens' = tokens - n /\ UNCHANGED short
        /\ down' = IF n > 0 THEN Append(down, n) ELSE down
        /\ notify' = [pc |-> IF n = FindLimit THEN "find" ELSE "wait", found |-> 0]
    BY Zenon DEF SubtractMessageTokens
  <1>3. TypeOK /\ n \in Counts /\ tokens \in Counts /\ down \in Seq(Counts) /\ short \in BOOLEAN
    BY Zenon DEF IndInv, TypeOK
  <1> HIDE DEF n
  <1>4. n \in Nat /\ tokens \in Nat /\ 0 \in Counts
    BY <1>3, CountsNat, ModulusPositive DEF Counts
  <1>5. tokens' \in Counts
    BY <1>2, <1>3, <1>4, ModulusPositive DEF Counts
  <1>6. down' \in Seq(Counts) /\ Sum(down') = Sum(down) + n
    <2>1. CASE n > 0
      BY <1>2, <1>3, <2>1, SumAppend
    <2>2. CASE n = 0
      BY <1>2, <1>3, <2>2, Terms
    <2> QED
      BY <1>4, <2>1, <2>2
  <1>7. short' \in BOOLEAN
    BY <1>2, <1>3, Zenon
  <1>8. notify' \in [pc : {"wait", "find", "subtract"}, found : Counts] /\ notify'.pc # "subtract"
    BY <1>2, <1>4, Zenon
  <1>9. TypeOK'
    BY <1>1, <1>3, <1>5, <1>6, <1>7, <1>8, Zenon DEF TypeOK
  <1>10. ASSUME restarts = 0 PROVE ~short' /\ TokensConserved'
    <2>1. base \in Counts /\ TokensConserved /\ ~short /\ n <= tokens
      BY <1>2, <1>10, Zenon DEF IndInv, Flow, n
    <2>2. tokens' = tokens - n /\ short' = short
      BY <1>2, <1>4, <2>1
    <2>3. Granted' = Granted
      BY <1>1, Zenon DEF Granted
    <2> QED
      <3>1. /\ Sum(up) \in Nat /\ Sum(down) \in Nat /\ Sum(Granted) \in Nat /\ tokens \in Nat
            /\ hand \in Nat /\ inbox \in Nat /\ Minus(processedCount, base) \in Nat
        BY <1>3, <2>1, Terms, Zenon
      <3>2. /\ UNCHANGED <<processedCount, base, up, hand, inbox, locals>>
            /\ Granted' = Granted /\ tokens' = tokens - n /\ Sum(down') = Sum(down) + n
        BY <1>1, <1>6, <2>2, <2>3, Zenon
      <3>3. TokensConserved'
        BY <1>4, <2>1, <3>1, <3>2 DEF TokensConserved, Outstanding
      <3> QED
        BY <2>1, <2>2, <3>3, Zenon
  <1> QED
    BY <1>1, <1>8, <1>9, <1>10, Zenon DEF IndInv, Flow

-----------------------------------------------------------------------------

\* One step of any kind.
LEMMA NextInd == IndInv /\ [Next]_vars => IndInv'
  <1> SUFFICES ASSUME IndInv, [Next]_vars PROVE IndInv'
    BY Zenon
  <1>1. CASE Client
    BY <1>1, SendContactInd, ReceiveInd, ProcessInd, RestartInd, Zenon DEF Client
  <1>2. CASE Server
    BY <1>2, ProcessContactInd, AddTokensInd, UnblockInd, WakeInd, FindInd, SubtractInd, Zenon DEF Server
  <1>3. CASE NewMessage \/ LocalMessage \/ RestartBegins
    BY <1>3, WakeInd, LocalInd, RestartInd, Zenon
  <1>4. CASE UNCHANGED vars
    <2>1. TypeOK' /\ TokensConserved' = TokensConserved
      BY <1>4, Zenon DEF vars, IndInv, TypeOK, TokensConserved, Outstanding, Granted
    <2> QED
      BY <1>4, <2>1, Zenon DEF vars, IndInv, Flow
  <1>5. Rest => UNCHANGED vars
    BY Zenon DEF Rest
  <1> QED
    BY <1>1, <1>2, <1>3, <1>4, <1>5, Zenon DEF Next

\* The invariant holds in every state.
THEOREM Inductive == Spec => []IndInv
  BY InitInd, NextInd, PTL DEF Spec

\* The model is well typed.
THEOREM TypeCorrect == Spec => []TypeOK
  <1>1. IndInv => TypeOK
    BY Zenon DEF IndInv
  <1> QED
    BY <1>1, Inductive, PTL

\* SubtractMessageTokens never finds fewer tokens than findMessagesForClient read,
\* whatever contacts are processed in between, and no token is made or lost.
THEOREM ServerNeverShort == Spec => []NeverShort
  <1>1. IndInv => NeverShort
    BY Zenon DEF IndInv, Flow, NeverShort
  <1> QED
    BY <1>1, Inductive, PTL

=============================================================================
