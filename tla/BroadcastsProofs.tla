-------------------------- MODULE BroadcastsProofs --------------------------
(***************************************************************************)
(* Proofs that the books of a broadcast are exact, that it reaches no      *)
(* client twice and nobody once it is disabled, and how far it can go      *)
(* beyond its limit, for any servers, clients, limits and number of        *)
(* allocations.  In this order: sums and the inductive invariant; the      *)
(* steps that only read; the steps in which managers create bInfos, make   *)
(* them current, and lose or give them up; and the saving of a message,    *)
(* cleanup and disabling, with the theorems.                               *)
(***************************************************************************)
EXTENDS Broadcasts, FiniteSetTheorems, TLAPS

-----------------------------------------------------------------------------
(* Sums. *)

\* What the units are: each element of S holds the units 1 to f[i].
LEMMA UnitsMember ==
    ASSUME NEW f, NEW S, NEW u
    PROVE  u \in Units(f, S) <=> \E i \in S : \E k \in 1..f[i] : u = <<i, k>>
  BY DEF Units

\* The units of one element.
LEMMA UnitsOfOne ==
    ASSUME NEW i, NEW n \in Nat
    PROVE  IsFiniteSet({i} \X (1..n)) /\ Cardinality({i} \X (1..n)) = n
<1>1. IsFiniteSet({i}) /\ Cardinality({i}) = 1
  BY FS_Singleton, Zenon
<1>2. IsFiniteSet(1..n) /\ Cardinality(1..n) = n
  BY FS_Interval
<1>3. /\ IsFiniteSet({i} \X (1..n))
      /\ Cardinality({i} \X (1..n)) = Cardinality({i}) * Cardinality(1..n)
  BY <1>1, <1>2, FS_Product, Zenon
<1> QED
  BY <1>1, <1>2, <1>3

\* The elements of a finite set hold finitely many units, if each of them does.
LEMMA UnitsFinite ==
    ASSUME NEW f, NEW S, IsFiniteSet(S), \A i \in S : f[i] \in Nat
    PROVE  IsFiniteSet(Units(f, S)) /\ Total(f, S) \in Nat
<1> DEFINE Own(i) == {i} \X (1..f[i])
           T == {Own(i) : i \in S}
<1>1. IsFiniteSet(T)
  <2> DEFINE g == [i \in S |-> Own(i)]
  <2>1. g \in Surjection(S, T)
    BY Zenon DEF Surjection
  <2> QED
    BY <2>1, FS_Surjection, Zenon
<1>2. \A U \in T : IsFiniteSet(U)
  <2>1. \A i \in S : IsFiniteSet(Own(i))
    BY UnitsOfOne, Zenon
  <2> QED
    BY <2>1, Zenon
<1>3. Units(f, S) = UNION T
  BY Zenon DEF Units
<1>4. IsFiniteSet(Units(f, S))
  BY <1>1, <1>2, <1>3, FS_UNION, Zenon
<1> QED
  BY <1>4, FS_CardinalityType, Zenon DEF Total

\* The size of a new allocation: nothing if nothing is left, otherwise something
\* and no more than is left.
LEMMA AllocationSize ==
    ASSUME NEW limit \in Nat, NEW allocated \in Nat, NEW sent \in Nat
    PROVE  LET size == ComputeBroadcastAllocation(limit, allocated, sent) IN
           /\ size \in Nat
           /\ size # 0 => /\ sent < limit
                          /\ allocated + size <= limit
           /\ size <= limit
<1> DEFINE a == IF sent > allocated THEN sent ELSE allocated
           rest == limit - a
           share == rest \div AllocDen
<1>1. AllocDen \in Nat /\ AllocDen >= 1
  BY BroadcastsAssumption
<1>2. a \in Nat /\ a >= sent /\ a >= allocated /\ rest \in Int
  OBVIOUS
<1>3. rest >= 0 => share \in Nat /\ share <= rest
  <2> HIDE DEF rest
  <2> QED
    BY <1>1, <1>2
<1> HIDE DEF share
<1>4. ComputeBroadcastAllocation(limit, allocated, sent) =
        IF a > limit THEN 0
        ELSE IF share = 0 THEN (IF rest = 0 THEN 0 ELSE 1)
        ELSE share
  BY Zenon DEF ComputeBroadcastAllocation, share
<1> QED
  BY <1>2, <1>3, <1>4

\* One more element adds what it holds.
LEMMA TotalAdd ==
    ASSUME NEW f, NEW S, IsFiniteSet(S), NEW j, j \notin S, f[j] \in Nat,
           \A i \in S : f[i] \in Nat
    PROVE  Total(f, S \cup {j}) = Total(f, S) + f[j]
<1> DEFINE Own == {j} \X (1..f[j])
<1>1. Units(f, S \cup {j}) = Units(f, S) \cup Own
  BY Zenon DEF Units
<1>2. Units(f, S) \cap Own = {}
  BY DEF Units
<1>3. IsFiniteSet(Units(f, S)) /\ Cardinality(Units(f, S)) \in Nat
  BY UnitsFinite, Zenon DEF Total
<1>4. IsFiniteSet(Own) /\ Cardinality(Own) = f[j]
  BY UnitsOfOne, Zenon
<1> HIDE DEF Own
<1>5. Cardinality(Units(f, S) \cup Own) =
        Cardinality(Units(f, S)) + Cardinality(Own) - Cardinality(Units(f, S) \cap Own)
  BY <1>3, <1>4, FS_Union, Zenon
<1>6. Cardinality(Units(f, S) \cap Own) = 0
  BY <1>2, FS_EmptySet, Zenon
<1>7. Cardinality(Units(f, S) \cup Own) = Cardinality(Units(f, S)) + f[j]
  BY <1>3, <1>4, <1>5, <1>6
<1> QED
  BY <1>1, <1>7, Zenon DEF Total

\* ... and one less takes it away.
LEMMA TotalRemove ==
    ASSUME NEW f, NEW S, IsFiniteSet(S), NEW j \in S, \A i \in S : f[i] \in Nat
    PROVE  Total(f, S \ {j}) = Total(f, S) - f[j]
<1> DEFINE R == S \ {j}
<1>1. IsFiniteSet(R) /\ j \notin R /\ R \cup {j} = S
  BY FS_RemoveElement, Zenon
<1>2. \A i \in R : f[i] \in Nat
  BY Zenon
<1> HIDE DEF R
<1>3. Total(f, R \cup {j}) = Total(f, R) + f[j] /\ Total(f, R) \in Nat
  BY <1>1, <1>2, TotalAdd, UnitsFinite, Zenon
<1>4. Total(f, S) = Total(f, R) + f[j]
  BY <1>1, <1>3, Zenon
<1>5. Total(f, R) = Total(f, S) - f[j]
  BY <1>3, <1>4
<1> QED
  BY <1>5, Zenon DEF R

\* Only the values on S count.
LEMMA TotalSame ==
    ASSUME NEW f, NEW g, NEW S, \A i \in S : f[i] = g[i]
    PROVE  Total(f, S) = Total(g, S)
<1>1. Units(f, S) = Units(g, S)
  BY Zenon DEF Units
<1> QED
  BY <1>1, Zenon DEF Total

\* A sum is at most another that has at least as much for each element that holds
\* anything.
LEMMA TotalWithin ==
    ASSUME NEW f, NEW g, NEW S, NEW T, IsFiniteSet(T),
           \A i \in S : f[i] \in Nat /\ (f[i] = 0 \/ (i \in T /\ f[i] <= g[i])),
           \A i \in T : g[i] \in Nat
    PROVE  Total(f, S) <= Total(g, T)
<1>1. Units(f, S) \subseteq Units(g, T)
  <2> SUFFICES ASSUME NEW i \in S, NEW k \in 1..f[i] PROVE <<i, k>> \in Units(g, T)
    BY UnitsMember
  <2>1. i \in T /\ k \in 1..g[i]
    OBVIOUS
  <2> QED
    BY <2>1, UnitsMember, Zenon
<1>2. IsFiniteSet(Units(g, T))
  BY UnitsFinite, Zenon
<1> QED
  BY <1>1, <1>2, FS_Subset, Zenon DEF Total

\* The sum is monotone in the values and in the set.
LEMMA TotalMonotone ==
    ASSUME NEW f, NEW g, NEW S, NEW T, IsFiniteSet(T), S \subseteq T,
           \A i \in S : f[i] \in Nat /\ f[i] <= g[i],
           \A i \in T : g[i] \in Nat
    PROVE  Total(f, S) <= Total(g, T)
<1>1. \A i \in S : f[i] \in Nat /\ (f[i] = 0 \/ (i \in T /\ f[i] <= g[i]))
  BY Zenon
<1> QED
  BY <1>1, TotalWithin, Zenon

\* Nobody holds nothing.
LEMMA TotalOfNone ==
    ASSUME NEW f
    PROVE  Total(f, {}) = 0
<1>1. Units(f, {}) = {}
  BY Zenon DEF Units
<1> QED
  BY <1>1, FS_EmptySet, Zenon DEF Total

\* Changing the value of one element changes the sum by the difference.
LEMMA TotalChange ==
    ASSUME NEW f, NEW g, NEW S, IsFiniteSet(S), NEW j \in S,
           \A i \in S : f[i] \in Nat /\ g[i] \in Nat,
           \A i \in S \ {j} : f[i] = g[i]
    PROVE  Total(g, S) - Total(f, S) = g[j] - f[j]
<1>1. Total(f, S \ {j}) = Total(f, S) - f[j] /\ Total(g, S \ {j}) = Total(g, S) - g[j]
  BY TotalRemove, Zenon
<1>2. Total(f, S \ {j}) = Total(g, S \ {j})
  BY TotalSame, Zenon
<1>3. Total(f, S) \in Nat /\ Total(g, S) \in Nat
  BY UnitsFinite, Zenon
<1> QED
  BY <1>1, <1>2, <1>3

-----------------------------------------------------------------------------
(* The inductive invariant. *)

\* The bInfos of a server's manager are its own: each was created, is current,
\* new or to be cleaned up, and no other server has it.
Own(s) == ({info[s], fresh[s]} \ {None}) \cup dead[s]

Owners ==
    /\ \A s \in Servers : \A i \in Own(s) : i <= made
    /\ \A s, t \in Servers : s # t => Own(s) \cap Own(t) = {}
    /\ \A s \in Servers :
        /\ info[s] \notin dead[s] /\ fresh[s] \notin dead[s]
        /\ info[s] # None => info[s] # fresh[s]
        /\ phase[s] # "cleaning" => dead[s] = {}
        /\ phase[s] # "created" => fresh[s] = None

\* A contact uses a bInfo that is current or waits for its cleanup.
UsesTracked ==
    \A c \in Clients, s \in Servers :
        /\ pc[<<c, s>>] = "using" <=> uses[<<c, s>>] # None
        /\ uses[<<c, s>>] # None => uses[<<c, s>>] \in {info[s]} \cup dead[s]

\* Nothing was sent under a bInfo that is not current yet.
Unsent(i) == local[i] = 0 /\ alloc[i].sent = 0

FreshUnsent ==
    /\ \A i \in Infos : i > made => Unsent(i) /\ ~alloc[i].present
    /\ \A s \in Servers : fresh[s] # None => Unsent(fresh[s])

\* Allocations are there for a limited broadcast that is not disabled, and what
\* was sent under one is within its limit.
Limited ==
    /\ \A i \in Infos : alloc[i].limit = BroadcastUnlimited => granted = BroadcastUnlimited
    /\ granted = BroadcastUnlimited \/ bc.limit = 0 => Present = {}
    /\ \A i \in Present : alloc[i].sent <= alloc[i].limit

\* A manager's count includes those who are using the bInfo.
UsesCounted == \A i \in Infos : Cardinality(InUse(i)) <= local[i]

\* What the managers of an unlimited broadcast have counted and not yet recorded.
Live == {i \in Infos : \E s \in Servers : i = info[s] \/ i \in dead[s]}
Spent == [i \in Infos |-> local[i] - Cardinality(InUse(i))]

UnlimitedAccounted ==
    granted = BroadcastUnlimited => bc.sent + Total(Spent, Live) <= Cardinality(sentTo)

\* Sent and allocated messages together stay below twice the limit.
Budget ==
    granted # BroadcastUnlimited => bc.allocated <= granted /\ bc.sent + bc.allocated < 2 * granted

SentOnce == \A c \in Clients : msgs[c] = IF c \in sentTo THEN 1 ELSE 0

IndInv ==
    /\ TypeOK
    /\ Owners
    /\ UsesTracked
    /\ FreshUnsent
    /\ Limited
    /\ UsesCounted
    /\ LocalCountExact
    /\ AllocatedIsSum
    /\ SentAccounted
    /\ UnlimitedAccounted
    /\ Budget
    /\ SentOnce

-----------------------------------------------------------------------------

\* None is no bInfo, and bInfos are numbers.
LEMMA InfoFacts ==
    /\ Infos \subseteq Nat /\ None \notin Infos /\ IsFiniteSet(Infos)
    /\ \A i \in Infos : i <= MaxInfos
    /\ MaxInfos \in Nat
  BY BroadcastsAssumption, FS_Interval DEF Infos

\* Finitely many contacts can use a bInfo.
LEMMA InUseFinite ==
    ASSUME NEW i
    PROVE  /\ IsFiniteSet(InUse(i)) /\ Cardinality(InUse(i)) \in Nat
           /\ IsFiniteSet(InUse(i)') /\ Cardinality(InUse(i)') \in Nat
<1>1. IsFiniteSet(Contacts)
  BY BroadcastsAssumption, FS_Product, Zenon DEF Contacts
<1>2. InUse(i) \subseteq Contacts /\ InUse(i)' \subseteq Contacts
  BY Zenon DEF InUse
<1>3. IsFiniteSet(InUse(i)) /\ IsFiniteSet(InUse(i)')
  BY <1>1, <1>2, FS_Subset, Zenon
<1> QED
  BY <1>3, FS_CardinalityType, Zenon

\* The totals of the datastore are numbers.
LEMMA TotalsType ==
    ASSUME TypeOK
    PROVE  /\ IsFiniteSet(Present)
           /\ TotalSent \in Nat /\ TotalLimit \in Nat
           /\ IsFiniteSet(sentTo) /\ Cardinality(sentTo) \in Nat
<1>1. Present \subseteq Infos
  BY Zenon DEF Present
<1>2. IsFiniteSet(Present)
  BY <1>1, InfoFacts, FS_Subset, Zenon
<1>3. \A i \in Present : /\ [j \in Infos |-> alloc[j].sent][i] \in Nat
                         /\ [j \in Infos |-> alloc[j].limit][i] \in Nat
  BY <1>1, Zenon DEF TypeOK
<1>4. TotalSent \in Nat /\ TotalLimit \in Nat
  BY <1>2, <1>3, UnitsFinite, Zenon DEF TotalSent, TotalLimit
<1>5. IsFiniteSet(sentTo)
  BY BroadcastsAssumption, FS_Subset, Zenon DEF TypeOK
<1> QED
  BY <1>2, <1>4, <1>5, FS_CardinalityType, Zenon

\* What a manager has counted and sent is a number.
LEMMA SpentType ==
    ASSUME TypeOK, UsesCounted
    PROVE  /\ \A i \in Infos : Spent[i] \in Nat
           /\ IsFiniteSet(Live) /\ Live \subseteq Infos
           /\ Total(Spent, Live) \in Nat
<1>1. \A i \in Infos : Spent[i] \in Nat
  BY InUseFinite DEF Spent, UsesCounted, TypeOK
<1>2. Live \subseteq Infos
  BY Zenon DEF Live
<1>3. IsFiniteSet(Live)
  BY <1>2, InfoFacts, FS_Subset, Zenon
<1> QED
  BY <1>1, <1>2, <1>3, UnitsFinite, Zenon

\* In the beginning nothing is allocated, sent or used.
LEMMA InitInd == Init => IndInv
<1> SUFFICES ASSUME Init PROVE IndInv
  BY Zenon
<1> USE InfoFacts
<1>1. TypeOK
  BY BroadcastsAssumption DEF Init, TypeOK
<1>2. Owners /\ UsesTracked /\ FreshUnsent /\ SentOnce
  BY Zenon DEF Init, Owners, Own, UsesTracked, FreshUnsent, Unsent, SentOnce, Contacts
<1>3. Present = {}
  BY Zenon DEF Init, Present
<1>4. Limited
  <2>1. 0 # BroadcastUnlimited
    BY BroadcastsAssumption, Zenon
  <2> QED
    BY <1>3, <2>1, Zenon DEF Init, Limited
<1>5. \A i \in Infos : InUse(i) = {}
  BY Zenon DEF Init, InUse
<1>6. UsesCounted
  <2>1. \A i \in Infos : Cardinality(InUse(i)) = 0
    BY <1>5, FS_EmptySet, Zenon
  <2> QED
    BY <2>1 DEF UsesCounted, Init
<1>7. LocalCountExact
  BY Zenon DEF LocalCountExact, Init
<1>8. TotalSent = 0 /\ TotalLimit = 0
  BY <1>3, TotalOfNone, Zenon DEF TotalSent, TotalLimit
<1>9. Cardinality(sentTo) = 0
  BY FS_EmptySet, Zenon DEF Init
<1>10. AllocatedIsSum /\ SentAccounted
  BY <1>8, <1>9 DEF Init, AllocatedIsSum, SentAccounted
<1>11. UnlimitedAccounted
  <2>1. Live = {}
    BY Zenon DEF Live, Init
  <2> QED
    BY <1>9, <2>1, TotalOfNone DEF Init, UnlimitedAccounted
<1>12. Budget
  <2>1. granted \in Nat /\ granted >= 1
    BY BroadcastsAssumption DEF Init
  <2> QED
    BY <2>1 DEF Init, Budget
<1> QED
  BY <1>1, <1>2, <1>4, <1>6, <1>7, <1>10, <1>11, <1>12, Zenon DEF IndInv

\* Steps that only move a loop or a contact forward.
LEMMA QuietInd ==
    ASSUME IndInv, TypeOK',
           UNCHANGED <<tables, local, made, info, fresh, dead, uses>>,
           \A s \in Servers : /\ phase'[s] # "cleaning" => dead[s] = {}
                              /\ phase'[s] # "created" => fresh[s] = None,
           \A c \in Clients, s \in Servers : pc'[<<c, s>>] = "using" <=> pc[<<c, s>>] = "using"
    PROVE  IndInv'
<1> USE DEF IndInv, tables
<1>1. Owners'
  BY Zenon DEF Owners, Own
<1>2. UsesTracked'
  <2> SUFFICES ASSUME NEW c \in Clients, NEW s \in Servers
               PROVE  /\ pc'[<<c, s>>] = "using" <=> uses[<<c, s>>] # None
                      /\ uses[<<c, s>>] # None => uses[<<c, s>>] \in {info[s]} \cup dead[s]
    BY Zenon DEF UsesTracked
  <2> QED
    BY Zenon DEF UsesTracked
<1>3. FreshUnsent' /\ SentOnce' /\ Budget'
  BY Zenon DEF FreshUnsent, Unsent, SentOnce, Budget
<1>4. Limited'
  BY Zenon DEF Limited, Present
<1>5. UsesCounted' /\ LocalCountExact'
  BY Zenon DEF UsesCounted, LocalCountExact, InUse
<1>6. AllocatedIsSum' /\ SentAccounted'
  BY Zenon DEF AllocatedIsSum, SentAccounted, TotalSent, TotalLimit, Present
<1>7. UnlimitedAccounted'
  BY Zenon DEF UnlimitedAccounted, Spent, Live, InUse
<1> QED
  BY <1>1, <1>2, <1>3, <1>4, <1>5, <1>6, <1>7, Zenon

\* The reading steps of contacts and refreshes, and the passing of time.
LEMMA ControlInd ==
    ASSUME IndInv,
           \/ \E c \in Clients, s \in Servers : ListSentBroadcasts(c, s)
           \/ \E s \in Servers : \/ findCurrentAllocs(s) \/ ListActiveBroadcasts(s)
                                 \/ RefreshFails(s) \/ RefreshDone(s)
           \/ \E i \in Infos : Tick(i)
    PROVE  IndInv'
<1> USE DEF IndInv, tables, contacts, refresh
<1>1. CASE \E c \in Clients, s \in Servers : ListSentBroadcasts(c, s)
  <2>1. PICK c \in Clients, s \in Servers : ListSentBroadcasts(c, s)
    BY <1>1, Zenon
  <2>2. TypeOK'
    BY <2>1, Zenon DEF ListSentBroadcasts, TypeOK
  <2>3. \A d \in Clients, t \in Servers : pc'[<<d, t>>] = "using" <=> pc[<<d, t>>] = "using"
    BY <2>1, Zenon DEF ListSentBroadcasts, TypeOK, Contacts
  <2>4. UNCHANGED <<tables, local, made, info, fresh, dead, uses>> /\ phase' = phase
    BY <2>1, Zenon DEF ListSentBroadcasts
  <2> QED
    BY <2>2, <2>3, <2>4, QuietInd, Zenon DEF Owners
<1>2. CASE \E s \in Servers : \/ findCurrentAllocs(s) \/ ListActiveBroadcasts(s)
                              \/ RefreshFails(s) \/ RefreshDone(s)
  <2>1. PICK s \in Servers : \/ findCurrentAllocs(s) \/ ListActiveBroadcasts(s)
                             \/ RefreshFails(s) \/ RefreshDone(s)
    BY <1>2, Zenon
  <2>2. TypeOK'
    <3>1. CASE findCurrentAllocs(s)
      BY <3>1, Zenon DEF findCurrentAllocs, TypeOK
    <3>2. CASE ListActiveBroadcasts(s)
      BY <3>2, Zenon DEF ListActiveBroadcasts, TypeOK
    <3>3. CASE RefreshFails(s)
      BY <3>3, ZenonT(30) DEF RefreshFails, TypeOK
    <3>4. CASE RefreshDone(s)
      BY <3>4, Zenon DEF RefreshDone, TypeOK
    <3> QED
      BY <2>1, <3>1, <3>2, <3>3, <3>4, Zenon
  <2>3. UNCHANGED <<tables, local, made, info, fresh, dead, uses>> /\ pc' = pc
    BY <2>1, Zenon DEF findCurrentAllocs, ListActiveBroadcasts, RefreshFails, RefreshDone
  <2>4. /\ phase'[s] # "cleaning" => dead[s] = {}
        /\ phase'[s] # "created" => fresh[s] = None
        /\ \A t \in Servers \ {s} : phase'[t] = phase[t]
    BY <2>1, Zenon DEF findCurrentAllocs, ListActiveBroadcasts, RefreshFails, RefreshDone, Owners, TypeOK
  <2> QED
    BY <2>2, <2>3, <2>4, QuietInd, Zenon DEF Owners
<1>3. CASE \E i \in Infos : Tick(i)
  <2>1. UNCHANGED <<tables, local, made, info, fresh, dead, uses>> /\ pc' = pc /\ phase' = phase
    BY <1>3, Zenon DEF Tick
  <2>2. TypeOK'
    <3>1. PICK i \in Infos, e \in {"near", "past"} : expiry' = [expiry EXCEPT ![i] = e]
      BY <1>3, Zenon DEF Tick
    <3>2. UNCHANGED <<tables, local, made, info, refresh, contacts>>
      BY <1>3, Zenon DEF Tick
    <3> QED
      BY <3>1, <3>2, Zenon DEF TypeOK
  <2> QED
    BY <2>1, <2>2, QuietInd, Zenon DEF Owners
<1> QED
  BY <1>1, <1>2, <1>3, Zenon

-----------------------------------------------------------------------------

\* A contact takes a bInfo ...
LEMMA InUseAdd ==
    ASSUME TypeOK, NEW c \in Clients, NEW s \in Servers, NEW i \in Infos,
           uses[<<c, s>>] = None, uses' = [uses EXCEPT ![<<c, s>>] = i]
    PROVE  \A j \in Infos : Cardinality(InUse(j)') =
                              IF j = i THEN Cardinality(InUse(j)) + 1 ELSE Cardinality(InUse(j))
<1>1. <<c, s>> \notin InUse(i)
  BY InfoFacts, Zenon DEF InUse
<1>2. InUse(i)' = InUse(i) \cup {<<c, s>>}
  BY DEF InUse, TypeOK, Contacts
<1>3. \A j \in Infos \ {i} : InUse(j)' = InUse(j)
  <2>1. \A k \in Contacts : uses'[k] = uses[k] \/ {uses[k], uses'[k]} = {i, None}
    BY Zenon DEF TypeOK
  <2> QED
    BY <2>1, InfoFacts, Zenon DEF InUse
<1>4. Cardinality(InUse(i) \cup {<<c, s>>}) = Cardinality(InUse(i)) + 1
  BY <1>1, InUseFinite, FS_AddElement, Zenon
<1> QED
  BY <1>2, <1>3, <1>4, Zenon

\* ... and releases it.
LEMMA InUseDrop ==
    ASSUME TypeOK, NEW c \in Clients, NEW s \in Servers, NEW i \in Infos,
           uses[<<c, s>>] = i, uses' = [uses EXCEPT ![<<c, s>>] = None]
    PROVE  \A j \in Infos : Cardinality(InUse(j)') =
                              IF j = i THEN Cardinality(InUse(j)) - 1 ELSE Cardinality(InUse(j))
<1>1. <<c, s>> \in InUse(i)
  BY Zenon DEF InUse, Contacts
<1>2. InUse(i)' = InUse(i) \ {<<c, s>>}
  BY InfoFacts, Zenon DEF InUse, TypeOK, Contacts
<1>3. \A j \in Infos \ {i} : InUse(j)' = InUse(j)
  <2>1. \A k \in Contacts : uses'[k] = uses[k] \/ {uses[k], uses'[k]} = {i, None}
    BY Zenon DEF TypeOK
  <2> QED
    BY <2>1, InfoFacts, Zenon DEF InUse
<1>4. Cardinality(InUse(i) \ {<<c, s>>}) = Cardinality(InUse(i)) - 1
  BY <1>1, InUseFinite, FS_RemoveElement, Zenon
<1> QED
  BY <1>2, <1>3, <1>4, Zenon

\* A bInfo that is current or dead is not a new one of any server.
LEMMA LiveNotFresh ==
    ASSUME TypeOK, Owners, NEW s \in Servers, NEW i \in Infos, i = info[s] \/ i \in dead[s]
    PROVE  /\ i <= made
           /\ \A t \in Servers : fresh[t] # i
           /\ \A t \in Servers \ {s} : i # info[t] /\ i \notin dead[t]
<1>1. i \in Own(s) /\ i # None
  BY InfoFacts, Zenon DEF Own
<1>2. i # fresh[s]
  BY <1>1, Zenon DEF Owners
<1>3. \A t \in Servers \ {s} : i \notin Own(t)
  BY <1>1, Zenon DEF Owners
<1> QED
  BY <1>1, <1>2, <1>3, Zenon DEF Own, Owners

\* A manager counts a contact and stops counting it together with its use of the
\* bInfo, so that what was spent under the bInfo stays the same.
LEMMA CountInd ==
    ASSUME IndInv, TypeOK', UsesTracked', NEW s \in Servers, NEW i \in Infos,
           i = info[s] \/ i \in dead[s],
           UNCHANGED <<tables, made, info, fresh, dead, phase>>,
           \A j \in Infos \ {i} : /\ local'[j] = local[j]
                                  /\ Cardinality(InUse(j)') = Cardinality(InUse(j)),
           local'[i] - Cardinality(InUse(i)') = local[i] - Cardinality(InUse(i))
    PROVE  IndInv'
<1> USE DEF IndInv, tables
<1>1. \A j \in Infos : /\ local[j] \in Nat /\ Cardinality(InUse(j)) \in Nat
                       /\ local'[j] \in Nat /\ Cardinality(InUse(j)') \in Nat
                       /\ local'[j] - Cardinality(InUse(j)') = local[j] - Cardinality(InUse(j))
  BY InUseFinite, Zenon DEF TypeOK
<1>2. Owners'
  BY Zenon DEF Owners, Own
<1>3. FreshUnsent'
  <2>1. i <= made /\ \A t \in Servers : fresh[t] # i
    BY LiveNotFresh, Zenon
  <2>2. \A t \in Servers : fresh[t] # None => fresh[t] \in Infos
    BY Zenon DEF TypeOK
  <2>3. made \in Nat /\ Infos \subseteq Nat
    BY InfoFacts DEF TypeOK
  <2> QED
    BY <1>1, <2>1, <2>2, <2>3 DEF FreshUnsent, Unsent
<1>4. SentOnce' /\ Budget'
  BY Zenon DEF SentOnce, Budget
<1>5. Limited'
  BY Zenon DEF Limited, Present
<1>6. UsesCounted'
  BY <1>1 DEF UsesCounted
<1>7. LocalCountExact'
  <2> SUFFICES ASSUME NEW t \in Servers, NEW j \in ({info[t]} \ {None}) \cup dead[t],
                      alloc[j].present
               PROVE  local'[j] = alloc[j].sent + Cardinality(InUse(j)')
    BY Zenon DEF LocalCountExact
  <2>1. j \in Infos /\ alloc[j].sent \in Nat
    BY DEF TypeOK
  <2>2. local[j] = alloc[j].sent + Cardinality(InUse(j))
    BY Zenon DEF LocalCountExact
  <2> QED
    BY <1>1, <2>1, <2>2
<1>8. AllocatedIsSum' /\ SentAccounted'
  BY Zenon DEF AllocatedIsSum, SentAccounted, TotalSent, TotalLimit, Present
<1>9. UnlimitedAccounted'
  <2>1. Spent' = Spent /\ Live' = Live
    BY <1>1, Zenon DEF Spent, Live
  <2> QED
    BY <2>1, Zenon DEF UnlimitedAccounted
<1> QED
  BY <1>2, <1>3, <1>4, <1>5, <1>6, <1>7, <1>8, <1>9, Zenon

\* A contact uses the current bInfo, or none.
LEMMA UseInfoInd ==
    ASSUME IndInv, NEW c \in Clients, NEW s \in Servers, UseInfo(c, s)
    PROVE  IndInv'
<1> USE DEF IndInv, tables, refresh
<1> DEFINE k == <<c, s>>
           usable == info[s] # None /\ expiry[info[s]] # "past" /\ HasRoom(info[s])
<1>1. k \in Contacts /\ pc[k] = "listed" /\ uses[k] = None
  BY Zenon DEF UseInfo, UsesTracked, Contacts
<1>2. UNCHANGED <<tables, expiry, made, info, fresh, dead, phase, keep, listed>>
  BY Zenon DEF UseInfo
<1>3. CASE ~usable
  <2>1. pc' = [pc EXCEPT ![k] = "idle"] /\ local' = local /\ uses' = uses
    BY <1>3, Zenon DEF UseInfo
  <2>2. TypeOK'
    BY <1>2, <2>1, Zenon DEF TypeOK
  <2>3. \A d \in Clients, t \in Servers : pc'[<<d, t>>] = "using" <=> pc[<<d, t>>] = "using"
    BY <1>1, <2>1, Zenon DEF TypeOK, Contacts
  <2>4. UNCHANGED <<tables, local, made, info, fresh, dead, uses>>
    BY <1>2, <2>1, Zenon
  <2> QED
    BY <1>2, <2>2, <2>3, <2>4, QuietInd, Zenon DEF Owners
<1>4. CASE usable
  <2>0. PICK i \in Infos : i = info[s] /\ i # None
    BY <1>4, Zenon DEF TypeOK
  <2>1. /\ pc' = [pc EXCEPT ![k] = "using"] /\ uses' = [uses EXCEPT ![k] = i]
        /\ local' = [local EXCEPT ![i] = @ + 1]
    BY <1>4, <2>0, Zenon DEF UseInfo
  <2>3. TypeOK'
    BY <1>1, <1>2, <2>1, <2>0 DEF TypeOK
  <2>4. UsesTracked'
    <3>1. \A d \in Clients, t \in Servers :
             IF <<d, t>> = k THEN d = c /\ t = s /\ pc'[<<d, t>>] = "using" /\ uses'[<<d, t>>] = i
             ELSE pc'[<<d, t>>] = pc[<<d, t>>] /\ uses'[<<d, t>>] = uses[<<d, t>>]
      BY <1>1, <2>1, Zenon DEF TypeOK, Contacts
    <3> SUFFICES ASSUME NEW d \in Clients, NEW t \in Servers
                 PROVE  /\ pc'[<<d, t>>] = "using" <=> uses'[<<d, t>>] # None
                        /\ uses'[<<d, t>>] # None => uses'[<<d, t>>] \in {info[t]} \cup dead[t]
      BY <1>2, Zenon DEF UsesTracked
    <3>2. CASE <<d, t>> = k
      BY <2>0, <3>1, <3>2, Zenon
    <3>3. CASE <<d, t>> # k
      BY <3>1, <3>3 DEF UsesTracked
    <3> QED
      BY <3>2, <3>3, Zenon
  <2>5. local'[i] = local[i] + 1 /\ local[i] \in Nat /\ \A j \in Infos \ {i} : local'[j] = local[j]
    BY <2>1, Zenon DEF TypeOK
  <2> HIDE DEF IndInv
  <2>6. \A j \in Infos : Cardinality(InUse(j)') =
                           IF j = i THEN Cardinality(InUse(j)) + 1 ELSE Cardinality(InUse(j))
    BY <1>1, <2>1, InUseAdd, Zenon DEF IndInv
  <2>7. local'[i] - Cardinality(InUse(i)') = local[i] - Cardinality(InUse(i))
    <3>1. Cardinality(InUse(i)') = Cardinality(InUse(i)) + 1
      BY <2>6, Zenon
    <3>2. Cardinality(InUse(i)) \in Nat
      BY InUseFinite, Zenon
    <3> QED
      BY <2>5, <3>1, <3>2
  <2>8. UNCHANGED <<tables, made, info, fresh, dead, phase>>
    BY <1>2, Zenon
  <2> QED
    BY <2>0, <2>3, <2>4, <2>5, <2>6, <2>7, <2>8, CountInd
<1> QED
  BY <1>3, <1>4, Zenon

\* What releasing a bInfo does.
LEMMA ReleaseFacts ==
    ASSUME IndInv, NEW c \in Clients, NEW s \in Servers, pc[<<c, s>>] = "using",
           Release(c, s), UNCHANGED <<info, dead>>
    PROVE  /\ uses[<<c, s>>] \in Infos
           /\ uses[<<c, s>>] = info[s] \/ uses[<<c, s>>] \in dead[s]
           /\ pc' \in [Contacts -> {"idle", "listed", "using"}]
           /\ uses' \in [Contacts -> Infos \cup {None}]
           /\ UsesTracked'
           /\ \A j \in Infos : Cardinality(InUse(j)') =
                IF j = uses[<<c, s>>] THEN Cardinality(InUse(j)) - 1 ELSE Cardinality(InUse(j))
<1> DEFINE k == <<c, s>>
           i == uses[k]
<1>1. k \in Contacts /\ i # None /\ i \in Infos
  BY Zenon DEF IndInv, UsesTracked, TypeOK, Contacts
<1>2. i = info[s] \/ i \in dead[s]
  BY <1>1, Zenon DEF IndInv, UsesTracked
<1>3. pc' = [pc EXCEPT ![k] = "idle"] /\ uses' = [uses EXCEPT ![k] = None]
  BY Zenon DEF Release
<1>4. /\ pc' \in [Contacts -> {"idle", "listed", "using"}]
      /\ uses' \in [Contacts -> Infos \cup {None}]
  BY <1>3, Zenon DEF IndInv, TypeOK
<1>5. UsesTracked'
  <2> SUFFICES ASSUME NEW d \in Clients, NEW t \in Servers
               PROVE  /\ pc'[<<d, t>>] = "using" <=> uses'[<<d, t>>] # None
                      /\ uses'[<<d, t>>] # None => uses'[<<d, t>>] \in {info[t]} \cup dead[t]
    BY Zenon DEF UsesTracked
  <2>1. <<d, t>> \in Contacts
    BY Zenon DEF Contacts
  <2>2. /\ pc'[<<d, t>>] = IF <<d, t>> = k THEN "idle" ELSE pc[<<d, t>>]
        /\ uses'[<<d, t>>] = IF <<d, t>> = k THEN None ELSE uses[<<d, t>>]
    BY <1>3, <2>1, Zenon DEF IndInv, TypeOK
  <2> QED
    BY <2>2, Zenon DEF IndInv, UsesTracked
<1>6. \A j \in Infos : Cardinality(InUse(j)') =
        IF j = i THEN Cardinality(InUse(j)) - 1 ELSE Cardinality(InUse(j))
  <2>1. TypeOK
    BY Zenon DEF IndInv
  <2> HIDE DEF i
  <2>2. uses[<<c, s>>] = i
    BY Zenon DEF i
  <2> QED
    BY <1>1, <1>3, <2>1, <2>2, InUseDrop, Zenon
<1> QED
  BY <1>1, <1>2, <1>4, <1>5, <1>6, Zenon

\* A save that fails takes its count back.
LEMMA SaveFailsInd ==
    ASSUME IndInv, NEW c \in Clients, NEW s \in Servers, SaveFails(c, s)
    PROVE  IndInv'
<1> USE DEF tables, refresh
<1>0. PICK i : i = uses[<<c, s>>]
  BY Zenon
<1>1. /\ pc[<<c, s>>] = "using" /\ Release(c, s)
      /\ UNCHANGED <<tables, expiry, made, info, fresh, dead, phase, keep, listed>>
      /\ local' = [local EXCEPT ![i] = @ - 1]
  BY <1>0, Zenon DEF SaveFails
<1>2. /\ i \in Infos /\ (i = info[s] \/ i \in dead[s])
      /\ pc' \in [Contacts -> {"idle", "listed", "using"}]
      /\ uses' \in [Contacts -> Infos \cup {None}]
      /\ UsesTracked'
      /\ \A j \in Infos : Cardinality(InUse(j)') =
           IF j = i THEN Cardinality(InUse(j)) - 1 ELSE Cardinality(InUse(j))
  BY <1>0, <1>1, ReleaseFacts, Zenon
<1>3. /\ local[i] \in Nat /\ Cardinality(InUse(i)) <= local[i]
      /\ Cardinality(InUse(i)) \in Nat /\ Cardinality(InUse(i)') \in Nat
  BY <1>2, InUseFinite, Zenon DEF IndInv, TypeOK, UsesCounted
<1>4. local[i] - 1 \in Nat
  BY <1>2, <1>3
<1>5. TypeOK'
  BY <1>1, <1>2, <1>4, Zenon DEF IndInv, TypeOK
<1>6. local'[i] = local[i] - 1 /\ \A j \in Infos \ {i} : local'[j] = local[j]
  BY <1>1, <1>2, Zenon DEF IndInv, TypeOK
<1>7. local'[i] - Cardinality(InUse(i)') = local[i] - Cardinality(InUse(i))
  <2>1. Cardinality(InUse(i)') = Cardinality(InUse(i)) - 1
    BY <1>2, Zenon
  <2>2. local'[i] = local[i] - 1
    BY <1>6, Zenon
  <2> QED
    BY <1>3, <2>1, <2>2, SMTT(20)
<1> HIDE DEF tables
<1>8. UNCHANGED <<tables, made, info, fresh, dead, phase>>
  BY <1>1, Zenon
<1> QED
  BY <1>2, <1>5, <1>6, <1>7, <1>8, CountInd, Zenon

-----------------------------------------------------------------------------
(* Creating, replacing and giving up bInfos. *)

\* A new bInfo gets a number of its own, and its allocation what is left over.
LEMMA CreateAllocationInd ==
    ASSUME IndInv, NEW s \in Servers, CreateAllocation(s)
    PROVE  IndInv'
<1> USE DEF contacts
<1>1. /\ phase[s] = "listed" /\ phase' = [phase EXCEPT ![s] = "created"]
      /\ granted' = granted /\ expiry' = expiry /\ sentTo' = sentTo /\ msgs' = msgs
      /\ local' = local /\ info' = info /\ keep' = keep /\ listed' = listed /\ dead' = dead
      /\ pc' = pc /\ uses' = uses
  BY Zenon DEF CreateAllocation
<1>2. /\ bc.limit \in {0, granted} /\ bc.sent \in Nat /\ bc.allocated \in Nat /\ bc.limit \in Nat
      /\ granted \in Nat /\ granted >= 1 /\ granted <= BroadcastUnlimited
      /\ BroadcastUnlimited \in Nat /\ BroadcastUnlimited # 0
      /\ listed[s] \in {0, granted} /\ made \in Nat
  BY BroadcastsAssumption, InfoFacts DEF IndInv, TypeOK
<1>3. PICK size : size = ComputeBroadcastAllocation(bc.limit, bc.allocated, bc.sent)
  BY Zenon
<1>4. /\ size \in Nat /\ size <= bc.limit
      /\ size # 0 => bc.sent < bc.limit /\ bc.allocated + size <= bc.limit
  BY <1>2, <1>3, AllocationSize, Zenon
<1>5. CASE UNCHANGED <<bc, alloc, made, fresh>>
  <2>1. TypeOK'
    BY <1>1, <1>5, Zenon DEF IndInv, TypeOK
  <2>2. \A t \in Servers : /\ phase'[t] # "cleaning" => dead[t] = {}
                           /\ phase'[t] # "created" => fresh[t] = None
    BY <1>1, Zenon DEF IndInv, Owners, TypeOK
  <2>3. UNCHANGED <<tables, local, made, info, fresh, dead, uses>>
    BY <1>1, <1>5, Zenon DEF tables
  <2> QED
    BY <1>1, <2>1, <2>2, <2>3, QuietInd, Zenon
<1>6. ASSUME NEW z \in Nat, NewInfo(s, z),
             z = BroadcastUnlimited => granted = BroadcastUnlimited,
             z # BroadcastUnlimited => granted # BroadcastUnlimited /\ bc.limit # 0,
             bc' = IF z = BroadcastUnlimited THEN bc ELSE [bc EXCEPT !.allocated = @ + z],
             z # BroadcastUnlimited => bc.sent < granted /\ bc.allocated + z <= granted
      PROVE  IndInv'
  <2>1. PICK n \in Infos : n = made + 1 /\ made' = n
    BY <1>2, <1>6, InfoFacts DEF NewInfo, Infos
  <2>2. /\ alloc' = [alloc EXCEPT ![n] = [present |-> z # BroadcastUnlimited, sent |-> 0, limit |-> z]]
        /\ fresh' = [fresh EXCEPT ![s] = n]
    BY <1>6, <2>1, Zenon DEF NewInfo
  <2>3. \A j \in Infos : /\ j # n => alloc'[j] = alloc[j]
                         /\ alloc[j] \in [present : BOOLEAN, sent : Nat, limit : Nat]
    BY <2>2, Zenon DEF IndInv, TypeOK
  <2>4. alloc'[n].present = (z # BroadcastUnlimited) /\ alloc'[n].sent = 0 /\ alloc'[n].limit = z
    BY <2>2, Zenon DEF IndInv, TypeOK
  <2>5. /\ bc'.limit = bc.limit /\ bc'.sent = bc.sent
        /\ bc'.allocated = IF z = BroadcastUnlimited THEN bc.allocated ELSE bc.allocated + z
        /\ bc' \in [limit : {0, granted}, sent : Nat, allocated : Nat]
    BY <1>6 DEF IndInv, TypeOK
  <2>6. TypeOK'
    <3>1. made' \in 0..MaxInfos /\ fresh' \in [Servers -> Infos \cup {None}]
      BY <2>1, <2>2, InfoFacts DEF IndInv, TypeOK
    <3>2. alloc' \in [Infos -> [present : BOOLEAN, sent : Nat, limit : Nat]]
      BY <2>2, Zenon DEF IndInv, TypeOK
    <3>3. phase' \in [Servers -> {"idle", "found", "listed", "created", "cleaning"}]
      BY <1>1, Zenon DEF IndInv, TypeOK
    <3> QED
      BY <1>1, <2>5, <3>1, <3>2, <3>3, Zenon DEF IndInv, TypeOK
  <2>7. Unsent(n) /\ ~alloc[n].present /\ n \notin Present
    BY <1>2, <2>1, InfoFacts DEF IndInv, FreshUnsent, Present
  <2>8. \A t \in Servers : \A i \in Own(t) : i # n /\ i <= n /\ i # None
    BY <1>2, <2>1, InfoFacts DEF IndInv, Owners, Own, TypeOK
  <2>9. /\ fresh[s] = None /\ fresh'[s] = n /\ phase'[s] = "created"
        /\ \A t \in Servers \ {s} : fresh'[t] = fresh[t] /\ phase'[t] = phase[t]
    BY <1>1, <2>2, Zenon DEF IndInv, Owners, TypeOK
  <2>10. Own(s)' = Own(s) \cup {n} /\ \A t \in Servers \ {s} : Own(t)' = Own(t)
    BY <1>1, <2>9, InfoFacts, Zenon DEF Own
  <2>11. Owners'
    <3>1. \A t \in Servers : \A i \in Own(t)' : i <= made'
      BY <2>1, <2>8, <2>10, InfoFacts
    <3>2. \A t, u \in Servers : t # u => Own(t)' \cap Own(u)' = {}
      BY <2>8, <2>10 DEF IndInv, Owners
    <3>3. n \notin dead[s] /\ info[s] # n
      BY <2>8, InfoFacts, Zenon DEF Own
    <3>4. dead[s] = {}
      BY <1>1, Zenon DEF IndInv, Owners
    <3>5. \A t \in Servers : /\ info'[t] \notin dead'[t] /\ fresh'[t] \notin dead'[t]
                             /\ info'[t] # None => info'[t] # fresh'[t]
                             /\ phase'[t] # "cleaning" => dead'[t] = {}
                             /\ phase'[t] # "created" => fresh'[t] = None
      BY <1>1, <2>9, <3>3, <3>4, Zenon DEF IndInv, Owners
    <3> QED
      BY <3>1, <3>2, <3>5, Zenon DEF Owners
  <2>12. UsesTracked'
    BY <1>1, Zenon DEF IndInv, UsesTracked
  <2>13. FreshUnsent'
    <3>1. \A i \in Infos : i > made' => Unsent(i)' /\ ~alloc'[i].present
      BY <1>1, <1>2, <2>1, <2>3, InfoFacts DEF IndInv, FreshUnsent, Unsent
    <3>2. Unsent(n)'
      BY <1>1, <2>4, <2>7, Zenon DEF Unsent
    <3>3. \A t \in Servers \ {s} : fresh[t] # None => fresh[t] \in Infos /\ fresh[t] # n
      BY <2>8, Zenon DEF IndInv, TypeOK, Own
    <3> QED
      BY <1>1, <2>3, <2>9, <3>1, <3>2, <3>3, SMTT(20) DEF IndInv, FreshUnsent, Unsent
  <2>14. Present' = IF z = BroadcastUnlimited THEN Present ELSE Present \cup {n}
    BY <2>3, <2>4, <2>7, Zenon DEF Present
  <2>15. Limited'
    <3>1. \A i \in Infos : alloc'[i].limit = BroadcastUnlimited => granted = BroadcastUnlimited
      BY <1>6, <2>3, <2>4, Zenon DEF IndInv, Limited
    <3>2. \A i \in Present' : alloc'[i].sent <= alloc'[i].limit
      BY <1>6, <2>3, <2>4, <2>14 DEF IndInv, Limited, Present
    <3>3. granted = BroadcastUnlimited \/ bc.limit = 0 => Present' = {}
      BY <1>6, <2>14, Zenon DEF IndInv, Limited
    <3> QED
      BY <1>1, <2>5, <3>1, <3>2, <3>3, Zenon DEF Limited
  <2>16. UsesCounted'
    BY <1>1, Zenon DEF IndInv, UsesCounted, InUse
  <2>17. LocalCountExact'
    <3> SUFFICES ASSUME NEW t \in Servers, NEW j \in ({info[t]} \ {None}) \cup dead[t],
                        alloc'[j].present
                 PROVE  local[j] = alloc'[j].sent + Cardinality(InUse(j))
      BY <1>1, Zenon DEF LocalCountExact, InUse
    <3>1. j \in Own(t) /\ j \in Infos
      BY DEF Own, IndInv, TypeOK
    <3>2. alloc'[j] = alloc[j]
      BY <2>3, <2>8, <3>1, Zenon
    <3> QED
      BY <3>2, Zenon DEF IndInv, LocalCountExact
  <2>18. TotalSent' = TotalSent /\ TotalLimit' = bc'.allocated
    <3> DEFINE f == [j \in Infos |-> alloc[j].sent]
               g == [j \in Infos |-> alloc'[j].sent]
               l == [j \in Infos |-> alloc[j].limit]
               m == [j \in Infos |-> alloc'[j].limit]
    <3>1. IsFiniteSet(Present) /\ Present \subseteq Infos
      BY TotalsType, Zenon DEF Present, IndInv
    <3>2. /\ \A j \in Present : f[j] = g[j] /\ l[j] = m[j] /\ g[j] \in Nat /\ m[j] \in Nat
          /\ g[n] = 0 /\ m[n] = z
      BY <2>3, <2>4, <2>7, <3>1, Zenon
    <3> HIDE DEF f, g, l, m
    <3>3. Total(f, Present) = Total(g, Present) /\ Total(l, Present) = Total(m, Present)
      BY <3>2, TotalSame, Zenon
    <3>4. /\ Total(g, Present \cup {n}) = Total(g, Present) + g[n]
          /\ Total(m, Present \cup {n}) = Total(m, Present) + m[n]
      BY <1>6, <2>7, <3>1, <3>2, TotalAdd
    <3>5. Total(g, Present) \in Nat /\ Total(m, Present) \in Nat
      BY <3>1, <3>2, UnitsFinite, Zenon
    <3>6. /\ TotalSent' = Total(g, Present') /\ TotalLimit' = Total(m, Present')
          /\ TotalSent = Total(f, Present) /\ TotalLimit = Total(l, Present)
      BY Zenon DEF TotalSent, TotalLimit, f, g, l, m
    <3>7. bc.allocated = TotalLimit
      BY Zenon DEF IndInv, AllocatedIsSum
    <3> QED
      BY <2>5, <2>14, <3>2, <3>3, <3>4, <3>5, <3>6, <3>7, SMTT(20)
  <2>19. AllocatedIsSum' /\ SentAccounted'
    BY <1>1, <2>5, <2>18, Zenon DEF IndInv, AllocatedIsSum, SentAccounted
  <2>20. UnlimitedAccounted'
    <3>1. Spent' = Spent /\ Live' = Live
      BY <1>1, Zenon DEF Spent, Live, InUse
    <3> QED
      BY <1>1, <2>5, <3>1, Zenon DEF IndInv, UnlimitedAccounted
  <2>21. Budget'
    BY <1>1, <1>2, <1>6, <2>5 DEF IndInv, Budget
  <2>22. SentOnce'
    BY <1>1, Zenon DEF IndInv, SentOnce
  <2> QED
    BY <2>6, <2>11, <2>12, <2>13, <2>15, <2>16, <2>17, <2>19, <2>20, <2>21, <2>22, Zenon DEF IndInv
<1>7. CASE listed[s] # 0 /\ ~keep[s] /\ listed[s] = BroadcastUnlimited
  <2>1. NewInfo(s, BroadcastUnlimited) /\ bc' = bc
    BY <1>7, Zenon DEF CreateAllocation
  <2> QED
    BY <1>2, <1>6, <1>7, <2>1, Zenon
<1>8. CASE listed[s] # 0 /\ ~keep[s] /\ listed[s] # BroadcastUnlimited /\ size # 0
  <2>1. NewInfo(s, size) /\ bc' = [bc EXCEPT !.allocated = @ + size]
    BY <1>3, <1>8, Zenon DEF CreateAllocation
  <2>2. /\ granted # BroadcastUnlimited /\ bc.limit = granted /\ size # BroadcastUnlimited
        /\ bc.sent < granted /\ bc.allocated + size <= granted
    BY <1>2, <1>4, <1>8
  <2> QED
    BY <1>2, <1>4, <1>6, <2>1, <2>2
<1> QED
  BY <1>3, <1>5, <1>7, <1>8, Zenon DEF CreateAllocation

\* Moving bInfos between info, fresh and dead, or losing them, keeps the books: the
\* contacts of a bInfo that stays are kept, and one that becomes current is unused.
LEMMA MoveInd ==
    ASSUME IndInv, TypeOK', Owners', UsesTracked', FreshUnsent',
           UNCHANGED <<tables, local, made>>,
           \A j \in Infos : InUse(j)' \subseteq InUse(j),
           \A j \in Live' : InUse(j)' = InUse(j),
           \A j \in Live' \ Live : Unsent(j) /\ InUse(j) = {}
    PROVE  IndInv'
<1> USE DEF IndInv, tables
<1>1. Limited' /\ AllocatedIsSum' /\ SentAccounted' /\ Budget' /\ SentOnce'
  BY Zenon DEF Limited, Present, AllocatedIsSum, TotalLimit, SentAccounted, TotalSent, Budget, SentOnce
<1>2. UsesCounted'
  <2> SUFFICES ASSUME NEW j \in Infos PROVE Cardinality(InUse(j)') <= local[j]
    BY Zenon DEF UsesCounted
  <2>1. Cardinality(InUse(j)') <= Cardinality(InUse(j)) /\ Cardinality(InUse(j)) <= local[j]
    BY InUseFinite, FS_Subset, Zenon DEF UsesCounted
  <2>2. local[j] \in Nat /\ Cardinality(InUse(j)) \in Nat /\ Cardinality(InUse(j)') \in Nat
    BY InUseFinite, Zenon DEF TypeOK
  <2> QED
    BY <2>1, <2>2
<1>3. \A j \in Live' \ Live : local[j] = 0 /\ alloc[j].sent = 0 /\ Cardinality(InUse(j)) = 0
  BY FS_EmptySet, Zenon DEF Unsent
<1>4. LocalCountExact'
  <2> SUFFICES ASSUME NEW s \in Servers, NEW j \in ({info'[s]} \ {None}) \cup dead'[s],
                      alloc[j].present
               PROVE  local[j] = alloc[j].sent + Cardinality(InUse(j)')
    BY Zenon DEF LocalCountExact
  <2>1. j \in Infos /\ j \in Live'
    BY DEF TypeOK, Live
  <2>2. CASE j \in Live
    BY <2>1, <2>2, InfoFacts DEF Live, LocalCountExact
  <2>3. CASE j \notin Live
    BY <1>3, <2>1, <2>3
  <2> QED
    BY <2>2, <2>3, Zenon
<1>5. UnlimitedAccounted'
  <2>1. /\ IsFiniteSet(Live) /\ Live \subseteq Infos /\ Total(Spent, Live) \in Nat
        /\ \A j \in Infos : Spent[j] \in Nat
    BY SpentType, Zenon
  <2>2. Live' \subseteq Infos /\ IsFiniteSet(Live')
    BY InfoFacts, FS_Subset, Zenon DEF Live
  <2>3. \A j \in Live' : Spent'[j] = Spent[j]
    BY <2>2, Zenon DEF Spent
  <2>4. \A j \in Live' \ Live : Spent'[j] = 0
    BY <1>3, <2>2, <2>3 DEF Spent
  <2>5. \A j \in Live' : Spent'[j] \in Nat /\ (Spent'[j] = 0 \/ (j \in Live /\ Spent'[j] <= Spent[j]))
    BY <2>1, <2>2, <2>3, <2>4
  <2>6. Total(Spent', Live') <= Total(Spent, Live)
    BY <2>1, <2>5, TotalWithin, Zenon
  <2>7. Total(Spent', Live') \in Nat
    BY <2>2, <2>5, UnitsFinite, Zenon
  <2>8. Total(Spent, Live)' = Total(Spent', Live')
    BY Zenon DEF Total, Units
  <2>9. bc.sent \in Nat /\ Cardinality(sentTo) \in Nat
    BY TotalsType, Zenon DEF TypeOK
  <2> QED
    BY <2>1, <2>6, <2>7, <2>8, <2>9 DEF UnlimitedAccounted
<1> QED
  BY <1>1, <1>2, <1>4, <1>5, Zenon

\* A new bInfo becomes current, and the one before it has to be cleaned up.
LEMMA updateAllocsInd ==
    ASSUME IndInv, NEW s \in Servers, updateAllocs(s)
    PROVE  IndInv'
<1> USE DEF IndInv, tables, contacts
<1>1. /\ phase[s] = "created" /\ phase' = [phase EXCEPT ![s] = "cleaning"]
      /\ fresh' = [fresh EXCEPT ![s] = None]
      /\ UNCHANGED <<tables, expiry, local, made, keep, listed, pc, uses>>
      /\ \/ info' = info /\ dead' = dead
         \/ /\ info' = [info EXCEPT ![s] = fresh[s]]
            /\ dead' = [dead EXCEPT ![s] = {info[s]} \ {None}]
  BY Zenon DEF updateAllocs
<1>2. TypeOK'
  <2>0. {info[s]} \ {None} \in SUBSET Infos /\ fresh[s] \in Infos \cup {None}
    BY Zenon DEF TypeOK
  <2>1. info' \in [Servers -> Infos \cup {None}]
    BY <1>1, <2>0, Zenon DEF TypeOK
  <2>4. dead' \in [Servers -> SUBSET Infos]
    <3> DEFINE d == {info[s]} \ {None}
    <3>1. d \in SUBSET Infos
      BY <2>0, Zenon
    <3>2. dead' = dead \/ dead' = [dead EXCEPT ![s] = d]
      BY <1>1, Zenon
    <3> HIDE DEF d
    <3> QED
      BY <3>1, <3>2, Zenon DEF TypeOK
  <2>2. fresh' \in [Servers -> Infos \cup {None}]
    BY <1>1, Zenon DEF TypeOK
  <2>3. phase' \in [Servers -> {"idle", "found", "listed", "created", "cleaning"}]
    BY <1>1, Zenon DEF TypeOK
  <2> QED
    BY <1>1, <2>1, <2>2, <2>3, <2>4, Zenon DEF TypeOK
<1>3. /\ dead[s] = {} /\ (info[s] # None => info[s] # fresh[s])
      /\ phase'[s] = "cleaning" /\ fresh'[s] = None
      /\ \/ info'[s] = info[s] /\ dead'[s] = {}
         \/ info'[s] = fresh[s] /\ dead'[s] = {info[s]} \ {None}
  BY <1>1, Zenon DEF Owners, TypeOK
<1>4. \A t \in Servers \ {s} : /\ info'[t] = info[t] /\ dead'[t] = dead[t]
                               /\ fresh'[t] = fresh[t] /\ phase'[t] = phase[t]
  BY <1>1, Zenon DEF TypeOK
<1>5. /\ Own(s)' \subseteq Own(s)
      /\ \A t \in Servers \ {s} : Own(t)' = Own(t)
  BY <1>3, <1>4, Zenon DEF Own
<1>6. Owners'
  <2>1. \A t \in Servers : \A i \in Own(t)' : i <= made'
    BY <1>1, <1>5, Zenon DEF Owners
  <2>2. \A t, u \in Servers : t # u => Own(t)' \cap Own(u)' = {}
    BY <1>5 DEF Owners
  <2>3. /\ info'[s] \notin dead'[s] /\ fresh'[s] \notin dead'[s]
        /\ info'[s] # None => info'[s] # fresh'[s]
    <3>1. None \notin dead'[s]
      BY <1>3, Zenon
    <3> QED
      BY <1>3, <3>1, Zenon
  <2> QED
    BY <1>3, <1>4, <2>1, <2>2, <2>3 DEF Owners
<1>7. UsesTracked'
  <2>1. \A c \in Clients : uses[<<c, s>>] # None => uses[<<c, s>>] \in {info'[s]} \cup dead'[s]
    BY <1>3, Zenon DEF UsesTracked
  <2> QED
    BY <1>1, <1>4, <2>1, Zenon DEF UsesTracked
<1>8. FreshUnsent'
  BY <1>1, <1>3, <1>4 DEF FreshUnsent, Unsent
<1>9. \A j \in Infos : InUse(j)' = InUse(j)
  BY <1>1, Zenon DEF InUse
<1>10. \A j \in Live' \ Live : j = fresh[s] /\ j # None /\ j # info[s]
  BY <1>3, <1>4, InfoFacts, Zenon DEF Live
<1>11. \A j \in Live' \ Live : Unsent(j) /\ InUse(j) = {}
  <2> SUFFICES ASSUME NEW j \in Live' \ Live PROVE Unsent(j) /\ InUse(j) = {}
    BY Zenon
  <2>1. Unsent(j)
    BY <1>10, Zenon DEF FreshUnsent
  <2>2. \A c \in Clients, t \in Servers : uses[<<c, t>>] # j
    <3> SUFFICES ASSUME NEW c \in Clients, NEW t \in Servers, uses[<<c, t>>] = j PROVE FALSE
      BY Zenon
    <3>1. j \in Infos /\ (j = info[t] \/ j \in dead[t])
      BY <1>10, Zenon DEF UsesTracked, Live
    <3> QED
      BY <3>1, Zenon DEF Live
  <2> QED
    BY <2>1, <2>2 DEF InUse, Contacts
<1> QED
  BY <1>1, <1>2, <1>6, <1>7, <1>8, <1>9, <1>11, MoveInd, Zenon DEF Live

\* A manager that stops keeps its bInfo until it is cleaned up.
LEMMA CloseInd ==
    ASSUME IndInv, NEW s \in Servers, Close(s)
    PROVE  IndInv'
<1> USE DEF IndInv, tables, contacts
<1>1. /\ phase[s] = "idle" /\ info[s] # None
      /\ \A c \in Clients : pc[<<c, s>>] = "idle"
      /\ phase' = [phase EXCEPT ![s] = "cleaning"]
      /\ dead' = [dead EXCEPT ![s] = {info[s]}] /\ info' = [info EXCEPT ![s] = None]
      /\ UNCHANGED <<tables, expiry, local, made, keep, listed, fresh, pc, uses>>
  BY Zenon DEF Close
<1>2. info[s] \in Infos
  BY <1>1, Zenon DEF TypeOK
<1>3. TypeOK'
  <2>1. info' \in [Servers -> Infos \cup {None}] /\ dead' \in [Servers -> SUBSET Infos]
    BY <1>1, <1>2, Zenon DEF TypeOK
  <2>2. phase' \in [Servers -> {"idle", "found", "listed", "created", "cleaning"}]
    BY <1>1, Zenon DEF TypeOK
  <2> QED
    BY <1>1, <2>1, <2>2, Zenon DEF TypeOK
<1>4. /\ dead[s] = {} /\ fresh[s] = None
      /\ phase'[s] = "cleaning" /\ info'[s] = None /\ dead'[s] = {info[s]}
  BY <1>1, Zenon DEF Owners, TypeOK
<1>5. \A t \in Servers \ {s} : /\ info'[t] = info[t] /\ dead'[t] = dead[t]
                               /\ phase'[t] = phase[t]
  BY <1>1, Zenon DEF TypeOK
<1>6. \A t \in Servers : Own(t)' = Own(t)
  <2>1. Own(s)' = Own(s)
    BY <1>1, <1>4, Zenon DEF Own
  <2> QED
    BY <1>1, <1>5, <2>1, Zenon DEF Own
<1>7. Owners'
  <2>1. /\ \A t \in Servers : \A i \in Own(t)' : i <= made'
        /\ \A t, u \in Servers : t # u => Own(t)' \cap Own(u)' = {}
    BY <1>1, <1>6, Zenon DEF Owners
  <2> QED
    BY <1>1, <1>4, <1>5, <2>1 DEF Owners
<1>8. UsesTracked'
  <2>1. \A c \in Clients : uses[<<c, s>>] = None
    BY <1>1, Zenon DEF UsesTracked
  <2> QED
    BY <1>1, <1>5, <2>1, Zenon DEF UsesTracked
<1>9. FreshUnsent'
  BY <1>1, Zenon DEF FreshUnsent, Unsent
<1>10. \A j \in Infos : InUse(j)' = InUse(j)
  BY <1>1, Zenon DEF InUse
<1>11. Live' = Live
  BY <1>4, <1>5, InfoFacts, Zenon DEF Live
<1>12. Live \subseteq Infos
  BY Zenon DEF Live
<1> QED
  BY <1>1, <1>3, <1>7, <1>8, <1>9, <1>10, <1>11, <1>12, MoveInd, Zenon

\* A server that crashes loses its bInfos and its contacts.
LEMMA CrashInd ==
    ASSUME IndInv, NEW s \in Servers, Crash(s)
    PROVE  IndInv'
<1> USE DEF IndInv, tables
<1>1. /\ info' = [info EXCEPT ![s] = None] /\ phase' = [phase EXCEPT ![s] = "idle"]
      /\ fresh' = [fresh EXCEPT ![s] = None] /\ dead' = [dead EXCEPT ![s] = {}]
      /\ keep' = [keep EXCEPT ![s] = FALSE] /\ listed' = [listed EXCEPT ![s] = 0]
      /\ pc' = [k \in Contacts |-> IF k[2] = s THEN "idle" ELSE pc[k]]
      /\ uses' = [k \in Contacts |-> IF k[2] = s THEN None ELSE uses[k]]
      /\ UNCHANGED <<tables, expiry, local, made>>
  BY Zenon DEF Crash
<1>2. TypeOK'
  <2>1. info' \in [Servers -> Infos \cup {None}] /\ fresh' \in [Servers -> Infos \cup {None}]
    BY <1>1, Zenon DEF TypeOK
  <2>2. dead' \in [Servers -> SUBSET Infos] /\ keep' \in [Servers -> BOOLEAN]
    BY <1>1, Zenon DEF TypeOK
  <2>3. phase' \in [Servers -> {"idle", "found", "listed", "created", "cleaning"}]
    BY <1>1, Zenon DEF TypeOK
  <2>4. listed' \in [Servers -> {0, granted}]
    BY <1>1, Zenon DEF TypeOK
  <2>5. pc' \in [Contacts -> {"idle", "listed", "using"}]
    BY <1>1, Zenon DEF TypeOK
  <2>6. uses' \in [Contacts -> Infos \cup {None}]
    BY <1>1, Zenon DEF TypeOK
  <2> QED
    BY <1>1, <2>1, <2>2, <2>3, <2>4, <2>5, <2>6, Zenon DEF TypeOK
<1>3. info'[s] = None /\ fresh'[s] = None /\ dead'[s] = {} /\ phase'[s] = "idle"
  BY <1>1, Zenon DEF TypeOK
<1>4. \A t \in Servers \ {s} : /\ info'[t] = info[t] /\ dead'[t] = dead[t]
                               /\ fresh'[t] = fresh[t] /\ phase'[t] = phase[t]
  BY <1>1, Zenon DEF TypeOK
<1>5. Own(s)' = {} /\ \A t \in Servers \ {s} : Own(t)' = Own(t)
  BY <1>3, <1>4, Zenon DEF Own
<1>6. Owners'
  <2>1. \A t \in Servers : \A i \in Own(t)' : i <= made'
    BY <1>1, <1>5, Zenon DEF Owners
  <2>2. \A t, u \in Servers : t # u => Own(t)' \cap Own(u)' = {}
    BY <1>5, Zenon DEF Owners
  <2> QED
    BY <1>3, <1>4, <2>1, <2>2, Zenon DEF Owners
<1>7. \A c \in Clients : /\ pc'[<<c, s>>] = "idle" /\ uses'[<<c, s>>] = None
                         /\ \A t \in Servers \ {s} : /\ pc'[<<c, t>>] = pc[<<c, t>>]
                                                     /\ uses'[<<c, t>>] = uses[<<c, t>>]
  BY <1>1, Zenon DEF Contacts
<1>8. UsesTracked'
  <2> SUFFICES ASSUME NEW c \in Clients, NEW t \in Servers
               PROVE  /\ pc'[<<c, t>>] = "using" <=> uses'[<<c, t>>] # None
                      /\ uses'[<<c, t>>] # None => uses'[<<c, t>>] \in {info'[t]} \cup dead'[t]
    BY Zenon DEF UsesTracked
  <2>1. CASE t = s
    BY <1>7, <2>1, Zenon
  <2>2. CASE t # s
    <3>1. /\ pc'[<<c, t>>] = pc[<<c, t>>] /\ uses'[<<c, t>>] = uses[<<c, t>>]
          /\ info'[t] = info[t] /\ dead'[t] = dead[t]
      BY <1>4, <1>7, <2>2, Zenon
    <3> QED
      BY <3>1, Zenon DEF UsesTracked
  <2> QED
    BY <2>1, <2>2, Zenon
<1>9. FreshUnsent'
  BY <1>1, <1>3, <1>4, Zenon DEF FreshUnsent, Unsent
<1>10. \A j \in Infos : InUse(j)' \subseteq InUse(j)
  BY <1>1, InfoFacts, Zenon DEF InUse
<1>11. Live' \subseteq Live
  BY <1>3, <1>4, InfoFacts, Zenon DEF Live
<1>12. ASSUME NEW j \in Live' PROVE InUse(j)' = InUse(j)
  <2>1. PICK t \in Servers \ {s} : j \in Infos /\ (j = info[t] \/ j \in dead[t])
    BY <1>3, <1>4, InfoFacts, <1>12, Zenon DEF Live
  <2>2. j # info[s] /\ j \notin dead[s]
    BY <2>1, LiveNotFresh, Zenon
  <2>3. \A c \in Clients : uses[<<c, s>>] # j
    BY <2>1, <2>2, InfoFacts, Zenon DEF UsesTracked
  <2>4. ASSUME NEW k \in Contacts PROVE uses'[k] = j <=> uses[k] = j
    <3>1. PICK c \in Clients, u \in Servers : k = <<c, u>>
      BY DEF Contacts
    <3>2. CASE u = s
      BY <1>7, <2>1, <2>3, <3>1, <3>2, InfoFacts, Zenon
    <3>3. CASE u # s
      BY <1>7, <3>1, <3>3, Zenon
    <3> QED
      BY <3>2, <3>3, Zenon
  <2> QED
    BY <2>4, Zenon DEF InUse
<1> QED
  BY <1>1, <1>2, <1>6, <1>8, <1>9, <1>10, <1>11, <1>12, MoveInd, Zenon

\* What giving up a dead bInfo does to the manager's state.
LEMMA GiveUpFacts ==
    ASSUME IndInv, NEW s \in Servers, NEW i \in dead[s], phase[s] = "cleaning", InUse(i) = {},
           dead' = [dead EXCEPT ![s] = @ \ {i}],
           UNCHANGED <<made, info, phase, fresh, pc, uses>>
    PROVE  /\ i \in Infos /\ i \in Live /\ Live' = Live \ {i}
           /\ dead' \in [Servers -> SUBSET Infos]
           /\ Owners' /\ UsesTracked'
           /\ \A j \in Infos : InUse(j)' = InUse(j)
<1> USE DEF IndInv
<1>1. i \in Infos /\ i \in Live
  BY Zenon DEF TypeOK, Live
<1>2. dead' \in [Servers -> SUBSET Infos]
  BY Zenon DEF TypeOK
<1>3. dead'[s] = dead[s] \ {i} /\ \A t \in Servers \ {s} : dead'[t] = dead[t]
  BY Zenon DEF TypeOK
<1>4. i # info[s] /\ \A t \in Servers \ {s} : i # info[t] /\ i \notin dead[t]
  BY <1>1, LiveNotFresh, Zenon DEF Owners
<1>5. Live' = Live \ {i}
  <2>1. \A j \in Infos \ {i} : j \in Live' <=> j \in Live
    BY <1>3, Zenon DEF Live
  <2>2. i \notin Live'
    BY <1>3, <1>4, Zenon DEF Live
  <2> QED
    BY <1>1, <2>1, <2>2, Zenon DEF Live
<1>6. \A t \in Servers : Own(t)' \subseteq Own(t)
  BY <1>3, Zenon DEF Own
<1>7. Owners'
  <2>1. \A t \in Servers : \A j \in Own(t)' : j <= made'
    BY <1>6, Zenon DEF Owners
  <2>2. \A t, u \in Servers : t # u => Own(t)' \cap Own(u)' = {}
    BY <1>6, Zenon DEF Owners
  <2> QED
    BY <1>3, <2>1, <2>2, Zenon DEF Owners
<1>8. UsesTracked'
  <2>1. \A c \in Clients : uses[<<c, s>>] # i
    BY Zenon DEF InUse, Contacts
  <2> QED
    BY <1>3, <2>1, Zenon DEF UsesTracked
<1>9. \A j \in Infos : InUse(j)' = InUse(j)
  BY Zenon DEF InUse
<1> QED
  BY <1>1, <1>2, <1>5, <1>7, <1>8, <1>9, Zenon

\* A failed cleanup only forgets the bInfo.
LEMMA CleanupFailsInd ==
    ASSUME IndInv, NEW s \in Servers, NEW i \in Infos, CleanupFails(s, i)
    PROVE  IndInv'
<1> USE DEF tables, contacts
<1>1. /\ i \in dead[s] /\ phase[s] = "cleaning" /\ InUse(i) = {}
      /\ dead' = [dead EXCEPT ![s] = @ \ {i}]
      /\ UNCHANGED <<tables, expiry, local, made, info, phase, keep, listed, fresh, pc, uses>>
  BY Zenon DEF CleanupFails
<1>2. /\ Live' = Live \ {i} /\ dead' \in [Servers -> SUBSET Infos] /\ Owners' /\ UsesTracked'
      /\ \A j \in Infos : InUse(j)' = InUse(j)
  BY <1>1, GiveUpFacts, Zenon
<1>3. TypeOK'
  BY <1>1, <1>2, Zenon DEF IndInv, TypeOK
<1>4. FreshUnsent'
  BY <1>1, Zenon DEF IndInv, FreshUnsent, Unsent
<1>5. Live \subseteq Infos
  BY Zenon DEF Live
<1> QED
  BY <1>1, <1>2, <1>3, <1>4, <1>5, MoveInd, Zenon

-----------------------------------------------------------------------------
(* Saving a message, cleanup, disabling, and the theorems. *)

\* A message that is saved was not sent to the client before, goes to the account of
\* its allocation if there is one, and is counted by its manager already.
LEMMA SaveInd ==
    ASSUME IndInv, NEW c \in Clients, NEW s \in Servers, SaveBroadcastMessage(c, s)
    PROVE  IndInv'
<1> USE DEF refresh
<1>0. PICK i : i = uses[<<c, s>>]
  BY Zenon
<1>1. /\ pc[<<c, s>>] = "using" /\ CanSave(i, c) /\ Release(c, s)
      /\ sentTo' = sentTo \cup {c} /\ msgs' = [msgs EXCEPT ![c] = @ + 1]
      /\ alloc' = IF alloc[i].present THEN [alloc EXCEPT ![i].sent = @ + 1] ELSE alloc
      /\ granted' = granted /\ bc' = bc /\ expiry' = expiry /\ local' = local /\ made' = made
      /\ info' = info /\ phase' = phase /\ keep' = keep /\ listed' = listed
      /\ fresh' = fresh /\ dead' = dead
  BY <1>0, Zenon DEF SaveBroadcastMessage
<1>2. /\ i \in Infos /\ (i = info[s] \/ i \in dead[s])
      /\ pc' \in [Contacts -> {"idle", "listed", "using"}]
      /\ uses' \in [Contacts -> Infos \cup {None}]
      /\ UsesTracked'
      /\ \A j \in Infos : Cardinality(InUse(j)') =
           IF j = i THEN Cardinality(InUse(j)) - 1 ELSE Cardinality(InUse(j))
  BY <1>0, <1>1, ReleaseFacts, Zenon
<1>3. /\ \A j \in Infos : /\ alloc[j] \in [present : BOOLEAN, sent : Nat, limit : Nat]
                          /\ local[j] \in Nat
                          /\ Cardinality(InUse(j)) \in Nat /\ Cardinality(InUse(j)') \in Nat
  BY InUseFinite, Zenon DEF IndInv, TypeOK
<1>4. /\ alloc' \in [Infos -> [present : BOOLEAN, sent : Nat, limit : Nat]]
      /\ \A j \in Infos :
           /\ alloc'[j].present = alloc[j].present /\ alloc'[j].limit = alloc[j].limit
           /\ alloc'[j].sent = IF j = i /\ alloc[i].present THEN alloc[j].sent + 1 ELSE alloc[j].sent
  BY <1>1, <1>2, SMTT(20) DEF IndInv, TypeOK
<1>5. Present' = Present
  BY <1>4, Zenon DEF Present
<1>6. TypeOK'
  BY <1>1, <1>2, <1>4 DEF IndInv, TypeOK
<1>7. Owners'
  BY <1>1, Zenon DEF IndInv, Owners, Own
<1>8. FreshUnsent'
  <2>1. i <= made /\ (\A t \in Servers : fresh[t] # i) /\ made \in Nat /\ Infos \subseteq Nat
    BY <1>2, LiveNotFresh, InfoFacts DEF IndInv, TypeOK
  <2>2. \A t \in Servers : fresh[t] # None => fresh[t] \in Infos
    BY Zenon DEF IndInv, TypeOK
  <2> QED
    BY <1>1, <1>4, <2>1, <2>2, Zenon DEF IndInv, FreshUnsent, Unsent
<1>9. c \notin sentTo /\ (alloc[i].present => alloc[i].sent < alloc[i].limit)
  <2>1. alloc[i].present => alloc[i].limit # BroadcastUnlimited
    BY <1>2, Zenon DEF IndInv, Limited, Present
  <2> QED
    BY <1>1, <2>1, Zenon DEF CanSave
<1>10. Limited'
  <2>1. \A j \in Present : alloc'[j].sent <= alloc'[j].limit
    BY <1>3, <1>4, <1>9 DEF IndInv, Limited, Present
  <2> QED
    BY <1>1, <1>4, <1>5, <2>1, SMTT(20) DEF IndInv, Limited
<1>11. UsesCounted'
  BY <1>1, <1>2, <1>3 DEF IndInv, UsesCounted
<1>12. LocalCountExact'
  <2> SUFFICES ASSUME NEW t \in Servers, NEW j \in ({info[t]} \ {None}) \cup dead[t],
                      alloc'[j].present
               PROVE  local[j] = alloc'[j].sent + Cardinality(InUse(j)')
    BY <1>1, Zenon DEF LocalCountExact
  <2>1. j \in Infos
    BY DEF IndInv, TypeOK
  <2>2. alloc[j].present /\ local[j] = alloc[j].sent + Cardinality(InUse(j))
    BY <1>4, <2>1, Zenon DEF IndInv, LocalCountExact
  <2> QED
    BY <1>2, <1>3, <1>4, <2>1, <2>2
<1>13. AllocatedIsSum'
  <2>1. TotalLimit' = TotalLimit
    BY <1>4, <1>5, Zenon DEF TotalLimit
  <2> QED
    BY <1>1, <2>1, Zenon DEF IndInv, AllocatedIsSum
<1>14. Cardinality(sentTo') = Cardinality(sentTo) + 1 /\ Cardinality(sentTo) \in Nat
  BY <1>1, <1>9, TotalsType, FS_AddElement, Zenon DEF IndInv
<1>15. SentAccounted'
  <2> SUFFICES ASSUME granted # BroadcastUnlimited
               PROVE  Cardinality(sentTo') = bc.sent + TotalSent'
    BY <1>1, Zenon DEF SentAccounted
  <2>1. alloc[i].present
    BY <1>1, <1>2, Zenon DEF IndInv, Limited, CanSave
  <2> DEFINE f == [j \in Infos |-> alloc[j].sent]
             g == [j \in Infos |-> alloc'[j].sent]
  <2>2. i \in Present /\ IsFiniteSet(Present) /\ Present \subseteq Infos
    BY <1>2, <2>1, TotalsType, Zenon DEF Present, IndInv
  <2>3. /\ \A j \in Present : f[j] \in Nat /\ g[j] \in Nat
        /\ \A j \in Present \ {i} : f[j] = g[j]
        /\ g[i] - f[i] = 1
    <3>1. \A j \in Present \ {i} : f[j] = g[j]
      BY <1>4, <2>1, <2>2, Zenon
    <3>2. g[i] - f[i] = 1 /\ f[i] \in Nat /\ g[i] \in Nat
      <4>1. alloc'[i].sent = alloc[i].sent + 1
        BY <1>2, <1>4, <2>1, Zenon
      <4>2. alloc[i].sent \in Nat
        BY <1>2, <1>3, Zenon
      <4>3. f[i] = alloc[i].sent /\ g[i] = alloc'[i].sent
        BY <1>2, Zenon
      <4> QED
        BY <4>1, <4>2, <4>3
    <3>3. \A j \in Present : f[j] \in Nat
      BY <2>2, Zenon DEF IndInv, TypeOK
    <3> QED
      BY <3>1, <3>2, <3>3, Zenon
  <2> HIDE DEF f, g
  <2>4. Total(g, Present) - Total(f, Present) = g[i] - f[i]
    BY <2>2, <2>3, TotalChange
  <2>5. TotalSent' = Total(g, Present) /\ TotalSent = Total(f, Present)
    BY <1>5, Zenon DEF TotalSent, f, g
  <2>6. Total(f, Present) \in Nat /\ Total(g, Present) \in Nat /\ bc.sent \in Nat
    BY <2>2, <2>3, UnitsFinite, Zenon DEF IndInv, TypeOK
  <2>7. Cardinality(sentTo) = bc.sent + TotalSent
    BY Zenon DEF IndInv, SentAccounted
  <2> QED
    BY <1>14, <2>3, <2>4, <2>5, <2>6, <2>7
<1>16. UnlimitedAccounted'
  <2>1. Live' = Live /\ i \in Live
    BY <1>1, <1>2, Zenon DEF Live
  <2>2. /\ \A j \in Infos : Spent[j] \in Nat
        /\ IsFiniteSet(Live) /\ Live \subseteq Infos /\ Total(Spent, Live) \in Nat
    BY SpentType, Zenon DEF IndInv
  <2>3. \A j \in Infos : Spent'[j] = IF j = i THEN Spent[j] + 1 ELSE Spent[j]
    BY <1>1, <1>2, <1>3 DEF Spent
  <2>4. PICK g : g = Spent'
    BY Zenon
  <2>5. Total(g, Live) - Total(Spent, Live) = g[i] - Spent[i]
    BY <1>2, <2>1, <2>2, <2>3, <2>4, TotalChange
  <2>6. Total(g, Live) \in Nat /\ bc.sent \in Nat
    BY <2>2, <2>3, <2>4, UnitsFinite DEF IndInv, TypeOK
  <2>7. Total(Spent, Live)' = Total(Spent, Live) + 1
    BY <1>2, <2>1, <2>2, <2>3, <2>4, <2>5, <2>6, SMTT(20)
  <2> QED
    BY <1>1, <1>14, <2>2, <2>6, <2>7 DEF IndInv, UnlimitedAccounted
<1>17. Budget' /\ SentOnce'
  BY <1>1, <1>9 DEF IndInv, Budget, SentOnce, TypeOK
<1> QED
  BY <1>2, <1>6, <1>7, <1>8, <1>10, <1>11, <1>12, <1>13, <1>15, <1>16, <1>17, Zenon DEF IndInv

\* What deleting a row of broadcast_allocations leaves of it.
LEMMA RowGone ==
    ASSUME NEW r \in [present : BOOLEAN, sent : Nat, limit : Nat]
    PROVE  LET q == [r EXCEPT !.present = FALSE] IN
           /\ q \in [present : BOOLEAN, sent : Nat, limit : Nat]
           /\ ~q.present /\ q.sent = r.sent /\ q.limit = r.limit
<1> DEFINE q == [r EXCEPT !.present = FALSE]
<1>1. q \in [present : BOOLEAN, sent : Nat, limit : Nat]
  BY Zenon
<1>2. q.sent = r.sent /\ q.limit = r.limit
  BY Zenon
<1>3. ~q.present
  BY Zenon
<1> QED
  BY <1>1, <1>2, <1>3, Zenon

\* A cleanup moves what was sent under the allocation to the broadcast.
LEMMA CleanupInd ==
    ASSUME IndInv, NEW s \in Servers, NEW i \in Infos, CleanupAllocation(s, i)
    PROVE  IndInv'
<1> USE DEF contacts
<1>1. /\ i \in dead[s] /\ phase[s] = "cleaning" /\ InUse(i) = {}
      /\ dead' = [dead EXCEPT ![s] = @ \ {i}]
      /\ UNCHANGED <<granted, expiry, sentTo, msgs, local, made, info, phase, keep, listed,
                     fresh, pc, uses>>
  BY Zenon DEF CleanupAllocation
<1>2. /\ i \in Live /\ Live' = Live \ {i}
      /\ dead' \in [Servers -> SUBSET Infos] /\ Owners' /\ UsesTracked'
      /\ \A j \in Infos : InUse(j)' = InUse(j)
  BY <1>1, GiveUpFacts, Zenon
<1>3. Cardinality(InUse(i)) = 0
  BY <1>1, FS_EmptySet, Zenon
<1>4. UsesCounted' /\ SentOnce'
  BY <1>1, <1>2, Zenon DEF IndInv, UsesCounted, SentOnce
<1>5. /\ \A j \in Infos : Spent[j] \in Nat
      /\ IsFiniteSet(Live) /\ Live \subseteq Infos /\ Total(Spent, Live) \in Nat
  BY SpentType, Zenon DEF IndInv
<1>6. Total(Spent, Live)' = Total(Spent, Live) - local[i]
  <2>1. Spent' = Spent
    BY <1>1, <1>2, Zenon DEF Spent
  <2>2. Spent[i] = local[i]
    BY <1>3 DEF Spent, IndInv, TypeOK
  <2>3. Total(Spent, Live \ {i}) = Total(Spent, Live) - Spent[i]
    BY <1>2, <1>5, TotalRemove, Zenon
  <2> QED
    BY <1>2, <2>1, <2>2, <2>3, Zenon DEF Total, Units
<1>7. /\ local[i] \in Nat /\ bc.sent \in Nat /\ bc.allocated \in Nat /\ bc.limit \in {0, granted}
      /\ granted \in Nat /\ granted >= 1
      /\ IsFiniteSet(sentTo) /\ Cardinality(sentTo) \in Nat
      /\ alloc[i].limit \in Nat /\ alloc[i].sent \in Nat /\ alloc[i].present \in BOOLEAN
  BY TotalsType, BroadcastsAssumption DEF IndInv, TypeOK
<1>8. CASE bc' = bc /\ alloc' = alloc
  <2>1. UNCHANGED <<tables, local, made>>
    BY <1>1, <1>8, Zenon DEF tables
  <2>2. TypeOK'
    BY <1>1, <1>2, <1>8, Zenon DEF IndInv, TypeOK
  <2>3. FreshUnsent'
    BY <1>1, <1>8, Zenon DEF IndInv, FreshUnsent, Unsent
  <2>4. Live' \subseteq Infos
    BY Zenon DEF Live
  <2> QED
    BY <1>2, <2>1, <2>2, <2>3, <2>4, MoveInd, Zenon
<1>9. CASE alloc[i].limit = BroadcastUnlimited
  <2>1. bc' = [bc EXCEPT !.sent = @ + local[i]] /\ alloc' = alloc
    BY <1>9, Zenon DEF CleanupAllocation
  <2>2. bc'.sent = bc.sent + local[i] /\ bc'.limit = bc.limit /\ bc'.allocated = bc.allocated
    BY <2>1, Zenon DEF IndInv, TypeOK
  <2>3. granted = BroadcastUnlimited
    BY <1>9, Zenon DEF IndInv, Limited
  <2>4. TypeOK'
    <3>1. bc' \in [limit : {0, granted}, sent : Nat, allocated : Nat]
      BY <1>7, <2>1 DEF IndInv, TypeOK
    <3> QED
      BY <1>1, <1>2, <2>1, <3>1, Zenon DEF IndInv, TypeOK
  <2>5. FreshUnsent'
    BY <1>1, <2>1, Zenon DEF IndInv, FreshUnsent, Unsent
  <2>6. Limited' /\ AllocatedIsSum'
    BY <1>1, <2>1, <2>2, Zenon DEF IndInv, Limited, Present, AllocatedIsSum, TotalLimit
  <2>7. SentAccounted' /\ Budget'
    BY <1>1, <2>3, Zenon DEF SentAccounted, Budget
  <2>8. LocalCountExact'
    <3> SUFFICES ASSUME NEW t \in Servers, NEW j \in ({info[t]} \ {None}) \cup dead'[t],
                        alloc[j].present
                 PROVE  local[j] = alloc[j].sent + Cardinality(InUse(j)')
      BY <1>1, <2>1, Zenon DEF LocalCountExact
    <3>1. j \in Infos /\ j \in ({info[t]} \ {None}) \cup dead[t]
      BY <1>1, SMTT(20) DEF IndInv, TypeOK
    <3> QED
      BY <1>2, <3>1, Zenon DEF IndInv, LocalCountExact
  <2>9. UnlimitedAccounted'
    BY <1>1, <1>5, <1>6, <1>7, <2>2 DEF IndInv, UnlimitedAccounted
  <2> QED
    BY <1>2, <1>4, <2>4, <2>5, <2>6, <2>7, <2>8, <2>9, Zenon DEF IndInv
<1>10. CASE /\ alloc[i].limit # BroadcastUnlimited /\ alloc[i].present
            /\ ~(alloc[i].limit > bc.allocated)
  <2>1. /\ bc' = [bc EXCEPT !.sent = @ + local[i], !.allocated = @ - alloc[i].limit]
        /\ alloc' = [alloc EXCEPT ![i].present = FALSE]
    BY <1>10, Zenon DEF CleanupAllocation
  <2>2. /\ bc'.sent = bc.sent + local[i] /\ bc'.limit = bc.limit
        /\ bc'.allocated = bc.allocated - alloc[i].limit
    BY <2>1, Zenon DEF IndInv, TypeOK
  <2>3. i \in Present /\ granted # BroadcastUnlimited
    BY <1>10, Zenon DEF IndInv, Limited, Present
  <2>4. local[i] = alloc[i].sent /\ alloc[i].sent <= alloc[i].limit
    <3>1. alloc[i].present => local[i] = alloc[i].sent + Cardinality(InUse(i))
      BY <1>1, Zenon DEF IndInv, LocalCountExact
    <3>2. alloc[i].sent <= alloc[i].limit
      BY <2>3, Zenon DEF IndInv, Limited
    <3> QED
      BY <1>3, <1>7, <1>10, <3>1, <3>2
  <2>5. PICK row : row = [alloc[i] EXCEPT !.present = FALSE]
    BY Zenon
  <2>6. /\ row \in [present : BOOLEAN, sent : Nat, limit : Nat]
        /\ ~row.present /\ row.sent = alloc[i].sent /\ row.limit = alloc[i].limit
    <3>1. alloc[i] \in [present : BOOLEAN, sent : Nat, limit : Nat]
      BY Zenon DEF IndInv, TypeOK
    <3> QED
      BY <2>5, <3>1, RowGone, Zenon
  <2>7. alloc' = [alloc EXCEPT ![i] = row]
    BY <2>1, <2>5, Zenon
  <2>8. \A j \in Infos : /\ alloc'[j].sent = alloc[j].sent /\ alloc'[j].limit = alloc[j].limit
                         /\ alloc'[j].present <=> alloc[j].present /\ j # i
    BY <2>6, <2>7, Zenon DEF IndInv, TypeOK
  <2>9. Present' = Present \ {i}
    BY <2>8, Zenon DEF Present
  <2>10. TypeOK'
    <3>0. bc.sent + local[i] \in Nat /\ bc.allocated - alloc[i].limit \in Nat
      BY <1>7, <1>10
    <3>1. bc' \in [limit : {0, granted}, sent : Nat, allocated : Nat]
      BY <2>1, <3>0, Zenon DEF IndInv, TypeOK
    <3>2. alloc' \in [Infos -> [present : BOOLEAN, sent : Nat, limit : Nat]]
      BY <2>6, <2>7, Zenon DEF IndInv, TypeOK
    <3> QED
      BY <1>1, <1>2, <3>1, <3>2, Zenon DEF IndInv, TypeOK
  <2>11. FreshUnsent'
    <3>1. \A t \in Servers : fresh[t] # None => fresh[t] \in Infos
      BY Zenon DEF IndInv, TypeOK
    <3> QED
      BY <1>1, <2>8, <3>1, Zenon DEF IndInv, FreshUnsent, Unsent
  <2>12. Limited'
    BY <1>1, <2>2, <2>8, <2>9, Zenon DEF IndInv, Limited, Present
  <2>13. LocalCountExact'
    <3> SUFFICES ASSUME NEW t \in Servers, NEW j \in ({info[t]} \ {None}) \cup dead'[t],
                        alloc'[j].present
                 PROVE  local[j] = alloc'[j].sent + Cardinality(InUse(j)')
      BY <1>1, Zenon DEF LocalCountExact
    <3>1. j \in Infos /\ j \in ({info[t]} \ {None}) \cup dead[t]
      BY <1>1 DEF IndInv, TypeOK
    <3> QED
      BY <1>2, <2>8, <3>1, Zenon DEF IndInv, LocalCountExact
  <2>14. TotalSent' = TotalSent - alloc[i].sent /\ TotalLimit' = TotalLimit - alloc[i].limit
    <3> DEFINE f == [j \in Infos |-> alloc[j].sent]
               l == [j \in Infos |-> alloc[j].limit]
    <3>1. [j \in Infos |-> alloc'[j].sent] = f /\ [j \in Infos |-> alloc'[j].limit] = l
      BY <2>8, Zenon
    <3>2. IsFiniteSet(Present) /\ \A j \in Present : f[j] \in Nat /\ l[j] \in Nat
      BY TotalsType, Zenon DEF IndInv, TypeOK, Present
    <3>3. f[i] = alloc[i].sent /\ l[i] = alloc[i].limit
      BY Zenon
    <3>4. /\ TotalSent' = Total(f, Present \ {i}) /\ TotalLimit' = Total(l, Present \ {i})
          /\ TotalSent = Total(f, Present) /\ TotalLimit = Total(l, Present)
      BY <2>9, <3>1, Zenon DEF TotalSent, TotalLimit
    <3> HIDE DEF f, l
    <3>5. /\ Total(f, Present \ {i}) = Total(f, Present) - f[i]
          /\ Total(l, Present \ {i}) = Total(l, Present) - l[i]
      BY <2>3, <3>2, TotalRemove, Zenon
    <3> QED
      BY <3>3, <3>4, <3>5, Zenon
  <2>15. TotalSent \in Nat /\ TotalLimit \in Nat
    BY TotalsType, Zenon DEF IndInv
  <2>16. AllocatedIsSum' /\ SentAccounted'
    BY <1>1, <1>7, <2>2, <2>4, <2>14, <2>15 DEF IndInv, AllocatedIsSum, SentAccounted
  <2>17. UnlimitedAccounted'
    BY <1>1, <2>3, Zenon DEF UnlimitedAccounted
  <2>18. Budget'
    <3>1. bc.allocated <= granted /\ bc.sent + bc.allocated < 2 * granted
      BY <2>3, Zenon DEF IndInv, Budget
    <3>2. bc'.allocated <= granted /\ bc'.sent + bc'.allocated < 2 * granted
      BY <1>7, <2>2, <2>4, <3>1
    <3> QED
      BY <1>1, <3>2, Zenon DEF Budget
  <2> QED
    BY <1>2, <1>4, <2>10, <2>11, <2>12, <2>13, <2>16, <2>17, <2>18, Zenon DEF IndInv
<1> QED
  BY <1>7, <1>8, <1>9, <1>10, Zenon DEF CleanupAllocation

\* Disabling a broadcast moves what was sent under all its allocations to it.
LEMMA DisableInd ==
    ASSUME IndInv, DisableBroadcasts
    PROVE  IndInv'
<1> USE DEF contacts, refresh
<1>1. /\ bc' = [limit |-> 0, sent |-> bc.sent + TotalSent,
                allocated |-> IF bc.allocated >= TotalLimit THEN bc.allocated - TotalLimit ELSE 0]
      /\ alloc' = [i \in Infos |-> [alloc[i] EXCEPT !.present = FALSE]]
      /\ UNCHANGED <<granted, sentTo, msgs, expiry, local, made, info, phase, keep, listed,
                     fresh, dead, pc, uses>>
  BY Zenon DEF DisableBroadcasts
<1>2. /\ bc.sent \in Nat /\ bc.allocated \in Nat /\ TotalSent \in Nat /\ TotalLimit \in Nat
      /\ granted \in Nat /\ granted >= 1 /\ IsFiniteSet(Present)
  BY TotalsType, BroadcastsAssumption DEF IndInv, TypeOK
<1>3. bc.allocated = TotalLimit
  BY Zenon DEF IndInv, AllocatedIsSum
<1>4. bc'.limit = 0 /\ bc'.sent = bc.sent + TotalSent /\ bc'.allocated = 0
  BY <1>1, <1>2, <1>3
<1>5. /\ alloc' \in [Infos -> [present : BOOLEAN, sent : Nat, limit : Nat]]
      /\ \A i \in Infos : /\ ~alloc'[i].present
                          /\ alloc'[i].sent = alloc[i].sent /\ alloc'[i].limit = alloc[i].limit
  <2>1. \A i \in Infos : alloc[i] \in [present : BOOLEAN, sent : Nat, limit : Nat]
    BY Zenon DEF IndInv, TypeOK
  <2> QED
    BY <1>1, <2>1, RowGone, Zenon
<1>6. TypeOK'
  <2>1. bc' \in [limit : {0, granted}, sent : Nat, allocated : Nat]
    BY <1>1, <1>2, <1>3
  <2> QED
    BY <1>1, <1>5, <2>1, Zenon DEF IndInv, TypeOK
<1>7. Owners' /\ UsesTracked' /\ SentOnce'
  BY <1>1, Zenon DEF IndInv, Owners, Own, UsesTracked, SentOnce
<1>8. FreshUnsent'
  <2>1. \A t \in Servers : fresh[t] # None => fresh[t] \in Infos
    BY Zenon DEF IndInv, TypeOK
  <2> QED
    BY <1>1, <1>5, <2>1 DEF IndInv, FreshUnsent, Unsent
<1>9. Present' = {}
  BY <1>5, Zenon DEF Present
<1>10. Limited'
  BY <1>1, <1>5, <1>9, Zenon DEF IndInv, Limited
<1>11. UsesCounted'
  BY <1>1, Zenon DEF IndInv, UsesCounted, InUse
<1>12. LocalCountExact'
  <2>1. \A t \in Servers : \A j \in ({info[t]} \ {None}) \cup dead[t] : j \in Infos
    BY Zenon DEF IndInv, TypeOK
  <2> QED
    BY <1>1, <1>5, <2>1, Zenon DEF LocalCountExact
<1>13. TotalSent' = 0 /\ TotalLimit' = 0
  BY <1>9, TotalOfNone, Zenon DEF TotalSent, TotalLimit
<1>14. AllocatedIsSum' /\ SentAccounted'
  BY <1>1, <1>2, <1>4, <1>13 DEF IndInv, AllocatedIsSum, SentAccounted
<1>15. UnlimitedAccounted'
  <2> SUFFICES ASSUME granted = BroadcastUnlimited
               PROVE  bc'.sent + Total(Spent, Live)' <= Cardinality(sentTo)
    BY <1>1, Zenon DEF UnlimitedAccounted
  <2>1. TotalSent = 0
    BY TotalOfNone, Zenon DEF IndInv, Limited, TotalSent
  <2>2. Spent' = Spent /\ Live' = Live
    BY <1>1, Zenon DEF Spent, Live, InUse
  <2>3. Total(Spent, Live)' = Total(Spent, Live)
    BY <2>2, Zenon DEF Total, Units
  <2> QED
    BY <1>2, <1>4, <2>1, <2>3 DEF IndInv, UnlimitedAccounted
<1>16. Budget'
  <2> DEFINE f == [j \in Infos |-> alloc[j].sent]
             l == [j \in Infos |-> alloc[j].limit]
  <2>1. \A j \in Present : f[j] \in Nat /\ l[j] \in Nat /\ f[j] <= l[j]
    BY Zenon DEF IndInv, TypeOK, Limited, Present
  <2>2. TotalSent = Total(f, Present) /\ TotalLimit = Total(l, Present)
    BY Zenon DEF TotalSent, TotalLimit
  <2> HIDE DEF f, l
  <2>3. TotalSent <= TotalLimit
    BY <1>2, <2>1, <2>2, TotalMonotone, Zenon
  <2> QED
    BY <1>1, <1>2, <1>3, <1>4, <2>3 DEF IndInv, Budget
<1> QED
  BY <1>6, <1>7, <1>8, <1>10, <1>11, <1>12, <1>14, <1>15, <1>16, Zenon DEF IndInv

\* Every step keeps the invariant.
LEMMA NextInd == IndInv /\ [Next]_vars => IndInv'
<1> SUFFICES ASSUME IndInv, [Next]_vars PROVE IndInv'
  BY Zenon
<1>1. CASE \E c \in Clients, s \in Servers : Send(c, s)
  BY <1>1, ControlInd, UseInfoInd, SaveInd, SaveFailsInd, Zenon DEF Send
<1>2. CASE \E s \in Servers : Refresh(s)
  BY <1>2, ControlInd, CreateAllocationInd, updateAllocsInd, CleanupInd, CleanupFailsInd, Zenon DEF Refresh
<1>3. CASE \E s \in Servers : Close(s) \/ Crash(s)
  BY <1>3, CloseInd, CrashInd, Zenon
<1>4. CASE \E i \in Infos : Tick(i)
  BY <1>4, ControlInd, Zenon
<1>5. CASE DisableBroadcasts
  BY <1>5, DisableInd, Zenon
<1>6. CASE UNCHANGED vars
  <2>1. UNCHANGED <<tables, local, made, info, fresh, dead, uses>> /\ pc' = pc /\ phase' = phase
    BY <1>6, Zenon DEF vars, refresh, contacts
  <2>2. TypeOK'
    BY <1>6, Zenon DEF vars, tables, refresh, contacts, IndInv, TypeOK
  <2> QED
    BY <2>1, <2>2, QuietInd, Zenon DEF IndInv, Owners
<1> QED
  BY <1>1, <1>2, <1>3, <1>4, <1>5, <1>6, Zenon DEF Next

-----------------------------------------------------------------------------
(* Results. *)

\* The inductive invariant holds in every state.
THEOREM Inductive == Spec => []IndInv
<1>1. Init => IndInv
  BY InitInd, Zenon
<1>2. IndInv /\ [Next]_vars => IndInv'
  BY NextInd, Zenon
<1> QED
  BY <1>1, <1>2, PTL DEF Spec

\* No client gets a message of the broadcast twice: SaveBroadcastMessage inserts
\* into broadcast_sent in the transaction that stores the message.
THEOREM AtMostOnce == Spec => []NoDuplicateBroadcast
<1>1. IndInv => NoDuplicateBroadcast
  BY DEF IndInv, SentOnce, NoDuplicateBroadcast
<1> QED
  BY <1>1, Inductive, PTL

\* The books of the datastore and of the managers tally, whatever crashes, fails
\* or is disabled in between.
THEOREM BooksTally == Spec => []AccountsExact
<1>1. IndInv => AccountsExact
  <2> SUFFICES ASSUME IndInv PROVE AccountsExact
    BY Zenon
  <2>1. SentNeverOverstated
    <3>1. /\ bc.sent \in Nat /\ TotalSent \in Nat /\ Cardinality(sentTo) \in Nat
          /\ Total(Spent, Live) \in Nat
      BY TotalsType, SpentType, Zenon DEF IndInv, TypeOK
    <3> QED
      BY <3>1 DEF IndInv, SentAccounted, UnlimitedAccounted, SentNeverOverstated
  <2> QED
    BY <2>1, Zenon DEF IndInv, AccountsExact
<1> QED
  BY <1>1, Inductive, PTL

\* The allocations of CreateAllocation never exceed the limit together, and fewer
\* than twice as many clients as the limit get the broadcast.
THEOREM OvershootIsBounded == Spec => []OvershootBounded
<1>1. IndInv => OvershootBounded
  <2> SUFFICES ASSUME IndInv, granted # BroadcastUnlimited
               PROVE  bc.allocated <= granted /\ Cardinality(sentTo) < 2 * granted
    BY Zenon DEF OvershootBounded
  <2> DEFINE f == [j \in Infos |-> alloc[j].sent]
             l == [j \in Infos |-> alloc[j].limit]
  <2>1. \A j \in Present : f[j] \in Nat /\ l[j] \in Nat /\ f[j] <= l[j]
    BY Zenon DEF IndInv, TypeOK, Limited, Present
  <2>2. TotalSent = Total(f, Present) /\ TotalLimit = Total(l, Present)
    BY Zenon DEF TotalSent, TotalLimit
  <2>3. /\ IsFiniteSet(Present) /\ TotalSent \in Nat /\ TotalLimit \in Nat
        /\ bc.sent \in Nat /\ bc.allocated \in Nat /\ granted \in Nat
    BY TotalsType, BroadcastsAssumption DEF IndInv, TypeOK
  <2> HIDE DEF f, l
  <2>4. TotalSent <= TotalLimit
    BY <2>1, <2>2, <2>3, TotalMonotone, Zenon
  <2> QED
    BY <2>3, <2>4 DEF IndInv, AllocatedIsSum, SentAccounted, Budget
<1> QED
  BY <1>1, Inductive, PTL

\* Once DisableBroadcasts has run, SaveBroadcastMessage sends to nobody, even where
\* a manager holds a bInfo or a contact is about to save.
THEOREM DisabledIsFinal == Spec => DisabledStopsSending
<1>1. IndInv /\ [Next]_vars => [bc.limit = 0 => sentTo' = sentTo]_vars
  <2> SUFFICES ASSUME IndInv, Next, bc.limit = 0 PROVE sentTo' = sentTo
    BY Zenon
  <2>1. ASSUME NEW c \in Clients, NEW s \in Servers PROVE ~SaveBroadcastMessage(c, s)
    <3> SUFFICES ASSUME SaveBroadcastMessage(c, s) PROVE FALSE
      BY Zenon
    <3>1. PICK i : i = uses[<<c, s>>]
      BY Zenon
    <3>2. pc[<<c, s>>] = "using" /\ CanSave(i, c) /\ Release(c, s) /\ UNCHANGED <<info, dead>>
      BY <3>1, Zenon DEF SaveBroadcastMessage, refresh
    <3>3. i \in Infos
      BY <3>1, <3>2, ReleaseFacts, Zenon
    <3>4. Present = {}
      BY Zenon DEF IndInv, Limited
    <3> QED
      BY <3>2, <3>3, <3>4, Zenon DEF CanSave, Present
  <2>2. CASE \E c \in Clients, s \in Servers : Send(c, s)
    <3>1. PICK c \in Clients, s \in Servers :
            ListSentBroadcasts(c, s) \/ UseInfo(c, s) \/ SaveFails(c, s)
      BY <2>1, <2>2, Zenon DEF Send
    <3> QED
      BY <3>1, Zenon DEF ListSentBroadcasts, UseInfo, SaveFails, tables
  <2>3. CASE \E s \in Servers : Refresh(s)
    BY <2>3, Zenon DEF Refresh, findCurrentAllocs, ListActiveBroadcasts, CreateAllocation, updateAllocs,
                CleanupAllocation, CleanupFails, RefreshFails, RefreshDone, tables
  <2>4. CASE \E s \in Servers : Close(s) \/ Crash(s)
    BY <2>4, Zenon DEF Close, Crash, tables
  <2>5. CASE \E i \in Infos : Tick(i)
    BY <2>5, Zenon DEF Tick, tables
  <2>6. CASE DisableBroadcasts
    BY <2>6, Zenon DEF DisableBroadcasts
  <2> QED
    BY <2>2, <2>3, <2>4, <2>5, <2>6, Zenon DEF Next
<1> QED
  BY <1>1, Inductive, PTL DEF Spec, DisabledStopsSending
=============================================================================
