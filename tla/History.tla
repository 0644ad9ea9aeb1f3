-------------------------------- MODULE History --------------------------------
(***************************************************************************)
(* The analysis of the contacts of a client id (admin/history/history.go), *)
(* over the contacts machines with that id make.  The server answers each  *)
(* contact with a fresh nonce, and a machine sends the nonce it last got:  *)
(* a machine restored from an image, or a clone, sends an old one.  Nonces *)
(* are numbered in the order they are made, 0 is no nonce.                 *)
(***************************************************************************)
EXTENDS Integers, Sequences, FiniteSets, FiniteSetsExt, TLC

CONSTANTS
    Machines,      \* machines with the client id; one runs, the others are clones to be
    Addresses,     \* addresses seen by the server, "" for one it cannot parse
    MaxContacts, MaxImages, MaxLost,
    Skew           \* how far server clocks are off, in halves of a contact

VARIABLES
    log,       \* the contacts the datastore has, oldest first
    oldest,    \* the first of them the datastore still has
    nonce,     \* the nonce a machine has; -1 for a clone not started
    images,    \* nonces in saved machine images
    restores,  \* contacts made from a restored image, with a nonce that is not the newest
    lost       \* answers that did not arrive

vars == <<log, oldest, nonce, images, restores, lost>>

Contacts(cs) == {cs[i] : i \in DOMAIN cs}
nonceMap(cs) == {c.sent : c \in Contacts(cs)}

validate(cs) ==
    \A i, j \in DOMAIN cs : i # j => cs[i].time # cs[j].time /\ cs[i].sent # cs[j].sent

validateTime(cs) ==
    \A c, p \in Contacts(cs) : c.received # 0 /\ c.received = p.sent => p.time < c.time

countIPs(cs) == Cardinality({c.address : c \in Contacts(cs)} \ {""})

\* Contacts that refer to a nonce older than the contacts at hand count as 0.
Target(c, cs) == IF c.received \in nonceMap(cs) THEN c.received ELSE 0
References(n, cs) == Cardinality({i \in DOMAIN cs : Target(cs[i], cs) = n})
Targets(cs) == {Target(c, cs) : c \in Contacts(cs)}
\* A variant of countSplits that counts every reference to a split point.
countSplitsOffByOne(cs) ==
    LET many == {n \in Targets(cs) : References(n, cs) > 1}
    IN  [splits |-> MapThenSumSet(LAMBDA n : References(n, cs), many),
         splitPoints |-> Cardinality(many)]

countSplits(cs) ==
    LET many == {n \in Targets(cs) : References(n, cs) > 1}
    IN  [splits |-> MapThenSumSet(LAMBDA n : References(n, cs) - 1, many),
         splitPoints |-> Cardinality(many)]

countSkips(cs) == Cardinality({i \in 2..Len(cs) : cs[i].received # cs[i - 1].sent})

NoSummary == [error |-> TRUE]
Summarize(contacts) ==
    LET cs == SortSeq(contacts, LAMBDA c, d : c.time < d.time)
        found == countSplits(cs)
    IN  IF ~validate(contacts) \/ ~validateTime(cs) THEN NoSummary
        ELSE [error |-> FALSE, count |-> Len(cs), ipCount |-> countIPs(cs),
              splits |-> found.splits, splitPoints |-> found.splitPoints,
              skips |-> countSkips(cs)]

Newest == Len(log)
Stored == SubSeq(log, oldest, Len(log))
Summary == Summarize(Stored)

Init ==
    /\ log = <<>> /\ oldest = 1 /\ images = {} /\ restores = 0 /\ lost = 0
    /\ \E m \in Machines : nonce = [n \in Machines |-> IF n = m THEN 0 ELSE -1]

\* A contact: the datastore records it with a time no other contact has.
Contact(m, answered) ==
    /\ nonce[m] # -1 /\ Len(log) < MaxContacts
    /\ answered \/ lost < MaxLost
    /\ \E off \in -Skew..Skew, a \in Addresses :
          LET time == 2 * Len(log) + off
          IN  /\ \A i \in DOMAIN log : log[i].time # time
              /\ log' = Append(log, [sent |-> Len(log) + 1, received |-> nonce[m],
                                     time |-> time, address |-> a])
    /\ nonce' = IF answered THEN [nonce EXCEPT ![m] = Len(log) + 1] ELSE nonce
    /\ restores' = restores + (IF nonce[m] = Newest THEN 0 ELSE 1)
    /\ lost' = lost + (IF answered THEN 0 ELSE 1)
    /\ UNCHANGED <<oldest, images>>

SaveImage(m) ==
    /\ nonce[m] # -1 /\ Cardinality(images) < MaxImages
    /\ images' = images \cup {nonce[m]}
    /\ UNCHANGED <<log, oldest, nonce, restores, lost>>

\* A machine is set back to an image, or a clone is started from it.
Restore(m, n) ==
    /\ n \in images
    /\ nonce' = [nonce EXCEPT ![m] = n]
    /\ UNCHANGED <<log, oldest, images, restores, lost>>

\* The datastore drops old contacts.
Expire ==
    /\ oldest < Len(log)
    /\ oldest' = oldest + 1
    /\ UNCHANGED <<log, nonce, images, restores, lost>>

Next ==
    \/ \E m \in Machines : SaveImage(m) \/ \E n \in images : Restore(m, n)
    \/ \E m \in Machines, answered \in BOOLEAN : Contact(m, answered)
    \/ Expire

Spec == Init /\ [][Next]_vars
-----------------------------------------------------------------------------
\* The whole log is there, and its times are in order.
Complete == oldest = 1 /\ \A i \in 2..Len(log) : log[i - 1].time < log[i].time

\* Skips never fall short of splits, whatever part of the log is left and
\* whatever was restored, cloned or lost (the advice of Summary's comment to
\* read "Skips > Splits" as a clone rests on it).
SplitsWithinSkips == LET s == Summary IN ~s.error => s.splits <= s.skips

\* Without restores and lost answers a machine's contacts show no split and no
\* skip, and are never refused (Summarize's errors are "data errors").
NormalIsZero ==
    Complete /\ restores = 0 =>
        LET s == Summary IN ~s.error /\ s.splits = 0 /\ s.splitPoints = 0 /\ s.skips = 0
================================================================================
