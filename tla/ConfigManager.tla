---------------------------- MODULE ConfigManager ----------------------------
(***************************************************************************)
(* The configuration manager of a client and the state it keeps on disk.   *)
(* Five goroutines share it: the one that runs New (polls the revoked      *)
(* certificates, reports the first configuration), the processingLoop of   *)
(* the system service (rekeys), its cfgLoop (reports changes, polls every  *)
(* hour), syncLoop, and the Communicator (sets the sequencing nonce).  The *)
(* RWMutex of Go lets no reader in while a writer waits.  Critical         *)
(* sections that wait for nothing are one step.                            *)
(***************************************************************************)
EXTENDS Naturals, Sequences, FiniteSets, SequencesExt, Functions

CONSTANTS Serials,       \* certificates that can be revoked
          Configured,    \* a sequence: cfg.RevokedCertSerials
          MaxKeys, MaxNonce, MaxStarts    \* bounds of a behaviour

VARIABLES
  state,    \* ClientState in memory: key, nonce, list of serials
  revoked,  \* revokedSerials
  dirty,
  pc,       \* of the goroutines
  arg,      \* the serials that New, or cfgLoop, has polled
  file, tmp,   \* the state file and "<file>.new": a state, NoState or Torn
  starts,   \* how often the client was started
  keys      \* keys generated so far

vars == <<state, revoked, dirty, pc, arg, file, tmp, starts, keys>>

Actors == {"main", "new", "system", "cfg", "sync", "com"}
Pollers == {"new", "cfg"}
Senders == {"new", "system"}
NoState == [key |-> 0, nonce |-> 0, serials |-> <<>>]   \* also: no file
Torn == [NoState EXCEPT !.nonce = MaxNonce + 1]

TypeOK ==
  /\ state.key \in 0 .. MaxKeys /\ state.nonce \in 0 .. MaxNonce /\ state.serials \in Seq(Serials)
  /\ revoked \subseteq Serials /\ dirty \in BOOLEAN
  /\ \A a \in Pollers : arg[a] \in Seq(Serials)
  /\ pc.new \in {"idle", "poll", "revoke", "update", "sending"} /\ pc.main \in {"down", "starting", "up"} /\ pc.system \in {"recv", "rekey", "update", "sending"}
  /\ pc.cfg \in {"recv", "revoke", "send"} /\ pc.com \in {"idle", "nonce"}
  /\ pc.sync \in {"idle", "check", "lock", "write", "rename"}
  /\ file.nonce \in 0 .. MaxNonce /\ tmp.nonce \in 0 .. MaxNonce + 1 /\ keys \in 0 .. MaxKeys /\ starts \in 0 .. MaxStarts

NotRunning ==
  [a \in Actors |-> CASE a = "main" -> "down" [] a \in {"system", "cfg"} -> "recv" [] OTHER -> "idle"]

Init ==
  /\ state = NoState /\ revoked = {} /\ dirty = FALSE /\ arg = [a \in Pollers |-> <<>>]
  /\ pc = NotRunning
  /\ file = NoState /\ tmp = NoState /\ starts = 0 /\ keys = 0

Up == pc.main = "up"

\* The lock: doSync has it while it writes, SendConfigUpdate shares it while it
\* waits for cfgLoop; the others want it.
Sending == \E a \in Senders : pc[a] = "sending"
Waiting == \/ pc.system = "rekey" \/ pc.sync = "lock" \/ pc.com = "nonce"
           \/ \E a \in Pollers : pc[a] = "revoke"
MayRead == pc.sync \notin {"write", "rename"} /\ ~Waiting
MayWrite == pc.sync \notin {"write", "rename"} /\ ~Sending

\* AddRevokedSerials: those not known yet are also appended to the list.
Append1(acc, s) ==
  IF s \in acc.known THEN acc ELSE [known |-> acc.known \cup {s}, list |-> Append(acc.list, s)]

AddRevokedSerials(known, list, new) ==
  FoldLeft(Append1, [known |-> known, list |-> list], new)

Become(s) == state' = s /\ dirty' = TRUE

-----------------------------------------------------------------------------
(* StartManager: what was persisted, with the configured serials, and a new key
   if there is none.  It writes the result before it returns. *)
Start ==
  LET read == IF file = Torn THEN NoState ELSE file
      own  == AddRevokedSerials({}, read.serials, read.serials)
      all  == AddRevokedSerials(own.known, own.list, Configured)
      key  == IF read.key = 0 THEN keys + 1 ELSE read.key
  IN
  /\ pc.main = "down" /\ starts < MaxStarts /\ key <= MaxKeys
  /\ starts' = starts + 1
  /\ keys' = IF read.key = 0 THEN keys + 1 ELSE keys
  /\ revoked' = all.known
  /\ Become([key |-> key, nonce |-> read.nonce, serials |-> all.list])
  /\ pc' = [pc EXCEPT !.main = "starting", !.sync = "write"]
  /\ UNCHANGED <<arg, file, tmp>>

(* The system service *)

RekeyRequest ==
  /\ Up /\ pc.system = "recv" /\ keys < MaxKeys
  /\ keys' = keys + 1 /\ pc' = [pc EXCEPT !.system = "rekey"]
  /\ UNCHANGED <<state, revoked, dirty, arg, file, tmp, starts>>

Rekey ==
  /\ pc.system = "rekey" /\ MayWrite
  /\ Become([state EXCEPT !.key = keys])
  /\ pc' = [pc EXCEPT !.system = "update"]
  /\ UNCHANGED <<revoked, arg, file, tmp, starts, keys>>

\* SendConfigUpdate of the system service, or at the end of New, up to the send
\* on the unbuffered channel configChanges.
SendConfigUpdate(a) ==
  /\ pc[a] = "update" /\ MayRead
  /\ pc' = [pc EXCEPT ![a] = "sending"]
  /\ UNCHANGED <<state, revoked, dirty, arg, file, tmp, starts, keys>>

\* cfgLoop receives the change, ...
ConfigChange(a) ==
  /\ pc[a] = "sending" /\ pc.cfg = "recv"
  /\ pc' = [pc EXCEPT ![a] = IF a = "new" THEN "idle" ELSE "recv", !.cfg = "send"]
  /\ UNCHANGED <<state, revoked, dirty, arg, file, tmp, starts, keys>>

\* ... and sends it, which asks for the ClientID.
SendClientInfo ==
  /\ pc.cfg = "send" /\ MayRead
  /\ pc' = [pc EXCEPT !.cfg = "recv"]
  /\ UNCHANGED <<state, revoked, dirty, arg, file, tmp, starts, keys>>

\* What follows the poll of New, and the one of cfgLoop.
Polled(a) == IF a = "new" THEN "update" ELSE "recv"

\* pollRevokedCerts reads the list that the server has, known or not: one that
\* is not empty makes AddRevokedSerials take the lock.
pollRevokedCerts(a) ==
  /\ Up /\ pc[a] = IF a = "new" THEN "poll" ELSE "recv"
  /\ \/ /\ \E s \in Serials : arg' = [arg EXCEPT ![a] = <<s>>]
        /\ pc' = [pc EXCEPT ![a] = "revoke"]
     \/ pc' = [pc EXCEPT ![a] = Polled(a)] /\ UNCHANGED arg
  /\ UNCHANGED <<state, revoked, dirty, file, tmp, starts, keys>>

\* Variant: does not add to the list that is persisted.
RevokeInMemory(a) ==
  /\ pc[a] = "revoke" /\ MayWrite
  /\ revoked' = revoked \cup Range(arg[a]) /\ Become(state)
  /\ pc' = [pc EXCEPT ![a] = Polled(a)] /\ arg' = [arg EXCEPT ![a] = <<>>]
  /\ UNCHANGED <<file, tmp, starts, keys>>

Revoke(a) ==
  LET new == AddRevokedSerials(revoked, state.serials, arg[a]) IN
  /\ pc[a] = "revoke" /\ MayWrite
  /\ revoked' = new.known
  /\ IF new.known = revoked THEN UNCHANGED <<state, dirty>>
     ELSE Become([state EXCEPT !.serials = new.list])
  /\ pc' = [pc EXCEPT ![a] = Polled(a)] /\ arg' = [arg EXCEPT ![a] = <<>>]
  /\ UNCHANGED <<file, tmp, starts, keys>>

(* The Communicator *)

ContactData ==
  /\ Up /\ pc.com = "idle" /\ state.nonce < MaxNonce
  /\ pc' = [pc EXCEPT !.com = "nonce"]
  /\ UNCHANGED <<state, revoked, dirty, arg, file, tmp, starts, keys>>

\* Variant: does not take the lock.
SetSequencingNonceUnlocked ==
  /\ pc.com = "nonce"
  /\ Become([state EXCEPT !.nonce = @ + 1])
  /\ pc' = [pc EXCEPT !.com = "idle"]
  /\ UNCHANGED <<revoked, arg, file, tmp, starts, keys>>

SetSequencingNonce ==
  /\ pc.com = "nonce" /\ MayWrite
  /\ Become([state EXCEPT !.nonce = @ + 1])
  /\ pc' = [pc EXCEPT !.com = "idle"]
  /\ UNCHANGED <<revoked, arg, file, tmp, starts, keys>>

-----------------------------------------------------------------------------
(* syncLoop, every minute *)

Tick ==
  /\ Up /\ pc.sync = "idle"
  /\ pc' = [pc EXCEPT !.sync = "check"]
  /\ UNCHANGED <<state, revoked, dirty, arg, file, tmp, starts, keys>>

needsSync ==
  /\ pc.sync = "check" /\ MayRead
  /\ pc' = [pc EXCEPT !.sync = IF dirty THEN "lock" ELSE "idle"]
  /\ UNCHANGED <<state, revoked, dirty, arg, file, tmp, starts, keys>>

LockForSync ==
  /\ pc.sync = "lock" /\ MayWrite
  /\ pc' = [pc EXCEPT !.sync = "write"]
  /\ UNCHANGED <<state, revoked, dirty, arg, file, tmp, starts, keys>>

\* WriteState: RemoveAll and WriteFile of the temporary file, which may fail.
\* StartManager fails with it.
SyncFails ==
  /\ pc' = [pc EXCEPT !.sync = "idle", !.main = IF @ = "starting" THEN "down" ELSE @]
  /\ UNCHANGED <<state, revoked, dirty, arg, file, starts, keys>>

\* Variant: writes the state file itself.
WriteFileInPlace ==
  /\ pc.sync = "write"
  /\ file' = Torn /\ tmp' = state
  /\ pc' = [pc EXCEPT !.sync = "rename"]
  /\ UNCHANGED <<state, revoked, dirty, arg, starts, keys>>

WriteFile ==
  /\ pc.sync = "write"
  /\ \/ /\ tmp' = state /\ pc' = [pc EXCEPT !.sync = "rename"]
        /\ UNCHANGED <<state, revoked, dirty, arg, file, starts, keys>>
     \/ tmp' = Torn /\ SyncFails

\* Rename, which replaces the file in one step, and the end of doSync.  With the
\* first one StartManager returns, and New goes on.
Rename ==
  /\ pc.sync = "rename"
  /\ \/ /\ file' = tmp /\ tmp' = NoState /\ dirty' = FALSE
        /\ pc' = [pc EXCEPT !.sync = "idle", !.main = "up",
                            !.new = IF pc.main = "starting" THEN "poll" ELSE @]
        /\ UNCHANGED <<state, revoked, arg, starts, keys>>
     \/ SyncFails /\ UNCHANGED tmp

-----------------------------------------------------------------------------
(* The process ends: in a crash at any time, or by Client.Stop, which stops
   syncLoop without a last Sync.  A crash leaves a file it writes torn. *)
Down(newTmp) ==
  /\ tmp' = newTmp
  /\ pc' = NotRunning
  /\ state' = NoState /\ revoked' = {} /\ dirty' = FALSE /\ arg' = [a \in Pollers |-> <<>>]
  /\ UNCHANGED <<file, starts, keys>>

Crash ==
  /\ pc.main # "down"
  /\ Down(IF pc.sync = "write" THEN Torn ELSE tmp)

Stop ==
  /\ Up /\ \A a \in Actors \ {"main"} : pc[a] \in {"idle", "recv"}
  /\ Down(tmp)

\* All starts of the behaviour are used up.
Rest ==
  /\ pc.main = "down" /\ (starts = MaxStarts \/ (keys = MaxKeys /\ file = NoState))
  /\ UNCHANGED vars

Step ==
  \/ Rekey \/ SendClientInfo \/ SetSequencingNonce
  \/ \E a \in Senders : SendConfigUpdate(a) \/ ConfigChange(a)
  \/ \E a \in Pollers : Revoke(a)
  \/ pollRevokedCerts("new") \/ Tick \/ needsSync \/ LockForSync \/ WriteFile \/ Rename

Next == Step \/ Start \/ RekeyRequest \/ pollRevokedCerts("cfg") \/ ContactData \/ Crash \/ Stop \/ Rest

\* Goroutines that can run do; the lock is not kept from those who wait for it,
\* and a write to disk does not fail for ever.
Writers == Rekey \/ SetSequencingNonce \/ Revoke("new")
Readers == SendClientInfo \/ \E a \in Senders : SendConfigUpdate(a)
Received == \E a \in Senders : ConfigChange(a)
Written == WriteFile /\ tmp' = state
Renamed == Rename /\ file' = tmp

Fairness ==
  /\ WF_vars(pollRevokedCerts("new")) /\ WF_vars(Tick) /\ SF_vars(Received)
  /\ SF_vars(Writers) /\ SF_vars(Revoke("cfg")) /\ SF_vars(Readers) /\ SF_vars(needsSync \/ LockForSync)
  /\ SF_vars(Written) /\ SF_vars(Renamed)

Spec == Init /\ [][Next]_vars /\ Fairness

-----------------------------------------------------------------------------
(* Properties *)

\* The state file is never torn: a crash at any step of WriteState leaves a
\* state that the manager has had (filesystem_persistence_handler.go:99).
FileNeverTorn == file # Torn

\* What is not marked dirty is on disk: a sync cannot clear the mark of a change
\* that it did not write.
CleanIsWritten == Up /\ ~dirty => file = state

\* A certificate that was revoked and persisted is refused ever after.
RevokedStay == Up => /\ Range(state.serials) = revoked /\ Range(Configured) \subseteq revoked
                     /\ Range(file.serials) \subseteq revoked

\* The persisted list grows with every start, by one copy of every serial in it
\* (manager.go:104 adds what it read to a list that already has it), and by no
\* more.
SerialsGrowth == Len(state.serials) <= (starts + 1) * Cardinality(Serials)

\* Where the manager is deadlocked: SendConfigUpdate keeps the read lock until
\* cfgLoop receives (manager.go:279-293), and cfgLoop waits for the lock, either
\* to write, in pollRevokedCerts, or to read behind a writer that waits.
Deadlocked ==
  /\ Sending
  /\ \/ pc.cfg = "revoke"
     \/ pc.cfg = "send" /\ Waiting

Updating == \E a \in Senders : pc[a] \in {"update", "sending"}
Updated == ~Updating \/ Deadlocked

\* "A Manager ... is safe for concurrent access" (manager.go:40): an update of
\* the configuration gets to the server, with the one exception of Deadlocked.
ConfigUpdateSent == Updating ~> Updated

Unsynced == Up /\ dirty
Synced == ~dirty \/ ~Up \/ Deadlocked

\* A change is written to disk, sooner or later, while the client runs and the
\* manager is not deadlocked.
DirtySynced == Unsynced ~> Synced

\* The exception is no wider than it must be: nothing but the end of the process
\* ends a deadlock.
DeadlockKept == Deadlocked => Deadlocked' \/ pc'.main = "down"
=============================================================================
