----------------------------- MODULE FlowControl -----------------------------
(***************************************************************************)
(* Flow control of messages to one service of a client over a streaming    *)
(* connection.  The client grants tokens with every contact, from the      *)
(* counts of its service; the server spends one for every message it sends *)
(* and keeps what is left in the datastore.  Counts are uint64: they and   *)
(* everything computed from them are taken modulo `Modulus'.               *)
(***************************************************************************)
EXTENDS Integers, Sequences, FiniteSetsExt

CONSTANTS inboxSize,    \* of the client
          FindLimit,    \* messages that one search returns at most
          Modulus,      \* stands for 2^64
          Processors,   \* goroutines of the server's readLoop
          MaxMessages, MaxLocal, MaxRestarts   \* bounds of a behaviour

\* An inbox, and the messages that services of a client send each other, are far
\* from 2^64.
ASSUME FlowAssumption ==
  /\ {inboxSize, FindLimit, Modulus, MaxMessages, MaxLocal, MaxRestarts} \subseteq Nat
  /\ inboxSize + MaxLocal < Modulus
  /\ IsFiniteSet(Processors)

VARIABLES
  installed,   \* client: the service is in the map
  inbox,       \* client: messages in its inbox
  acceptCount, processedCount,
  base,        \* client: connection.processed of the service, or NoBase
  hand,        \* client: messages readLoop has yet to deliver
  counting,    \* client: one of them is in the inbox and not yet counted
  up, down,    \* tokens, and numbers of messages, on the wire
  tokens,      \* server: messageTokens of the service
  waiting,     \* server: messages in the datastore
  notices, localNotices,   \* server: the channels of notifyLoop hold a token
  notify,      \* server: notifyLoop, and the messages it has found
  proc,        \* server: the goroutines that process contacts
  short,       \* server: SubtractMessageTokens found fewer tokens than needed
  created, locals, restarts

vars == <<installed, inbox, acceptCount, processedCount, base, hand, counting, up, down, tokens,
          waiting, notices, localNotices, notify, proc, short, created, locals, restarts>>
clientVars == <<installed, inbox, acceptCount, processedCount, base, hand, counting>>
serverVars == <<tokens, waiting, notices, localNotices, notify, proc, short>>
bounds == <<created, locals, restarts>>

NoBase == Modulus
Free == [pc |-> "free", delta |-> 0, blocked |-> FALSE]
Minus(a, b) == (a + Modulus - b) % Modulus

Counts == 0 .. Modulus - 1

TypeOK ==
  /\ installed \in BOOLEAN /\ inbox \in 0 .. inboxSize
  /\ acceptCount \in Counts /\ processedCount \in Counts /\ base \in Counts \cup {NoBase}
  /\ hand \in Nat /\ counting \in BOOLEAN
  /\ up \in Seq(Counts) /\ down \in Seq(Counts)
  /\ tokens \in Counts /\ waiting \in Nat
  /\ notices \in BOOLEAN /\ localNotices \in BOOLEAN /\ short \in BOOLEAN
  /\ notify \in [pc : {"wait", "find", "subtract"}, found : Counts]
  /\ proc \in [Processors -> [pc : {"free", "add", "check"}, delta : Counts, blocked : BOOLEAN]]
  /\ created \in Nat /\ locals \in 0 .. MaxLocal /\ restarts \in Nat

\* MakeContactData: what is allowed to come, in total or since the last contact.
\* A service that is not installed is in neither map.
allowedMessages ==
  IF ~installed THEN 0
  ELSE IF base = NoBase THEN Minus(inboxSize, Minus(acceptCount, processedCount))
  ELSE Minus(processedCount, base)

processed == IF installed THEN processedCount ELSE NoBase

\* A connection starts with its first contact: InitializeConnection adds the
\* tokens and looks for messages.
Init ==
  /\ installed = TRUE /\ inbox = 0 /\ acceptCount = 0 /\ processedCount = 0
  /\ base = 0 /\ hand = 0 /\ counting = FALSE /\ up = <<>> /\ down = <<>>
  /\ tokens = inboxSize /\ waiting = 0 /\ notices = FALSE /\ localNotices = FALSE
  /\ notify = [pc |-> "find", found |-> 0] /\ short = FALSE
  /\ proc = [p \in Processors |-> Free]
  /\ created = 0 /\ locals = 0 /\ restarts = 0

-----------------------------------------------------------------------------
(* The client *)

\* writeLoop sends a contact: because of a message, or of the processing beacon.
\* (Contacts that would grant nothing are left out.)
SendContact ==
  /\ Len(up) < Cardinality(Processors) /\ base # processed
  /\ up' = Append(up, allowedMessages)
  /\ base' = processed
  /\ UNCHANGED <<installed, inbox, acceptCount, processedCount, hand, counting, down, serverVars, bounds>>

ReadContactData ==
  /\ down # <<>> /\ hand = 0 /\ ~counting
  /\ hand' = Head(down) /\ down' = Tail(down)
  /\ UNCHANGED <<installed, inbox, acceptCount, processedCount, base, counting, up, serverVars, bounds>>

\* serviceConfiguration.ProcessMessage: a message for a service that is not there
\* is dropped, one for a full inbox waits.
Deliver ==
  /\ hand > 0 /\ ~counting
  /\ hand' = hand - 1
  /\ \/ ~installed /\ UNCHANGED <<inbox, counting>>
     \/ installed /\ inbox < inboxSize /\ inbox' = inbox + 1 /\ counting' = TRUE
  /\ UNCHANGED <<installed, acceptCount, processedCount, base, up, down, serverVars, bounds>>

CountAccepted ==
  /\ counting
  /\ acceptCount' = (acceptCount + 1) % Modulus /\ counting' = FALSE
  /\ UNCHANGED <<installed, inbox, processedCount, base, hand, up, down, serverVars, bounds>>

\* processingLoop takes a message.
Process ==
  /\ inbox > 0
  /\ inbox' = inbox - 1 /\ processedCount' = (processedCount + 1) % Modulus
  /\ UNCHANGED <<installed, acceptCount, base, hand, counting, up, down, serverVars, bounds>>

\* Another service of the client sends a message to this one.
LocalMessage ==
  /\ locals < MaxLocal /\ installed /\ inbox < inboxSize
  /\ inbox' = inbox + 1 /\ acceptCount' = (acceptCount + 1) % Modulus /\ locals' = locals + 1
  /\ UNCHANGED <<installed, processedCount, base, hand, counting, up, down, serverVars, created, restarts>>

\* RestartService removes the service and processes what it has accepted; the
\* new instance counts from 0.
RestartBegins ==
  /\ restarts < MaxRestarts /\ installed
  /\ installed' = FALSE /\ restarts' = restarts + 1
  /\ UNCHANGED <<inbox, acceptCount, processedCount, base, hand, counting, up, down, serverVars, created, locals>>

RestartEnds ==
  /\ ~installed /\ inbox = 0 /\ ~counting
  /\ installed' = TRUE /\ acceptCount' = 0 /\ processedCount' = 0
  /\ UNCHANGED <<inbox, base, hand, counting, up, down, serverVars, bounds>>

-----------------------------------------------------------------------------
(* The server *)

\* A message for the service is stored and the dispatcher notified.
NewMessage ==
  /\ created < MaxMessages
  /\ created' = created + 1 /\ waiting' = waiting + 1 /\ notices' = TRUE
  /\ UNCHANGED <<clientVars, up, down, tokens, localNotices, notify, proc, short, locals, restarts>>

\* processOne first looks which services have no tokens.
ProcessContact(p) ==
  /\ proc[p].pc = "free" /\ up # <<>>
  /\ proc' = [proc EXCEPT ![p] = [pc |-> "add", delta |-> Head(up), blocked |-> tokens = 0]]
  /\ up' = Tail(up)
  /\ UNCHANGED <<clientVars, down, tokens, waiting, notices, localNotices, notify, short, bounds>>

\* Variant: replaces the count instead of adding to it.
AddMessageTokensReplaced(p) ==
  /\ proc[p].pc = "add"
  /\ tokens' = proc[p].delta
  /\ proc' = [proc EXCEPT ![p].pc = "check"]
  /\ UNCHANGED <<clientVars, up, down, waiting, notices, localNotices, notify, short, bounds>>

AddMessageTokens(p) ==
  /\ proc[p].pc = "add"
  /\ tokens' = (tokens + proc[p].delta) % Modulus
  /\ proc' = [proc EXCEPT ![p].pc = "check"]
  /\ UNCHANGED <<clientVars, up, down, waiting, notices, localNotices, notify, short, bounds>>

\* It then wakes notifyLoop if a service that had none has tokens now.
NotifyUnblocked(p) ==
  /\ proc[p].pc = "check"
  /\ localNotices' = (localNotices \/ (proc[p].blocked /\ tokens > 0))
  /\ proc' = [proc EXCEPT ![p] = Free]
  /\ UNCHANGED <<clientVars, up, down, tokens, waiting, notices, notify, short, bounds>>

\* notifyLoop waits for a notice, and for a second more, which takes up Notices.
Wake ==
  /\ notify.pc = "wait"
  /\ \/ notices /\ UNCHANGED localNotices
     \/ localNotices /\ localNotices' = FALSE
  /\ notices' = FALSE /\ notify' = [notify EXCEPT !.pc = "find"]
  /\ UNCHANGED <<clientVars, up, down, tokens, waiting, proc, short, bounds>>

\* findMessagesForClient reserves as many messages as it has read tokens ...
FindMessages ==
  LET n == Min({tokens, waiting, FindLimit}) IN
  /\ notify.pc = "find"
  /\ waiting' = waiting - n
  /\ notify' = [pc |-> "subtract", found |-> n]
  /\ UNCHANGED <<clientVars, up, down, tokens, notices, localNotices, proc, short, bounds>>

\* ... and takes the tokens away; a shortage ends the server (log.Exitf).  It
\* searches again at once if there may be more.
SubtractMessageTokens ==
  LET n == notify.found IN
  /\ notify.pc = "subtract"
  /\ IF n > tokens THEN short' = TRUE /\ UNCHANGED tokens
     ELSE tokens' = tokens - n /\ UNCHANGED short
  /\ down' = IF n > 0 THEN Append(down, n) ELSE down
  /\ notify' = [pc |-> IF n = FindLimit THEN "find" ELSE "wait", found |-> 0]
  /\ UNCHANGED <<clientVars, up, waiting, notices, localNotices, proc, bounds>>

-----------------------------------------------------------------------------
Client == SendContact \/ ReadContactData \/ Deliver \/ CountAccepted \/ Process \/ RestartEnds
Server == \/ \E p \in Processors : ProcessContact(p) \/ AddMessageTokens(p) \/ NotifyUnblocked(p)
          \/ Wake \/ FindMessages \/ SubtractMessageTokens

\* The stream is idle, or the server has exited.
Rest ==
  /\ short \/ ~ENABLED (Client \/ Server)
  /\ UNCHANGED vars

Next == (~short /\ (Client \/ Server \/ NewMessage \/ LocalMessage \/ RestartBegins)) \/ Rest

Fairness == WF_vars(Client \/ Server)

Spec == Init /\ [][Next]_vars /\ Fairness

-----------------------------------------------------------------------------
(* Properties *)

\* The sum of the values of a function, as the number of their units.
Units(f) == {u \in (DOMAIN f) \X (1 .. Modulus) : u[2] <= f[u[1]]}
Sum(f) == Cardinality(Units(f))

\* Tokens of contacts that are being processed.
Granted == [p \in Processors |-> IF proc[p].pc = "add" THEN proc[p].delta ELSE 0]

\* Tokens that exist and messages that took one, wherever they are.
Outstanding ==
  tokens + Sum(up) + Sum(Granted) + Minus(processedCount, base) + Sum(down) + hand + inbox

\* Tokens are conserved: those that exist and the messages that took one fill the
\* inbox exactly, but every message from another service of the client, which took
\* none, adds a token when it is processed.
TokensConserved == Outstanding = inboxSize + locals

\* The server never finds fewer tokens than it has messages for: it does not
\* exit (comms.go:110), although contacts are processed while it searches, and
\* tokens are neither made nor lost, as long as the client's services do not
\* restart.
NeverShort == restarts = 0 => ~short /\ TokensConserved
=============================================================================
