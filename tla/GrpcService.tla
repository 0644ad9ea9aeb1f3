------------------------------ MODULE GrpcService ------------------------------
(***************************************************************************)
(* A server-side service in a process of its own.  Towards it,             *)
(* server/grpcservice forwards each message over a grpc connection that    *)
(* Update replaces, retrying until its context is done; the Python         *)
(* Servicer checks the message and runs a callback.  From it, the Python   *)
(* OutgoingConnection inserts messages with RetryLoop, under a timeout     *)
(* counted in ticks.  A call may fail before or after it took effect.      *)
(***************************************************************************)
EXTENDS Integers, FiniteSets, FiniteSetsExt

CONSTANTS
    Msgs,        \* messages Fleetspeak hands to the service
    Misaddressed,\* those of them addressed to another service
    Conns,       \* connections Update is given, one after the other: 1..n
    timeout, single_try_timeout,   \* RetryLoop's parameters
    MaxLosses,   \* bound: calls of ProcessMessage whose callback raises, or whose answer is lost
    MayStop

VARIABLES
    conn,        \* the connection, 0 for nil
    live,        \* the connection whose other end is there
    writer,      \* "no", "update" or "stop": who waits for, or holds, the write lock
    st,          \* by message: "new", "calling", "waiting", "ok", "temporary", "failed"
    err,         \* by message, the last answer: "none", "lost", "invalid", "raised"
    handled,     \* by message, times the callback ran
    losses,
    now, deadline, sleep, cur,   \* RetryLoop: clock, deadline, back-off, time for this try
    call,        \* InsertMessage: "idle", "trying", "sleeping", "ok", "raised"
    id,          \* message_id the call sends with
    rows,        \* ids the server has stored for it
    keepalive    \* _KeepAliveLoop: "run", "calling", "down"

incoming == <<conn, live, writer, st, err, handled, losses>>
outgoing == <<now, deadline, sleep, cur, call, id, rows, keepalive>>
vars == <<incoming, outgoing>>

-----------------------------------------------------------------------------
(* GRPCService. *)

Readers == {m \in Msgs : st[m] \in {"calling", "waiting"}}

\* ProcessMessage: the read lock, and a connection or a temporary error.
ProcessMessage(m) ==
    /\ st[m] \in {"new", "temporary"} /\ writer = "no"
    /\ st' = [st EXCEPT ![m] = IF conn = 0 THEN "temporary" ELSE "calling"]
    /\ err' = [err EXCEPT ![m] = "none"]
    /\ UNCHANGED <<conn, live, writer, handled, losses, outgoing>>

\* Servicer.Process: messages for another service are refused; the callback runs.
\* A callback that raises is answered with the code UNKNOWN.
Process(m) ==
    /\ st[m] = "calling" /\ conn = live
    /\ IF m \in Misaddressed
       THEN /\ st' = [st EXCEPT ![m] = "waiting"] /\ err' = [err EXCEPT ![m] = "invalid"]
            /\ UNCHANGED <<handled, losses>>
       ELSE /\ handled' = [handled EXCEPT ![m] = @ + 1]
            /\ \/ st' = [st EXCEPT ![m] = "ok"] /\ UNCHANGED <<err, losses>>
               \/ /\ losses < MaxLosses /\ losses' = losses + 1
                  /\ st' = [st EXCEPT ![m] = "waiting"]
                  /\ \E e \in {"lost", "raised"} : err' = [err EXCEPT ![m] = e]
    /\ UNCHANGED <<conn, live, writer, outgoing>>

\* The other end is not there.
Unreachable(m) ==
    /\ st[m] = "calling" /\ conn # live
    /\ st' = [st EXCEPT ![m] = "waiting"] /\ err' = [err EXCEPT ![m] = "lost"]
    /\ UNCHANGED <<conn, live, writer, handled, losses, outgoing>>

\* The timer: another try.
TryAgain(m) ==
    /\ st[m] = "waiting" /\ st' = [st EXCEPT ![m] = "calling"]
    /\ UNCHANGED <<conn, live, writer, err, handled, losses, outgoing>>

\* Variant: every error is for good.
ContextDoneFails(m) ==
    /\ st[m] = "waiting"
    /\ st' = [st EXCEPT ![m] = "failed"]
    /\ UNCHANGED <<conn, live, writer, err, handled, losses, outgoing>>

\* ctx.Done: Fleetspeak tries the retryable errors again minutes later; UNKNOWN is
\* not one of them.
ContextDone(m) ==
    /\ st[m] = "waiting"
    /\ st' = [st EXCEPT ![m] = IF err[m] \in {"invalid", "raised"} THEN "failed" ELSE "temporary"]
    /\ UNCHANGED <<conn, live, writer, err, handled, losses, outgoing>>

\* The other end moves; Update is called with a connection to it and waits for the
\* calls in progress, which hold the read lock.
Moves ==
    /\ live + 1 \in Conns /\ writer = "no"
    /\ live' = live + 1 /\ writer' = "update"
    /\ UNCHANGED <<conn, st, err, handled, losses, outgoing>>

Update ==
    /\ writer = "update" /\ Readers = {}
    /\ conn' = live /\ writer' = "no"
    /\ UNCHANGED <<live, st, err, handled, losses, outgoing>>

StopCalled ==
    /\ MayStop /\ writer = "no" /\ conn # 0 /\ writer' = "stop"
    /\ UNCHANGED <<conn, live, st, err, handled, losses, outgoing>>

Stop ==
    /\ writer = "stop" /\ Readers = {}
    /\ conn' = 0 /\ writer' = "no"
    /\ UNCHANGED <<live, st, err, handled, losses, outgoing>>

-----------------------------------------------------------------------------
(* OutgoingConnection. *)

\* InsertMessage fixes the message id, and enters RetryLoop.
InsertMessage ==
    /\ call = "idle"
    /\ id' = 1 /\ deadline' = now + timeout /\ cur' = single_try_timeout /\ sleep' = 1
    /\ call' = "trying"
    /\ UNCHANGED <<now, rows, keepalive, incoming>>

\* One try ends after d ticks: its effect took place or not, it is heard of or not.
Fn ==
    /\ call = "trying"
    /\ \E d \in 0..cur, done, heard \in BOOLEAN :
         /\ heard => done
         /\ now' = now + d
         /\ rows' = IF done THEN rows \cup {id} ELSE rows
         /\ call' = IF heard THEN "ok"
                    ELSE IF now' + sleep > deadline THEN "raised" ELSE "sleeping"
    /\ UNCHANGED <<deadline, sleep, cur, id, keepalive, incoming>>

\* Variant: each try has the full time.
RetryLoopWholeTry ==
    /\ call = "sleeping"
    /\ now' = now + sleep /\ sleep' = 2 * sleep
    /\ cur' = single_try_timeout
    /\ call' = "trying"
    /\ UNCHANGED <<deadline, id, rows, keepalive, incoming>>

\* Variant: each try has an id of its own.
RetryLoopFreshId ==
    /\ call = "sleeping"
    /\ now' = now + sleep /\ sleep' = 2 * sleep
    /\ cur' = Min({Max({0, deadline - now'}), single_try_timeout})
    /\ call' = "trying" /\ id' = id + 1
    /\ UNCHANGED <<deadline, rows, keepalive, incoming>>

\* The back-off, and what is left for the next try.
RetryLoop ==
    /\ call = "sleeping"
    /\ now' = now + sleep /\ sleep' = 2 * sleep
    /\ cur' = Min({Max({0, deadline - now'}), single_try_timeout})
    /\ call' = "trying"
    /\ UNCHANGED <<deadline, id, rows, keepalive, incoming>>

\* _KeepAliveLoop, outside its condition variable while it calls; Shutdown joins it.
KeepAlive ==
    /\ keepalive \in {"run", "calling"} /\ keepalive' = IF keepalive = "run" THEN "calling" ELSE "run"
    /\ UNCHANGED <<now, deadline, sleep, cur, call, id, rows, incoming>>

Shutdown ==
    /\ MayStop /\ call \in {"ok", "raised"} /\ keepalive = "run" /\ keepalive' = "down"
    /\ UNCHANGED <<now, deadline, sleep, cur, call, id, rows, incoming>>

-----------------------------------------------------------------------------

Init ==
    /\ conn = 1 /\ live = 1 /\ writer = "no"
    /\ st = [m \in Msgs |-> "new"] /\ err = [m \in Msgs |-> "none"]
    /\ handled = [m \in Msgs |-> 0] /\ losses = 0
    /\ now = 0 /\ deadline = 0 /\ sleep = 1 /\ cur = 0 /\ call = "idle" /\ id = 0 /\ rows = {}
    /\ keepalive = "run"

Call(m) == ProcessMessage(m) \/ Process(m) \/ Unreachable(m) \/ TryAgain(m) \/ ContextDone(m)

Next ==
    \/ \E m \in Msgs : Call(m)
    \/ Moves \/ Update \/ StopCalled \/ Stop
    \/ InsertMessage \/ Fn \/ RetryLoop \/ KeepAlive \/ Shutdown

Spec == Init /\ [][Next]_vars

\* Fleetspeak retries, calls answer, contexts end, and the lock is granted.
FairSpec ==
    /\ Spec /\ WF_vars(Update) /\ WF_vars(Stop)
    /\ \A m \in Msgs : WF_vars(Call(m)) /\ SF_vars(ContextDone(m)) /\ SF_vars(ProcessMessage(m))

-----------------------------------------------------------------------------

TypeOK ==
    /\ conn \in {0} \cup Conns /\ live \in Conns /\ writer \in {"no", "update", "stop"}
    /\ \A m \in Msgs : /\ st[m] \in {"new", "calling", "waiting", "ok", "temporary", "failed"}
                       /\ handled[m] \in 0..(MaxLosses + 1)
    /\ call \in {"idle", "trying", "sleeping", "ok", "raised"} /\ losses \in 0..MaxLosses
    /\ keepalive \in {"run", "calling", "down"} /\ cur <= single_try_timeout

\* InsertMessage fixes message_id so that a retry of a call that took effect does
\* not insert the message a second time.
StoredOnce == Cardinality(rows) <= 1

\* RetryLoop returns or raises by its deadline, or by the end of a first try that
\* was given more.
ReturnsInTime ==
    call \in {"trying", "ok", "raised"} => now <= Max({timeout, single_try_timeout})

\* ProcessMessage reports success only for what the callback has seen, and failure
\* for good only for what the other end refused, or what its callback raised an
\* exception on when it was last called.
ReportTrue ==
    \A m \in Msgs : /\ st[m] = "ok" => handled[m] > 0
                    /\ st[m] = "failed" => m \in Misaddressed \/ (handled[m] > 0 /\ err[m] = "raised")

Ending == writer # "no"
Ended == writer = "no"

\* Update and Stop wait for calls that retry towards an end that may be gone for
\* good: they return because the calls' contexts end.
LockGranted == Ending ~> Ended

Offered(m) == m \in Msgs \ Misaddressed
Answered(m) == st[m] = "ok" \/ conn = 0 \/ (st[m] = "failed" /\ err[m] = "raised")

\* When the other end has moved, messages reach it over the new connection.
EventuallyHandled == \A m \in Msgs : Offered(m) ~> Answered(m)
=============================================================================
