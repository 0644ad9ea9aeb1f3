------------------------------ MODULE Heartbeats ------------------------------
(***************************************************************************)
(* Heartbeat monitoring of a daemon service's process:                     *)
(* heartbeatMonitorRoutine and inRoutine of                                *)
(* client/daemonservice/execution/execution.go.                            *)
(*                                                                         *)
(* Time passes in seconds.  The clock is kept as the age of the last       *)
(* heartbeat, counted up to the limit, and as what is left of the          *)
(* monitor's sleep.  busySleep does not count a suspension of the machine, *)
(* time.Since does.  A process that works writes at least once a second.   *)
(***************************************************************************)
EXTENDS Naturals

CONSTANTS initialHeartbeatTimeout,
          heartbeatTimeout,
          Grace,        \* the second chance after a late heartbeat, 2 seconds
          MaxQueued,    \* messages the pipe holds
          MayCancel     \* whether the execution's context is cancelled

VARIABLES proc,      \* the process: "works", "hangs" or "killed"
          wrote,     \* it wrote in the current second
          queued,    \* messages in the pipe
          sending,   \* e.sending: inRoutine is in sc.Send
          age,       \* time.Since(e.heartbeat)
          monitor,   \* where heartbeatMonitorRoutine is
          left,      \* what is left of its sleep
          cancelled  \* its context is done

vars == <<proc, wrote, queued, sending, age, monitor, left, cancelled>>

\* The timeout is exceeded as soon as that many whole seconds have passed.
Late == age >= heartbeatTimeout

Init ==
    /\ proc = "works" /\ wrote = FALSE /\ queued = 0
    /\ sending = FALSE
    /\ age = 0
    /\ monitor = "initial" /\ left = initialHeartbeatTimeout
    /\ cancelled = FALSE

-----------------------------------------------------------------------------

\* The process writes a message, a heartbeat or another one.  A full pipe
\* keeps it waiting, which is no failure of its own.
Write ==
    /\ proc = "works" /\ ~wrote
    /\ wrote' = TRUE
    /\ queued' = IF queued < MaxQueued THEN queued + 1 ELSE queued
    /\ UNCHANGED <<proc, sending, age, monitor, left, cancelled>>

\* The process stops answering.
Hang ==
    /\ proc = "works"
    /\ proc' = "hangs"
    /\ UNCHANGED <<wrote, queued, sending, age, monitor, left, cancelled>>

\* inRoutine: a message sets the heartbeat; one for the server is sent, which
\* blocks while the client's buffer is full.
inRoutine ==
    /\ ~sending /\ queued > 0
    /\ queued' = queued - 1
    /\ age' = 0
    /\ sending' \in BOOLEAN
    /\ UNCHANGED <<proc, wrote, monitor, left, cancelled>>

\* sc.Send returns.
SentKeepsFlag ==
    /\ sending
    /\ UNCHANGED vars

Sent ==
    /\ sending
    /\ sending' = FALSE
    /\ UNCHANGED <<proc, wrote, queued, age, monitor, left, cancelled>>

Awake == left = 0 /\ monitor \in {"initial", "check", "recheck"}

\* heartbeatMonitorRoutine wakes up from busySleep; a cancelled context ends it.
CheckOnce ==
    /\ Awake /\ monitor \in {"initial", "check"} /\ ~cancelled
    /\ \/ sending /\ monitor' = "check" /\ left' = heartbeatTimeout
       \/ ~sending /\ Late /\ monitor' = "recheck" /\ left' = 0
       \/ ~sending /\ ~Late /\ monitor' = "check" /\ left' = heartbeatTimeout - age
    /\ UNCHANGED <<proc, wrote, queued, sending, age, cancelled>>

Check ==
    /\ Awake /\ monitor \in {"initial", "check"} /\ ~cancelled
    /\ \/ sending /\ monitor' = "check" /\ left' = heartbeatTimeout
       \/ ~sending /\ Late /\ monitor' = "recheck" /\ left' = Grace
       \/ ~sending /\ ~Late /\ monitor' = "check" /\ left' = heartbeatTimeout - age
    /\ UNCHANGED <<proc, wrote, queued, sending, age, cancelled>>

\* The check after the second chance: the kill notification is sent and the
\* process killed.  A kill that fails is tried again.
Recheck ==
    /\ Awake /\ monitor = "recheck" /\ ~cancelled
    /\ \/ Late /\ ~sending /\ proc' = "killed" /\ monitor' = "done" /\ left' = 0
       \/ Late /\ sending /\ monitor' = "check" /\ left' = 0 /\ UNCHANGED proc
       \/ ~Late /\ monitor' = "check" /\ left' = heartbeatTimeout - age /\ UNCHANGED proc
    /\ UNCHANGED <<wrote, queued, sending, age, cancelled>>

\* The context is done.
Ends ==
    /\ cancelled /\ monitor # "done"
    /\ monitor' = "done" /\ left' = 0
    /\ UNCHANGED <<proc, wrote, queued, sending, age, cancelled>>

Cancel ==
    /\ MayCancel /\ ~cancelled
    /\ cancelled' = TRUE
    /\ UNCHANGED <<proc, wrote, queued, sending, age, monitor, left>>

-----------------------------------------------------------------------------

\* A second passes: whoever can run within it has run.
Tick ==
    /\ ~Awake
    /\ sending \/ queued = 0
    /\ proc = "works" => wrote
    /\ wrote' = FALSE
    /\ age' = IF Late THEN age ELSE age + 1
    /\ left' = IF left > 0 THEN left - 1 ELSE 0
    /\ UNCHANGED <<proc, queued, sending, monitor, cancelled>>

\* The machine is suspended for a long time.  A suspension within the second
\* chance itself is left out: the code gives no third one.
Suspend ==
    /\ monitor # "recheck"
    /\ age' = heartbeatTimeout
    /\ UNCHANGED <<proc, wrote, queued, sending, monitor, left, cancelled>>

Next ==
    \/ Write \/ Hang \/ inRoutine \/ Sent \/ Check \/ Recheck \/ Ends \/ Cancel
    \/ Tick \/ Suspend

\* The goroutines run, time passes, and sc.Send returns.
Fairness ==
    /\ WF_vars(inRoutine)
    /\ WF_vars(Sent)
    /\ WF_vars(Check \/ Recheck \/ Ends)
    /\ WF_vars(Tick)

Spec == Init /\ [][Next]_vars
FairSpec == Spec /\ Fairness

-----------------------------------------------------------------------------

TypeOK ==
    /\ proc \in {"works", "hangs", "killed"}
    /\ queued \in 0..MaxQueued
    /\ age \in 0..heartbeatTimeout
    /\ monitor \in {"initial", "check", "recheck", "done"}
    /\ left \in Nat

OnlyHungKilled == proc = "works" => proc' # "killed"

\* A process that works is never killed, neither after a suspension of the
\* machine nor when its messages wait for room in the client's buffer: only
\* one that hangs is.
WorkingNotKilled == [][OnlyHungKilled]_vars

Hung == proc = "hangs"
KilledOrOver == proc = "killed" \/ cancelled

\* A process that hangs is killed in the end, unless the execution is over.
HungKilled == Hung ~> KilledOrOver
=============================================================================
