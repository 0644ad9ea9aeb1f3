------------------------------- MODULE Watchdog -------------------------------
(***************************************************************************)
(* The client's watchdog, client/watchdog/watchdog.go: a timer that the    *)
(* communicator resets and that ends the client when it was not reset for  *)
(* a long time.  Reset is dropped when watch does not wait for it.         *)
(***************************************************************************)
EXTENDS Naturals

CONSTANTS duration,  \* ticks without a reset
          Extra,     \* the ticks added after a possible sleep of the machine
          exit       \* whether the watchdog ends the program

VARIABLES watch,    \* where watch is: "arm", "first", "second", "gone"
          left,     \* what is left of its timer
          quiet,    \* ticks since the last call of Reset, up to the limit
          stopped,  \* Stop closed w.reset
          expired   \* the watchdog expired (traces written)

vars == <<watch, left, quiet, stopped, expired>>

Init == watch = "arm" /\ left = 0 /\ quiet = 0 /\ stopped = FALSE /\ expired = FALSE

\* The first timer of a round.
Arm ==
    /\ watch = "arm"
    /\ watch' = "first" /\ left' = duration
    /\ UNCHANGED <<quiet, stopped, expired>>

\* Reset: the loop waits for it and starts again, or the call does nothing.
ResetDropped ==
    /\ ~stopped
    /\ watch' = watch
    /\ quiet' = 0
    /\ UNCHANGED <<left, stopped, expired>>

Reset ==
    /\ ~stopped
    /\ watch' = IF watch \in {"first", "second"} THEN "arm" ELSE watch
    /\ quiet' = 0
    /\ UNCHANGED <<left, stopped, expired>>

\* The first timer fires; the second gives a client that just woke up time.
Fires ==
    /\ watch = "first" /\ left = 0
    /\ watch' = "second" /\ left' = Extra
    /\ UNCHANGED <<quiet, stopped, expired>>

\* The second timer fires: the traces are written, and the program ends if
\* exit is set.
Expires ==
    /\ watch = "second" /\ left = 0
    /\ expired' = TRUE
    /\ watch' = IF exit THEN "gone" ELSE "arm"
    /\ UNCHANGED <<left, quiet, stopped>>

\* Stop closes w.reset, and watch returns.
Stop ==
    /\ ~stopped
    /\ stopped' = TRUE
    /\ UNCHANGED <<watch, left, quiet, expired>>

Returns ==
    /\ stopped /\ watch \in {"first", "second"}
    /\ watch' = "gone"
    /\ UNCHANGED <<left, quiet, stopped, expired>>

Tick ==
    /\ watch \in {"first", "second"} /\ left > 0
    /\ left' = left - 1
    /\ quiet' = IF quiet < duration + Extra THEN quiet + 1 ELSE quiet
    /\ UNCHANGED <<watch, stopped, expired>>

Next == Arm \/ Reset \/ Fires \/ Expires \/ Stop \/ Returns \/ Tick

Spec == Init /\ [][Next]_vars

-----------------------------------------------------------------------------

TypeOK ==
    /\ watch \in {"arm", "first", "second", "gone"}
    /\ left \in 0..(duration + Extra) /\ quiet \in 0..(duration + Extra)

QuietWhenExpires == expired' # expired => quiet >= duration + Extra

\* The watchdog expires only when Reset was not called for the whole duration
\* and the time added to it, although a call may find the loop not waiting.
ExpiresOnlyWhenQuiet == [][QuietWhenExpires]_vars
=============================================================================
