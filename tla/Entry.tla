--------------------------------- MODULE Entry ---------------------------------
(***************************************************************************)
(* The client process (cmd/fleetspeak_client, client/entry): RunMain on    *)
(* unix and Execute as a Windows service turn signals and control requests *)
(* into contexts; innerMain runs a client, and another with the            *)
(* configuration read anew after each SIGHUP.  AfterDelayFunc of           *)
(* common/fscontext ends a process or client that takes too long to stop.  *)
(***************************************************************************)
EXTENDS Integers

CONSTANTS
    Windows,     \* run as a Windows service
    MaxEdits, MaxReloads,
    MayFail      \* a configuration can be bad

VARIABLES
    ctx,        \* RunMain's context has ended
    inner,      \* the context of ContextWithSignals: "none", "live" or "done"
    watching,   \* the goroutine of ContextWithSignals
    sighup,     \* the signal in the channel of capacity one
    main,       \* where innerMain and runClient are
    control,    \* Execute's goroutine for control requests: "on", "ended", "off" (unix)
    procTimer, clientTimer,  \* of AfterDelayFunc: "unset", "set", "running", "stopped"
    file,       \* the configuration on disk
    loaded,     \* the configuration the client runs with
    asked,      \* the configuration on disk at the last request to reload
    reloads,    \* requests to reload, up to MaxReloads
    exit        \* how the process ended: "no", "ok", "error", "process", "client"

vars == <<ctx, inner, watching, sighup, main, control, procTimer, clientTimer, file, loaded,
          asked, reloads, exit>>

Timers == {"unset", "set", "running", "stopped"}
TypeOK ==
    /\ ctx \in BOOLEAN /\ watching \in BOOLEAN /\ sighup \in BOOLEAN
    /\ inner \in {"none", "live", "done"}
    /\ main \in {"top", "read", "new", "serving", "stopping", "stopped", "returned", "failed"}
    /\ control \in {"on", "ended", "off"}
    /\ procTimer \in Timers /\ clientTimer \in Timers
    /\ file \in 0..MaxEdits /\ loaded \in -1..MaxEdits /\ asked \in -1..MaxEdits
    /\ reloads \in 0..MaxReloads
    /\ exit \in {"no", "ok", "error", "process", "client"}

Init ==
    /\ ctx = FALSE /\ inner = "none" /\ watching = FALSE /\ sighup = FALSE /\ main = "top"
    /\ control = IF Windows THEN "on" ELSE "off"
    /\ procTimer = "set" /\ clientTimer = "unset"
    /\ file = 0 /\ loaded = -1 /\ asked = -1 /\ reloads = 0 /\ exit = "no"

Edit ==
    /\ file < MaxEdits /\ file' = file + 1
    /\ UNCHANGED <<ctx, inner, watching, sighup, main, control, procTimer, clientTimer, loaded, asked,
                   reloads, exit>>

\* SIGHUP, or the control request ParamChange: dropped if one waits already.
Reload ==
    /\ reloads < MaxReloads /\ reloads' = reloads + 1
    /\ control # "ended" /\ main \notin {"returned", "failed"}
    /\ sighup' = TRUE /\ asked' = file
    /\ UNCHANGED <<ctx, inner, watching, main, control, procTimer, clientTimer, file, loaded, exit>>

\* SIGINT or SIGTERM, or the control requests Stop and Shutdown.
Terminate ==
    /\ ~ctx /\ ctx' = TRUE
    /\ inner' = IF inner = "live" THEN "done" ELSE inner
    /\ control' = IF control = "on" THEN "ended" ELSE control
    /\ UNCHANGED <<watching, sighup, main, procTimer, clientTimer, file, loaded, asked, reloads, exit>>

\* A variant of WatchSignal that ignores signals until the client runs.
WatchSignalLate ==
    /\ watching /\ sighup
    /\ watching' = (main # "serving") /\ sighup' = FALSE
    /\ inner' = IF main = "serving" THEN "done" ELSE inner
    /\ UNCHANGED <<ctx, main, control, procTimer, clientTimer, file, loaded, asked, reloads, exit>>

\* The goroutine of ContextWithSignals: its select, when both are ready either.
WatchSignal ==
    /\ watching /\ sighup
    /\ watching' = FALSE /\ sighup' = FALSE /\ inner' = "done"
    /\ UNCHANGED <<ctx, main, control, procTimer, clientTimer, file, loaded, asked, reloads, exit>>

WatchDone ==
    /\ watching /\ inner = "done" /\ watching' = FALSE
    /\ UNCHANGED <<ctx, inner, sighup, main, control, procTimer, clientTimer, file, loaded, asked,
                   reloads, exit>>

\* The loop of innerMain; runClient sets its timer on the new context.
innerMain ==
    /\ main = "top"
    /\ IF ctx THEN main' = "returned" /\ UNCHANGED <<inner, watching, clientTimer>>
       ELSE main' = "read" /\ inner' = "live" /\ watching' = TRUE /\ clientTimer' = "set"
    /\ UNCHANGED <<ctx, sighup, control, procTimer, file, loaded, asked, reloads, exit>>

\* The file, or the client New is to make of it, can be bad.
ReadConfig(good) ==
    /\ main = "read" /\ (good \/ MayFail)
    /\ IF good THEN main' = "new" /\ loaded' = file /\ UNCHANGED <<inner, clientTimer>>
       ELSE main' = "failed" /\ inner' = "done" /\ clientTimer' = "stopped" /\ loaded' = loaded
    /\ UNCHANGED <<ctx, watching, sighup, control, procTimer, file, asked, reloads, exit>>

NewClient ==
    /\ main = "new" /\ main' = "serving"
    /\ UNCHANGED <<ctx, inner, watching, sighup, control, procTimer, clientTimer, file, loaded,
                   asked, reloads, exit>>

Serve ==
    /\ main = "serving" /\ inner = "done" /\ main' = "stopping"
    /\ UNCHANGED <<ctx, inner, watching, sighup, control, procTimer, clientTimer, file, loaded,
                   asked, reloads, exit>>

\* cl.Stop returns; it may not.
ClientStopped ==
    /\ main = "stopping" /\ main' = "stopped"
    /\ UNCHANGED <<ctx, inner, watching, sighup, control, procTimer, clientTimer, file, loaded,
                   asked, reloads, exit>>

\* The deferred stop of runClient's timer, and cancel.
runClientReturns ==
    /\ main = "stopped" /\ main' = "top" /\ inner' = "done"
    /\ clientTimer' = "stopped"
    /\ UNCHANGED <<ctx, watching, sighup, control, procTimer, file, loaded, asked, reloads, exit>>

\* context.AfterFunc starts a timer once the context has ended.
ProcTimerStarts ==
    /\ procTimer = "set" /\ ctx /\ procTimer' = "running"
    /\ UNCHANGED <<ctx, inner, watching, sighup, main, control, clientTimer, file, loaded, asked,
                   reloads, exit>>

ClientTimerStarts ==
    /\ clientTimer = "set" /\ inner = "done" /\ clientTimer' = "running"
    /\ UNCHANGED <<ctx, inner, watching, sighup, main, control, procTimer, file, loaded, asked,
                   reloads, exit>>

\* The delay is over: ExitUngracefully.
TimerFires ==
    /\ \/ procTimer = "running" /\ exit' = "process"
       \/ clientTimer = "running" /\ exit' = "client"
    /\ UNCHANGED <<ctx, inner, watching, sighup, main, control, procTimer, clientTimer, file, loaded,
                   asked, reloads>>

\* Execute waits for its goroutine, which the end of the context ends.
ControlEnds ==
    /\ control = "on" /\ main \in {"returned", "failed"} /\ control' = "ended"
    /\ UNCHANGED <<ctx, inner, watching, sighup, main, procTimer, clientTimer, file, loaded, asked,
                   reloads, exit>>

RunMainReturns ==
    /\ main \in {"returned", "failed"} /\ control # "on"
    /\ exit' = IF main = "returned" THEN "ok" ELSE "error"
    /\ UNCHANGED <<ctx, inner, watching, sighup, main, control, procTimer, clientTimer, file, loaded,
                   asked, reloads>>

Main ==
    \/ innerMain \/ NewClient \/ Serve \/ runClientReturns \/ ControlEnds \/ RunMainReturns
    \/ \E good \in BOOLEAN : ReadConfig(good)
Watch == WatchSignal \/ WatchDone
TimerStarts == ProcTimerStarts \/ ClientTimerStarts

Next ==
    exit = "no" /\ (Main \/ Watch \/ TimerStarts \/ TimerFires \/ ClientStopped
                    \/ Edit \/ Reload \/ Terminate)

Spec == Init /\ [][Next]_vars

\* Goroutines run and timers fire; whether a client stops is not known.
Run(g) ==
    /\ exit = "no"
    /\ CASE g = "main" -> Main
         [] g = "watch" -> Watch
         [] g = "start" -> TimerStarts
         [] g = "fire" -> TimerFires

FairSpec == Spec /\ \A g \in {"main", "watch", "start", "fire"} : WF_vars(Run(g))
-----------------------------------------------------------------------------

Ending == ctx
Ended == exit # "no"

\* RunMain: once told to stop, the process ends, even if the client hangs.
TerminateEnds == Ending ~> Ended

Asked(v) == asked = v
LoadedOrEnded(v) == loaded >= v \/ Ended

\* A configuration changed before a SIGHUP is the one a client is started with,
\* or a later one, whenever the signal arrives, unless the process ends
\* ("The cfgReloadSignals channel gets a syscall.SIGHUP when a config reload is
\* requested", InnerMain).
ReloadSeen == \A v \in 0..MaxEdits : Asked(v) ~> LoadedOrEnded(v)
================================================================================
