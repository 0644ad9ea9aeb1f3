------------------------------ MODULE ClientStart ------------------------------
(***************************************************************************)
(* The start of a client from what its host keeps: MakeConfiguration       *)
(* (client/generic), StartManager (client/internal/config), New            *)
(* (client/client.go) and the persistence handlers of client/config, which *)
(* keep state and service configurations in files, or in the Windows       *)
(* registry (client/windows/regutil via its callers), or not at all.       *)
(***************************************************************************)
EXTENDS Integers, FiniteSets

CONSTANTS
    Handlers,    \* of "filesystem", "registry", "noop"
    Files,       \* service configurations on the host
    Name,        \* of a file: the service it configures
    Dir,         \* of a file: "fixed" (compiled in), "signed" or "text"
    None,
    MaxStarts, MaxFaults

Reserved == {"", "system", "client"}
Forms == {"good", "unreadable", "unparsable", "labels"}  \* labels: it requires one the client lacks

VARIABLES
    handler,    \* the persistence handler in the configuration
    listed,     \* directories of service configurations that can be listed
    form,       \* of a file
    communicator,  \* the file with the communicator's configuration: "good", "bad" or "none"
    state,      \* the persistent state: a key or None
    pc, todo,   \* where New is, and files of the directory it has yet to install
    key,        \* the manager's key
    cc,         \* the communicator's configuration: "default" or "file"
    services,   \* installed: service name to file
    starts, faults,
    lastKey     \* the key of the client before this start

vars == <<handler, listed, form, communicator, state, pc, todo, key, cc, services, starts, faults, lastKey>>
host == <<handler, listed, form, communicator>>

Names == {Name[f] : f \in Files}
TypeOK ==
    /\ pc \in {"state", "communicator", "sync", "fixed", "signed", "text", "up", "failed"}
    /\ todo \subseteq Files /\ state \in 0..MaxStarts /\ key \in 0..MaxStarts
    /\ cc \in {"default", "file"} /\ services \in [Names -> Files \cup {None}]
    /\ starts \in 0..MaxStarts /\ faults \in 0..MaxFaults /\ lastKey \in 0..MaxStarts

In(d) == {f \in Files : Dir[f] = d}

\* Directories of services there may be: the filesystem handler wants its own
\* directory only, the registry handler creates the keys it needs.
FilesystemDirs == SUBSET {"signed", "text"}
RegistryDirs == {{"signed", "text"}}

\* makePersistenceHandler makes the handler of the configuration.
Init ==
    /\ handler \in Handlers
    /\ listed \in CASE handler = "filesystem" -> FilesystemDirs
                    [] handler = "registry" -> RegistryDirs [] handler = "noop" -> {{}}
    /\ form \in [Files -> Forms]
    /\ \A f \in In("fixed") : form[f] \in {"good", "labels"}
    /\ communicator \in {"good", "bad", "none"}
    /\ state = 0 /\ pc = "state" /\ todo = {} /\ key = 0 /\ cc = "default"
    /\ services = [n \in Names |-> None] /\ starts = 1 /\ faults = 0 /\ lastKey = 0

\* What the handlers return: an error, or a value that may be none.
Error == [err |-> TRUE, val |-> 0]
Ok(v) == [err |-> FALSE, val |-> v]

FilesystemReadState(fault) == IF fault \/ state = 0 THEN Error ELSE Ok(state)
RegistryReadState(fault) == IF fault THEN Error ELSE Ok(state)

FilesystemReadCommunicatorConfig == IF communicator = "good" THEN Ok(1) ELSE Error
RegistryReadCommunicatorConfig ==
    CASE communicator = "good" -> Ok(1) [] communicator = "bad" -> Error [] communicator = "none" -> Ok(0)

\* Service files that cannot be read or parsed are left out.
Sound(d) == {f \in In(d) : form[f] \notin {"unreadable", "unparsable"}}
FilesystemReadServices(d) == IF d \in listed THEN Ok(Sound(d)) ELSE Error
RegistryReadServices(d) == Ok(Sound(d))

Of(fs, registry, noop) ==
    CASE handler = "filesystem" -> fs [] handler = "registry" -> registry [] handler = "noop" -> noop

\* A variant of ReadState that makes a key at every start.
ReadStateForgets(fault) ==
    /\ pc = "state" /\ pc' = "communicator"
    /\ fault => faults < MaxFaults /\ handler # "noop"
    /\ faults' = faults + (IF fault THEN 1 ELSE 0)
    /\ key' = starts
    /\ UNCHANGED <<host, state, todo, cc, services, starts, lastKey>>

\* ReadState: without one, and after an error, the manager starts with a clean
\* state, and Rekey makes it a key.
ReadState(fault) ==
    /\ pc = "state" /\ pc' = "communicator"
    /\ fault => faults < MaxFaults /\ handler # "noop"
    /\ faults' = faults + (IF fault THEN 1 ELSE 0)
    /\ LET got == Of(FilesystemReadState(fault), RegistryReadState(fault), Ok(0))
       IN  key' = IF got.err \/ got.val = 0 THEN starts ELSE got.val
    /\ UNCHANGED <<host, state, todo, cc, services, starts, lastKey>>

ReadCommunicatorConfig ==
    /\ pc = "communicator" /\ pc' = "sync"
    /\ LET got == Of(FilesystemReadCommunicatorConfig, RegistryReadCommunicatorConfig, Ok(0))
       IN  cc' = IF got.err \/ got.val = 0 THEN "default" ELSE "file"
    /\ UNCHANGED <<host, state, todo, key, services, starts, faults, lastKey>>

\* The initial Sync: WriteState.  A client whose state cannot be written does not start.
WriteState(fault) ==
    /\ pc = "sync"
    /\ IF fault THEN /\ handler # "noop" /\ faults < MaxFaults /\ faults' = faults + 1
                     /\ pc' = "failed" /\ UNCHANGED <<state, todo>>
       ELSE /\ state' = IF handler = "noop" THEN state ELSE key
            /\ pc' = "fixed" /\ todo' = In("fixed") /\ faults' = faults
    /\ UNCHANGED <<host, key, cc, services, starts, lastKey>>

\* InstallService, from the directory New is at, in the order it lists it.
Installable(f) == form[f] = "good" /\ Name[f] \notin Reserved

\* A variant of InstallService that gives up the directory at a bad file.
InstallServiceStops(f) ==
    /\ pc \in {"fixed", "signed", "text"} /\ f \in todo
    /\ todo' = IF Installable(f) THEN todo \ {f} ELSE {}
    /\ services' = IF Installable(f) THEN [services EXCEPT ![Name[f]] = f] ELSE services
    /\ UNCHANGED <<host, state, pc, key, cc, starts, faults, lastKey>>

InstallService(f) ==
    /\ pc \in {"fixed", "signed", "text"} /\ f \in todo
    /\ todo' = todo \ {f}
    /\ services' = IF Installable(f) THEN [services EXCEPT ![Name[f]] = f] ELSE services
    /\ UNCHANGED <<host, state, pc, key, cc, starts, faults, lastKey>>

\* New goes on without the services of a directory it gets an error for.
Read(d) ==
    LET got == Of(FilesystemReadServices(d), RegistryReadServices(d), Ok({}))
    IN  IF got.err THEN {} ELSE got.val

ReadSignedServices ==
    /\ pc = "fixed" /\ todo = {}
    /\ pc' = "signed" /\ todo' = Read("signed")
    /\ UNCHANGED <<host, state, key, cc, services, starts, faults, lastKey>>

ReadServices ==
    /\ pc = "signed" /\ todo = {}
    /\ pc' = "text" /\ todo' = Read("text")
    /\ UNCHANGED <<host, state, key, cc, services, starts, faults, lastKey>>

Started ==
    /\ pc = "text" /\ todo = {} /\ pc' = "up"
    /\ UNCHANGED <<host, state, todo, key, cc, services, starts, faults, lastKey>>

Restart ==
    /\ pc \in {"up", "failed"} /\ starts < MaxStarts
    /\ pc' = "state" /\ starts' = starts + 1 /\ lastKey' = IF pc = "up" THEN key ELSE lastKey
    /\ services' = [n \in Names |-> None] /\ todo' = {} /\ key' = 0 /\ cc' = "default"
    /\ UNCHANGED <<host, state, faults>>

Next ==
    \/ \E fault \in BOOLEAN : ReadState(fault) \/ WriteState(fault)
    \/ ReadCommunicatorConfig \/ ReadSignedServices \/ ReadServices \/ Started \/ Restart
    \/ \E f \in Files : InstallService(f)

Spec == Init /\ [][Next]_vars
-----------------------------------------------------------------------------
\* Files that configure a service as they should, where the handler finds them.
Valid(n, d) == {f \in In(d) : Name[f] = n /\ Installable(f) /\ (d = "fixed" \/ d \in listed)}

\* A client that is up runs a service for every good configuration on the host,
\* and no other, however many bad ones lie beside it and in whatever order they
\* are listed; a text configuration replaces a signed one, and that a fixed one.
ServicesOfHost ==
    pc = "up" => \A n \in Names :
        LET best == IF Valid(n, "text") # {} THEN Valid(n, "text")
                    ELSE IF Valid(n, "signed") # {} THEN Valid(n, "signed") ELSE Valid(n, "fixed")
        IN  IF best = {} THEN services[n] = None ELSE services[n] \in best

\* A host with a state file keeps its client's identity over restarts: "the
\* client will attempt to write persistent state to it, in order to preserve
\* identity across restarts" (NewFilesystemPersistenceHandler).
IdentityPreserved == pc = "up" /\ handler # "noop" /\ lastKey # 0 => key = lastKey

\* A host that could read and write its state keeps its client's identity over
\* restarts, whatever else in its configuration is bad or missing.
IdentityKept == faults = 0 => IdentityPreserved
================================================================================
