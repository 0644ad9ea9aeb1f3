-------------------------------- MODULE Files --------------------------------
(***************************************************************************)
(* Files for the client: the FileStore of the three datastores, the file   *)
(* server in front of it and a client that keeps a copy and asks for the   *)
(* file if it has been modified.  HTTP carries times in whole seconds, the *)
(* stores keep them finer.                                                 *)
(***************************************************************************)
EXTENDS Integers, Sequences, FiniteSets

CONSTANTS
    Contents,        \* what a file may contain
    Hosts,           \* how many servers the client tries, one after the other
    Ticks,           \* steps of the clock in a second
    MaxTime,
    MaxStoring,      \* bound: calls of StoreFile at a time
    FileServerAuthorization

VARIABLES
    lite, my, span,  \* the row of the file in each of the datastores
    now,             \* the clock
    storing,         \* calls of StoreFile that have read the clock
    last,            \* the second that the last call to be done had read
    versions,        \* history: the contents stored so far, with these seconds
    answers,         \* what the datastores answered to the last call
    request,         \* the client's request: host, modSince; host 0 without one
    copy,            \* the client's copy: contents and Last-Modified
    told             \* the client was told that its copy is current

vars == <<lite, my, span, now, storing, last, versions, answers, request, copy, told>>

NoFile == [there |-> FALSE, time |-> 0, data |-> "none"]
Second(t) == (t \div Ticks) * Ticks
NoRequest == [host |-> 0, since |-> -1]

Answer(s, e, v) == [s |-> s, error |-> e, val |-> v]
Row(t, d) == [there |-> TRUE, time |-> t, data |-> d]

-----------------------------------------------------------------------------
(* sqlite *)

\* Variant: keeps the time of a file that is there.
LiteStoreFileKeeps(s, t, d) == Answer(Row(IF s.there THEN s.time ELSE t, d), FALSE, NoFile)

LiteStoreFile(s, t, d) == Answer(Row(t, d), FALSE, NoFile)
LiteDeleteFile(s) == Answer(NoFile, FALSE, NoFile)
LiteStatFile(s) == Answer(s, ~s.there, [s EXCEPT !.data = "none"])
LiteReadFile(s) == Answer(s, ~s.there, s)

(* mysql *)
MyStoreFile(s, t, d) == Answer(Row(t, d), FALSE, NoFile)
MyDeleteFile(s) == Answer(NoFile, FALSE, NoFile)
MyStatFile(s) == Answer(s, ~s.there, [s EXCEPT !.data = "none"])
MyReadFile(s) == Answer(s, ~s.there, s)

(* spanner *)
SpanStoreFile(s, t, d) == Answer(Row(t, d), FALSE, NoFile)
SpanDeleteFile(s) == Answer(NoFile, FALSE, NoFile)
SpanStatFile(s) == Answer(s, ~s.there, [s EXCEPT !.data = "none"])
SpanReadFile(s) == Answer(s, ~s.there, s)

Call(l, m, s) ==
    /\ lite' = l.s /\ my' = m.s /\ span' = s.s
    /\ answers' = {[error |-> x.error, val |-> x.val] : x \in {l, m, s}}

Init ==
    /\ lite = NoFile /\ my = NoFile /\ span = NoFile /\ now = 0 /\ answers = {}
    /\ storing = {} /\ last = -1 /\ versions = {}
    /\ request = NoRequest /\ copy = [time |-> -1, data |-> "none"] /\ told = FALSE

\* The time of the file is read on the server, before the transaction commits.
ReadClock(d) ==
    /\ Cardinality(storing) < MaxStoring
    /\ storing' = storing \cup {[time |-> now, data |-> d]}
    /\ UNCHANGED <<lite, my, span, now, last, versions, answers, request, copy, told>>

StoreFile(f) ==
    /\ Call(LiteStoreFile(lite, f.time, f.data), MyStoreFile(my, f.time, f.data),
            SpanStoreFile(span, f.time, f.data))
    /\ storing' = storing \ {f} /\ last' = Second(f.time)
    /\ versions' = versions \cup {[second |-> Second(f.time), data |-> f.data]}
    /\ told' = FALSE
    /\ UNCHANGED <<now, request, copy>>

DeleteFile ==
    /\ Call(LiteDeleteFile(lite), MyDeleteFile(my), SpanDeleteFile(span))
    /\ told' = FALSE
    /\ UNCHANGED <<now, storing, last, versions, request, copy>>

StatFile ==
    /\ Call(LiteStatFile(lite), MyStatFile(my), SpanStatFile(span))
    /\ UNCHANGED <<now, storing, last, versions, request, copy, told>>

ReadFile ==
    /\ Call(LiteReadFile(lite), MyReadFile(my), SpanReadFile(span))
    /\ UNCHANGED <<now, storing, last, versions, request, copy, told>>

Tick == now < MaxTime /\ now' = now + 1 /\ UNCHANGED <<lite, my, span, storing, last, versions, answers, request, copy, told>>

-----------------------------------------------------------------------------
(* The file server *)

\* authorizeFileRequest: the address, then the client and its labels.
authorizeFileRequest(allow1, allow2) == allow1 /\ allow2

\* The client's certificate is read in any case and needed if the server asks.
Authorized(cert, allow1, allow2) ==
    FileServerAuthorization => cert /\ authorizeFileRequest(allow1, allow2)

\* http.ServeContent, for the file that ReadFile finds.
ServeContent(since) ==
    IF ~lite.there THEN "404"
    ELSE IF since # -1 /\ Second(lite.time) <= since THEN "304"
    ELSE "200"

ServeHTTP(cert, allow1, allow2, since) ==
    IF Authorized(cert, allow1, allow2) THEN ServeContent(since) ELSE "401"

-----------------------------------------------------------------------------
(* The client: GetFileIfModified *)

\* Without a copy there is no time to compare with.
GetFileIfModified ==
    /\ request.host = 0
    /\ request' = [host |-> 1, since |-> copy.time]
    /\ told' = FALSE
    /\ UNCHANGED <<lite, my, span, now, storing, last, versions, answers, copy>>

\* The next host fails, or answers with an error; after the last one so does
\* the call.
HostFails ==
    /\ request.host > 0
    /\ request' = IF request.host = Hosts THEN NoRequest ELSE [request EXCEPT !.host = @ + 1]
    /\ UNCHANGED <<lite, my, span, now, storing, last, versions, answers, copy, told>>

getFileIfModifiedFromHost(cert, allow1, allow2) ==
    LET status == ServeHTTP(cert, allow1, allow2, request.since) IN
    /\ request.host > 0
    /\ \/ /\ status = "200"
          /\ copy' = [time |-> Second(lite.time), data |-> lite.data] /\ told' = FALSE /\ request' = NoRequest
       \/ /\ status = "304"
          /\ told' = TRUE /\ request' = NoRequest /\ UNCHANGED copy
       \/ /\ status \in {"401", "404"}
          /\ request' = IF request.host = Hosts THEN NoRequest ELSE [request EXCEPT !.host = @ + 1]
          /\ UNCHANGED <<copy, told>>
    /\ UNCHANGED <<lite, my, span, now, storing, last, versions, answers>>

Next ==
    \/ \E d \in Contents : ReadClock(d)
    \/ \E f \in storing : StoreFile(f)
    \/ DeleteFile \/ StatFile \/ ReadFile \/ Tick
    \/ GetFileIfModified \/ HostFails
    \/ \E cert, allow1, allow2 \in BOOLEAN : getFileIfModifiedFromHost(cert, allow1, allow2)

Spec == Init /\ [][Next]_vars

-----------------------------------------------------------------------------
TypeOK ==
    /\ lite.time \in 0..MaxTime /\ now \in 0..MaxTime
    /\ request.host \in 0..Hosts /\ request.since \in -1..MaxTime /\ copy.time \in -1..MaxTime

(* The datastores hold the same file and answer alike.                      *)
StoresAgree ==
    /\ lite = my /\ my = span
    /\ \A a, b \in answers : a = b

(* "If it has not been modified, it returns nil" (comms.go:54): a client     *)
(* that is told so has the contents that the store has, through deletions   *)
(* and new files, and whichever host answered, or else contents that were   *)
(* stored with a time in the same second or a later one.  The latter is     *)
(* where the code falls short of that line: two versions within a second    *)
(* look the same to If-Modified-Since, and of two calls of StoreFile the    *)
(* one that read the clock first may commit last.                           *)
NotModifiedIsCurrent ==
    told => \/ copy.data = lite.data
            \/ \E v \in versions : v.data = copy.data /\ v.second >= last
=============================================================================
