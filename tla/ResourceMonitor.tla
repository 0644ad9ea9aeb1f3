--------------------------- MODULE ResourceMonitor ---------------------------
(***************************************************************************)
(* The resource usage monitor of a process, ResourceUsageMonitor.Run and   *)
(* its aggregation in client/internal/monitoring/resource_usage_monitor.go.*)
(*                                                                         *)
(* A sample is what the fetcher reads of the process: its memory, its CPU  *)
(* time and the time of the reading.  A mean is kept as the sum and the    *)
(* number of the terms that AggregateResourceUsage divides one at a time.  *)
(* CPU times start again when another process has the id.                  *)
(***************************************************************************)
EXTENDS Integers

CONSTANTS SampleSize,        \* samples of a report
          initialSampleSize, \* samples of the first report
          memoryLimit,       \* 0: none
          Memories,          \* what a process can use
          MaxCPU,            \* bound on the CPU time of a process
          MaxReports         \* bound on the reports and kills

VARIABLES cpu,        \* CPU time of the process that has the id
          clock,      \* whether the clock went on since the last sample
          prevRU,     \* the sample before, or NoSample
          aggRU,      \* the aggregate so far
          numSamplesCollected,
          initialSample,
          taken,      \* the samples of the aggregate: count, memory and CPU time spent
          reports,    \* reports sent
          kills       \* processes killed, each after a KillNotification

vars == <<cpu, clock, prevRU, aggRU, numSamplesCollected, initialSample, taken, reports, kills>>

NoSample == [mem |-> -1, cpu |-> -1]
Empty == [mem |-> 0, memTerms |-> 0, maxMem |-> 0, rate |-> 0, rateTerms |-> 0]
NoneTaken == [n |-> 0, mem |-> 0, maxMem |-> 0, first |-> -1, last |-> -1]

Init ==
    /\ cpu = 0 /\ clock = TRUE
    /\ prevRU = NoSample /\ aggRU = Empty
    /\ numSamplesCollected = 0 /\ initialSample = TRUE
    /\ taken = NoneTaken
    /\ reports = 0 /\ kills = 0

Larger(a, b) == IF a > b THEN a ELSE b

\* The sample size in use.
ss == IF initialSample THEN initialSampleSize ELSE SampleSize

resetSamplesKeepsPrev ==
    /\ aggRU' = Empty
    /\ numSamplesCollected' = 0
    /\ initialSample' = FALSE
    /\ taken' = NoneTaken
    /\ UNCHANGED prevRU

resetSamples ==
    /\ prevRU' = NoSample
    /\ aggRU' = Empty
    /\ numSamplesCollected' = 0
    /\ initialSample' = FALSE
    /\ taken' = NoneTaken

-----------------------------------------------------------------------------

\* enforceMemoryLimit.
Exceeds(mem) == memoryLimit > 0 /\ mem >= memoryLimit

aggregateMemoryResourceUsage(a, mem) ==
    [a EXCEPT !.mem = @ + mem, !.memTerms = @ + 1, !.maxMem = Larger(@, mem)]

\* The rate between two samples; the errors are in Aggregates.
aggregateTimeResourceUsage(a, prev, cur) ==
    [a EXCEPT !.rate = @ + (cur.cpu - prev.cpu), !.rateTerms = @ + 1]

\* Whether AggregateResourceUsage succeeds: the first sample needs an empty
\* aggregate, a later one a later time and CPU times that do not decrease.
Aggregates(cur) ==
    IF prevRU = NoSample THEN aggRU = Empty
    ELSE clock /\ cur.cpu >= prevRU.cpu

AggregateResourceUsage(cur) ==
    IF prevRU = NoSample
    THEN [Empty EXCEPT !.mem = cur.mem, !.memTerms = 1, !.maxMem = cur.mem]
    ELSE aggregateMemoryResourceUsage(
             aggregateTimeResourceUsage(aggRU, prevRU, cur), cur.mem)

\* The samples themselves, for the properties.
Take(cur) ==
    [n |-> taken.n + 1, mem |-> taken.mem + cur.mem, maxMem |-> Larger(taken.maxMem, cur.mem),
     first |-> IF taken.n = 0 THEN cur.cpu ELSE taken.first, last |-> cur.cpu]

\* ResourceUsageForPID fails: the samples are dropped.
FetchFails ==
    /\ resetSamples
    /\ UNCHANGED <<cpu, clock, reports, kills>>

\* A sample over the memory limit: the process is killed, and another one takes
\* its place.
KillSample ==
    /\ kills < MaxReports
    /\ \E mem \in Memories : Exceeds(mem)
    /\ kills' = kills + 1
    /\ cpu' = 0
    /\ resetSamples
    /\ UNCHANGED <<clock, reports>>

\* A sample that AggregateResourceUsage refuses.
BadSample ==
    /\ \E mem \in Memories : ~Exceeds(mem) /\ ~Aggregates([mem |-> mem, cpu |-> cpu])
    /\ resetSamples
    /\ UNCHANGED <<cpu, clock, reports, kills>>

\* A sample that is added to the aggregate.
GoodSample ==
    /\ \E mem \in Memories :
          LET cur == [mem |-> mem, cpu |-> cpu] IN
          /\ ~Exceeds(mem) /\ Aggregates(cur)
          /\ aggRU' = AggregateResourceUsage(cur)
          /\ taken' = Take(cur)
          /\ prevRU' = cur
    /\ numSamplesCollected' = numSamplesCollected + 1
    /\ clock' = FALSE
    /\ UNCHANGED <<cpu, initialSample, reports, kills>>

\* SendProtoToServer with the aggregate, then resetSamples.
Report ==
    /\ numSamplesCollected = ss /\ reports < MaxReports
    /\ reports' = reports + 1
    /\ resetSamples
    /\ UNCHANGED <<cpu, clock, kills>>

\* Run's timer: one sample.
Run ==
    /\ numSamplesCollected < ss
    /\ FetchFails \/ KillSample \/ BadSample \/ GoodSample

-----------------------------------------------------------------------------
(* The process and the clock, external. *)

Work ==
    /\ cpu < MaxCPU
    /\ cpu' = cpu + 1
    /\ UNCHANGED <<clock, prevRU, aggRU, numSamplesCollected, initialSample, taken, reports, kills>>

\* The process exits and its id goes to a new one.
Replaced ==
    /\ cpu' = 0
    /\ UNCHANGED <<clock, prevRU, aggRU, numSamplesCollected, initialSample, taken, reports, kills>>

Clock ==
    /\ clock' = TRUE
    /\ UNCHANGED <<cpu, prevRU, aggRU, numSamplesCollected, initialSample, taken, reports, kills>>

Next == Run \/ Report \/ Work \/ Replaced \/ Clock

Spec == Init /\ [][Next]_vars

-----------------------------------------------------------------------------

TypeOK ==
    /\ cpu \in 0..MaxCPU /\ clock \in BOOLEAN /\ initialSample \in BOOLEAN
    /\ numSamplesCollected \in 0..initialSampleSize
    /\ reports \in 0..MaxReports /\ kills \in 0..MaxReports

\* A report covers exactly its samples: means of ss memory readings and of the
\* ss - 1 rates between them, the largest of the memory readings, and in all
\* the CPU time between its first and its last one.  Samples from before an
\* error or an earlier report do not count.
ReportIsOfItsSamples ==
    numSamplesCollected = ss =>
        /\ aggRU.memTerms = ss /\ aggRU.rateTerms = ss - 1
        /\ aggRU.mem = taken.mem /\ aggRU.maxMem = taken.maxMem
        /\ aggRU.rate = taken.last - taken.first
=============================================================================
