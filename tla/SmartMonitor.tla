---------------------------- MODULE SmartMonitor ----------------------------
(***************************************************************************)
(* SmartMonitorService and the SmartctlInvoker it drives: a background     *)
(* loop that once per refresh cycle runs `smartctl --scan-open`, then one  *)
(* `smartctl -a` per listed drive in parallel, and publishes the reports   *)
(* into the dictionary /metrics is served from.                            *)
(*                                                                         *)
(* A cycle is   scanning -> fetching -> publishing -> waiting.             *)
(* Every smartctl process is a job; the scan is the job ScanJob, the fetch *)
(* of drive d is the job d.  A report is the drive it was read from and    *)
(* its age, the number of refresh cycles begun since it was read.          *)
(***************************************************************************)
EXTENDS Naturals, FiniteSets

CONSTANTS
    Devices,          \* the drives smartctl may list: (name, type) pairs
    Names,            \* their device names, the keys of the dictionary
    NameOf,           \* the name of each drive; drives behind one adapter share it
    Excluded,         \* the names some DeviceExcludePatterns entry matches
    KillCanFail,      \* Process.Kill may fail, or find a process it cannot end
    MaxAge,           \* the age at which counting stops
    ScanJob,          \* the job that is the scan
    NoReport          \* the absent dictionary entry

ASSUME NamesAssumption == NameOf \in [Devices -> Names] /\ Excluded \subseteq Names
ASSUME KillAssumption == KillCanFail \in BOOLEAN
ASSUME AgeAssumption == MaxAge \in Nat \ {0}
ASSUME ScanAssumption == ScanJob \notin Devices
ASSUME NoReportAssumption == NoReport \notin [dev : Devices, age : 0..MaxAge]

Jobs == Devices \union {ScanJob}
Report == [dev : Devices, age : 0..MaxAge]

VARIABLES
    config,     \* which of the Settings below hold, for the whole run
    present,    \* the drives plugged in
    host,       \* where the generic host is in this service's life
    loop,       \* where RefreshLoopAsync is
    job,        \* the smartctl call of each job, and what it returned
    orphans,    \* jobs with a smartctl process nobody waits for any more
    listed,     \* what the scan of this cycle returned
    pending,    \* reports of this cycle not yet written to the dictionary
    snapshots   \* the dictionary _snapshots

vars == <<config, present, host, loop, job, orphans, listed, pending, snapshots>>

Settings == {"Enable", "Available", "TimeoutInRange", "IntervalInRange"}
Enable == "Enable" \in config                      \* SmartMonitor:Enable
Available == "Available" \in config                \* a smartctl.exe was found
TimeoutInRange == "TimeoutInRange" \in config      \* for CancelAfter
IntervalInRange == "IntervalInRange" \in config    \* for PeriodicTimer

\* _stopCts is cancelled by the first StopAsync or DisposeAsync.
Cancelled == host \notin {"created", "started", "serving"}
LoopDone == loop \in {"off", "ended", "faulted"}
\* The drives that produced a report in this cycle, and their names: `seen`.
Answered == {d \in Devices : job[d] = "data"}
Seen == {NameOf[d] : d \in Answered}
Served == {n \in Names : snapshots[n] # NoReport}
\* What GetSnapshots copies out for a scrape; the copy is one step.
GetSnapshots == {snapshots[n] : n \in Served}

\* Service, calls and dictionary are in states the code has; a drive that is
\* listed or has a report to publish is a drive.
TypeOK ==
    /\ config \subseteq Settings
    /\ present \subseteq Devices
    /\ host \in {"created", "started", "serving", "stopping", "stopped", "stopFailed",
                 "abandoned", "disposing", "disposed", "disposeFailed"}
    /\ loop \in {"off", "begin", "scanning", "fetching", "publishing",
                 "waiting", "ended", "faulted"}
    /\ job \in [Jobs -> {"idle", "running", "data", "null", "throw"}]
    /\ orphans \subseteq Jobs
    /\ listed \subseteq Devices
    /\ pending \subseteq Devices
    /\ snapshots \in [Names -> Report \union {NoReport}]

Init ==
    /\ config \in SUBSET Settings
    /\ present \in SUBSET Devices
    /\ host = "created"
    /\ loop = "off"
    /\ job = [j \in Jobs |-> "idle"]
    /\ orphans = {}
    /\ listed = {}
    /\ pending = {}
    /\ snapshots = [n \in Names |-> NoReport]

-----------------------------------------------------------------------------
(* The host: registration, start, stop and disposal of the service.        *)

Life == <<config, present, job, orphans, listed, pending, snapshots>>

StartAsync ==
    /\ host = "created"
    /\ host' = "started"
    /\ loop' = IF Enable /\ Available THEN "begin" ELSE loop
    /\ UNCHANGED Life

\* Kestrel is the last hosted service to start: from here on scrapes arrive.
ServerUp ==
    /\ host = "started"
    /\ host' = "serving"
    /\ UNCHANGED <<loop, Life>>

\* Cancel the token, then wait for the loop.
StopAsync ==
    /\ host = "serving"
    /\ host' = "stopping"
    /\ UNCHANGED <<loop, Life>>

\* The wait ends with the loop, whose exception it rethrows, or with the
\* host's shutdown token.
StopReturns ==
    /\ host = "stopping"
    /\ host' = IF loop = "faulted" THEN "stopFailed"
               ELSE IF LoopDone THEN "stopped" ELSE "abandoned"
    /\ UNCHANGED <<loop, Life>>

\* DisposeAsync stops again, with a token that never expires.  The container
\* also disposes of a service whose host failed before or during its start.
DisposeAsync ==
    /\ host \in {"created", "started", "stopped", "stopFailed", "abandoned"}
    /\ host' = "disposing"
    /\ UNCHANGED <<loop, Life>>

\* (mutant: dispose without waiting for the loop)
DisposeReturnsEarly ==
    /\ host = "disposing"
    /\ host' = "disposed"
    /\ UNCHANGED <<loop, Life>>

\* A loop that ended with an exception rethrows it here, before the Dispose.
DisposeReturns ==
    /\ host = "disposing"
    /\ LoopDone
    /\ host' = IF loop = "faulted" THEN "disposeFailed" ELSE "disposed"
    /\ UNCHANGED <<loop, Life>>

Replug(d) ==
    /\ present' = (present \ {d}) \union ({d} \ present)
    /\ UNCHANGED <<config, host, loop, job, orphans, listed, pending, snapshots>>

-----------------------------------------------------------------------------
(* RunAsync: one smartctl process.                                         *)

\* (mutant: the new calls replace the record of all others)
LaunchForgetting(J) ==
    /\ job' \in [J -> {"running", "null"}]
    /\ UNCHANGED orphans

\* proc.Start() of every job of J.  A start that fails is a null result.
\* When CancelAfter rejects the timeout the call returns null as well, but
\* the process has been started and is left behind.
Launch(J) ==
    \E started \in SUBSET J :
        /\ job' = [j \in Jobs |-> IF j \notin J THEN job[j]
                                  ELSE IF j \in started /\ TimeoutInRange
                                       THEN "running" ELSE "null"]
        /\ orphans' = IF TimeoutInRange THEN orphans ELSE orphans \union started

\* smartctl exits by itself: its output parses, is no JSON (null), or is JSON
\* of a shape the parser throws on.  A scan lists drives that are plugged in.
\* RunAsync reads the rest of the output after the exit, without a timeout; as
\* smartctl starts no process that could keep the pipe open, that read ends.
Exits(j) ==
    /\ job[j] = "running"
    /\ \E outcome \in {"data", "null", "throw"} :
        /\ job' = [job EXCEPT ![j] = outcome]
        /\ listed' \in IF j = ScanJob /\ outcome = "data"
                       THEN SUBSET present ELSE {listed}
    /\ UNCHANGED <<config, present, host, loop, orphans, pending, snapshots>>

\* The invocation timeout or the stop token ends the wait; the process is
\* killed, and a failure to kill it is swallowed.
TimesOut(j) ==
    /\ job[j] = "running"
    /\ job' = [job EXCEPT ![j] = "null"]
    /\ orphans' \in {orphans} \union (IF KillCanFail THEN {orphans \union {j}} ELSE {})
    /\ UNCHANGED <<config, present, host, loop, listed, pending, snapshots>>

OrphanExits(j) ==
    /\ j \in orphans
    /\ orphans' = orphans \ {j}
    /\ UNCHANGED <<config, present, host, loop, job, listed, pending, snapshots>>

-----------------------------------------------------------------------------
(* RefreshLoopAsync and RefreshOnceAsync.                                  *)

Older(r) == IF r = NoReport THEN r
            ELSE [r EXCEPT !.age = IF @ < MaxAge THEN @ + 1 ELSE @]

\* A cycle begins: ScanAsync starts `smartctl --scan-open`, a process that opens
\* every drive, since the exclude patterns are applied to its result only.
BeginRefresh ==
    /\ loop = "begin"
    /\ loop' = "scanning"
    /\ Launch({ScanJob})
    /\ snapshots' = [n \in Names |-> Older(snapshots[n])]
    /\ UNCHANGED <<config, present, host, listed, pending>>

\* (mutant: the timer is awaited without the stop token)
TickDespiteStop ==
    /\ loop = "waiting"
    /\ loop' = "begin"
    /\ UNCHANGED <<host, Life>>

\* WaitForNextTickAsync returned true; a stop may still come before the scan.
Tick ==
    /\ loop = "waiting"
    /\ ~Cancelled
    /\ loop' = "begin"
    /\ UNCHANGED <<host, Life>>

\* WaitForNextTickAsync threw OperationCanceledException.
LoopEnds ==
    /\ loop = "waiting"
    /\ Cancelled
    /\ loop' = "ended"
    /\ UNCHANGED <<host, Life>>

\* RefreshOnceAsync returns or throws; after the first cycle the timer is made.
EndCycle ==
    /\ loop' = IF IntervalInRange THEN "waiting" ELSE "faulted"
    /\ job' = [j \in Jobs |-> "idle"]
    /\ listed' = {}
    /\ UNCHANGED <<config, present, host, orphans, pending, snapshots>>

\* (mutant: an empty scan clears the dictionary)
ScanGivesNothingClears ==
    /\ loop = "scanning"
    /\ job[ScanJob] # "running"
    /\ listed = {}
    /\ loop' = IF IntervalInRange THEN "waiting" ELSE "faulted"
    /\ job' = [j \in Jobs |-> "idle"]
    /\ snapshots' = [n \in Names |-> NoReport]
    /\ UNCHANGED <<config, present, host, orphans, listed, pending>>

\* No list, an empty list, or an exception: the dictionary is left alone.
ScanGivesNothing ==
    /\ loop = "scanning"
    /\ job[ScanJob] # "running"
    /\ listed = {}
    /\ EndCycle

\* (mutant: the exclude patterns are not applied)
WantedUnfiltered == listed

\* The filter comes after the test for an empty list.
Wanted == {d \in listed : NameOf[d] \notin Excluded}

StartFetches ==
    /\ loop = "scanning"
    /\ job[ScanJob] = "data"
    /\ listed # {}
    /\ loop' = "fetching"
    /\ Launch(Wanted)
    /\ UNCHANGED <<config, present, host, listed, pending, snapshots>>

\* (mutant: the join waits for a report of every drive)
FetchesDoneAllData == loop = "fetching" /\ \A d \in Wanted : job[d] = "data"

\* (mutant: the join waits for the first fetch only)
FetchesDoneFirst == loop = "fetching" /\ \E d \in Devices : job[d] \notin {"idle", "running"}

FetchesDone == loop = "fetching" /\ \A d \in Devices : job[d] # "running"

\* (mutant: an exception in a cycle ends the loop)
FetchThrowsOut ==
    /\ FetchesDone
    /\ \E d \in Devices : job[d] = "throw"
    /\ loop' = "ended"
    /\ job' = [j \in Jobs |-> "idle"]
    /\ listed' = {}
    /\ UNCHANGED <<config, present, host, orphans, pending, snapshots>>

\* Task.WhenAll faults when one fetch did, after all of them have ended.
FetchThrows ==
    /\ FetchesDone
    /\ \E d \in Devices : job[d] = "throw"
    /\ EndCycle

AllFetched ==
    /\ FetchesDone
    /\ \A d \in Devices : job[d] # "throw"
    /\ loop' = "publishing"
    /\ pending' = Answered
    /\ UNCHANGED <<config, present, host, job, orphans, listed, snapshots>>

\* One assignment of the result loop.  The results are in the order of the
\* scan, which is any order, so the next one is any pending one.
Publish(d) ==
    /\ loop = "publishing"
    /\ d \in pending
    /\ snapshots' = [snapshots EXCEPT ![NameOf[d]] = [dev |-> d, age |-> 0]]
    /\ pending' = pending \ {d}
    /\ UNCHANGED <<config, present, host, loop, job, orphans, listed>>

Stale == Served \ Seen

\* (mutant: the dictionary is cleared before it is filled)
PruneFirst(n) ==
    /\ loop = "publishing"
    /\ pending = Answered
    /\ snapshots' = [snapshots EXCEPT ![n] = NoReport]
    /\ UNCHANGED <<config, present, host, loop, job, orphans, listed, pending>>

\* One TryRemove of the loop over the keys.
Prune(n) ==
    /\ loop = "publishing"
    /\ pending = {}
    /\ n \in Stale
    /\ snapshots' = [snapshots EXCEPT ![n] = NoReport]
    /\ UNCHANGED <<config, present, host, loop, job, orphans, listed, pending>>

\* (mutant: stale names are left in the dictionary)
EndRefreshUnpruned ==
    /\ loop = "publishing"
    /\ pending = {}
    /\ EndCycle

EndRefresh ==
    /\ loop = "publishing"
    /\ pending = {}
    /\ Stale = {}
    /\ EndCycle

-----------------------------------------------------------------------------
Host == StartAsync \/ ServerUp \/ StopAsync \/ StopReturns \/ DisposeAsync \/ DisposeReturns
Smartctl == \E j \in Jobs : Exits(j) \/ TimesOut(j) \/ OrphanExits(j)
Refresh ==
    \/ BeginRefresh \/ Tick \/ LoopEnds
    \/ ScanGivesNothing \/ StartFetches
    \/ FetchThrows \/ AllFetched
    \/ \E d \in Devices : Publish(d)
    \/ \E n \in Names : Prune(n)
    \/ EndRefresh

Next == Host \/ Smartctl \/ Refresh \/ \E d \in Devices : Replug(d)

Spec == Init /\ [][Next]_vars

\* The thread pool runs the loop whenever it can run and the timeout ends
\* every wait for smartctl; the host returns from what it awaits.  Nothing
\* makes the host stop, smartctl exit, or a drive come or go.
Fairness ==
    /\ WF_vars(Refresh)
    /\ \A j \in Jobs : WF_vars(Exits(j) \/ TimesOut(j))
    /\ WF_vars(DisposeReturns)

FairSpec == Spec /\ Fairness

-----------------------------------------------------------------------------
(* What the service promises.                                              *)

\* A cycle that got as far as publishing leaves exactly the names that
\* answered in the dictionary, each with a report read in this very cycle:
\* nothing older survives and no answer is lost, whatever the dictionary held
\* before (the publish and prune loops of RefreshOnceAsync).
CompleteRefreshStep ==
    loop = "publishing" /\ loop' # "publishing" =>
        /\ {n \in Names : snapshots'[n] # NoReport} = Seen
        /\ \A n \in Seen : snapshots'[n].age = 0 /\ snapshots'[n].dev \in Answered
CompleteRefresh == [][CompleteRefreshStep]_vars

\* A scrape during a cycle never misses a drive that was served before the
\* cycle and answers in it: the dictionary is overwritten before it is pruned.
AnsweredStaysServedStep ==
    \A n \in Seen : snapshots[n] # NoReport => snapshots'[n] # NoReport
AnsweredStaysServed == [][AnsweredStaysServedStep]_vars

\* A drive under DeviceExcludePatterns is skipped (README.md:88): no smartctl -a
\* is started for it or left behind for it, and no report is served under its
\* name, also when others share the name or all drives are excluded.  The scan
\* is not part of this: it opens every drive, the excluded ones too.
ExcludedNeverFetched ==
    /\ \A d \in Devices : NameOf[d] \in Excluded => job[d] = "idle" /\ d \notin orphans
    /\ \A n \in Excluded : snapshots[n] = NoReport

\* Once the service is disposed of, nothing of it runs: no loop, no call, and,
\* where kills succeed and the timeout is usable, no smartctl process.
NothingOutlivesDispose ==
    host \in {"disposed", "disposeFailed"} =>
        /\ LoopDone
        /\ \A j \in Jobs : job[j] # "running"
        /\ TimeoutInRange /\ ~KillCanFail => orphans = {}

\* Every refresh cycle comes to its end, whatever smartctl does.
CycleEnds ==
    loop \in {"begin", "scanning", "fetching", "publishing"}
        ~> loop \in {"waiting", "ended", "faulted"}

\* DisposeAsync, whose stop has no deadline of its own, always returns.
DisposeEnds == host = "disposing" ~> host \in {"disposed", "disposeFailed"}

\* If from some moment on the host runs, the drives stay and every call
\* succeeds, then from some moment on every wanted name is served, and what is
\* served is at most one cycle old, whatever failed or timed out before.
Healthy ==
    /\ host \in {"started", "serving"}
    /\ config = Settings
    /\ present = Devices
    /\ \A j \in Jobs : job[j] \notin {"null", "throw"}
    /\ job[ScanJob] = "data" => listed = present
AllFresh ==
    \A d \in Devices : NameOf[d] \notin Excluded =>
        /\ snapshots[NameOf[d]] # NoReport
        /\ snapshots[NameOf[d]].age <= 1
Recovers == <>[]Healthy => <>[]AllFresh

\* Why that lasts: what a healthy cycle has published is of that cycle when it
\* ends, and one cycle old at most while the next one runs, which in turn ends
\* with all of it replaced.  No wanted name is ever missed in between, and no
\* report served is from before the last complete cycle.
Current ==
    /\ loop \in {"begin", "scanning", "fetching", "publishing", "waiting"}
    /\ \A d \in Devices : NameOf[d] \notin Excluded =>
        /\ snapshots[NameOf[d]] # NoReport
        /\ snapshots[NameOf[d]].age <= IF loop \in {"begin", "waiting"} THEN 0 ELSE 1
CycleCompletes == loop = "publishing" /\ loop' # "publishing"
StaysCurrentStep == Healthy /\ (Current \/ CycleCompletes) => Current'
StaysCurrent == [][StaysCurrentStep]_vars

-----------------------------------------------------------------------------
(* The dictionary as its readers see it, of which this module shows more.  *)

Cache == INSTANCE SnapshotCache WITH
    cache <- snapshots,
    replacing <- loop = "publishing",
    source <- IF loop = "publishing" THEN Answered ELSE {}

\* The service does to its dictionary only what SnapshotCache allows: a cycle
\* replaces the content by the answers of one scan or leaves it alone.
ImplementsCache == Cache!CacheSpec

-----------------------------------------------------------------------------
(* What comments and README say, and the code does not do.                 *)

\* README.md:99: the eager refresh leaves no warm-up gap, so a scrape finds
\* data as soon as there are drives.
FirstScrapeHasData ==
    host = "serving" /\ loop # "off" /\ present # {} => GetSnapshots # {}

\* SmartMonitorService.cs:109: snapshots of devices that vanished are dropped,
\* that is, a cycle whose scan succeeded serves only what the scan listed.
VanishedDropped ==
    [][loop = "scanning" /\ loop' \notin {"scanning", "fetching"} /\ job[ScanJob] = "data" =>
        \A n \in Names : snapshots'[n] # NoReport => \E d \in listed : NameOf[d] = n]_vars
=============================================================================
