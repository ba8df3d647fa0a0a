# Verification of HardwareExporterWindows

TLA+ models of HardwareExporterWindows, a Prometheus exporter for hardware
sensors and SMART data on Windows, and of HardwareExporterWeb, the small Blazor
site that keeps the list of exported hosts. The models are checked with TLC on
small instances, and the theorems about them are proved with TLAPS for every
value of the constants. Paths below are relative to the root of the repository.

1. [The system](#1-the-system)
2. [Modules](#2-modules)
3. [What the runs check](#3-what-the-runs-check)
4. [Fairness](#4-fairness)
5. [What is proved](#5-what-is-proved)
6. [Disagreements found](#6-disagreements-found)
7. [What is not modelled](#7-what-is-not-modelled)
8. [Plan](#8-plan)

## 1. The system

The Windows service is one process: an ASP.NET host with two background
services and one controller. The web application is another process, on another
machine, with one SQLite table.

    HardwareMonitorService --writes--> sensor objects --read by--+
      loop under _updateLock           (LibreHardwareMonitor)    |
                                                       MetricsController
    SmartMonitorService ----writes--> _snapshots -----copied by--+  GET /metrics
      loop, one smartctl per drive     (ConcurrentDictionary)
           |
      SmartctlInvoker --starts--> smartctl.exe processes

    Blazor pages --> HostInfoManager --> SQLite <-- ServiceDiscoveryController
      one circuit per browser tab                     asked by Prometheus

The Windows service is put on a machine by `install.ps1`, by hand or from an
MSI; the control manager then starts and stops it.

| Component | State | Operations | Hard behaviour | Correct when |
|---|---|---|---|---|
| `SmartMonitorService` | the loop task, `_stopCts`, the dictionary `_snapshots` | start, stop, dispose; one refresh cycle: scan, filter, fetch in parallel, publish, prune | scrapes copy the dictionary at any moment of a cycle; calls fail, time out or throw one by one; the shutdown token may end the stop while the loop runs | a complete cycle leaves exactly what answered; no drive that answers is ever missing meanwhile; excluded drives are never fetched with `smartctl -a` (the scan opens every drive); cycles and disposal end; the cache recovers from any failure; nothing outlives disposal |
| `SmartctlInvoker` | the running processes | `ScanAsync`, `FetchAsync`, `RunAsync` with timeout and kill | a process that blocks, cannot be killed, or is started before `CancelAfter` throws | every call returns; no process is left where kills succeed |
| `GlobMatch` | the loop's indices | one match | greedy star with one backtracking point | it answers yes for exactly the names that match, and terminates |
| `HardwareMonitorService` | `_computer`, `_updateLock`, the loop task, the sensors' values | start, stop, dispose, `UpdateAsync`, the traversal `UpdateVisitor` | a node's `Update` throws; other callers of `UpdateAsync`; close and disposal under a running traversal | traversals exclude each other, whatever throws; the computer is closed under a running loop only after the shutdown token expired or without a stop; the loop goes on for ever |
| `MetricsController` | one scrape's position, `emittedMetrics` | `GetMetrics` | it reads live sensors without a lock, each up to three times; names are built from free text | of the code's own doing a scrape fails only by the race on a value or at a number label that repeats a base label; headers once per name; no sensor without another name is silenced; series stay apart |
| Host composition (`Program`) | what the container has captured, each service's place in the host's life, Kestrel's requests | construct, start in order, stop in reverse, dispose | a failed start at any place, one timeout for all stops, double registration | no scrape reads a closed computer before the timeout; the process ends, with the SMART loop over and the computer closed unless the start failed or the hardware loop faulted; each service lives as its own module assumes |
| `HostInfoManager` and host pages | the table; what each circuit shows, edits or asks | list, insert, update, delete with a dialog | every page works on a copy; circuits interleave between any two statements | deleted hosts stay deleted, inserts overwrite nothing, only a confirmed host is deleted |
| `ServiceDiscoveryController` | none; Prometheus keeps the targets | one read of the table | an answer is out of date when it arrives; an error is an empty list | once the table is left alone and read, the targets are the table |
| `install.ps1`, MSI | the files, the service and its process, firewall rules | copy, stop, remove, add the rule, register, start | errors that nothing looks at, a service that is in use, a restart between two steps | success means what it says; running it again repairs what a failure left |
| `LocalizationService`, `LanguageSelector` | a singleton dictionary and an event | change the language, subscribe | one object for all circuits | (not modelled) |
| `LocalNetworkWatcher`, `IPAddressExtensions` | hosts found | ping a range of addresses | byte-wise arithmetic with wrap-around | (not modelled) |

The hazards, each at its line with the properties that watch over it, are in
`PROJECT.json`.

## 2. Modules

| Module | Models | State and actions against the code |
|---|---|---|
| `SmartMonitor` | `SmartMonitorService`, `SmartctlInvoker` | below |
| `SnapshotCache` | the abstract promise behind `_snapshots` | a cache that ages, or is replaced by the reports of one set of drives: every new report first, then the removals |
| `Glob` | `GlobMatch` | `i`, `p`, `starI`, `starP` are the locals; one action per branch of the loop and of the trailing loop |
| `HardwareMonitor` | `HardwareMonitorService`, and `GetMetrics` as the reader of its sensors | below |
| `MetricsText` | the naming, labels, samples and headers of `GetMetrics` | one action per sensor or report visited and per sample written; names are sequences of elements |
| `HostRegistry` | `HostInfoManager`, `FetchHost`, `InsertHost`, `UpdateHost`, `Form` | one action per handler of a page; one SQL statement is one step |
| `ServiceDiscovery` | `ServiceDiscoveryController` beside the pages, extends `HostRegistry` | below |
| `ServiceHost` | `Program` of the Windows service with both hosted services and Kestrel | below |
| `HostedLife` | the life of a hosted service that `SmartMonitor` and `HardwareMonitor` assume | the abstract specification of each service inside `ServiceHost` |
| `Installer` | `install.ps1`, what the MSI adds to it, and the control manager | below |
| `MC...` | | instances for TLC |
| `...Proofs` | | theorems, section 5 |
| `SequenceLemmas` | | induction over numbers, and what flattening a sequence of sequences yields; used by `MetricsTextProofs` |

**SmartMonitor.** `host` is where the generic host has brought the service
(created, started, serving, stopping, then stopped, abandoned by a stop whose token
expired, or left by one that rethrew what the loop faulted with; disposing, disposed).
`loop` is where `RefreshLoopAsync` is: `begin` (the eager first refresh),
`scanning`, `fetching`, `publishing`, `waiting` for the timer, `ended`, or
`faulted`. `config` is the configuration, chosen at the start: whether the
service is enabled, whether a smartctl.exe is found, and whether the timers
accept the configured seconds (a `PeriodicTimer` rejects about 49 days and more,
which faults the loop after its first cycle). `job` records each smartctl call of the cycle and its outcome: data,
null (no start, timeout, no JSON), or an exception. `orphans` are processes no
call waits for. `snapshots` is the dictionary; a report is the drive it was read
from and its age in cycles. What `smartctl` prints is abstracted to those three
outcomes, the only thing the loop branches on. Each assignment of the publish
loop and each `TryRemove` is its own step, since a scrape may copy the dictionary
between any two. The copy itself (`GetSnapshots`) is one step. Drives are
(name, type) pairs, and `NameOf` may give two of them one name, as `smartctl
--scan-open` does for drives behind an adapter. Drives come and go at any time
(`Replug`). `smartctl --scan-open` opens every drive, also the excluded ones; the
exclusion is about the fetches that follow. The read of the output that `RunAsync`
awaits after the exit (`SmartctlInvoker.cs:256`) has no timeout and is part of
the exit.

**HardwareMonitor.** The hardware tree is flattened into the order in which
`UpdateVisitor` reaches its nodes. `lock` is `_updateLock`; `at`, `node` and
`todo` say where each caller of `UpdateAsync` is. The loop is one caller; any
number of others may use the public method. A node's `Update` writes its sensors
one by one, each with a value or with none, and may throw after any of them.
A value is its age in cycles. A loop whose interval the timer rejects faults
after its eager refresh, and the stop then rethrows before it closes the
computer (`StopThrows`). `grace` is the shutdown token while `StopAsync` waits for the
loop: it may expire at any moment of that wait (`TokenExpires`), and then the
computer is closed whatever the loop does. A scrape (`request`, `left`, `cur`) takes one step
per read of `sensor.Value`: the null test, the legacy name, the alias. A
sensor of `Clashing` has a number label with the key of a base label (it is called
"Name 1", say); `ToDictionary` throws there, and the scrape ends with a 500
(`ProcessSensorThrows`; `MetricsText` computes which names do so).

**HostRegistry.** The table maps an address to the rest of the row. `page`,
`hosts`, `target` and `form` are what a circuit shows, edits or asks about. The
dialog in the browser is a state of its own (`confirm`), since other circuits go
on while it is open; its answer leads to `agreed` or `refused`, and after either the
handler reads the list again. The database may fail in any handler; none of them catches.

**ServiceDiscovery.** The answer of an endpoint is a copy of the addresses in the
table; it is on its way (`answers`) while the table may change, and Prometheus
replaces its `targets` by it. A table that cannot be read gives the empty list
with status 200 (`GetExportersFails`), as the catch in the controller does. The
two endpoints differ in port and labels only and are one action.

**ServiceHost.** `phase` and `at` are where `RunAsync` is: constructing the hosted
services, starting them in order, running, stopping them in reverse, disposing,
exited. `captured` is the container's list of disposables. `AddSingleton<T>` and
`AddHostedService(factory)` each capture the same instance, so each service is in
it twice. A failed start goes straight to disposal, without any stop. Each stop
waits for its loop (or, for Kestrel, for the requests in progress) until the one
shutdown token is cancelled. `DisposeAsync` of `SmartMonitorService` waits without
a deadline; a second one throws at the cancelled and disposed `_stopCts`. Whether
the container disposes of the rest before it lets an exception out is left
open. `HostedLife` is the joint: it lists the steps of a service's life. `host` in
`SmartMonitor` and in `HardwareMonitor` takes no other, and each service's `life`
here refines it, so the three modules speak of one life.

**Installer.** `pc` is the next cmdlet. The script never sets
`$ErrorActionPreference`, so a cmdlet that fails is passed over unless the script
tests for it, which it does for the last three. Each cmdlet has its failure.
`Remove-Service` exists in PowerShell 6 and later only, and a service that is still
in use is only marked for deletion. The MSI copies the files itself and runs the
script under Windows PowerShell. Around the script an administrator starts and
stops the service, the service may die, and Windows restarts at any point.

**MetricsText.** An element is what the code joins and splits at spaces and
underscores. What the regular expressions do to single elements is given by
constants (`Sanitized`, `DigitFirst`, `NumberOf`), what the code does with the
sequence of elements is modelled. LibreHardwareMonitor and smartctl appear only
through the sensors and reports a scrape may meet.

## 3. What the runs check

| Run | Instance | Question |
|---|---|---|
| `SmartSafety` | 3 drives, 2 of them under one name, every configuration | Does the service only ever replace its cache by complete answers (`CompleteRefresh`, `AnsweredStaysServed`, refinement of `SnapshotCache`), does a dictionary that a healthy cycle has filled stay current while the health lasts (`StaysCurrent`), and does nothing of it run after disposal (`NothingOutlivesDispose`)? |
| `SmartLiveness` | the same drives, one name excluded, kills may fail | Do cycles and disposal end, does the cache recover, is an excluded drive never fetched? |
| `GlobMatch` | all names and patterns up to 4 characters over 2 letters and both wildcards | Does the loop agree with the declarative meaning (`Matches`), and end? |
| `HardwareUpdates` | 2 nodes with a sensor each, the loop and one more caller, 1 scrape, every configuration | Do traversals exclude each other, when can the computer be closed under the loop (`CloseSparesLoop`), is what was visited fresh, why can a scrape fail, does the loop stop when told and go on otherwise? |
| `HostRegistry` | 2 tabs, 2 addresses, 2 contents, and Prometheus | Can a stale page resurrect, overwrite or delete a host nobody meant? Do Prometheus's targets come to be the table (`TargetsFollow`)? |
| `MetricsText` | all pairs of 71 sensors (35 names, two types), with and without legacy names and two SMART reports | Headers once, every sensor in the response that has legacy names on or no alias, series apart |
| `ServiceHost` | both services, 3 scrapes, every failure of a start, a loop or a stop | Is the computer open while scrapes read it (`DrainedBeforeClose`), what is left when the process ends (`CleanExit`), does each service live as its module assumes (`LivesAsAssumed`), does the process end (`HostExits`)? |
| `Installer` | 2 versions, by hand and by MSI, up to 2 firewall rules | Does "success" mean a running service of the new version (`SuccessIsHonest`)? Does running the script again repair what a failure, a restart or an administrator left (`RetriesRecover`)? |

The four runs that expect a violation are in section 6.

**Bounds, and why they are enough.**

* `MaxAge = 2`: the properties tell ages 0, 1 and more apart.
* Three drives: two under one name and one apart is the smallest set in which a
  shared name, an unshared one and a partial failure meet. The theorems of
  section 5 hold for any set of drives.
* Two nodes: one that throws and one behind it. Two callers: the loop and a
  rival. One sensor has an alias, the other's number label clashes. One scrape is enough since scrapes write nothing the others read.
* Names and patterns up to 4 characters: a pattern of four holds two stars with a
  letter after each (`*a*b`), the smallest in which a retry of the second star
  replaces one of the first. The soundness half is proved for all lengths.
* Two tabs: every property of the table is about one stale page and one change
  made meanwhile.
* One answer on its way: Prometheus asks again only when it has been answered.
* Three scrapes: one that ends in time, one that does not, one that comes while
  the others run; `ServiceHost` treats them alike, and its safety properties are
  proved for any number.
* Two versions: the one installed and a new one. Two firewall rules: none, one,
  more than one; each run of the script adds one, and counting stops at
  `MaxRules`.
* Two sensors: every property of the text relates at most two samples; their
  shapes are those the code distinguishes (digits first, `#`, digits last,
  elements that vanish, repeated elements, a clash with a base label).

`CHECK_DEADLOCK FALSE` is set where the system stops: a match or a scrape that is
finished, a disposed service without anybody left to run, or a process that has
exited. Not for `SmartMonitor`, `HostRegistry` and `Installer`, where drives come
and go, tabs can always go back, and the script can be run again.

Properties that state what must not break carry in `PROJECT.json` a mutant: a
plausible bug in the code's place (marked `(mutant: ...)` in the modules) under
which the same run finds the property violated.

## 4. Fairness

Only what the runtime gives:

* `SmartMonitor`: the thread pool runs the loop whenever it can run (weak
  fairness of `Refresh`). A smartctl call ends by itself or by
  `InvocationTimeoutSeconds` (weak fairness of `Exits \/ TimesOut`, never of
  `Exits` alone). `DisposeAsync` returns when what it awaits is over. Nothing
  makes the host stop, a drive come or go, an orphan exit, or a call succeed;
  `Recovers` has success as its premise.
* `HardwareMonitor`: weak fairness of a new cycle and of the loop's end; a
  node's `Update` returns or throws (weak fairness of `Visit`). `Acquire` has
  strong fairness: `SemaphoreSlim.WaitAsync` queues its waiters, so a queued
  caller is served by some `Release`.
* `Glob`: a sequential loop runs on.
* `ServiceHost`: `RunAsync` goes on when it can (weak fairness of starting,
  stopping and disposing), the shutdown timeout fires, and a loop whose token is
  cancelled ends. Nothing makes a scrape end.
* `Installer`: a script that has begun goes on unless Windows restarts, and the
  handles to a service marked for deletion get closed in the end. Nobody has to
  run the script; that somebody does, and that no cmdlet fails for a reason of
  its own any more, are premises of `RetriesRecover`, together with PowerShell 7:
  under Windows PowerShell there is no `Remove-Service`, the old entry stays, and
  `New-Service` fails each time.
* `ServiceDiscovery`: Prometheus asks once per refresh interval. Nobody has to
  open or leave a page.
* `MetricsText` makes no liveness claim and states no fairness.

## 5. What is proved

For every value of the constants, from the named assumptions in the modules that
declare them (`NamesAssumption`, `NodesAssumption`, ...). These say what the
constants are: that each drive has a name, that the scan is no drive, that the absent value is no value.
For `MetricsText` they also say what the code makes true of its inputs: the reports of a
scrape are about different devices, as the dictionary is keyed by the device
(`ReportsAssumption`), and the names of the fixed SMART fields are the distinct
literals of `Metrics.cs:378-490` (`FieldsAssumption`). TLC evaluates the assumptions
in every run.

* **SmartMonitorProofs.** `TypeCorrect`, `ExcludedSkipped`, `DisposalIsFinal`,
  `CompleteRefreshHolds`, `AnsweredStaysServedHolds`, and `Refinement`: the
  service implements `SnapshotCache`. None of these is inductive: which calls
  may run depends on the stage of the loop, and a published report counts only
  if it came from this cycle. The invariant `IInv` adds that calls follow the
  loop's stage (`JobsFollowLoop`), that while publishing each answered name is
  fresh in the dictionary or still pending (`FreshOrPending`), that no process
  is orphaned where kills succeed and the timeout is usable (`NoStray`), and that host and loop agree
  (`HostAndLoop`). `FreshOrPending` carries the refinement: once nothing is
  pending, every answered name is fresh, which is what `SnapshotCache` demands
  before a removal. `FreshnessLasts` is the safety half of `Recovers`: what it adds
  is that the fetches of a cycle are exactly those its scan asks for
  (`LaunchedInv`), so that a healthy cycle has an answer of every wanted drive.
  `CyclesAdvance` is the safety half of `CycleEnds`: no step, of whomever, takes a
  cycle back or gives it more to do. `AssumedLife`: the host takes only the steps
  of `HostedLife`.
* **HardwareMonitorProofs.** `TypeCorrect`, `MutualExclusion`, `CloseIsOrderly`,
  `PrefixIsFresh`, `FailuresAreExplained`, for any tree, any number of callers and
  scrapes. `IInv` adds how the host's stage bounds the rest (`LifeInv`: a service
  that was ever started has its computer, the semaphore is gone exactly when the
  service is disposed of, the loop is not there before the start, and a stop that
  is past its wait with the token unexpired has a loop that is over) and that what the
  traversal wrote in its current node is fresh as well (`WrittenFresh`).
  `WalksAdvance`: a traversal and a scrape only go forward, whatever runs beside
  them, so that with finitely many sensors neither holds the semaphore, or a
  client, for ever. `AssumedLife` as for the SMART service.
* **GlobProofs.** For strings of any length, `IndicesInRange`,
  `NoFalseExclusion` (a yes is always a match) and `NoMissedExclusion` (a no never
  is one), so the loop decides exactly `Matches`. For the first, the consumed part
  of the name matches the consumed part of the pattern, at the current indices
  and at the last star (`ConsumedMatches`). For the second, every alignment of the
  whole name with the whole pattern passes through the current indices, or through
  the last star at the current retry or later (`NoneMissed`): a later star can
  absorb whatever an earlier one would, so one backtracking point is enough.
  `EveryIterationCounts` is the safety half of `Terminates`: each iteration lowers a
  natural number with three digits: the pattern behind the last star met, the
  characters of the name that star can still take, and the pattern left to walk
  through. It bounds the iterations by the square of the pattern's length times the
  name's length.
* **HostRegistryProofs.** `TypeCorrect`, `DeletedStaysDeleted`,
  `InsertsKeepHosts`, `DeletesAreConfirmed`, for any number of tabs and hosts.
  One lemma (`RowStep`) says which step can change which row. `DiscoveryOnlyReads`
  shows that the composition with Prometheus implements `HostRegistry`, so they
  hold of it too.
* **ServiceHostProofs.** `TypeCorrect`, `ScrapesDrain`, `ExitIsClean` and
  `LivesFollow` (each service refines `HostedLife`), for any number of scrapes.
  `IInv` ties the services' lives to phase and position (`LivesInv`), says when
  Kestrel can still have requests (`WebInv`), that a SMART loop that runs belongs to
  the service at the end of `captured`, which is therefore waited for before
  anything can throw (`SmartInv`), and why a computer may still be open once the
  stops are over (`OpenInv`). `ShutdownAdvances` is the safety half of `HostExits`:
  from the stop, or the failed start, each step of `RunAsync` is nearer to the
  exit, also one that throws.
* **InstallerProofs.** `TypeCorrect` and `SuccessHolds`, for any number of versions.
  `ProgressInv` says what each step of the script can rely on whatever others do
  meanwhile: if the exe was placed it is still there, after the rule step there is
  a rule, and at the last step no process of an older version runs.
* **MetricsTextProofs.** `TypeCorrect`, `HeadersAreOnce`, `LegacyVisible`,
  `NumbersAreSeparate` and `SmartSeriesAreUnique`, for any sensors, names and
  reports. One invariant says the response so far is well formed, that
  `emittedMetrics` holds exactly the names written, and that each sensor visited
  has a sample written or is the current one with samples still queued, or else is
  silenced in the one way there is (`MissingIsSameNamed`: legacy names off and an
  alias equal to the legacy name). A second
  traces every sample queued or written to the sensor or report it is of, already
  visited and with an input `ProcessSensor` accepts (`SourceInv`); the labels of a
  sample then follow from its source. A third keeps the SMART series written and
  queued apart (`UniqueInv`): within a report by the field or the attribute,
  between reports by the device. `NumbersSeparate` had been stated of any
  number in a name. The proof did not go through: a number that follows a number
  has that number for its key, and a row of numbers in another order can give
  the same labels (`core #1 #2 1` with its middle rearranged). TLC showed it once
  the run had two such sensors. The property now asks that the names differ in a
  number behind a word, and the run keeps those sensors.
* **SequenceLemmas.** A report's samples are flattened out of several tables by a
  recursive function, so their order and origin need an induction. The library's
  induction theorems take an operator as a parameter, which the provers cannot
  instantiate; `SetInduction` states the principle of a set instead and follows
  from well-foundedness. On it rest `FlattenFacts` (the elements of the flattened
  sequence are those of the parts, and it repeats none if the parts are disjoint
  and repeat none) and the lemmas on concatenation.

Every invariant and every action property the runs check is thus proved, and both
refinements (`ImplementsCache`, `LivesAsAssumed`). Only model-checked is liveness
under fairness, which is out of the proof system's reach: `CycleEnds`, `DisposeEnds`,
`Recovers`, `LoopStops`, `KeepsUpdating`, `Terminates`, `TargetsFollow`, `HostExits`,
`RetriesRecover`. For five of them the part that is not about fairness is proved, as said
above: `CycleEnds`, `Recovers`, `Terminates`, `HostExits`, and of `KeepsUpdating` that a
traversal ends. What is left is that a step which can be taken is taken.

## 6. Disagreements found

Each is a run that TLC ends with a counterexample.

| Run | The repository says | The code does |
|---|---|---|
| `SmartFirstScrape` | "the first scrape after launch already has data" (`README.md:99`) | the eager refresh is started, not awaited; Kestrel may answer first |
| `SmartVanished` | "Drop snapshots for devices that vanished" (`SmartMonitorService.cs:109`) | an empty scan returns before that loop: the last drive's report stays for ever |
| `MetricsVisible` | "Emit legacy unless the operator explicitly opted out AND we have an alias to keep this sensor visible" (`Metrics.cs:294-295`) | with legacy names off, a sensor whose alias comes out equal to its legacy name (a data sensor called "Data Bytes") is emitted under neither |
| `HardwareStaleness` | what is served "is bounded by `cache_interval + scrape_interval`" (`README.md:108`) | a node that keeps throwing leaves all nodes behind it stale |

Properties that hold are weaker than one might wish, and say so:

* `FailuresExplained`: a scrape can fail, with a 500, when a value becomes null
  between the test (`Metrics.cs:223`) and the reads (`Metrics.cs:300` and `:308`),
  and at a sensor whose number label has the key of a base label (`Metrics.cs:262`).
  What LibreHardwareMonitor itself may throw at a reader is not modelled.
* `CompleteRefresh` speaks of the names of drives. Drives that smartctl lists under
  one name (behind one adapter, told apart by their type only) overwrite each
  other, and one of them is served, although "full SMART table for every disk" is
  what `README.md:97` announces.
* `CloseSparesLoop`: the computer is closed under a traversal when the shutdown token
  expired first, and when a later service failed to start, so that the disposal
  comes without a stop.
* `NumbersSeparate`: numbers behind one repeated word overwrite each other, so two
  sensors that differ in the first of them only do share a series.
* `CleanExit`: the second disposal of `SmartMonitorService` throws each time, so
  `app.Run()` ends with an `ObjectDisposedException` even after an orderly stop.
  After a failed start the container may then never reach the hardware service,
  and the computer stays open until the process is gone.
* `SuccessIsHonest`: the version is promised only if the exe could be placed. A
  `Copy-Item` onto the running exe fails, nothing looks at that, and the script
  goes on to report success with the old program.

## 7. What is not modelled

* The formatting of values, help texts, escaping, the vendor labels of GPUs and
  the .NET runtime metrics in front of the response: data no modelled property
  depends on.
* The parsing of smartctl's JSON, beyond its outcome, and the search for
  smartctl.exe (`Available` in `config`).
* The bundled smartmontools: `smartctl.exe` and its drive database
  `smartctl/drivedb.h`. The latter is nearly seven thousand lines of C
  initialisers, third-party data that only `smartctl.exe` reads; no code of this
  program does, and it has no behaviour to model. The program's own code is C#,
  Razor and one PowerShell script.
* LibreHardwareMonitor, smartctl, SQLite, Kestrel, the container, Prometheus and the
  control manager are external: only what the code relies on appears.
* Memory-model effects below one read of `sensor.Value`: a nullable float is read
  in one piece. A torn read, which could give a wrong number for one scrape, is not
  represented; values are ages in the model, and no property is about the number.
* `LocalizationService` and `LanguageSelector`: a dictionary, a name and an event
  shared by all circuits. What the repository promises of them is that a text is
  found, and a text that is not found is shown as its key. The race of two users
  who change the language is listed as a hazard.
* `LocalNetworkWatcher` and `IPAddressExtensions`: a sequential scan over an address
  range. No part of the program calls it; one test does.
* The pages around the host pages, and `Program` of the web application: wiring
  and presentation without state of their own.

## 8. Plan

Done, in this order: `SmartMonitor` with `SnapshotCache`, `HardwareMonitor`,
`Glob`, `HostRegistry`, `MetricsText`, then `ServiceHost` with `HostedLife`,
`Installer`, `ServiceDiscovery`, the completeness of `GlobMatch`, and the proofs
of all of them.

What could still be added: `SubnetScan`, should the program come to call the
watcher; `Language`, should the repository come to promise something of it; and
the measures by which the remaining liveness properties come about (`DisposeEnds`,
`TargetsFollow`, `RetriesRecover`).
