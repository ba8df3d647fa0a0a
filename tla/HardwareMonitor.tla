--------------------------- MODULE HardwareMonitor ---------------------------
(***************************************************************************)
(* HardwareMonitorService and the part of MetricsController that reads its *)
(* sensors.  A background loop walks the hardware tree under a semaphore   *)
(* and lets each node overwrite the values of its sensors; scrapes read    *)
(* the same sensors, one property read at a time, without any lock.        *)
(*                                                                         *)
(* The tree is flattened: node k is the k-th one UpdateVisitor reaches.  A *)
(* sensor value is its age in refresh cycles, or NoValue.                  *)
(***************************************************************************)
EXTENDS Naturals, FiniteSets

CONSTANTS
    N,              \* number of hardware and sub-hardware nodes
    Sensors,        \* all their sensors
    NodeOf,         \* the node each sensor belongs to
    Unit,           \* the sensors with a second, conventional metric name
    Clashing,       \* those whose number label has the key of a base label
    Callers,        \* whoever calls UpdateAsync
    Loop,           \* the caller that is RefreshLoopAsync
    Requests,       \* scrapes that may be in progress together
    MaxAge,         \* the age at which counting stops
    NoValue         \* a sensor.Value that is null

ASSUME NodesAssumption == N \in Nat \ {0} /\ NodeOf \in [Sensors -> 1..N]
ASSUME UnitAssumption == Unit \subseteq Sensors
ASSUME ClashAssumption == Clashing \subseteq Sensors
ASSUME LoopAssumption == Loop \in Callers /\ Callers \intersect {"free", "gone"} = {}
ASSUME AgeAssumption == MaxAge \in Nat \ {0}
ASSUME NoValueAssumption == NoValue \notin 0..MaxAge

Value == (0..MaxAge) \union {NoValue}

VARIABLES
    config,     \* which of the Settings below hold, for the whole run
    host,       \* where the generic host is in this service's life
    grace,      \* the shutdown token: unused before StopAsync, then running,
                \* or expired while StopAsync was still waiting for the loop
    computer,   \* _computer: not made, open, or closed
    lock,       \* _updateLock: free, held by a caller, or disposed of
    at,         \* where each caller of UpdateAsync is
    node,       \* the node each caller's visitor is at
    todo,       \* the sensors of that node not yet written
    value,      \* sensor.Value
    request,    \* where each scrape is
    left,       \* the sensors a scrape has still to visit
    cur         \* the sensor a scrape is at

serviceVars == <<config, host, grace, computer>>
updateVars == <<lock, at, node, todo>>
scrapeVars == <<request, left, cur>>
vars == <<config, host, grace, computer, lock, at, node, todo, value, request, left, cur>>

Settings == {"EmitLegacy", "IntervalInRange"}
EmitLegacy == "EmitLegacy" \in config              \* EmitLegacyMetricNames
IntervalInRange == "IntervalInRange" \in config    \* for PeriodicTimer

Cancelled == host \in {"stopping", "stopped", "stopFailed", "abandoned", "disposed"}
SensorsOf(k) == {s \in Sensors : NodeOf[s] = k}
Older(v) == IF v = NoValue \/ v = MaxAge THEN v ELSE v + 1

\* Service, traversals and scrapes are in states the code has; a traversal
\* stays within the tree.
TypeOK ==
    /\ config \subseteq Settings
    /\ host \in {"created", "failed", "started", "serving", "stopping",
                 "stopped", "stopFailed", "abandoned", "disposed"}
    /\ grace \in {"unused", "running", "expired"}
    /\ computer \in {"none", "open", "closed"}
    /\ lock \in Callers \union {"free", "gone"}
    /\ at \in [Callers -> {"off", "begin", "locking", "updating", "waiting",
                         "ended", "faulted"}]
    /\ node \in [Callers -> 1..(N + 1)]
    /\ todo \in [Callers -> SUBSET Sensors]
    /\ value \in [Sensors -> Value]
    /\ request \in [Requests -> {"none", "next", "legacy", "alias", "failed"}]
    /\ left \in [Requests -> SUBSET Sensors]
    /\ cur \in [Requests -> Sensors]

Init ==
    /\ config \in SUBSET Settings
    /\ host = "created"
    /\ grace = "unused"
    /\ computer = "none"
    /\ lock = "free"
    /\ at = [c \in Callers |-> IF c = Loop THEN "off" ELSE "waiting"]
    /\ node = [c \in Callers |-> N + 1]
    /\ todo = [c \in Callers |-> {}]
    /\ value = [s \in Sensors |-> NoValue]
    /\ request = [r \in Requests |-> "none"]
    /\ left = [r \in Requests |-> {}]
    /\ cur \in [Requests -> Sensors]

-----------------------------------------------------------------------------
(* The life of the service.                                                *)

StartAsync ==
    /\ host = "created"
    /\ computer' = "open"
    /\ host' = "started"
    /\ at' = [at EXCEPT ![Loop] = "begin"]
    /\ UNCHANGED <<config, grace, lock, node, todo, value, scrapeVars>>

\* Open throws: the host's start fails, the Computer stays assigned.
StartFails ==
    /\ host = "created"
    /\ computer' = "open"
    /\ host' = "failed"
    /\ UNCHANGED <<config, grace, updateVars, value, scrapeVars>>

\* The other hosted services have started, Kestrel the last of them.
ServerUp ==
    /\ host = "started"
    /\ host' = "serving"
    /\ UNCHANGED <<config, grace, computer, updateVars, value, scrapeVars>>

StopAsync ==
    /\ host = "serving"
    /\ host' = "stopping"
    /\ grace' = "running"
    /\ UNCHANGED <<config, computer, updateVars, value, scrapeVars>>

\* The shutdown token expires under the WaitAsync of StopAsync.  Once the loop
\* is over, that wait is decided and the token no longer matters.
TokenExpires ==
    /\ host = "stopping"
    /\ grace = "running"
    /\ at[Loop] \notin {"ended", "faulted"}
    /\ grace' = "expired"
    /\ UNCHANGED <<config, host, computer, updateVars, value, scrapeVars>>

\* (mutant: Close without waiting for the loop)
StopReturnsAtOnce ==
    /\ host = "stopping"
    /\ host' = IF grace = "expired" THEN "abandoned" ELSE "stopped"
    /\ computer' = "closed"
    /\ UNCHANGED <<config, grace, updateVars, value, scrapeVars>>

\* The wait for the loop is over or was cancelled; then Close.
StopReturns ==
    /\ host = "stopping"
    /\ at[Loop] = "ended" \/ grace = "expired"
    /\ host' = IF grace = "expired" THEN "abandoned" ELSE "stopped"
    /\ computer' = "closed"
    /\ UNCHANGED <<config, grace, updateVars, value, scrapeVars>>

\* The wait rethrows the exception of a loop that faulted, before the Close.
StopThrows ==
    /\ host = "stopping"
    /\ at[Loop] = "faulted"
    /\ grace = "running"
    /\ host' = "stopFailed"
    /\ UNCHANGED <<config, grace, computer, updateVars, value, scrapeVars>>

\* Dispose waits for nobody.  The container also disposes of a service whose
\* start failed, or that was never stopped because a later one failed to start.
Dispose ==
    /\ host \in {"created", "failed", "started", "stopped", "stopFailed", "abandoned"}
    /\ host' = "disposed"
    /\ computer' = IF computer = "none" THEN "none" ELSE "closed"
    /\ lock' = "gone"
    /\ UNCHANGED <<config, grace, at, node, todo, value, scrapeVars>>

-----------------------------------------------------------------------------
(* UpdateAsync and the loop around it.                                     *)

\* Where UpdateAsync returns to.  The loop's first call is followed by the
\* construction of the timer, which throws for an interval out of range.
Resting(c) == IF c = Loop /\ ~IntervalInRange THEN "faulted" ELSE "waiting"

\* The call reaches WaitAsync, or throws because the semaphore is disposed of.
Call(c) ==
    /\ at' = [at EXCEPT ![c] = IF lock = "gone" THEN Resting(c) ELSE "locking"]
    /\ UNCHANGED <<serviceVars, lock, node, todo, scrapeVars>>

\* (mutant: the timer is awaited without the stop token)
CycleDespiteStop ==
    /\ at[Loop] \in {"begin", "waiting"}
    /\ Call(Loop)
    /\ value' = [s \in Sensors |-> Older(value[s])]

\* A refresh cycle begins, and with it every value is one cycle older: the
\* eager first one, then one for each tick of the timer.
Cycle ==
    /\ at[Loop] = "begin" \/ (at[Loop] = "waiting" /\ ~Cancelled)
    /\ Call(Loop)
    /\ value' = [s \in Sensors |-> Older(value[s])]

\* Any other caller of the public method; without a Computer it throws.
UpdateAsync(c) ==
    /\ c # Loop
    /\ at[c] = "waiting"
    /\ computer # "none"
    /\ Call(c)
    /\ UNCHANGED value

\* (mutant: the traversal resumes where an exception ended the last one)
AcquireResuming(c) ==
    /\ at[c] = "locking"
    /\ lock = "free"
    /\ lock' = c
    /\ at' = [at EXCEPT ![c] = "updating"]
    /\ node' = [node EXCEPT ![c] = IF @ > N THEN 1 ELSE @]
    /\ todo' = [todo EXCEPT ![c] = SensorsOf(node'[c])]
    /\ UNCHANGED <<serviceVars, value, scrapeVars>>

\* WaitAsync returns; Traverse finds the nodes of an open Computer.  After
\* the semaphore's disposal a call that was waiting for it waits for ever.
Acquire(c) ==
    /\ at[c] = "locking"
    /\ lock = "free"
    /\ lock' = c
    /\ at' = [at EXCEPT ![c] = "updating"]
    /\ node' = [node EXCEPT ![c] = IF computer = "open" THEN 1 ELSE N + 1]
    /\ todo' = [todo EXCEPT ![c] = IF computer = "open" THEN SensorsOf(1) ELSE {}]
    /\ UNCHANGED <<serviceVars, value, scrapeVars>>

\* IHardware.Update writes one of the node's sensors, with or without a value.
WriteSensor(c, s) ==
    /\ at[c] = "updating"
    /\ s \in todo[c]
    /\ value' \in {[value EXCEPT ![s] = v] : v \in {0, NoValue}}
    /\ todo' = [todo EXCEPT ![c] = @ \ {s}]
    /\ UNCHANGED <<serviceVars, lock, at, node, scrapeVars>>

\* (mutant: the traversal runs past the last node)
NextNodeUnbounded(c) ==
    /\ at[c] = "updating"
    /\ todo[c] = {}
    /\ node' = [node EXCEPT ![c] = @ + 1]
    /\ todo' = [todo EXCEPT ![c] = SensorsOf(node[c] + 1)]
    /\ UNCHANGED <<serviceVars, lock, at, value, scrapeVars>>

NextNode(c) ==
    /\ at[c] = "updating"
    /\ node[c] <= N
    /\ todo[c] = {}
    /\ node' = [node EXCEPT ![c] = @ + 1]
    /\ todo' = [todo EXCEPT ![c] = SensorsOf(node[c] + 1)]
    /\ UNCHANGED <<serviceVars, lock, at, value, scrapeVars>>

\* The finally block; on a semaphore disposed of, Release throws.  Either way
\* the loop goes on to its timer.
Release(c) ==
    /\ lock' = IF lock = "gone" THEN "gone" ELSE "free"
    /\ at' = [at EXCEPT ![c] = Resting(c)]
    /\ todo' = [todo EXCEPT ![c] = {}]
    /\ UNCHANGED <<serviceVars, node, value, scrapeVars>>

Finish(c) == at[c] = "updating" /\ node[c] = N + 1 /\ Release(c)

\* (mutant: Release is not in a finally block)
UpdateThrowsLocked(c) ==
    /\ at[c] = "updating"
    /\ node[c] <= N
    /\ at' = [at EXCEPT ![c] = "waiting"]
    /\ todo' = [todo EXCEPT ![c] = {}]
    /\ UNCHANGED <<serviceVars, lock, node, value, scrapeVars>>

\* (mutant: the loop does not catch what UpdateAsync throws)
UpdateThrowsOut(c) ==
    /\ at[c] = "updating"
    /\ node[c] <= N
    /\ lock' = IF lock = "gone" THEN "gone" ELSE "free"
    /\ at' = [at EXCEPT ![c] = IF c = Loop THEN "ended" ELSE "waiting"]
    /\ todo' = [todo EXCEPT ![c] = {}]
    /\ UNCHANGED <<serviceVars, node, value, scrapeVars>>

\* IHardware.Update throws: the rest of the tree is not visited.
UpdateThrows(c) == at[c] = "updating" /\ node[c] <= N /\ Release(c)

LoopEnds ==
    /\ at[Loop] = "waiting"
    /\ Cancelled
    /\ at' = [at EXCEPT ![Loop] = "ended"]
    /\ UNCHANGED <<serviceVars, lock, node, todo, value, scrapeVars>>

-----------------------------------------------------------------------------
(* GetMetrics: one scrape.                                                 *)

StartScrape(r) ==
    /\ host = "serving"
    /\ request[r] \in {"none", "failed"}
    /\ request' = [request EXCEPT ![r] = IF computer = "none" THEN "failed" ELSE "next"]
    /\ left' = [left EXCEPT ![r] = IF computer = "none" THEN {} ELSE Sensors]
    /\ UNCHANGED <<serviceVars, updateVars, value, cur>>

\* `if (sensor.Value == null) continue;`
SkipSensor(r, s) ==
    /\ request[r] = "next"
    /\ s \in left[r]
    /\ value[s] = NoValue
    /\ left' = [left EXCEPT ![r] = @ \ {s}]
    /\ UNCHANGED <<serviceVars, updateVars, value, request, cur>>

\* (mutant: a sensor without a value is not skipped)
ProcessSensorUnchecked(r, s) ==
    /\ request[r] = "next"
    /\ s \in left[r] \ Clashing
    /\ cur' = [cur EXCEPT ![r] = s]
    /\ left' = [left EXCEPT ![r] = @ \ {s}]
    /\ request' = [request EXCEPT ![r] =
                      IF EmitLegacy \/ s \notin Unit THEN "legacy" ELSE "alias"]
    /\ UNCHANGED <<serviceVars, updateVars, value>>

ProcessSensor(r, s) ==
    /\ request[r] = "next"
    /\ s \in left[r] \ Clashing
    /\ value[s] # NoValue
    /\ cur' = [cur EXCEPT ![r] = s]
    /\ left' = [left EXCEPT ![r] = @ \ {s}]
    /\ request' = [request EXCEPT ![r] =
                      IF EmitLegacy \/ s \notin Unit THEN "legacy" ELSE "alias"]
    /\ UNCHANGED <<serviceVars, updateVars, value>>

\* ToDictionary throws for a label key that occurs twice, so that the whole
\* scrape is answered with status 500.
ProcessSensorThrows(r, s) ==
    /\ request[r] = "next"
    /\ s \in left[r] \intersect Clashing
    /\ value[s] # NoValue
    /\ request' = [request EXCEPT ![r] = "failed"]
    /\ UNCHANGED <<serviceVars, updateVars, value, left, cur>>

\* sensor.Value!.Value of a sensor that has no value throws; the whole scrape
\* is answered with status 500.
EmitLegacyName(r) ==
    /\ request[r] = "legacy"
    /\ request' = [request EXCEPT ![r] =
                      IF value[cur[r]] = NoValue THEN "failed"
                      ELSE IF cur[r] \in Unit THEN "alias" ELSE "next"]
    /\ UNCHANGED <<serviceVars, updateVars, value, left, cur>>

\* The second read of the same sensor.
EmitAlias(r) ==
    /\ request[r] = "alias"
    /\ request' = [request EXCEPT ![r] =
                      IF value[cur[r]] = NoValue THEN "failed" ELSE "next"]
    /\ UNCHANGED <<serviceVars, updateVars, value, left, cur>>

Respond(r) ==
    /\ request[r] = "next"
    /\ left[r] = {}
    /\ request' = [request EXCEPT ![r] = "none"]
    /\ UNCHANGED <<serviceVars, updateVars, value, left, cur>>

-----------------------------------------------------------------------------
Host == StartAsync \/ StartFails \/ ServerUp \/ StopAsync \/ TokenExpires \/ StopReturns
        \/ StopThrows \/ Dispose
Visit(c) == \/ \E s \in Sensors : WriteSensor(c, s)
            \/ NextNode(c) \/ Finish(c) \/ UpdateThrows(c)
Update(c) == UpdateAsync(c) \/ Acquire(c) \/ Visit(c)
Scrape(r) == \/ StartScrape(r)
             \/ \E s \in Sensors : \/ SkipSensor(r, s) \/ ProcessSensor(r, s)
                                  \/ ProcessSensorThrows(r, s)
             \/ EmitLegacyName(r) \/ EmitAlias(r) \/ Respond(r)

Next == \/ Host \/ Cycle \/ LoopEnds
        \/ \E c \in Callers : Update(c)
        \/ \E r \in Requests : Scrape(r)

Spec == Init /\ [][Next]_vars

\* The loop runs when it can, IHardware.Update returns or throws, and a queued
\* WaitAsync is served by some Release (the semaphore queues its waiters).
Fairness ==
    /\ WF_vars(Cycle)
    /\ WF_vars(LoopEnds)
    /\ \A c \in Callers : SF_vars(Acquire(c)) /\ WF_vars(Visit(c))

FairSpec == Spec /\ Fairness

-----------------------------------------------------------------------------
(* What the service promises.                                              *)

\* No two traversals of the hardware tree overlap, and the semaphore is taken
\* exactly while one runs: no exception leaves it taken (UpdateAsync).
UpdatesExclude ==
    /\ \A c \in Callers : lock = c => at[c] = "updating"
    /\ \A c \in Callers : at[c] = "updating" => lock \in {c, "gone"}
    /\ \A c, d \in Callers : at[c] = "updating" /\ at[d] = "updating" => c = d

\* The tree is closed under a loop that may still walk it in two cases only: the
\* shutdown token expired while StopAsync waited, or StopAsync was never called,
\* because another service failed to start.  In particular the Dispose that
\* follows a stop that rethrew the loop's exception meets no loop.
CloseSparesLoop ==
    computer = "closed" /\ grace = "running" => at[Loop] \in {"ended", "faulted"}

\* However an update ends, the nodes it got past hold this cycle's readings:
\* a failing node spoils only itself and what comes after it.
PrefixFresh ==
    at[Loop] = "updating" =>
        \A s \in Sensors : NodeOf[s] < node[Loop] /\ computer = "open" =>
            value[s] \in {0, NoValue}

\* Of the code's own doing a scrape fails for two reasons: a sensor lost its value
\* after the scrape had seen one, which only a traversal can do to it, or a sensor
\* with a value has a number label named like a base label.  It never fails
\* because there is no Computer yet.
Doomed(r) == request[r] \in {"legacy", "alias"} /\ value[cur[r]] = NoValue
MeetsClash(r) == request[r] = "next" /\ \E s \in left[r] \intersect Clashing : value[s] # NoValue
FailuresExplainedStep ==
    \A r \in Requests :
        /\ request[r] # "failed" /\ request'[r] = "failed" => Doomed(r) \/ MeetsClash(r)
        /\ ~Doomed(r) /\ Doomed(r)' =>
              \E c \in Callers : at[c] = "updating" /\ cur[r] \in todo[c] \ todo'[c]
FailuresExplained == [][FailuresExplainedStep]_vars

\* A loop told to stop ends, unless the service is disposed of under it.
LoopStops == Cancelled ~> at[Loop] \in {"ended", "faulted"} \/ host = "disposed"

\* As long as the host serves, and the timer takes its interval, update after
\* update begins, whatever other callers do and however often one throws.
KeepsUpdating == <>[](host = "serving" /\ IntervalInRange) => []<>(at[Loop] = "updating")

-----------------------------------------------------------------------------
(* What README says, and the code does not do.                             *)

\* README.md:108-110: what is served is at most a refresh interval old.
StalenessBounded == \A s \in Sensors : value[s] # NoValue => value[s] <= 1
=============================================================================
