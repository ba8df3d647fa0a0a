------------------------ MODULE HardwareMonitorProofs ------------------------
(* Proofs about HardwareMonitor, for any tree, sensors, callers, scrapes.   *)
EXTENDS HardwareMonitor, TLAPS

\* How far the service's life constrains the Computer, the lock and the loop.
LifeInv ==
    /\ host \in {"started", "serving", "stopping"} => computer = "open"
    /\ lock = "gone" <=> host = "disposed"
    /\ host \in {"created", "failed"} => at[Loop] = "off"
    /\ host \in {"created", "failed", "started", "serving"} => grace = "unused"
    /\ grace = "running" => \/ host = "stopping" /\ computer = "open"
                            \/ at[Loop] \in {"ended", "faulted"}

\* PrefixFresh, and the sensors already written of the node the loop is at.
WrittenFresh ==
    at[Loop] = "updating" /\ computer = "open" =>
        \A s \in Sensors : \/ NodeOf[s] < node[Loop]
                           \/ NodeOf[s] = node[Loop] /\ s \notin todo[Loop]
                           => value[s] \in {0, NoValue}

IInv == TypeOK /\ UpdatesExclude /\ LifeInv /\ WrittenFresh

-----------------------------------------------------------------------------
\* Ageing keeps a value a value, and an absent one absent.
LEMMA OlderType ==
    ASSUME NEW v \in Value
    PROVE  Older(v) \in Value /\ (Older(v) = NoValue <=> v = NoValue)
BY AgeAssumption, NoValueAssumption DEF Older, Value

\* Before StartAsync nobody holds the semaphore and nothing was written.
LEMMA InitInv == Init => IInv
<1> SUFFICES ASSUME Init PROVE IInv  OBVIOUS
<1>1. TypeOK  BY NodesAssumption, LoopAssumption DEF Init, TypeOK, Value
<1>2. UpdatesExclude  BY LoopAssumption DEF Init, UpdatesExclude
<1>3. LifeInv  BY LoopAssumption DEF Init, LifeInv
<1>4. WrittenFresh  BY LoopAssumption DEF Init, WrittenFresh
<1> QED  BY <1>1, <1>2, <1>3, <1>4 DEF IInv

\* Start, stop and disposal keep the invariant.
LEMMA HostInv == IInv /\ Host => IInv'
<1> SUFFICES ASSUME IInv, Host PROVE IInv'  OBVIOUS
<1> USE LoopAssumption DEF IInv
<1>1. TypeOK'
  BY DEF TypeOK, Host, StartAsync, StartFails, ServerUp, StopAsync, TokenExpires,
     StopReturns, StopThrows, Dispose, updateVars, scrapeVars
<1>2. /\ UNCHANGED <<node, todo, value>>
      /\ \A c \in Callers : at'[c] = "updating" <=> at[c] = "updating"
      /\ computer' = "open" => computer = "open" \/ at[Loop] = "off"
  BY DEF TypeOK, LifeInv, Host, StartAsync, StartFails, ServerUp, StopAsync,
         TokenExpires, StopReturns, StopThrows, Dispose, updateVars
<1>3. lock' = lock \/ lock' = "gone"
  BY DEF Host, StartAsync, StartFails, ServerUp, StopAsync, TokenExpires,
     StopReturns, StopThrows, Dispose, updateVars
<1>4. UpdatesExclude'  BY <1>2, <1>3 DEF UpdatesExclude
<1>5. LifeInv'
  <2> USE DEF LifeInv, TypeOK
  <2>1. CASE StartAsync \/ StartFails \/ ServerUp
    BY <2>1 DEF StartAsync, StartFails, ServerUp, updateVars
  <2>2. CASE StopAsync \/ TokenExpires
    BY <2>2 DEF StopAsync, TokenExpires, updateVars
  <2>3. CASE StopReturns \/ StopThrows
    BY <2>3 DEF StopReturns, StopThrows, updateVars
  <2>4. CASE Dispose  BY <2>4 DEF Dispose
  <2> QED  BY <2>1, <2>2, <2>3, <2>4 DEF Host
<1>6. WrittenFresh'  BY <1>2 DEF WrittenFresh
<1> QED  BY <1>1, <1>4, <1>5, <1>6

\* The beginning of a refresh cycle keeps the invariant: the loop is not
\* updating, so that every value may age.
LEMMA CycleInv == IInv /\ Cycle => IInv'
<1> SUFFICES ASSUME IInv, Cycle PROVE IInv'  OBVIOUS
<1> USE LoopAssumption DEF IInv, Cycle, Call, Resting, serviceVars, scrapeVars
<1>1. \A s \in Sensors : value'[s] \in Value  BY OlderType DEF TypeOK
<1>2. TypeOK'  BY <1>1 DEF TypeOK
<1>3. UpdatesExclude'  BY DEF UpdatesExclude, TypeOK
<1>4. LifeInv'  BY DEF LifeInv, TypeOK, Cancelled
<1>5. WrittenFresh'  BY DEF WrittenFresh, TypeOK
<1> QED  BY <1>2, <1>3, <1>4, <1>5

\* The end of RefreshLoopAsync keeps the invariant.
LEMMA LoopEndsInv == IInv /\ LoopEnds => IInv'
<1> SUFFICES ASSUME IInv, LoopEnds PROVE IInv'  OBVIOUS
<1> USE LoopAssumption DEF IInv, LoopEnds, serviceVars, scrapeVars
<1>1. TypeOK'  BY DEF TypeOK
<1>2. UpdatesExclude'  BY DEF UpdatesExclude, TypeOK
<1>3. LifeInv'  BY DEF LifeInv, TypeOK, Cancelled
<1>4. WrittenFresh'  BY DEF WrittenFresh, TypeOK
<1> QED  BY <1>1, <1>2, <1>3, <1>4

\* UpdateAsync of any caller keeps the invariant: the semaphore keeps others
\* from writing behind the loop.
LEMMA UpdateInv ==
    ASSUME IInv, NEW c \in Callers, Update(c)
    PROVE  IInv'
<1> USE LoopAssumption DEF IInv, serviceVars, scrapeVars
<1>1. CASE UpdateAsync(c)
  <2> USE <1>1 DEF UpdateAsync, Call, Resting
  <2>1. TypeOK'  BY DEF TypeOK
  <2>2. UpdatesExclude'  BY DEF UpdatesExclude, TypeOK
  <2>3. LifeInv'  BY DEF LifeInv, TypeOK
  <2>4. WrittenFresh'  BY DEF WrittenFresh, TypeOK
  <2> QED  BY <2>1, <2>2, <2>3, <2>4
<1>2. CASE Acquire(c)
  <2> USE <1>2 DEF Acquire
  <2>1. TypeOK'  BY NodesAssumption DEF TypeOK, SensorsOf
  <2>2. UpdatesExclude'  BY DEF UpdatesExclude, TypeOK
  <2>3. LifeInv'  BY DEF LifeInv, TypeOK
  <2>4. WrittenFresh'
    <3>1. CASE c = Loop  BY <3>1, NodesAssumption DEF WrittenFresh, TypeOK, SensorsOf
    <3>2. CASE c # Loop  BY <3>2 DEF WrittenFresh, TypeOK
    <3> QED  BY <3>1, <3>2
  <2> QED  BY <2>1, <2>2, <2>3, <2>4
<1>3. ASSUME NEW s \in Sensors, WriteSensor(c, s) PROVE IInv'
  <2> USE <1>3 DEF WriteSensor
  <2>1. value'[s] \in {0, NoValue} /\ \A t \in Sensors \ {s} : value'[t] = value[t]
    BY DEF TypeOK
  <2>2. TypeOK'  BY AgeAssumption DEF TypeOK, Value
  <2>3. UpdatesExclude'  BY DEF UpdatesExclude
  <2>4. LifeInv'  BY DEF LifeInv
  <2>5. WrittenFresh'
    <3>1. CASE c = Loop  BY <2>1, <3>1 DEF WrittenFresh, TypeOK
    <3>2. CASE c # Loop  BY <2>1, <3>2 DEF WrittenFresh, TypeOK
    <3> QED  BY <3>1, <3>2
  <2> QED  BY <2>2, <2>3, <2>4, <2>5
<1>4. CASE NextNode(c)
  <2> USE <1>4 DEF NextNode
  <2>1. node[c] \in 1..N /\ node[c] + 1 \in 1..(N + 1)
    BY NodesAssumption DEF TypeOK
  <2>2. TypeOK'  BY <2>1 DEF TypeOK, SensorsOf
  <2>3. UpdatesExclude'  BY DEF UpdatesExclude
  <2>4. LifeInv'  BY DEF LifeInv
  <2>5. WrittenFresh'
    <3>1. CASE c = Loop
      <4>1. node'[Loop] = node[Loop] + 1 /\ todo[Loop] = {}
            /\ todo'[Loop] = SensorsOf(node[Loop] + 1)
        BY <3>1 DEF TypeOK
      <4>2. ASSUME NEW s \in Sensors,
                   \/ NodeOf[s] < node'[Loop]
                   \/ NodeOf[s] = node'[Loop] /\ s \notin todo'[Loop]
            PROVE  NodeOf[s] < node[Loop] \/ NodeOf[s] = node[Loop]
        BY <2>1, <3>1, <4>1, <4>2, NodesAssumption DEF SensorsOf
      <4> QED  BY <4>1, <4>2 DEF WrittenFresh
    <3>2. CASE c # Loop  BY <3>2 DEF WrittenFresh, TypeOK
    <3> QED  BY <3>1, <3>2
  <2> QED  BY <2>2, <2>3, <2>4, <2>5
<1>5. CASE Finish(c) \/ UpdateThrows(c)
  <2> USE <1>5 DEF Finish, UpdateThrows, Release, Resting
  <2>1. TypeOK'  BY DEF TypeOK
  <2>2. UpdatesExclude'  BY DEF UpdatesExclude, TypeOK
  <2>3. LifeInv'  BY DEF LifeInv, TypeOK, UpdatesExclude
  <2>4. WrittenFresh'  BY DEF WrittenFresh, TypeOK
  <2> QED  BY <2>1, <2>2, <2>3, <2>4
<1> QED  BY <1>1, <1>2, <1>3, <1>4, <1>5 DEF Update, Visit

\* A scrape writes nothing but its own record.
LEMMA ScrapeInv ==
    ASSUME IInv, NEW r \in Requests, Scrape(r)
    PROVE  IInv'
<1> USE DEF IInv
<1>1. UNCHANGED <<serviceVars, updateVars, value>>
  BY DEF Scrape, StartScrape, SkipSensor, ProcessSensor, ProcessSensorThrows,
     EmitLegacyName, EmitAlias, Respond
<1>2. TypeOK'
  BY <1>1 DEF TypeOK, serviceVars, updateVars, Scrape, StartScrape, SkipSensor,
              ProcessSensor, ProcessSensorThrows, EmitLegacyName, EmitAlias, Respond
<1> QED
  BY <1>1, <1>2 DEF serviceVars, updateVars, UpdatesExclude, LifeInv, WrittenFresh

\* Every step of the service and of the scrapes keeps the invariant.
LEMMA StepInv == IInv /\ [Next]_vars => IInv'
<1> SUFFICES ASSUME IInv, [Next]_vars PROVE IInv'  OBVIOUS
<1>1. CASE UNCHANGED vars
  BY <1>1 DEF vars, IInv, TypeOK, UpdatesExclude, LifeInv, WrittenFresh
<1> QED  BY <1>1, HostInv, CycleInv, LoopEndsInv, UpdateInv, ScrapeInv DEF Next

\* The inductive invariant holds: above all, the loop's traversal leaves only
\* values of this cycle behind it (WrittenFresh).
THEOREM Invariance == Spec => []IInv
BY InitInv, StepInv, PTL DEF Spec

\* Every variable keeps to its type.
THEOREM TypeCorrect == Spec => []TypeOK
BY Invariance, PTL DEF IInv

\* Traversals never overlap and no exception leaves the semaphore taken,
\* however many callers UpdateAsync has.
THEOREM MutualExclusion == Spec => []UpdatesExclude
BY Invariance, PTL DEF IInv

\* Close meets a loop that is not over only if the shutdown token expired or
\* StopAsync was never called.
THEOREM CloseIsOrderly == Spec => []CloseSparesLoop
<1>1. IInv => CloseSparesLoop  BY DEF IInv, LifeInv, CloseSparesLoop
<1> QED  BY <1>1, Invariance, PTL

\* What the traversal has passed is fresh, whatever throws later.
THEOREM PrefixIsFresh == Spec => []PrefixFresh
<1>1. IInv => PrefixFresh  BY DEF IInv, WrittenFresh, PrefixFresh
<1> QED  BY <1>1, Invariance, PTL

\* A scrape fails only if UpdateAsync took a value away after it was seen, or at
\* a sensor whose labels clash.
THEOREM FailuresAreExplained == Spec => FailuresExplained
<1>1. ASSUME IInv, [Next]_vars, NEW r \in Requests,
             request[r] # "failed", request'[r] = "failed"
      PROVE  Doomed(r) \/ MeetsClash(r)
  <2>1. request' # request  BY <1>1
  <2>2. PICK q \in Requests : Scrape(q)
    BY <1>1, <2>1 DEF vars, Next, Host, StartAsync, StartFails, ServerUp, StopAsync,
       TokenExpires, StopReturns, StopThrows, Dispose, Cycle, Call, Resting, LoopEnds,
       Update, UpdateAsync, Acquire, Visit, WriteSensor, NextNode, Finish,
       UpdateThrows, Release, scrapeVars
  <2>3. q = r
    BY <1>1, <2>2 DEF IInv, TypeOK, LifeInv, Scrape, StartScrape, SkipSensor,
       ProcessSensor, ProcessSensorThrows, EmitLegacyName, EmitAlias, Respond
  <2> QED
    BY <1>1, <2>2, <2>3 DEF IInv, TypeOK, LifeInv, Doomed, MeetsClash, Scrape,
       StartScrape, SkipSensor, ProcessSensor, ProcessSensorThrows, EmitLegacyName,
       EmitAlias, Respond
<1>2. ASSUME IInv, [Next]_vars, NEW r \in Requests, ~Doomed(r), Doomed(r)'
      PROVE  \E c \in Callers : at[c] = "updating" /\ cur[r] \in todo[c] \ todo'[c]
  <2>1. ASSUME NEW q \in Requests, Scrape(q) PROVE FALSE
    BY <1>2, <2>1 DEF IInv, TypeOK, Doomed, Scrape, StartScrape, SkipSensor,
       ProcessSensor, ProcessSensorThrows, EmitLegacyName, EmitAlias, Respond
  <2>2. UNCHANGED scrapeVars
    BY <1>2, <2>1 DEF vars, Next, Host, StartAsync, StartFails, ServerUp, StopAsync,
       TokenExpires, StopReturns, StopThrows, Dispose, Cycle, Call, Resting, LoopEnds,
       Update, UpdateAsync, Acquire, Visit, WriteSensor, NextNode, Finish,
       UpdateThrows, Release, scrapeVars
  <2>3. value[cur[r]] # NoValue /\ value'[cur[r]] = NoValue /\ cur[r] \in Sensors
    BY <1>2, <2>2 DEF Doomed, scrapeVars, IInv, TypeOK
  <2>4. ~Cycle  BY <2>3, <1>2, OlderType DEF Cycle, IInv, TypeOK
  <2>5. PICK c \in Callers, s \in Sensors : WriteSensor(c, s)
    BY <1>2, <2>1, <2>3, <2>4 DEF vars, Next, Host, StartAsync, StartFails, ServerUp,
       StopAsync, TokenExpires, StopReturns, StopThrows, Dispose, LoopEnds, Update,
       UpdateAsync, Acquire, Visit, NextNode, Finish, UpdateThrows, Release
  <2>6. s = cur[r]  BY <1>2, <2>3, <2>5 DEF WriteSensor, IInv, TypeOK
  <2> QED  BY <1>2, <2>5, <2>6 DEF WriteSensor, IInv, TypeOK
<1>3. IInv /\ [Next]_vars => FailuresExplainedStep
  BY <1>1, <1>2 DEF FailuresExplainedStep
<1> QED  BY <1>3, Invariance, PTL DEF Spec, FailuresExplained
-----------------------------------------------------------------------------
\* A traversal of the tree is over, at a later node, or has fewer sensors of
\* this one to write.
TraversalAdvances(c) ==
    \/ at'[c] # "updating"
    \/ node'[c] > node[c] /\ node'[c] <= N + 1
    \/ node'[c] = node[c] /\ todo'[c] \subseteq todo[c] /\ todo'[c] # todo[c]

\* A scrape is answered, has fewer sensors left, or is past one of the reads of
\* the sensor it is at.
ScrapeAdvances(r) ==
    \/ request'[r] \in {"none", "failed"}
    \/ left'[r] \subseteq left[r] /\ left'[r] # left[r]
    \/ left'[r] = left[r] /\ <<request[r], request'[r]>> \in
           {<<"legacy", "alias">>, <<"legacy", "next">>, <<"alias", "next">>}

Advance ==
    /\ \A c \in Callers :
          at[c] = "updating" => UNCHANGED <<at[c], node[c], todo[c]>> \/ TraversalAdvances(c)
    /\ \A r \in Requests :
          request[r] \in {"next", "legacy", "alias"} =>
              UNCHANGED <<request[r], left[r]>> \/ ScrapeAdvances(r)

\* Whatever else happens, a traversal and a scrape only go forward.
LEMMA StepAdvances == IInv /\ [Next]_vars => Advance
<1> SUFFICES ASSUME IInv, [Next]_vars PROVE Advance  OBVIOUS
<1> USE LoopAssumption DEF IInv, Advance
<1>1. CASE UNCHANGED vars  BY <1>1 DEF vars
<1>2. CASE Host
  <2>1. UNCHANGED <<node, todo, scrapeVars>>
        /\ \A c \in Callers : at[c] = "updating" => at'[c] = at[c]
    BY <1>2 DEF TypeOK, LifeInv, Host, StartAsync, StartFails, ServerUp, StopAsync,
       TokenExpires, StopReturns, StopThrows, Dispose, updateVars
  <2> QED  BY <2>1 DEF scrapeVars
<1>3. CASE Cycle \/ LoopEnds
  BY <1>3 DEF Cycle, LoopEnds, Call, TypeOK, scrapeVars
<1>4. ASSUME NEW c \in Callers, Update(c) PROVE Advance
  <2>1. UNCHANGED scrapeVars
        /\ \A b \in Callers \ {c} : UNCHANGED <<at[b], node[b], todo[b]>>
    BY <1>4 DEF TypeOK, Update, UpdateAsync, Call, Acquire, Visit, WriteSensor,
       NextNode, Finish, UpdateThrows, Release
  <2>2. ASSUME at[c] = "updating"
        PROVE  UNCHANGED <<at[c], node[c], todo[c]>> \/ TraversalAdvances(c)
    <3>1. Visit(c)  BY <1>4, <2>2 DEF Update, UpdateAsync, Acquire
    <3>2. ASSUME NEW s \in Sensors, WriteSensor(c, s) PROVE TraversalAdvances(c)
      BY <3>2 DEF WriteSensor, TypeOK, TraversalAdvances
    <3>3. CASE NextNode(c)
      BY <3>3, NodesAssumption DEF NextNode, TypeOK, TraversalAdvances
    <3>4. CASE Finish(c) \/ UpdateThrows(c)
      BY <3>4 DEF Finish, UpdateThrows, Release, Resting, TypeOK, TraversalAdvances
    <3> QED  BY <3>1, <3>2, <3>3, <3>4 DEF Visit
  <2> QED  BY <2>1, <2>2 DEF scrapeVars
<1>5. ASSUME NEW r \in Requests, Scrape(r) PROVE Advance
  <2>1. UNCHANGED updateVars
        /\ \A q \in Requests \ {r} : UNCHANGED <<request[q], left[q]>>
    BY <1>5 DEF TypeOK, Scrape, StartScrape, SkipSensor, ProcessSensor,
       ProcessSensorThrows, EmitLegacyName, EmitAlias, Respond
  <2>2. ASSUME request[r] \in {"next", "legacy", "alias"} PROVE ScrapeAdvances(r)
    <3>1. ASSUME NEW s \in Sensors,
                 SkipSensor(r, s) \/ ProcessSensor(r, s) \/ ProcessSensorThrows(r, s)
          PROVE  ScrapeAdvances(r)
      BY <3>1 DEF SkipSensor, ProcessSensor, ProcessSensorThrows, TypeOK, ScrapeAdvances
    <3>2. CASE EmitLegacyName(r) \/ EmitAlias(r) \/ Respond(r)
      BY <3>2 DEF EmitLegacyName, EmitAlias, Respond, TypeOK, ScrapeAdvances
    <3> QED  BY <1>5, <2>2, <3>1, <3>2 DEF Scrape, StartScrape
  <2> QED  BY <2>1, <2>2 DEF updateVars
<1> QED  BY <1>1, <1>2, <1>3, <1>4, <1>5 DEF Next

\* UpdateVisitor's walk and GetMetrics's loop end, for any tree and any sensors:
\* no step of the service, of another caller or of another scrape sets one back.
\* A finite tree has finitely many sensors, so the semaphore is never held, and
\* a scrape never kept waiting, for more than finitely many steps of its own.
THEOREM WalksAdvance == Spec => [][Advance]_vars
<1>1. IInv /\ [Next]_vars => [Advance]_vars  BY StepAdvances
<1> QED  BY <1>1, Invariance, PTL DEF Spec

-----------------------------------------------------------------------------
HostLife == INSTANCE HostedLife WITH life <- host

\* What this module assumes of the generic host is HostedLife, which is the
\* life ServiceHost, the model of that host, takes the service through.
THEOREM AssumedLife == Spec => HostLife!LifeSpec
<1>1. Init => HostLife!Init  BY DEF Init, HostLife!Init
<1>2. [Next]_vars => [HostLife!Next]_host
  <2>1. CASE Host
    BY <2>1 DEF Host, StartAsync, StartFails, ServerUp, StopAsync, TokenExpires,
       StopReturns, StopThrows, Dispose, HostLife!Next, HostLife!Step
  <2>2. ~Host /\ [Next]_vars => UNCHANGED host
    BY DEF vars, serviceVars, Next, Cycle, Call, LoopEnds, Update, UpdateAsync, Acquire,
       Visit, WriteSensor, NextNode, Finish, UpdateThrows, Release, Scrape, StartScrape,
       SkipSensor, ProcessSensor, ProcessSensorThrows, EmitLegacyName, EmitAlias,
       Respond
  <2> QED  BY <2>1, <2>2
<1> QED  BY <1>1, <1>2, PTL DEF Spec, HostLife!LifeSpec
=============================================================================
