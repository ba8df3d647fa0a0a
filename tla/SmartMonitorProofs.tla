------------------------- MODULE SmartMonitorProofs -------------------------
(* Proofs about SmartMonitor, for any drives, names, options and MaxAge.   *)
EXTENDS SmartMonitor, TLAPS

Resting == {"off", "begin", "waiting", "ended", "faulted"}

\* Which calls exist in which part of a cycle, and for whom.
JobsFollowLoop ==
    /\ loop \in Resting => \A j \in Jobs : job[j] = "idle"
    /\ loop = "scanning" => \A d \in Devices : job[d] = "idle"
    /\ loop \in {"fetching", "publishing"} => job[ScanJob] # "running"
    /\ loop = "publishing" => \A d \in Devices : job[d] \notin {"running", "throw"}

\* While publishing, a name that answered is either still to be written or
\* already holds a report of this cycle.
FreshOrPending ==
    loop = "publishing" =>
        /\ pending \subseteq Answered
        /\ \A n \in Seen : \/ \E d \in pending : NameOf[d] = n
                           \/ /\ snapshots[n] # NoReport
                              /\ snapshots[n].age = 0
                              /\ snapshots[n].dev \in Answered

NoStray == TimeoutInRange /\ ~KillCanFail => orphans = {}

\* The loop starts with the host and never again once it is done.
HostAndLoop ==
    /\ host = "created" => loop = "off"
    /\ host \in {"disposed", "disposeFailed"} => LoopDone

IInv == TypeOK /\ JobsFollowLoop /\ FreshOrPending /\ ExcludedNeverFetched
               /\ NoStray /\ HostAndLoop

-----------------------------------------------------------------------------
\* Ageing keeps a dictionary entry a report, or absent.
LEMMA OlderType ==
    ASSUME NEW r \in Report \union {NoReport}
    PROVE  /\ Older(r) \in Report \union {NoReport}
           /\ Older(r) = NoReport <=> r = NoReport
<1>1. CASE r = NoReport  BY <1>1 DEF Older
<1>2. CASE r \in Report
  <2>1. r # NoReport  BY <1>2, NoReportAssumption DEF Report
  <2>2. Older(r) \in Report  BY <1>2, <2>1, AgeAssumption DEF Older, Report
  <2>3. Older(r) # NoReport  BY <2>2, NoReportAssumption DEF Report
  <2> QED  BY <2>1, <2>2, <2>3
<1> QED  BY <1>1, <1>2

\* Starting a set of calls: what it leaves of the jobs and the orphans.
LEMMA LaunchFacts ==
    ASSUME TypeOK, NEW J \in SUBSET Jobs, Launch(J)
    PROVE  /\ job' \in [Jobs -> {"idle", "running", "data", "null", "throw"}]
           /\ \A j \in J : job'[j] \in {"running", "null"}
           /\ \A j \in Jobs \ J : job'[j] = job[j]
           /\ orphans' \subseteq orphans \union J
           /\ TimeoutInRange => orphans' = orphans
BY DEF Launch, TypeOK

\* Before StartAsync there is no call, no report and no process.
LEMMA InitInv == Init => IInv
<1> SUFFICES ASSUME Init PROVE IInv  OBVIOUS
<1>1. TypeOK  BY DEF Init, TypeOK
<1>2. JobsFollowLoop  BY DEF Init, JobsFollowLoop
<1>3. FreshOrPending  BY DEF Init, FreshOrPending
<1>4. ExcludedNeverFetched
  BY NamesAssumption DEF Init, ExcludedNeverFetched, Jobs
<1>5. NoStray /\ HostAndLoop
  BY DEF Init, NoStray, TimeoutInRange, HostAndLoop, LoopDone
<1> QED  BY <1>1, <1>2, <1>3, <1>4, <1>5 DEF IInv

\* The host changes nothing but where it is, and starts the loop.
LEMMA HostInv == IInv /\ Host => IInv'
<1> SUFFICES ASSUME IInv, Host PROVE IInv'  OBVIOUS
<1> USE DEF IInv
<1>0. UNCHANGED Life /\ (loop' = loop \/ (loop = "off" /\ loop' = "begin"))
  BY DEF Host, StartAsync, ServerUp, StopAsync, StopReturns, DisposeAsync,
         DisposeReturns, HostAndLoop
<1>1. TypeOK'
  BY <1>0 DEF TypeOK, Life, Host, StartAsync, ServerUp, StopAsync, StopReturns,
              DisposeAsync, DisposeReturns
<1>2. JobsFollowLoop'  BY <1>0 DEF Life, JobsFollowLoop, Resting
<1>3. FreshOrPending'  BY <1>0 DEF Life, FreshOrPending, Seen, Answered
<1>4. ExcludedNeverFetched'  BY <1>0 DEF Life, ExcludedNeverFetched
<1>5. NoStray'  BY <1>0 DEF Life, NoStray, TimeoutInRange
<1>6. HostAndLoop'
  BY DEF HostAndLoop, LoopDone, Host, StartAsync, ServerUp, StopAsync, StopReturns,
         DisposeAsync, DisposeReturns
<1> QED  BY <1>1, <1>2, <1>3, <1>4, <1>5, <1>6

\* A smartctl process that ends or is given up.
LEMMA SmartctlInv == IInv /\ Smartctl => IInv'
<1> SUFFICES ASSUME IInv, NEW j \in Jobs, Exits(j) \/ TimesOut(j) \/ OrphanExits(j)
             PROVE  IInv'
  BY DEF Smartctl
<1> USE DEF IInv
<1>1. CASE Exits(j)
  <2>1. TypeOK'  BY <1>1 DEF TypeOK, Exits
  <2>2. JobsFollowLoop'
    BY <1>1, ScanAssumption DEF TypeOK, Exits, JobsFollowLoop, Resting, Jobs
  <2>3. FreshOrPending'
    <3>1. loop # "publishing"
      BY <1>1 DEF TypeOK, Exits, JobsFollowLoop, Resting, Jobs
    <3> QED  BY <1>1, <3>1 DEF Exits, FreshOrPending
  <2>4. ExcludedNeverFetched'
    BY <1>1 DEF TypeOK, Exits, ExcludedNeverFetched, Jobs
  <2>5. (NoStray /\ HostAndLoop)'
    BY <1>1 DEF Exits, NoStray, TimeoutInRange, HostAndLoop, LoopDone
  <2> QED  BY <2>1, <2>2, <2>3, <2>4, <2>5
<1>2. CASE TimesOut(j)
  <2>1. TypeOK'  BY <1>2 DEF TypeOK, TimesOut
  <2>2. JobsFollowLoop'
    BY <1>2, ScanAssumption DEF TypeOK, TimesOut, JobsFollowLoop, Resting, Jobs
  <2>3. FreshOrPending'
    <3>1. loop # "publishing"
      BY <1>2 DEF TypeOK, TimesOut, JobsFollowLoop, Resting, Jobs
    <3> QED  BY <1>2, <3>1 DEF TimesOut, FreshOrPending
  <2>4. ExcludedNeverFetched'
    BY <1>2 DEF TypeOK, TimesOut, ExcludedNeverFetched, Jobs
  <2>5. (NoStray /\ HostAndLoop)'
    BY <1>2 DEF TimesOut, NoStray, TimeoutInRange, HostAndLoop, LoopDone
  <2> QED  BY <2>1, <2>2, <2>3, <2>4, <2>5
<1>3. CASE OrphanExits(j)
  <2>1. TypeOK'  BY <1>3 DEF TypeOK, OrphanExits
  <2>2. JobsFollowLoop'  BY <1>3 DEF OrphanExits, JobsFollowLoop
  <2>3. FreshOrPending'  BY <1>3 DEF OrphanExits, FreshOrPending, Seen, Answered
  <2>4. ExcludedNeverFetched'  BY <1>3 DEF OrphanExits, ExcludedNeverFetched
  <2>5. (NoStray /\ HostAndLoop)'
    BY <1>3 DEF OrphanExits, NoStray, TimeoutInRange, HostAndLoop, LoopDone
  <2> QED  BY <2>1, <2>2, <2>3, <2>4, <2>5
<1> QED  BY <1>1, <1>2, <1>3

\* Starting the scan of a cycle.
LEMMA BeginInv ==
    ASSUME IInv, BeginRefresh
    PROVE  IInv'
<1> USE DEF IInv
<1>1. {ScanJob} \in SUBSET Jobs /\ Launch({ScanJob})  BY DEF BeginRefresh, Jobs
<1>2. /\ job' \in [Jobs -> {"idle", "running", "data", "null", "throw"}]
      /\ \A d \in Devices : job'[d] = "idle"
      /\ orphans' \subseteq orphans \union {ScanJob}
      /\ TimeoutInRange => orphans' = orphans
  BY <1>1, LaunchFacts, ScanAssumption DEF BeginRefresh, Jobs, JobsFollowLoop, Resting
<1>3. \A n \in Names : /\ snapshots'[n] \in Report \union {NoReport}
                       /\ snapshots'[n] = NoReport <=> snapshots[n] = NoReport
  BY OlderType DEF BeginRefresh, TypeOK
<1>4. TypeOK'
  BY <1>1, <1>2, <1>3 DEF TypeOK, BeginRefresh, Jobs
<1>5. JobsFollowLoop'  BY <1>2 DEF BeginRefresh, JobsFollowLoop, Resting
<1>6. FreshOrPending'  BY DEF BeginRefresh, FreshOrPending
<1>7. ExcludedNeverFetched'
  BY <1>2, <1>3, ScanAssumption, NamesAssumption DEF ExcludedNeverFetched
<1>8. NoStray' /\ HostAndLoop'
  BY <1>2 DEF BeginRefresh, NoStray, TimeoutInRange, HostAndLoop, LoopDone
<1> QED  BY <1>4, <1>5, <1>6, <1>7, <1>8

\* Every way a cycle can end.
LEMMA EndInv ==
    ASSUME IInv, loop \in {"scanning", "fetching", "publishing"}, EndCycle
    PROVE  IInv'
<1> USE DEF IInv
<1>1. TypeOK'  BY DEF TypeOK, EndCycle
<1>2. JobsFollowLoop'  BY DEF EndCycle, JobsFollowLoop, Resting
<1>3. FreshOrPending'  BY DEF EndCycle, FreshOrPending
<1>4. ExcludedNeverFetched'  BY DEF EndCycle, ExcludedNeverFetched, Jobs
<1>5. NoStray' /\ HostAndLoop'
  BY DEF EndCycle, NoStray, TimeoutInRange, HostAndLoop, LoopDone
<1> QED  BY <1>1, <1>2, <1>3, <1>4, <1>5

\* The launch of the fetches keeps the invariant: only wanted drives get one.
LEMMA StartFetchesInv == IInv /\ StartFetches => IInv'
<1> SUFFICES ASSUME IInv, StartFetches PROVE IInv'  OBVIOUS
<1> USE DEF IInv
<1>1. Wanted \in SUBSET Jobs /\ Wanted \subseteq Devices /\ Launch(Wanted)
  BY DEF StartFetches, Wanted, TypeOK, Jobs
<1>2. /\ job' \in [Jobs -> {"idle", "running", "data", "null", "throw"}]
      /\ \A j \in Jobs \ Wanted : job'[j] = job[j]
      /\ orphans' \subseteq orphans \union Wanted
      /\ TimeoutInRange => orphans' = orphans
  BY <1>1, LaunchFacts
<1>3. TypeOK'  BY <1>1, <1>2 DEF TypeOK, StartFetches
<1>4. JobsFollowLoop'
  BY <1>1, <1>2, ScanAssumption DEF StartFetches, JobsFollowLoop, Resting, Jobs
<1>5. FreshOrPending'  BY DEF StartFetches, FreshOrPending
<1>6. ExcludedNeverFetched'
  <2>1. \A d \in Devices : NameOf[d] \in Excluded => d \notin Wanted /\ d \in Jobs
    BY DEF Wanted, Jobs
  <2> QED  BY <1>2, <2>1 DEF StartFetches, ExcludedNeverFetched
<1>7. NoStray' /\ HostAndLoop'
  BY <1>2 DEF StartFetches, NoStray, TimeoutInRange, HostAndLoop, LoopDone
<1> QED  BY <1>3, <1>4, <1>5, <1>6, <1>7

\* The end of Task.WhenAll keeps the invariant.
LEMMA AllFetchedInv == IInv /\ AllFetched => IInv'
<1> SUFFICES ASSUME IInv, AllFetched PROVE IInv'  OBVIOUS
<1> USE DEF IInv, AllFetched, FetchesDone
<1>1. TypeOK'  BY DEF TypeOK, Answered
<1>2. JobsFollowLoop'  BY DEF JobsFollowLoop, Resting
<1>3. FreshOrPending'  BY DEF FreshOrPending, Seen, Answered
<1>4. ExcludedNeverFetched'  BY DEF ExcludedNeverFetched
<1>5. NoStray' /\ HostAndLoop'  BY DEF NoStray, TimeoutInRange, HostAndLoop, LoopDone
<1> QED  BY <1>1, <1>2, <1>3, <1>4, <1>5

\* One assignment to the dictionary keeps the invariant.
LEMMA PublishInv ==
    ASSUME IInv, NEW d \in Devices, Publish(d)
    PROVE  IInv'
<1> USE DEF IInv
<1>1. d \in Answered /\ NameOf[d] \in Names /\ NameOf[d] \notin Excluded
  BY NamesAssumption DEF Publish, FreshOrPending, Answered, ExcludedNeverFetched
<1>2. [dev |-> d, age |-> 0] \in Report  BY AgeAssumption DEF Report
<1>3. [dev |-> d, age |-> 0] # NoReport
  BY <1>2, NoReportAssumption DEF Report
<1>4. TypeOK'  BY <1>1, <1>2 DEF TypeOK, Publish
<1>5. JobsFollowLoop'  BY DEF Publish, JobsFollowLoop
<1>6. FreshOrPending'
  <2>1. Answered' = Answered /\ Seen' = Seen  BY DEF Publish, Answered, Seen
  <2>2. pending' \subseteq Answered'  BY <2>1 DEF Publish, FreshOrPending
  <2>3. ASSUME NEW n \in Seen'
        PROVE  \/ \E e \in pending' : NameOf[e] = n
               \/ /\ snapshots'[n] # NoReport
                  /\ snapshots'[n].age = 0
                  /\ snapshots'[n].dev \in Answered'
    <3>1. n \in Names  BY <2>1, NamesAssumption DEF Seen, Answered
    <3>2. CASE n = NameOf[d]
      <4>1. snapshots'[n] = [dev |-> d, age |-> 0]
        BY <3>1, <3>2 DEF Publish, TypeOK
      <4> QED  BY <1>1, <1>3, <2>1, <4>1
    <3>3. CASE n # NameOf[d]
      <4>1. snapshots'[n] = snapshots[n]  BY <3>1, <3>3 DEF Publish, TypeOK
      <4> QED  BY <2>1, <3>3, <4>1 DEF Publish, FreshOrPending
    <3> QED  BY <3>2, <3>3
  <2> QED  BY <2>2, <2>3 DEF FreshOrPending
<1>7. ExcludedNeverFetched'
  BY <1>1, NamesAssumption DEF Publish, TypeOK, ExcludedNeverFetched
<1>8. NoStray' /\ HostAndLoop'
  BY DEF Publish, NoStray, TimeoutInRange, HostAndLoop, LoopDone
<1> QED  BY <1>4, <1>5, <1>6, <1>7, <1>8

\* One TryRemove keeps the invariant: the name did not answer.
LEMMA PruneInv ==
    ASSUME IInv, NEW n \in Names, Prune(n)
    PROVE  IInv'
<1> USE DEF IInv
<1>1. TypeOK'  BY DEF TypeOK, Prune
<1>2. JobsFollowLoop'  BY DEF Prune, JobsFollowLoop
<1>3. FreshOrPending'
  <2>1. Answered' = Answered /\ Seen' = Seen  BY DEF Prune, Answered, Seen
  <2>2. \A m \in Seen : m # n  BY DEF Prune, Stale
  <2>3. \A m \in Seen : m \in Names  BY NamesAssumption DEF Seen, Answered
  <2>4. \A m \in Seen : snapshots'[m] = snapshots[m]
    BY <2>2, <2>3 DEF Prune, TypeOK
  <2> QED  BY <2>1, <2>4 DEF Prune, FreshOrPending
<1>4. ExcludedNeverFetched'
  BY NamesAssumption DEF Prune, TypeOK, ExcludedNeverFetched
<1>5. NoStray' /\ HostAndLoop'
  BY DEF Prune, NoStray, TimeoutInRange, HostAndLoop, LoopDone
<1> QED  BY <1>1, <1>2, <1>3, <1>4, <1>5

\* Every step of RefreshLoopAsync keeps the invariant.
LEMMA RefreshInv == IInv /\ Refresh => IInv'
<1> SUFFICES ASSUME IInv, Refresh PROVE IInv'  OBVIOUS
<1>1. CASE BeginRefresh  BY <1>1, BeginInv
<1>2. CASE Tick
  <2>1. TypeOK'  BY <1>2 DEF IInv, Tick, Life, TypeOK
  <2>2. JobsFollowLoop'  BY <1>2 DEF IInv, Tick, Life, JobsFollowLoop, Resting
  <2>3. FreshOrPending'  BY <1>2 DEF Tick, FreshOrPending
  <2>4. ExcludedNeverFetched'  BY <1>2 DEF IInv, Tick, Life, ExcludedNeverFetched
  <2>5. NoStray' /\ HostAndLoop'
    BY <1>2 DEF IInv, Tick, Life, NoStray, TimeoutInRange,
           HostAndLoop, LoopDone, Cancelled
  <2> QED  BY <2>1, <2>2, <2>3, <2>4, <2>5 DEF IInv
<1>3. CASE LoopEnds
  <2>1. TypeOK'  BY <1>3 DEF IInv, LoopEnds, Life, TypeOK
  <2>2. JobsFollowLoop'  BY <1>3 DEF IInv, LoopEnds, Life, JobsFollowLoop, Resting
  <2>3. FreshOrPending'  BY <1>3 DEF LoopEnds, FreshOrPending
  <2>4. ExcludedNeverFetched'  BY <1>3 DEF IInv, LoopEnds, Life, ExcludedNeverFetched
  <2>5. NoStray' /\ HostAndLoop'
    BY <1>3 DEF IInv, LoopEnds, Life, NoStray, TimeoutInRange,
           HostAndLoop, LoopDone, Cancelled
  <2> QED  BY <2>1, <2>2, <2>3, <2>4, <2>5 DEF IInv
<1>4. CASE ScanGivesNothing  BY <1>4, EndInv DEF ScanGivesNothing
<1>5. CASE StartFetches  BY <1>5, StartFetchesInv
<1>6. CASE FetchThrows  BY <1>6, EndInv DEF FetchThrows, FetchesDone
<1>7. CASE AllFetched  BY <1>7, AllFetchedInv
<1>8. CASE \E d \in Devices : Publish(d)  BY <1>8, PublishInv
<1>9. CASE \E n \in Names : Prune(n)  BY <1>9, PruneInv
<1>10. CASE EndRefresh  BY <1>10, EndInv DEF EndRefresh
<1> QED  BY <1>1, <1>2, <1>3, <1>4, <1>5, <1>6, <1>7, <1>8, <1>9, <1>10 DEF Refresh

\* Every step of the service, its processes and the host keeps the invariant.
LEMMA StepInv == IInv /\ [Next]_vars => IInv'
<1> SUFFICES ASSUME IInv, [Next]_vars PROVE IInv'  OBVIOUS
<1>1. CASE Host  BY <1>1, HostInv
<1>2. CASE Smartctl  BY <1>2, SmartctlInv
<1>3. CASE Refresh  BY <1>3, RefreshInv
<1>4. ASSUME NEW d \in Devices, Replug(d) PROVE IInv'
  BY <1>4 DEF Replug, IInv, TypeOK, JobsFollowLoop, FreshOrPending, Seen, Answered,
              ExcludedNeverFetched, NoStray, TimeoutInRange, HostAndLoop, LoopDone
<1>5. CASE UNCHANGED vars
  BY <1>5 DEF vars, IInv, TypeOK, JobsFollowLoop, FreshOrPending, Seen, Answered,
              ExcludedNeverFetched, NoStray, TimeoutInRange, HostAndLoop, LoopDone
<1> QED  BY <1>1, <1>2, <1>3, <1>4, <1>5 DEF Next

\* The inductive invariant holds: above all, what RefreshOnceAsync has not
\* yet written of this cycle's answers is still pending (FreshOrPending).
THEOREM Invariance == Spec => []IInv
BY InitInv, StepInv, PTL DEF Spec

\* Every variable keeps to its type.
THEOREM TypeCorrect == Spec => []TypeOK
BY Invariance, PTL DEF IInv

\* No smartctl -a is ever started for an excluded drive, and no report is served
\* under its name.  (The scan does open it.)
THEOREM ExcludedSkipped == Spec => []ExcludedNeverFetched
BY Invariance, PTL DEF IInv

\* After disposal no loop, no call and (kills succeeding) no process is left.
THEOREM DisposalIsFinal == Spec => []NothingOutlivesDispose
<1>1. IInv => NothingOutlivesDispose
  BY DEF IInv, NothingOutlivesDispose, HostAndLoop, LoopDone, JobsFollowLoop,
         Resting, NoStray
<1> QED  BY <1>1, Invariance, PTL

\* In the publishing phase no step but Publish, Prune and EndRefresh touches
\* the dictionary or the answers.
LEMMA PublishingSteps ==
    ASSUME IInv, [Next]_vars, loop = "publishing"
    PROVE  \/ \E d \in Devices : Publish(d)
           \/ \E n \in Names : Prune(n)
           \/ EndRefresh
           \/ UNCHANGED <<loop, job, snapshots>>
<1>1. \A j \in Jobs : job[j] # "running"
  BY DEF IInv, JobsFollowLoop, Jobs
<1>2. CASE Host
  BY <1>2 DEF Host, StartAsync, ServerUp, StopAsync, StopReturns, DisposeAsync,
              DisposeReturns, IInv, HostAndLoop, Life
<1>3. CASE Smartctl  BY <1>1, <1>3 DEF Smartctl, Exits, TimesOut, OrphanExits
<1>4. CASE Refresh
  BY <1>4 DEF Refresh, BeginRefresh, Tick, LoopEnds, ScanGivesNothing,
              StartFetches, FetchThrows, FetchesDone, AllFetched
<1>5. CASE \E d \in Devices : Replug(d)  BY <1>5 DEF Replug
<1>6. CASE UNCHANGED vars  BY <1>6 DEF vars
<1> QED  BY <1>2, <1>3, <1>4, <1>5, <1>6 DEF Next

\* Outside it only the start of a cycle touches the dictionary, and only
\* AllFetched starts publishing.
LEMMA OtherSteps ==
    ASSUME IInv, [Next]_vars, loop # "publishing"
    PROVE  \/ loop' # "publishing" /\ UNCHANGED snapshots
           \/ BeginRefresh
           \/ AllFetched
<1>1. CASE Host
  BY <1>1 DEF Host, StartAsync, ServerUp, StopAsync, StopReturns, DisposeAsync,
              DisposeReturns, Life
<1>2. CASE Smartctl  BY <1>2 DEF Smartctl, Exits, TimesOut, OrphanExits
<1>3. CASE Refresh
  BY <1>3 DEF Refresh, BeginRefresh, Tick, LoopEnds, Life, ScanGivesNothing, EndCycle,
              StartFetches, FetchThrows, Publish, Prune, EndRefresh
<1>4. CASE \E d \in Devices : Replug(d)  BY <1>4 DEF Replug
<1>5. CASE UNCHANGED vars  BY <1>5 DEF vars
<1> QED  BY <1>1, <1>2, <1>3, <1>4, <1>5 DEF Next

\* A published cycle leaves exactly the answers of that cycle.
THEOREM CompleteRefreshHolds == Spec => CompleteRefresh
<1>1. ASSUME IInv, [Next]_vars PROVE CompleteRefreshStep
  <2> SUFFICES ASSUME loop = "publishing", loop' # "publishing"
               PROVE  /\ {n \in Names : snapshots'[n] # NoReport} = Seen
                      /\ \A n \in Seen : /\ snapshots'[n].age = 0
                                         /\ snapshots'[n].dev \in Answered
    BY DEF CompleteRefreshStep
  <2>1. EndRefresh  BY <1>1, PublishingSteps DEF Publish, Prune
  <2>2. snapshots' = snapshots /\ pending = {} /\ Served \subseteq Seen
    BY <2>1 DEF EndRefresh, EndCycle, Stale
  <2>3. Seen \subseteq Names  BY NamesAssumption DEF Seen, Answered
  <2>4. \A n \in Seen : /\ snapshots[n] # NoReport
                        /\ snapshots[n].age = 0
                        /\ snapshots[n].dev \in Answered
    BY <1>1, <2>2 DEF IInv, FreshOrPending
  <2> QED  BY <2>2, <2>3, <2>4 DEF Served
<1> QED  BY <1>1, Invariance, PTL DEF Spec, CompleteRefresh

\* A drive that answered is not missed by a scrape during its cycle.
THEOREM AnsweredStaysServedHolds == Spec => AnsweredStaysServed
<1>1. ASSUME IInv, [Next]_vars, NEW n \in Seen, snapshots[n] # NoReport
      PROVE  snapshots'[n] # NoReport
  <2>1. n \in Names  BY NamesAssumption DEF Seen, Answered
  <2>2. CASE UNCHANGED snapshots  BY <1>1, <2>2
  <2>3. CASE BeginRefresh
    BY <1>1, <2>1, <2>3, OlderType DEF BeginRefresh, IInv, TypeOK
  <2>4. ASSUME NEW d \in Devices, Publish(d) PROVE snapshots'[n] # NoReport
    <3>1. [dev |-> d, age |-> 0] # NoReport
      BY NoReportAssumption, AgeAssumption
    <3> QED  BY <1>1, <2>1, <2>4, <3>1 DEF Publish, IInv, TypeOK
  <2>5. ASSUME NEW m \in Names, Prune(m) PROVE snapshots'[n] # NoReport
    <3>1. m # n  BY <2>5 DEF Prune, Stale
    <3> QED  BY <1>1, <2>1, <2>5, <3>1 DEF Prune, IInv, TypeOK
  <2> QED
    BY <1>1, <2>2, <2>3, <2>4, <2>5
       DEF vars, Life, Next, Host, StartAsync, ServerUp, StopAsync, StopReturns,
           DisposeAsync, DisposeReturns, Smartctl, Exits, TimesOut, OrphanExits, Replug,
           Refresh, BeginRefresh, Tick, LoopEnds, ScanGivesNothing, EndCycle,
           StartFetches, FetchThrows, AllFetched, EndRefresh
<1>2. IInv /\ [Next]_vars => AnsweredStaysServedStep
  BY <1>1 DEF AnsweredStaysServedStep
<1> QED  BY <1>2, Invariance, PTL DEF Spec, AnsweredStaysServed

-----------------------------------------------------------------------------
\* The fetches of a cycle are those of what its scan has listed.
LaunchedInv ==
    /\ loop = "scanning" => job[ScanJob] # "idle"
    /\ loop \in {"fetching", "publishing"} =>
          job[ScanJob] = "data" /\ \A d \in Wanted : job[d] # "idle"

\* A call, once made, is not forgotten before its cycle ends.
LEMMA StepLaunched == IInv /\ LaunchedInv /\ [Next]_vars => LaunchedInv'
<1> SUFFICES ASSUME IInv, LaunchedInv, [Next]_vars PROVE LaunchedInv'  OBVIOUS
<1> USE DEF LaunchedInv
<1>0. TypeOK /\ Wanted \subseteq Devices /\ ScanJob \notin Devices /\ Jobs = Devices \union {ScanJob}
  BY ScanAssumption DEF IInv, TypeOK, Wanted, Jobs
<1>1. CASE UNCHANGED <<loop, job, listed>>  BY <1>1 DEF Wanted
<1>2. CASE loop' \in Resting  BY <1>2 DEF Resting
<1>3. CASE BeginRefresh
  <2>1. {ScanJob} \in SUBSET Jobs /\ Launch({ScanJob})  BY <1>3 DEF BeginRefresh, Jobs
  <2>2. job'[ScanJob] \in {"running", "null"}  BY <1>0, <2>1, LaunchFacts
  <2> QED  BY <1>3, <2>2 DEF BeginRefresh
<1>4. CASE StartFetches
  <2>1. Wanted \in SUBSET Jobs /\ Launch(Wanted)  BY <1>0, <1>4 DEF StartFetches
  <2>2. /\ \A d \in Wanted : job'[d] \in {"running", "null"}
        /\ job'[ScanJob] = job[ScanJob]
    BY <1>0, <2>1, LaunchFacts
  <2>3. Wanted' = Wanted  BY <1>4 DEF StartFetches, Wanted
  <2> QED  BY <1>4, <2>2, <2>3 DEF StartFetches
<1>5. ASSUME NEW j \in Jobs, Exits(j) \/ TimesOut(j) PROVE LaunchedInv'
  <2>1. /\ job[j] = "running" /\ loop' = loop
        /\ \A k \in Jobs : k # j => job'[k] = job[k]
        /\ job'[j] # "idle"
    BY <1>0, <1>5 DEF Exits, TimesOut, TypeOK
  <2>2. loop \in {"fetching", "publishing"} => j # ScanJob /\ Wanted' = Wanted
    BY <1>5, <2>1 DEF Exits, TimesOut, Wanted
  <2> QED  BY <1>0, <2>1, <2>2
<1>6. CASE AllFetched  BY <1>6 DEF AllFetched, FetchesDone, Wanted
<1> QED
  BY <1>1, <1>2, <1>3, <1>4, <1>5, <1>6
     DEF vars, Life, Next, Host, StartAsync, ServerUp, StopAsync, StopReturns,
         DisposeAsync, DisposeReturns, Smartctl, OrphanExits, Replug,
         Refresh, Tick, LoopEnds, ScanGivesNothing, EndCycle,
         FetchThrows, Publish, Prune, EndRefresh, Resting

\* A healthy cycle that publishes has an answer of every wanted drive.
LEMMA HealthyAnswers ==
    ASSUME IInv, LaunchedInv, Healthy, loop = "publishing",
           NEW d \in Devices, NameOf[d] \notin Excluded
    PROVE  d \in Answered /\ NameOf[d] \in Seen /\ NameOf[d] \in Names
<1>1. d \in Wanted /\ job[d] \notin {"idle", "null", "throw"}
  BY DEF LaunchedInv, Healthy, Wanted, Jobs
<1>2. job[d] # "running" /\ d \in Jobs  BY DEF IInv, JobsFollowLoop, Jobs
<1>3. job[d] \in {"idle", "running", "data", "null", "throw"}
  BY <1>2 DEF IInv, TypeOK
<1> QED  BY <1>1, <1>2, <1>3, NamesAssumption DEF Answered, Seen

\* Health keeps the dictionary current.
LEMMA StepCurrent == IInv /\ LaunchedInv /\ [Next]_vars => StaysCurrentStep
<1> SUFFICES ASSUME IInv, LaunchedInv, [Next]_vars, Healthy, Current \/ CycleCompletes
             PROVE  Current'
  BY DEF StaysCurrentStep
<1>0. /\ TypeOK
      /\ \A d \in Devices : NameOf[d] \in Names
      /\ \A n \in Names : snapshots[n] # NoReport => snapshots[n] \in Report /\ snapshots[n].age \in Nat
  BY NamesAssumption DEF IInv, TypeOK, Report
<1>1. CASE UNCHANGED <<loop, snapshots>>  BY <1>1 DEF Current, CycleCompletes
<1>2. CASE loop = "publishing" /\ loop' # "publishing"
  <2>1. EndRefresh  BY <1>2, PublishingSteps DEF Publish, Prune
  <2>2. snapshots' = snapshots /\ pending = {} /\ loop' = "waiting"
    BY <2>1 DEF EndRefresh, EndCycle, Healthy, IntervalInRange, Settings
  <2>3. ASSUME NEW d \in Devices, NameOf[d] \notin Excluded
        PROVE  snapshots[NameOf[d]] # NoReport /\ snapshots[NameOf[d]].age = 0
    BY <1>2, <2>2, <2>3, HealthyAnswers DEF IInv, FreshOrPending
  <2> QED  BY <2>2, <2>3 DEF Current
<1>3. CASE Current /\ BeginRefresh
  <2>1. loop = "begin" /\ loop' = "scanning"  BY <1>3 DEF BeginRefresh
  <2>2. ASSUME NEW d \in Devices, NameOf[d] \notin Excluded
        PROVE  snapshots'[NameOf[d]] # NoReport /\ snapshots'[NameOf[d]].age <= 1
    <3> DEFINE r == snapshots[NameOf[d]]
    <3>1. r # NoReport /\ r \in Report /\ r.age = 0
      BY <1>0, <1>3, <2>1, <2>2 DEF Current
    <3>2. snapshots'[NameOf[d]] = Older(r)  BY <1>0, <1>3 DEF BeginRefresh
    <3>3. Older(r).age = 1 /\ Older(r) # NoReport
      BY <3>1, AgeAssumption, OlderType DEF Older, Report
    <3> QED  BY <3>2, <3>3
  <2> QED  BY <2>1, <2>2 DEF Current
<1>4. CASE Current /\ (Tick \/ StartFetches \/ AllFetched)
  BY <1>0, <1>4 DEF Current, Tick, StartFetches, AllFetched, FetchesDone, Life
<1>5. CASE Current /\ ScanGivesNothing
  <2>1. job[ScanJob] \in {"idle", "running", "data", "null", "throw"} /\ ScanJob \in Jobs
    BY <1>0 DEF TypeOK, Jobs
  <2>2. job[ScanJob] = "data"
    BY <1>5, <2>1 DEF ScanGivesNothing, Healthy, LaunchedInv
  <2>3. Devices = {}  BY <1>5, <2>2 DEF ScanGivesNothing, Healthy
  <2>4. loop' = "waiting"
    BY <1>5 DEF ScanGivesNothing, EndCycle, Healthy, IntervalInRange, Settings
  <2> QED  BY <2>3, <2>4 DEF Current
<1>6. ASSUME Current, NEW e \in Devices, Publish(e) PROVE Current'
  <2>1. loop = "publishing" /\ loop' = "publishing"  BY <1>6 DEF Publish
  <2>2. ASSUME NEW d \in Devices, NameOf[d] \notin Excluded
        PROVE  snapshots'[NameOf[d]] # NoReport /\ snapshots'[NameOf[d]].age <= 1
    <3>1. [dev |-> e, age |-> 0] # NoReport  BY NoReportAssumption, AgeAssumption
    <3>2. CASE NameOf[d] = NameOf[e]
      BY <1>0, <1>6, <3>1, <3>2 DEF Publish, TypeOK
    <3>3. CASE NameOf[d] # NameOf[e]
      BY <1>0, <1>6, <2>1, <2>2, <3>3 DEF Publish, TypeOK, Current
    <3> QED  BY <3>2, <3>3
  <2> QED  BY <2>1, <2>2 DEF Current
<1>7. ASSUME Current, NEW n \in Names, Prune(n) PROVE Current'
  <2>1. loop = "publishing" /\ loop' = "publishing" /\ n \notin Seen
    BY <1>7 DEF Prune, Stale
  <2>2. ASSUME NEW d \in Devices, NameOf[d] \notin Excluded
        PROVE  snapshots'[NameOf[d]] = snapshots[NameOf[d]]
    BY <1>0, <1>7, <2>1, <2>2, HealthyAnswers DEF Prune, TypeOK
  <2> QED  BY <1>7, <2>1, <2>2 DEF Current
<1>8. CASE Current /\ loop # "publishing" /\ loop' # "publishing" /\ Host
  BY <1>1, <1>8 DEF Host, StartAsync, ServerUp, StopAsync, StopReturns, DisposeAsync,
                    DisposeReturns, Life, Healthy, Current, IInv, HostAndLoop
<1>9. ~LoopEnds /\ ~FetchThrows
  BY DEF LoopEnds, FetchThrows, Cancelled, Healthy, Jobs
<1> QED
  BY <1>1, <1>2, <1>3, <1>4, <1>5, <1>6, <1>7, <1>8, <1>9, PublishingSteps
     DEF vars, Next, Host, Life, CycleCompletes, Smartctl, Exits, TimesOut, OrphanExits, Replug,
         StartAsync, ServerUp, StopAsync, StopReturns, DisposeAsync, DisposeReturns,
         Refresh, EndRefresh, EndCycle

\* Once a healthy cycle has published, nothing wanted is missing or older than
\* one cycle for as long as the health lasts, for any drives and names
\* (RefreshOnceAsync): what Recovers needs besides the fairness of its loop.
THEOREM FreshnessLasts == Spec => StaysCurrent
<1>1. Init => LaunchedInv  BY DEF Init, LaunchedInv
<1>2. Spec => [](IInv /\ LaunchedInv)
  BY <1>1, InitInv, StepInv, StepLaunched, PTL DEF Spec
<1> QED  BY <1>2, StepCurrent, PTL DEF Spec, StaysCurrent

\* A current dictionary is what Recovers asks for.
LEMMA CurrentIsFresh == TypeOK /\ Current => AllFresh
BY NamesAssumption DEF TypeOK, Report, Current, AllFresh

-----------------------------------------------------------------------------
\* What is still to be done in the phase a cycle is in: the calls it waits for,
\* the reports to be written, the names to be pruned.
Running == {j \in Jobs : job[j] = "running"}
Work == <<Running, pending, Stale>>
PhasesLeft == CASE loop = "begin" -> 4 [] loop = "scanning" -> 3 [] loop = "fetching" -> 2
                [] loop = "publishing" -> 1 [] OTHER -> 0

\* Whatever changes a cycle brings it nearer to its end: a later phase, or less
\* work in this one.  Nothing starts over and nothing is added to do, neither
\* by the host, nor by drives that come and go, nor by a process left behind.
CycleAdvances ==
    \/ PhasesLeft' < PhasesLeft
    \/ /\ PhasesLeft' = PhasesLeft
       /\ Running' \subseteq Running /\ pending' \subseteq pending /\ Stale' \subseteq Stale
       /\ Work' # Work

\* Results, assignments and removals in a cycle each leave less to do.
LEMMA StepAdvances ==
    ASSUME IInv, [Next]_vars, PhasesLeft > 0,
           ~UNCHANGED <<loop, job, pending, snapshots>>
    PROVE  CycleAdvances
<1>0. TypeOK /\ loop \in {"begin", "scanning", "fetching", "publishing"}
  BY DEF PhasesLeft, IInv
<1> USE DEF PhasesLeft
<1>1. CASE BeginRefresh \/ StartFetches \/ AllFetched \/ ScanGivesNothing \/ FetchThrows \/ EndRefresh
  BY <1>1 DEF BeginRefresh, StartFetches, AllFetched, FetchesDone, ScanGivesNothing,
              FetchThrows, EndRefresh, EndCycle, CycleAdvances
<1>2. ASSUME NEW j \in Jobs, Exits(j) \/ TimesOut(j) PROVE CycleAdvances
  <2>1. /\ job[j] = "running" /\ UNCHANGED <<loop, pending, snapshots>>
        /\ \A k \in Jobs : k # j => job'[k] = job[k]
        /\ job'[j] # "running"
    BY <1>0, <1>2 DEF Exits, TimesOut, TypeOK
  <2>2. Running' \subseteq Running /\ j \in Running \ Running'  BY <2>1 DEF Running
  <2>3. Answered \subseteq Answered'  BY <2>1 DEF Answered, Jobs
  <2>4. Stale' \subseteq Stale  BY <2>1, <2>3 DEF Stale, Served, Seen
  <2> QED  BY <2>1, <2>2, <2>4 DEF CycleAdvances, Work
<1>3. ASSUME NEW d \in Devices, Publish(d) PROVE CycleAdvances
  <2>1. UNCHANGED <<loop, job>> /\ d \in pending /\ pending' = pending \ {d}
    BY <1>3 DEF Publish
  <2>2. d \in Answered /\ NameOf[d] \in Seen
    BY <1>3 DEF Publish, IInv, FreshOrPending, Seen
  <2>3. Stale' \subseteq Stale
    BY <1>0, <1>3, <2>1, <2>2 DEF Publish, TypeOK, Stale, Served, Seen, Answered
  <2> QED  BY <2>1, <2>3 DEF CycleAdvances, Work, Running
<1>4. ASSUME NEW n \in Names, Prune(n) PROVE CycleAdvances
  <2>1. UNCHANGED <<loop, job, pending>> /\ n \in Stale  BY <1>4 DEF Prune
  <2>2. Stale' = Stale \ {n}
    BY <1>0, <1>4 DEF Prune, TypeOK, Stale, Served, Seen, Answered
  <2> QED  BY <2>1, <2>2 DEF CycleAdvances, Work, Running
<1> QED
  BY <1>0, <1>1, <1>2, <1>3, <1>4
     DEF vars, Life, Next, Host, StartAsync, ServerUp, StopAsync, StopReturns, DisposeAsync,
         DisposeReturns, IInv, HostAndLoop, Smartctl, OrphanExits, Replug, Refresh, Tick, LoopEnds

\* A cycle never goes back (RefreshOnceAsync): with finitely many drives and
\* names it has finitely many steps, so CycleEnds needs no more than that its
\* next step is taken.
THEOREM CyclesAdvance ==
    Spec => [][PhasesLeft > 0 => CycleAdvances]_<<loop, job, pending, snapshots>>
<1>1. IInv /\ [Next]_vars
        => [PhasesLeft > 0 => CycleAdvances]_<<loop, job, pending, snapshots>>
  BY StepAdvances
<1> QED  BY <1>1, Invariance, PTL DEF Spec

-----------------------------------------------------------------------------
HostLife == INSTANCE HostedLife WITH life <- host

\* What this module assumes of the generic host is HostedLife, which is the
\* life ServiceHost, the model of that host, takes the service through.
THEOREM AssumedLife == Spec => HostLife!LifeSpec
<1>1. Init => HostLife!Init  BY DEF Init, HostLife!Init
<1>2. [Next]_vars => [HostLife!Next]_host
  BY DEF vars, Life, Next, Host, StartAsync, ServerUp, StopAsync, StopReturns, DisposeAsync,
         DisposeReturns, Smartctl, Exits, TimesOut, OrphanExits, Replug, Refresh, BeginRefresh,
         Tick, LoopEnds, ScanGivesNothing, EndCycle, StartFetches, FetchThrows, AllFetched,
         Publish, Prune, EndRefresh, HostLife!Next, HostLife!Step
<1> QED  BY <1>1, <1>2, PTL DEF Spec, HostLife!LifeSpec

-----------------------------------------------------------------------------
\* An empty dictionary is an initial SnapshotCache.
LEMMA InitImplements == Init => Cache!CacheInit
BY DEF Init, Cache!CacheInit

\* Every step of the service maps to a step of SnapshotCache or to a stutter.
LEMMA StepImplements ==
    IInv /\ [Next]_vars => [Cache!CacheNext]_(Cache!cacheVars)
<1> SUFFICES ASSUME IInv, [Next]_vars
             PROVE  Cache!CacheNext \/ UNCHANGED Cache!cacheVars
  OBVIOUS
<1>1. CASE loop = "publishing"
  <2>1. ASSUME NEW d \in Devices, Publish(d) PROVE Cache!CacheNext
    <3>1. d \in Answered  BY <2>1 DEF Publish, IInv, FreshOrPending
    <3>2. Cache!Put(d)
      BY <1>1, <2>1 DEF Publish, Answered, Cache!Put
    <3> QED  BY <1>1, <3>1, <3>2 DEF Cache!CacheNext
  <2>2. ASSUME NEW n \in Names, Prune(n) PROVE Cache!CacheNext
    <3>1. Cache!SourceNames = Seen  BY <1>1 DEF Cache!SourceNames, Seen
    <3>2. \A m \in Seen : Cache!Fresh(m)
      BY <1>1, <2>2 DEF Prune, IInv, FreshOrPending, Cache!Fresh
    <3>3. n \notin Seen  BY <2>2 DEF Prune, Stale
    <3>4. Cache!Remove(n)
      BY <1>1, <2>2, <3>1, <3>2, <3>3 DEF Prune, Answered, Cache!Remove
    <3> QED  BY <3>4 DEF Cache!CacheNext
  <2>3. CASE EndRefresh
    <3>1. Cache!SourceNames = Seen  BY <1>1 DEF Cache!SourceNames, Seen
    <3>2. \A m \in Seen : Cache!Fresh(m)
      BY <1>1, <2>3 DEF EndRefresh, IInv, FreshOrPending, Cache!Fresh
    <3>3. \A n \in Names \ Seen : snapshots[n] = NoReport
      BY <2>3 DEF EndRefresh, Stale, Served
    <3>4. loop' # "publishing" /\ UNCHANGED snapshots
      BY <2>3 DEF EndRefresh, EndCycle
    <3>5. Cache!FinishReplacement
      BY <1>1, <3>1, <3>2, <3>3, <3>4 DEF Cache!FinishReplacement
    <3> QED  BY <3>5 DEF Cache!CacheNext
  <2>4. CASE UNCHANGED <<loop, job, snapshots>>
    BY <2>4 DEF Cache!cacheVars, Answered
  <2> QED  BY <1>1, <2>1, <2>2, <2>3, <2>4, PublishingSteps
<1>2. CASE loop # "publishing"
  <2>1. CASE BeginRefresh
    BY <1>2, <2>1 DEF BeginRefresh, Older, Cache!Aged, Cache!Elapse, Cache!CacheNext
  <2>2. CASE AllFetched
    <3>1. Cache!StartReplacement
      BY <1>2, <2>2 DEF AllFetched, Answered, Cache!StartReplacement
    <3> QED  BY <3>1 DEF Cache!CacheNext
  <2>3. CASE loop' # "publishing" /\ UNCHANGED snapshots
    BY <1>2, <2>3 DEF Cache!cacheVars
  <2> QED  BY <1>2, <2>1, <2>2, <2>3, OtherSteps
<1> QED  BY <1>1, <1>2

\* The service implements SnapshotCache, so a reader of _snapshots may rely on
\* that module alone.
THEOREM Refinement == Spec => ImplementsCache
BY InitImplements, StepImplements, Invariance, PTL DEF Spec, ImplementsCache, Cache!CacheSpec
=============================================================================
