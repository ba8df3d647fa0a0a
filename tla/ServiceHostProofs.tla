-------------------------- MODULE ServiceHostProofs --------------------------
(* Proofs about ServiceHost, for any number of scrapes in progress.         *)
EXTENDS ServiceHost, SequenceTheorems, TLAPS

Stopped == {"stopped", "stopFailed", "abandoned"}
Early == {"constructing", "starting", "running"}

\* Where the phase has brought the services: what is before the position and
\* what is after it.
LivesInv ==
    /\ phase = "constructing" => at \in {1, 2}
    /\ phase = "starting" => at \in {1, 2, 3}
    /\ phase = "running" => at = 3
    /\ phase = "stopping" => at \in {1, 2, 3}
    /\ life["hardware"] \in
         IF phase \in {"constructing", "starting"}
         THEN IF phase = "starting" /\ at > 1 THEN {"started"} ELSE {"created"}
         ELSE IF phase = "running" THEN {"serving"}
         ELSE IF phase = "stopping" THEN IF at = 1 THEN {"serving", "stopping"} ELSE {"serving"}
         ELSE IF cts["hardware"] = "disposed" THEN {"disposed"}
         ELSE {"created", "failed", "started"} \union Stopped
    /\ life["smart"] \in
         IF phase \in {"constructing", "starting"}
         THEN IF phase = "starting" /\ at > 2 THEN {"started"} ELSE {"created"}
         ELSE IF phase = "running" THEN {"serving"}
         ELSE IF phase = "stopping"
              THEN IF at = 3 THEN {"serving"}
                   ELSE IF at = 2 THEN {"serving", "stopping"} ELSE Stopped
         ELSE IF cts["smart"] = "disposed" THEN {"disposed"}
         ELSE {"created", "started", "disposing", "disposeFailed"} \union Stopped

\* Kestrel serves, or drains, only while it is the first to stop; a scrape
\* that outlasts that has outlasted the timeout.
WebInv ==
    /\ life["web"] \in {"serving", "stopping"} =>
         phase = "running" \/ (phase = "stopping" /\ at = 3)
    /\ busy # {} => life["web"] \in {"serving", "stopping"} \/ expired
    /\ computer = "closed" =>
         phase \notin Early /\ life["web"] \notin {"serving", "stopping"}

\* A SMART loop that still runs is waited for: its service comes first in what
\* is left to dispose of.
SmartInv ==
    /\ phase \in {"starting", "running", "stopping"} =>
         captured # <<>> /\ captured[Len(captured)] = "smart"
    /\ phase \in Early \union {"stopping"} => cts["smart"] # "disposed" /\ cts["hardware"] # "disposed"
    /\ loop["smart"] = "running" =>
         /\ phase \notin {"constructing", "exited"}
         /\ phase = "disposing" =>
              /\ captured # <<>> /\ captured[Len(captured)] = "smart"
              /\ cts["smart"] # "disposed"

\* Past the stops, an open Computer has one of two reasons.
OpenInv ==
    /\ phase \in {"disposing", "exited"} /\ computer = "open" =>
         "start" \in thrown \/ loop["hardware"] = "faulted"

IInv == TypeOK /\ LivesInv /\ WebInv /\ SmartInv /\ OpenInv

-----------------------------------------------------------------------------
\* Who is a service and who a member.
LEMMA Who ==
    /\ "hardware" \in Services /\ "smart" \in Services
    /\ "hardware" \in Members /\ "smart" \in Members /\ "web" \in Members
    /\ \A s \in Services : s \in Members /\ s # "web"
BY DEF Services, Members

\* At first nothing is captured, started or closed.
LEMMA InitInv == Init => IInv
<1> SUFFICES ASSUME Init PROVE IInv  OBVIOUS
<1> USE DEF Init
<1>1. TypeOK
  <2>1. captured \in Seq(Services)  OBVIOUS
  <2>2. life \in [Members -> LifeStates]  BY DEF LifeStates
  <2>3. phase \in {"constructing", "starting", "running", "stopping", "disposing", "exited"} /\ at \in 0..3
    OBVIOUS
  <2>4. loop \in [Services -> {"off", "running", "ended", "faulted"}]
    /\ cts \in [Services -> {"live", "cancelled", "disposed"}] OBVIOUS
  <2>5. computer \in {"none", "open", "closed"} /\ busy \subseteq Requests /\ expired \in BOOLEAN
    /\ thrown \subseteq {"start", "stop", "dispose"} OBVIOUS
  <2> QED  BY <2>1, <2>2, <2>3, <2>4, <2>5 DEF TypeOK
<1>2. LivesInv  BY Who DEF LivesInv
<1>3. WebInv /\ SmartInv /\ OpenInv  BY Who DEF WebInv, SmartInv, OpenInv, Early
<1> QED  BY <1>1, <1>2, <1>3 DEF IInv

\* Construction and start keep the invariant.
LEMMA StartInv == IInv /\ Starting => IInv'
<1> SUFFICES ASSUME IInv, Starting PROVE IInv'  OBVIOUS
<1> USE DEF IInv, Starting
<1>1. CASE Construct
  <2> USE <1>1 DEF Construct, inner
  <2>1. Order[at] \in Services /\ (at = 2 => Order[at] = "smart")
    BY DEF LivesInv, Order, Services
  <2> DEFINE once == Append(captured, Order[at])
  <2>a. once \in Seq(Services)  BY <2>1 DEF TypeOK
  <2>b. captured' = Append(once, Order[at])  OBVIOUS
  <2>2. /\ captured' \in Seq(Services)
        /\ captured' # <<>> /\ captured'[Len(captured')] = Order[at]
    <3> HIDE DEF once
    <3> QED  BY <2>1, <2>a, <2>b, AppendProperties
  <2>3. TypeOK'  BY <2>2 DEF TypeOK, LivesInv
  <2>4. LivesInv' /\ WebInv' /\ OpenInv'
    BY DEF LivesInv, WebInv, OpenInv, TypeOK, Early
  <2>5. SmartInv'  BY <2>1, <2>2 DEF SmartInv, TypeOK, Early, LivesInv
  <2> QED  BY <2>3, <2>4, <2>5
<1>2. CASE StartAborts
  <2> USE <1>2 DEF StartAborts, Abandon, inner
  <2>1. TypeOK'  BY DEF TypeOK
  <2>2. LivesInv'  BY DEF LivesInv, TypeOK, SmartInv, Early, Services, Members, Stopped
  <2>3. WebInv' /\ OpenInv'  BY DEF WebInv, OpenInv, Early
  <2>4. SmartInv'  BY DEF SmartInv, Early
  <2> QED  BY <2>1, <2>2, <2>3, <2>4
<1>3. CASE StartHardware \/ StartHardwareFails
  <2> USE <1>3 DEF StartHardware, StartHardwareFails, StartTurn, Abandon
  <2>1. at = 1  BY DEF LivesInv, Order
  <2>a. /\ life' \in [Members -> LifeStates]
        /\ loop' \in [Services -> {"off", "running", "ended", "faulted"}]
    BY DEF TypeOK, LifeStates
  <2>b. thrown' \subseteq {"start", "stop", "dispose"}  BY DEF TypeOK
  <2>2. TypeOK'  BY <2>1, <2>a, <2>b DEF TypeOK
  <2>3. LivesInv'  BY <2>1 DEF LivesInv, TypeOK, SmartInv, Early, Services, Members, Stopped
  <2>4. WebInv' /\ OpenInv'  BY DEF WebInv, OpenInv, TypeOK, Early, Services, Members
  <2>5. SmartInv'  BY DEF SmartInv, TypeOK, Early, Services
  <2> QED  BY <2>2, <2>3, <2>4, <2>5
<1>4. CASE StartSmart
  <2> USE <1>4 DEF StartSmart, StartTurn
  <2>1. at = 2  BY DEF LivesInv, Order
  <2>2. TypeOK'  BY <2>1 DEF TypeOK, Members, Services, LifeStates
  <2>3. LivesInv'  BY <2>1 DEF LivesInv, TypeOK, Services, Members
  <2>4. WebInv' /\ OpenInv'  BY DEF WebInv, OpenInv, TypeOK, Early, Services, Members
  <2>5. SmartInv'  BY DEF SmartInv, TypeOK, Early, Services
  <2> QED  BY <2>2, <2>3, <2>4, <2>5
<1>5. CASE StartWeb \/ StartWebFails
  <2> USE <1>5 DEF StartWeb, StartWebFails, StartTurn, Abandon, inner
  <2>1. at = 3  BY DEF LivesInv, Order
  <2>2. TypeOK'  BY DEF TypeOK, Members, Services, LifeStates
  <2>3. LivesInv'  BY <2>1 DEF LivesInv, TypeOK, SmartInv, Early, Services, Members, Stopped
  <2>4. WebInv' /\ OpenInv'  BY DEF WebInv, OpenInv, TypeOK, Early, Services, Members
  <2>5. SmartInv'  BY DEF SmartInv, Early
  <2> QED  BY <2>2, <2>3, <2>4, <2>5
<1> QED  BY <1>1, <1>2, <1>3, <1>4, <1>5

\* Scrapes come and go, loops end, the timeout fires.
LEMMA RuntimeInv ==
    IInv /\ (StopRequested \/ Expire \/ (phase # "exited" /\ (Loops \/ Scrapes))) => IInv'
<1> SUFFICES ASSUME IInv,
                    StopRequested \/ Expire \/ (phase # "exited" /\ (Loops \/ Scrapes))
             PROVE  IInv'
  OBVIOUS
<1> USE DEF IInv
<1>1. CASE StopRequested \/ Expire
  <2> USE <1>1 DEF StopRequested, Expire, inner, run
  <2>1. TypeOK'  BY DEF TypeOK
  <2>2. LivesInv'  BY DEF LivesInv
  <2>3. WebInv' /\ OpenInv'  BY DEF WebInv, OpenInv, Early, LivesInv
  <2>4. SmartInv'  BY DEF SmartInv, Early
  <2> QED  BY <2>1, <2>2, <2>3, <2>4
<1>2. ASSUME phase # "exited", NEW s \in Services, LoopEnds(s) \/ LoopFaults(s) PROVE IInv'
  <2> USE <1>2 DEF LoopEnds, LoopFaults, run
  <2>1. TypeOK'  BY DEF TypeOK
  <2>2. LivesInv' /\ WebInv'  BY DEF LivesInv, WebInv
  <2>3. OpenInv' /\ SmartInv'  BY DEF OpenInv, SmartInv, TypeOK, Services
  <2> QED  BY <2>1, <2>2, <2>3
<1>3. ASSUME NEW r \in Requests, Request(r) \/ Respond(r) PROVE IInv'
  <2> USE <1>3 DEF Request, Respond, run, inner
  <2>1. TypeOK'  BY DEF TypeOK
  <2>2. LivesInv' /\ OpenInv' /\ SmartInv'  BY DEF LivesInv, OpenInv, SmartInv
  <2>3. WebInv'  BY DEF WebInv
  <2> QED  BY <2>1, <2>2, <2>3
<1> QED  BY <1>1, <1>2, <1>3 DEF Loops, Scrapes

\* What the return of any stop does.
LEMMA StopReturnsStep ==
    ASSUME TypeOK, LivesInv, NEW m \in Members, NEW as \in Stopped, StopReturns(m, as),
           computer' \in {"none", "open", "closed"}
    PROVE  /\ TypeOK'
           /\ phase = "stopping" /\ Order[at] = m
           /\ life'[m] = as /\ \A x \in Members \ {m} : life'[x] = life[x]
           /\ at' = at - 1 /\ phase' = IF at = 1 THEN "disposing" ELSE "stopping"
<1> USE DEF StopReturns, StopTurn
<1>1. as \in LifeStates  BY DEF Stopped, LifeStates
<1>2. life' \in [Members -> LifeStates]  BY <1>1 DEF TypeOK
<1>3. at' \in 0..3  BY DEF LivesInv
<1>4. thrown' \subseteq {"start", "stop", "dispose"}  BY DEF TypeOK
<1>5. /\ captured' \in Seq(Services)
      /\ busy' \subseteq Requests /\ expired' \in BOOLEAN
  BY DEF TypeOK
<1>6. /\ loop' \in [Services -> {"off", "running", "ended", "faulted"}]
      /\ cts' \in [Services -> {"live", "cancelled", "disposed"}]
  BY DEF TypeOK
<1>7. phase' \in {"stopping", "disposing"}  OBVIOUS
<1>8. TypeOK'  BY <1>2, <1>3, <1>4, <1>5, <1>6, <1>7 DEF TypeOK
<1>9. life'[m] = as /\ \A x \in Members \ {m} : life'[x] = life[x]  BY DEF TypeOK
<1> QED  BY <1>8, <1>9

\* The stops keep the invariant: the Computer is closed by the last of them,
\* when Kestrel has long been stopped.
LEMMA StopInv == IInv /\ Stopping => IInv'
<1> SUFFICES ASSUME IInv, Stopping PROVE IInv'  OBVIOUS
<1> USE DEF IInv
<1>1. ASSUME NEW m \in Members, StopAsync(m) PROVE IInv'
  <2> USE <1>1 DEF StopAsync, StopTurn, Cancel, run
  <2>1. /\ m = "hardware" <=> at = 1
        /\ m = "smart" <=> at = 2
        /\ m = "web" <=> at = 3
    BY DEF LivesInv, Order
  <2>2. TypeOK'  BY DEF TypeOK, LifeStates, Members, Services
  <2>3. LivesInv'  BY <2>1 DEF LivesInv, TypeOK, Members, Services
  <2>4. WebInv' /\ OpenInv'  BY <2>1 DEF WebInv, OpenInv, TypeOK, Members, Services
  <2>5. SmartInv'  BY DEF SmartInv, TypeOK, Services, Members, Early
  <2> QED  BY <2>2, <2>3, <2>4, <2>5
<1>2. CASE StopWebReturns
  <2>1. PICK as \in Stopped : StopReturns("web", as) /\ UNCHANGED computer
    BY <1>2 DEF StopWebReturns, Stopped, Waited
  <2>2. computer' \in {"none", "open", "closed"}
    BY <2>1, <1>2 DEF TypeOK, StopWebReturns
  <2>3. /\ TypeOK' /\ phase = "stopping" /\ Order[at] = "web"
        /\ life'["web"] = as
        /\ \A x \in Members \ {"web"} : life'[x] = life[x]
        /\ at' = at - 1 /\ phase' = IF at = 1 THEN "disposing" ELSE "stopping"
    BY <2>1, <2>2, StopReturnsStep, Who
  <2>4. at = 3 /\ at' = 2 /\ phase' = "stopping"  BY <2>3 DEF LivesInv, Order
  <2>5. life'["hardware"] = life["hardware"] /\ life'["smart"] = life["smart"]
    BY <2>3, Who
  <2>6. UNCHANGED <<captured, loop, cts, busy, expired>>  BY <2>1 DEF StopReturns
  <2>7. UNCHANGED computer  BY <2>1
  <2>8. LivesInv'
    BY <2>1, <2>3, <2>4, <2>5, <2>6 DEF LivesInv, Stopped
  <2>9. busy = {} \/ expired  BY <1>2 DEF StopWebReturns
  <2>10. WebInv' /\ OpenInv'
    BY <2>3, <2>4, <2>6, <2>7, <2>9 DEF WebInv, OpenInv, Stopped, Early
  <2>11. SmartInv'  BY <2>3, <2>4, <2>6 DEF SmartInv, Early
  <2> QED  BY <2>3, <2>8, <2>10, <2>11
<1>3. CASE StopSmartReturns
  <2>1. PICK as \in Stopped : StopReturns("smart", as) /\ UNCHANGED computer
    BY <1>3 DEF StopSmartReturns, Stopped, Waited
  <2>2. computer' \in {"none", "open", "closed"}
    BY <2>1, <1>3 DEF TypeOK, StopSmartReturns
  <2>3. /\ TypeOK' /\ phase = "stopping" /\ Order[at] = "smart"
        /\ life'["smart"] = as
        /\ \A x \in Members \ {"smart"} : life'[x] = life[x]
        /\ at' = at - 1 /\ phase' = IF at = 1 THEN "disposing" ELSE "stopping"
    BY <2>1, <2>2, StopReturnsStep, Who
  <2>4. at = 2 /\ at' = 1 /\ phase' = "stopping"  BY <2>3 DEF LivesInv, Order
  <2>5. life'["hardware"] = life["hardware"] /\ life'["web"] = life["web"]
    BY <2>3, Who
  <2>6. UNCHANGED <<captured, loop, cts, busy, expired>>  BY <2>1 DEF StopReturns
  <2>7. UNCHANGED computer  BY <2>1
  <2>8. LivesInv'
    <3>1. life'["smart"] \in Stopped  BY <2>1, <2>3
    <3>2. life'["hardware"] = "serving"  BY <2>3, <2>4, <2>5 DEF LivesInv
    <3>3. phase' = "stopping" /\ at' = 1  BY <2>4
    <3> QED  BY <3>1, <3>2, <3>3 DEF LivesInv
  <2>10. WebInv' /\ OpenInv'
    BY <2>3, <2>4, <2>5, <2>6, <2>7 DEF WebInv, OpenInv, Early
  <2>11. SmartInv'  BY <2>3, <2>4, <2>6 DEF SmartInv, Early
  <2> QED  BY <2>3, <2>8, <2>10, <2>11
<1>4. CASE StopHardwareReturns
  <2>1. PICK as \in Stopped : StopReturns("hardware", as)
    BY <1>4 DEF StopHardwareReturns, Stopped, Waited
  <2>2. computer' \in {"none", "open", "closed"}
    BY <2>1, <1>4 DEF TypeOK, StopHardwareReturns
  <2>3. /\ TypeOK' /\ phase = "stopping" /\ Order[at] = "hardware"
        /\ life'["hardware"] = as
        /\ \A x \in Members \ {"hardware"} : life'[x] = life[x]
        /\ at' = at - 1 /\ phase' = IF at = 1 THEN "disposing" ELSE "stopping"
    BY <2>1, <2>2, StopReturnsStep, Who
  <2>4. at = 1 /\ at' = 0 /\ phase' = "disposing"  BY <2>3 DEF LivesInv, Order
  <2>5. life'["smart"] = life["smart"] /\ life'["web"] = life["web"]
    BY <2>3, Who
  <2>6. UNCHANGED <<captured, loop, cts, busy, expired>>  BY <2>1 DEF StopReturns
  <2>7. loop["hardware"] = "faulted" \/ computer' = "closed"
    BY <1>4 DEF StopHardwareReturns
  <2>8. LivesInv'
    <3>1. life'["hardware"] \in Stopped  BY <2>1, <2>3
    <3>2. life'["smart"] \in Stopped  BY <2>3, <2>4, <2>5 DEF LivesInv
    <3>3. cts'["hardware"] # "disposed" /\ cts'["smart"] # "disposed"
      BY <2>3, <2>6 DEF SmartInv
    <3> QED  BY <2>3, <2>4, <3>1, <3>2, <3>3 DEF LivesInv
  <2>10. WebInv' /\ OpenInv'
    BY <2>3, <2>4, <2>5, <2>6, <2>7 DEF WebInv, OpenInv, Early
  <2>11. SmartInv'  BY <2>3, <2>4, <2>6 DEF SmartInv, Early
  <2> QED  BY <2>3, <2>8, <2>10, <2>11
<1> QED  BY <1>1, <1>2, <1>3, <1>4 DEF Stopping

\* What is left after one disposal is again a list of services.
LEMMA OthersType ==
    ASSUME captured \in Seq(Services), captured # <<>>
    PROVE  Others \in Seq(Services)
BY DEF Others

\* Disposal keeps the invariant.
LEMMA DisposeInv == IInv /\ Disposing => IInv'
<1> SUFFICES ASSUME IInv, Disposing PROVE IInv'  OBVIOUS
<1> USE DEF IInv
<1>1. CASE DisposeHardware
  <2> USE <1>1 DEF DisposeHardware, DisposeTurn
  <2>1. TypeOK'  BY OthersType DEF TypeOK, LifeStates, Members, Services
  <2>2. LivesInv'  BY DEF LivesInv, TypeOK, Members, Services
  <2>3. WebInv' /\ OpenInv'  BY DEF WebInv, OpenInv, TypeOK, Early, Members, Services
  <2>4. SmartInv'  BY DEF SmartInv, Early
  <2> QED  BY <2>1, <2>2, <2>3, <2>4
<1>2. CASE DisposeSmart
  <2> USE <1>2 DEF DisposeSmart, DisposeTurn, Cancel, run
  <2>1. TypeOK'  BY DEF TypeOK, LifeStates, Members, Services
  <2>2. LivesInv'  BY DEF LivesInv, TypeOK, Members, Services
  <2>3. WebInv' /\ OpenInv'  BY DEF WebInv, OpenInv, TypeOK, Early, Members, Services
  <2>4. SmartInv'  BY DEF SmartInv, Early, TypeOK, Services
  <2> QED  BY <2>1, <2>2, <2>3, <2>4
<1>3. CASE DisposeSmartReturns
  <2> USE <1>3 DEF DisposeSmartReturns, DisposeTurn
  <2>1. TypeOK'  BY OthersType DEF TypeOK, LifeStates, Members, Services
  <2>2. LivesInv'  BY DEF LivesInv, TypeOK, Members, Services
  <2>3. WebInv' /\ OpenInv'  BY DEF WebInv, OpenInv, TypeOK, Early, Members, Services
  <2>4. SmartInv'  BY DEF SmartInv, Early
  <2> QED  BY <2>1, <2>2, <2>3, <2>4
<1>4. CASE DisposeSmartThrows
  <2> USE <1>4 DEF DisposeSmartThrows, DisposeTurn, DisposeThrows
  <2>1. TypeOK'
    <3>1. captured' \in Seq(Services)
      <4>1. <<>> \in Seq(Services)  OBVIOUS
      <4> QED  BY <4>1, OthersType DEF TypeOK
    <3> QED  BY <3>1 DEF TypeOK, LifeStates, Members, Services
  <2>2. LivesInv'  BY DEF LivesInv, TypeOK, Members, Services
  <2>3. WebInv' /\ OpenInv'  BY DEF WebInv, OpenInv, TypeOK, Early, Members, Services
  <2>4. SmartInv'  BY DEF SmartInv, Early
  <2> QED  BY <2>1, <2>2, <2>3, <2>4
<1>5. ASSUME NEW s \in Services, DisposeAgain(s) PROVE IInv'
  <2> USE <1>5 DEF DisposeAgain, DisposeTurn, DisposeThrows
  <2>1. TypeOK'
    <3>1. captured' \in Seq(Services)
      <4>1. <<>> \in Seq(Services)  OBVIOUS
      <4> QED  BY <4>1, OthersType DEF TypeOK
    <3> QED  BY <3>1 DEF TypeOK
  <2>2. LivesInv'  BY DEF LivesInv
  <2>3. WebInv' /\ OpenInv'  BY DEF WebInv, OpenInv, Early
  <2>4. SmartInv'  BY DEF SmartInv, Early
  <2> QED  BY <2>1, <2>2, <2>3, <2>4
<1>6. CASE Exit
  <2> USE <1>6 DEF Exit, inner
  <2>1. TypeOK'  BY DEF TypeOK
  <2>2. LivesInv'  BY DEF LivesInv
  <2>3. WebInv' /\ OpenInv' /\ SmartInv'  BY DEF WebInv, OpenInv, SmartInv, Early
  <2> QED  BY <2>1, <2>2, <2>3
<1> QED  BY <1>1, <1>2, <1>3, <1>4, <1>5, <1>6 DEF Disposing

LEMMA StepInv == IInv /\ [Next]_vars => IInv'
<1> SUFFICES ASSUME IInv, [Next]_vars PROVE IInv'  OBVIOUS
<1>1. CASE UNCHANGED vars
  BY <1>1 DEF vars, IInv, TypeOK, LivesInv, WebInv, SmartInv, OpenInv
<1>2. CASE Next
  BY <1>2, StartInv, RuntimeInv, StopInv, DisposeInv DEF Next
<1> QED  BY <1>1, <1>2

\* The invariant is one of the specification.
THEOREM Invariance == Spec => []IInv
BY InitInv, StepInv, PTL DEF Spec

-----------------------------------------------------------------------------
\* Host, services and container stay in the states the code has.
THEOREM TypeCorrect == Spec => []TypeOK
<1>1. IInv => TypeOK  BY DEF IInv
<1> QED  BY <1>1, Invariance, PTL

\* No scrape reads sensors of a closed Computer before the shutdown timeout,
\* however many scrapes there are (Program.cs: Kestrel starts last).
THEOREM ScrapesDrain == Spec => []DrainedBeforeClose
<1>1. IInv => DrainedBeforeClose  BY DEF IInv, WebInv, DrainedBeforeClose
<1> QED  BY <1>1, Invariance, PTL

\* However RunAsync ends, the SMART loop is over, and an open Computer is due
\* to a failed start or a faulted loop.
THEOREM ExitIsClean == Spec => []CleanExit
<1>1. IInv => CleanExit  BY DEF IInv, SmartInv, OpenInv, CleanExit
<1> QED  BY <1>1, Invariance, PTL

\* The host takes both services through the lives their modules assume.
THEOREM LivesFollow == Spec => LivesAsAssumed
<1>1. Init => HardwareLife!Init /\ SmartLife!Init
  BY DEF Init, HardwareLife!Init, SmartLife!Init, Members, Services
<1>2. IInv /\ [Next]_vars =>
        [HardwareLife!Next]_(life["hardware"]) /\ [SmartLife!Next]_(life["smart"])
  <2> SUFFICES ASSUME IInv, [Next]_vars
               PROVE  [HardwareLife!Next]_(life["hardware"]) /\ [SmartLife!Next]_(life["smart"])
    OBVIOUS
  <2> USE DEF IInv, TypeOK, Members, Services, HardwareLife!Next, HardwareLife!Step,
              SmartLife!Next, SmartLife!Step
  <2>1. CASE Starting
    BY <2>1 DEF Starting, Construct, StartAborts, StartHardware, StartHardwareFails,
       StartSmart, StartWeb, StartWebFails, StartTurn, Order, LivesInv
  <2>2. CASE Stopping
    BY <2>2 DEF Stopping, StopAsync, StopWebReturns, StopSmartReturns, Waited,
       StopHardwareReturns, StopReturns
  <2>3. CASE Disposing
    BY <2>3 DEF Disposing, DisposeHardware, DisposeSmart, DisposeSmartReturns,
       DisposeSmartThrows, DisposeAgain, DisposeTurn, Exit, LivesInv, Stopped
  <2>4. CASE UNCHANGED life  BY <2>4
  <2>5. StopRequested \/ Expire \/ Loops \/ Scrapes \/ UNCHANGED vars => UNCHANGED life
    BY DEF StopRequested, Expire, Loops, LoopEnds, LoopFaults, Scrapes, Request, Respond,
           run, vars
  <2> QED  BY <2>1, <2>2, <2>3, <2>4, <2>5 DEF Next
<1> QED
  BY <1>1, <1>2, Invariance, PTL
  DEF Spec, LivesAsAssumed, HardwareLife!LifeSpec, SmartLife!LifeSpec

-----------------------------------------------------------------------------
\* RunAsync is a phase further, with the next member to stop, has called that
\* member's StopAsync, has disposed of something, or has called DisposeAsync of
\* the SMART service.
ExitNearer ==
    \/ phase = "stopping" /\ phase' = "disposing"
    \/ phase = "disposing" /\ phase' = "exited"
    \/ phase' = phase /\ phase = "stopping" /\ at' < at
    \/ phase' = phase /\ phase = "stopping" /\ at' = at
         /\ life[Order[at]] = "serving" /\ life'[Order[at]] = "stopping"
    \/ phase' = phase /\ phase = "disposing" /\ Len(captured') < Len(captured)
    \/ phase' = phase /\ phase = "disposing" /\ captured' = captured
         /\ life["smart"] \notin {"disposing", "disposed"} /\ life'["smart"] = "disposing"

\* Disposal, also one that throws, takes something off what was captured.
LEMMA DisposalShrinks ==
    ASSUME TypeOK, captured # <<>>, captured' \in {Others, <<>>}
    PROVE  Len(captured') < Len(captured)
<1>1. captured \in Seq(Services) /\ Len(captured) \in Nat \ {0}
  BY EmptySeq, LenProperties DEF TypeOK
<1>2. Len(Others) = Len(captured) - 1
  <2>1. \A i \in 1..(Len(captured) - 1) : captured[i] \in Services
    BY <1>1, ElementOfSeq
  <2>2. Len(captured) - 1 \in Int /\ 1 \in Int  BY <1>1
  <2>3. Len(Others) = IF 1 <= Len(captured) - 1 THEN (Len(captured) - 1) - 1 + 1 ELSE 0
    BY <2>1, <2>2, SubSeqProperties DEF Others
  <2>4. \A k \in Nat \ {0} : (IF 1 <= k - 1 THEN (k - 1) - 1 + 1 ELSE 0) = k - 1
    OBVIOUS
  <2> QED  BY ONLY <1>1, <2>3, <2>4
<1> QED  BY <1>1, <1>2

\* Every stop, every return from one and every disposal is a step nearer.
LEMMA StepNearer ==
    ASSUME IInv, [Next]_vars, phase \in {"stopping", "disposing"},
           ~UNCHANGED <<phase, at, captured, life>>
    PROVE  ExitNearer
<1> USE DEF IInv
<1>1. ~Starting /\ ~StopRequested /\ ~Expire /\ ~Loops /\ ~Scrapes /\ ~UNCHANGED vars
  BY DEF Starting, Construct, StartAborts, StartHardware, StartHardwareFails, StartSmart,
     StartWeb, StartWebFails, StartTurn, StopRequested, Expire, Loops, LoopEnds, LoopFaults,
     Scrapes, Request, Respond, run, vars
<1>2. CASE Stopping
  <2>1. phase = "stopping" /\ at \in {1, 2, 3}
    BY <1>2 DEF Stopping, StopAsync, StopWebReturns, StopSmartReturns, StopHardwareReturns,
       StopReturns, StopTurn, LivesInv
  <2>2. ASSUME NEW m \in Members, StopAsync(m) PROVE ExitNearer
    BY <2>1, <2>2 DEF StopAsync, StopTurn, TypeOK, run, ExitNearer
  <2>3. CASE StopWebReturns \/ StopSmartReturns \/ StopHardwareReturns
    BY <2>1, <2>3 DEF StopWebReturns, StopSmartReturns, StopHardwareReturns, StopReturns,
       ExitNearer
  <2> QED  BY <1>2, <2>2, <2>3 DEF Stopping
<1>3. CASE Disposing
  <2>1. phase = "disposing"
    BY <1>3 DEF Disposing, DisposeHardware, DisposeSmart, DisposeSmartReturns,
       DisposeSmartThrows, DisposeAgain, DisposeTurn, Exit
  <2>2. CASE Exit  BY <2>1, <2>2 DEF Exit, ExitNearer
  <2>3. CASE DisposeSmart
    <3>1. life["smart"] \notin {"disposing", "disposed"}
      BY <2>1, <2>3 DEF DisposeSmart, LivesInv, Stopped
    <3>2. life'["smart"] = "disposing" /\ UNCHANGED <<phase, captured>>
      BY <2>3, Who DEF DisposeSmart, TypeOK, run
    <3> QED  BY <2>1, <3>1, <3>2 DEF ExitNearer
  <2>4. CASE DisposeHardware \/ DisposeSmartReturns \/ DisposeSmartThrows
             \/ \E s \in Services : DisposeAgain(s)
    <3>1. captured # <<>> /\ captured' \in {Others, <<>>} /\ phase' = phase
      BY <2>4 DEF DisposeHardware, DisposeSmartReturns, DisposeSmartThrows, DisposeAgain,
         DisposeThrows, DisposeTurn
    <3> QED  BY <2>1, <3>1, DisposalShrinks DEF ExitNearer
  <2> QED  BY <1>3, <2>2, <2>3, <2>4 DEF Disposing
<1> QED  BY <1>1, <1>2, <1>3 DEF Next

\* Once it is told to stop, or its start has failed, RunAsync only goes forward:
\* no scrape, loop or exception, and no second disposal, sets it back.  There are
\* three members to stop and at most four disposals, so HostExits needs no more
\* than that its next step is taken.
THEOREM ShutdownAdvances ==
    Spec => [][(phase \in {"stopping", "disposing"}) => ExitNearer]_<<phase, at, captured, life>>
<1>1. IInv /\ [Next]_vars
        => [(phase \in {"stopping", "disposing"}) => ExitNearer]_<<phase, at, captured, life>>
  BY StepNearer
<1> QED  BY <1>1, Invariance, PTL DEF Spec
=============================================================================
