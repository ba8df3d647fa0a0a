----------------------------- MODULE ServiceHost -----------------------------
(***************************************************************************)
(* The host of the Windows exporter: Program registers two singletons that *)
(* are also hosted services, and Kestrel comes last.  The generic host     *)
(* starts the three in order, stops them in reverse under one shutdown     *)
(* timeout, and lets the container dispose of what it has captured.        *)
(*                                                                         *)
(* A singleton that is also registered through a factory is captured once  *)
(* by each registration, so the container disposes of it twice.            *)
(***************************************************************************)
EXTENDS Naturals, Sequences

CONSTANT Requests       \* scrapes that may be in progress together

Services == {"hardware", "smart"}
Members == Services \union {"web"}
Order == <<"hardware", "smart", "web">>

VARIABLES
    phase,      \* where RunAsync is
    at,         \* the position in Order it is at
    captured,   \* what the container still has to dispose of, last first
    life,       \* where each member is in its life, as in HostedLife
    loop,       \* the refresh loop of each service
    cts,        \* the _stopCts of each service
    computer,   \* _computer: not made, open, or closed
    busy,       \* the scrapes in progress
    expired,    \* the shutdown token has been cancelled
    thrown      \* the parts of RunAsync that threw

run == <<phase, at, captured, thrown>>
inner == <<loop, cts, computer>>
vars == <<phase, at, captured, life, loop, cts, computer, busy, expired, thrown>>

LifeStates == {"created", "failed", "started", "serving", "stopping", "stopped",
               "stopFailed", "abandoned", "disposing", "disposed", "disposeFailed"}

\* Host, services and container are in states the code has.
TypeOK ==
    /\ phase \in {"constructing", "starting", "running", "stopping", "disposing", "exited"}
    /\ at \in 0..3
    /\ captured \in Seq(Services)
    /\ life \in [Members -> LifeStates]
    /\ loop \in [Services -> {"off", "running", "ended", "faulted"}]
    /\ cts \in [Services -> {"live", "cancelled", "disposed"}]
    /\ computer \in {"none", "open", "closed"}
    /\ busy \subseteq Requests
    /\ expired \in BOOLEAN
    /\ thrown \subseteq {"start", "stop", "dispose"}

Init ==
    /\ phase = "constructing"
    /\ at = 1
    /\ captured = <<>>
    /\ life = [m \in Members |-> "created"]
    /\ loop = [s \in Services |-> "off"]
    /\ cts = [s \in Services |-> "live"]
    /\ computer = "none"
    /\ busy = {}
    /\ expired = FALSE
    /\ thrown = {}

-----------------------------------------------------------------------------
(* Construction and start.                                                 *)

\* (mutant: the container captures the web host like a service)
ConstructAll ==
    /\ phase = "constructing"
    /\ captured' = Append(Append(captured, Order[at]), Order[at])
    /\ IF at = 3 THEN phase' = "starting" /\ at' = 1
                 ELSE phase' = phase /\ at' = at + 1
    /\ UNCHANGED <<life, inner, busy, expired, thrown>>

\* The singleton is captured, and again as the factory's result.
Construct ==
    /\ phase = "constructing"
    /\ captured' = Append(Append(captured, Order[at]), Order[at])
    /\ IF at = 2 THEN phase' = "starting" /\ at' = 1
                 ELSE phase' = phase /\ at' = at + 1
    /\ UNCHANGED <<life, inner, busy, expired, thrown>>

\* A failed start: RunAsync goes straight to its finally block, nothing stops.
Abandon == phase' = "disposing" /\ thrown' = thrown \union {"start"}

\* An option does not bind, or the host is told to stop while it starts.
StartAborts ==
    /\ phase \in {"constructing", "starting"}
    /\ Abandon
    /\ UNCHANGED <<at, captured, life, inner, busy, expired>>

StartTurn(m) == phase = "starting" /\ Order[at] = m

StartHardware ==
    /\ StartTurn("hardware")
    /\ computer' = "open"
    /\ life' = [life EXCEPT !["hardware"] = "started"]
    /\ loop' = [loop EXCEPT !["hardware"] = "running"]
    /\ at' = at + 1
    /\ UNCHANGED <<phase, captured, thrown, cts, busy, expired>>

\* Open throws, after the assignment of _computer.
StartHardwareFails ==
    /\ StartTurn("hardware")
    /\ computer' = "open"
    /\ life' = [life EXCEPT !["hardware"] = "failed"]
    /\ Abandon
    /\ UNCHANGED <<at, captured, loop, cts, busy, expired>>

\* With or without a loop, as Enable and IsAvailable say.
StartSmart ==
    /\ StartTurn("smart")
    /\ life' = [life EXCEPT !["smart"] = "started"]
    /\ loop' \in {loop, [loop EXCEPT !["smart"] = "running"]}
    /\ at' = at + 1
    /\ UNCHANGED <<phase, captured, thrown, cts, computer, busy, expired>>

\* Kestrel listens; everything has started.
StartWeb ==
    /\ StartTurn("web")
    /\ phase' = "running"
    /\ life' = [m \in Members |-> "serving"]
    /\ UNCHANGED <<at, captured, thrown, inner, busy, expired>>

\* The port is taken.
StartWebFails ==
    /\ StartTurn("web")
    /\ life' = [life EXCEPT !["web"] = "failed"]
    /\ Abandon
    /\ UNCHANGED <<at, captured, inner, busy, expired>>

-----------------------------------------------------------------------------
(* Scrapes and loops.                                                      *)

Request(r) ==
    /\ life["web"] = "serving"
    /\ r \notin busy
    /\ busy' = busy \union {r}
    /\ UNCHANGED <<run, life, inner, expired>>

Respond(r) ==
    /\ r \in busy
    /\ busy' = busy \ {r}
    /\ UNCHANGED <<run, life, inner, expired>>

LoopEnds(s) ==
    /\ loop[s] = "running"
    /\ cts[s] # "live"
    /\ loop' = [loop EXCEPT ![s] = "ended"]
    /\ UNCHANGED <<run, life, cts, computer, busy, expired>>

\* PeriodicTimer rejects the interval.
LoopFaults(s) ==
    /\ loop[s] = "running"
    /\ loop' = [loop EXCEPT ![s] = "faulted"]
    /\ UNCHANGED <<run, life, cts, computer, busy, expired>>

-----------------------------------------------------------------------------
(* Stop: one member after the other, the last one started first.           *)

\* Ctrl+C, or the service control manager.
StopRequested ==
    /\ phase = "running"
    /\ phase' = "stopping"
    /\ UNCHANGED <<at, captured, life, inner, busy, expired, thrown>>

Expire ==
    /\ phase = "stopping"
    /\ ~expired
    /\ expired' = TRUE
    /\ UNCHANGED <<run, life, inner, busy>>

\* (mutant: members stop in the order they started in)
StopTurnInOrder(m) == phase = "stopping" /\ at > 0 /\ Order[4 - at] = m

StopTurn(m) == phase = "stopping" /\ at > 0 /\ Order[at] = m

Cancel(s) == cts' = [cts EXCEPT ![s] = "cancelled"]

\* StopAsync of m is called: Kestrel stops listening, a service cancels.
StopAsync(m) ==
    /\ StopTurn(m)
    /\ life[m] = "serving"
    /\ life' = [life EXCEPT ![m] = "stopping"]
    /\ IF m = "web" THEN UNCHANGED cts ELSE Cancel(m)
    /\ UNCHANGED <<run, loop, computer, busy, expired>>

\* A stop that threw does not keep the others from stopping.
StopReturns(m, as) ==
    /\ StopTurn(m)
    /\ life[m] = "stopping"
    /\ life' = [life EXCEPT ![m] = as]
    /\ at' = at - 1
    /\ phase' = IF at = 1 THEN "disposing" ELSE phase
    /\ thrown' = IF as = "stopFailed" THEN thrown \union {"stop"} ELSE thrown
    /\ UNCHANGED <<captured, loop, cts, busy, expired>>

\* (mutant: Kestrel waits for its requests without a deadline)
StopWebReturnsDrained ==
    /\ busy = {}
    /\ StopReturns("web", "stopped")
    /\ UNCHANGED computer

\* Kestrel waits for the requests in progress, at most until the token.
StopWebReturns ==
    /\ busy = {} \/ expired
    /\ StopReturns("web", IF busy = {} THEN "stopped" ELSE "abandoned")
    /\ UNCHANGED computer

\* What WaitAsync makes of the loop: it has ended, it rethrows, or the token
\* expired first.
Waited(s) == IF loop[s] = "faulted" THEN "stopFailed"
             ELSE IF loop[s] = "running" THEN "abandoned" ELSE "stopped"

StopSmartReturns ==
    /\ loop["smart"] # "running" \/ expired
    /\ StopReturns("smart", Waited("smart"))
    /\ UNCHANGED computer

\* (mutant: Close is left to Dispose)
StopHardwareReturnsOpen ==
    /\ loop["hardware"] # "running" \/ expired
    /\ StopReturns("hardware", Waited("hardware"))
    /\ UNCHANGED computer

\* Close comes after the wait, and not at all when the wait rethrows.
StopHardwareReturns ==
    /\ loop["hardware"] # "running" \/ expired
    /\ StopReturns("hardware", Waited("hardware"))
    /\ computer' = IF loop["hardware"] = "faulted" THEN computer ELSE "closed"

-----------------------------------------------------------------------------
(* Disposal of what was captured, the last first.                          *)

DisposeTurn(s) ==
    /\ phase = "disposing"
    /\ captured # <<>>
    /\ captured[Len(captured)] = s

Others == SubSeq(captured, 1, Len(captured) - 1)

\* A Dispose that throws ends RunAsync; whether the container goes on with the
\* rest first is left open.
DisposeThrows ==
    /\ captured' \in {Others, <<>>}
    /\ thrown' = thrown \union {"dispose"}
    /\ UNCHANGED <<phase, at, computer, loop, busy, expired>>

\* The second disposal: Cancel throws ObjectDisposedException.
DisposeAgain(s) ==
    /\ DisposeTurn(s)
    /\ cts[s] = "disposed"
    /\ DisposeThrows
    /\ UNCHANGED <<life, cts>>

\* HardwareMonitorService.Dispose waits for nobody.
DisposeHardware ==
    /\ DisposeTurn("hardware")
    /\ cts["hardware"] # "disposed"
    /\ cts' = [cts EXCEPT !["hardware"] = "disposed"]
    /\ life' = [life EXCEPT !["hardware"] = "disposed"]
    /\ computer' = IF computer = "none" THEN "none" ELSE "closed"
    /\ captured' = Others
    /\ UNCHANGED <<phase, at, loop, busy, expired, thrown>>

\* (mutant: the second disposal begins like the first)
DisposeSmartTwice ==
    /\ DisposeTurn("smart")
    /\ life["smart"] # "disposing"
    /\ Cancel("smart")
    /\ life' = [life EXCEPT !["smart"] = "disposing"]
    /\ UNCHANGED <<run, loop, computer, busy, expired>>

\* SmartMonitorService.DisposeAsync stops once more, without a deadline.
DisposeSmart ==
    /\ DisposeTurn("smart")
    /\ cts["smart"] # "disposed"
    /\ life["smart"] \notin {"disposing", "disposeFailed"}
    /\ Cancel("smart")
    /\ life' = [life EXCEPT !["smart"] = "disposing"]
    /\ UNCHANGED <<run, loop, computer, busy, expired>>

DisposeSmartReturns ==
    /\ DisposeTurn("smart")
    /\ life["smart"] = "disposing"
    /\ loop["smart"] \in {"off", "ended"}
    /\ cts' = [cts EXCEPT !["smart"] = "disposed"]
    /\ life' = [life EXCEPT !["smart"] = "disposed"]
    /\ captured' = Others
    /\ UNCHANGED <<phase, at, thrown, loop, computer, busy, expired>>

\* The wait rethrows what the loop faulted with, each time it is awaited.
DisposeSmartThrows ==
    /\ DisposeTurn("smart")
    /\ life["smart"] \in {"disposing", "disposeFailed"}
    /\ loop["smart"] = "faulted"
    /\ life' = [life EXCEPT !["smart"] = "disposeFailed"]
    /\ DisposeThrows
    /\ UNCHANGED cts

Exit ==
    /\ phase = "disposing"
    /\ captured = <<>>
    /\ phase' = "exited"
    /\ UNCHANGED <<at, captured, life, inner, busy, expired, thrown>>

-----------------------------------------------------------------------------
Starting == \/ Construct \/ StartAborts
            \/ StartHardware \/ StartHardwareFails \/ StartSmart
            \/ StartWeb \/ StartWebFails
Stopping == \/ \E m \in Members : StopAsync(m)
            \/ StopWebReturns \/ StopSmartReturns \/ StopHardwareReturns
Disposing == \/ DisposeHardware \/ DisposeSmart
             \/ DisposeSmartReturns \/ DisposeSmartThrows
             \/ \E s \in Services : DisposeAgain(s)
             \/ Exit
Loops == \E s \in Services : LoopEnds(s) \/ LoopFaults(s)
Scrapes == \E r \in Requests : Request(r) \/ Respond(r)

Next ==
    \/ Starting \/ StopRequested \/ Expire \/ Stopping \/ Disposing
    \/ phase # "exited" /\ (Loops \/ Scrapes)

Spec == Init /\ [][Next]_vars

\* RunAsync goes on when it can, the shutdown timeout fires, and a loop whose
\* token is cancelled comes to its end.  No request has to end.
Fairness ==
    /\ WF_vars(Starting) /\ WF_vars(Stopping) /\ WF_vars(Disposing)
    /\ WF_vars(Expire)
    /\ \A s \in Services : WF_vars(phase # "exited" /\ LoopEnds(s))

FairSpec == Spec /\ Fairness

-----------------------------------------------------------------------------
(* What the composition promises.                                          *)

\* The Computer is not closed under a scrape that reads its sensors, unless
\* the scrape has used up the whole shutdown timeout: Kestrel is started last
\* and hence stopped first (the order of registration in Program.cs).
DrainedBeforeClose == computer = "closed" /\ busy # {} => expired

\* When RunAsync is over the SMART loop is over, however far the start got;
\* and the Computer is closed unless the start failed or the hardware loop
\* faulted, although the second disposal of the SMART service throws before
\* the container reaches the hardware service.
CleanExit ==
    phase = "exited" =>
        /\ loop["smart"] # "running"
        /\ computer = "open" => "start" \in thrown \/ loop["hardware"] = "faulted"

HardwareLife == INSTANCE HostedLife WITH life <- life["hardware"]
SmartLife == INSTANCE HostedLife WITH life <- life["smart"]

\* Each service goes through the life its own module assumes: it is stopped
\* only when all have started, at most once, and a second disposal changes
\* nothing of it any more.
LivesAsAssumed == HardwareLife!LifeSpec /\ SmartLife!LifeSpec

\* A host that is told to stop, or whose start failed, comes to its end,
\* whatever requests and loops do and whatever throws on the way.
HostExits == phase \in {"stopping", "disposing"} ~> phase = "exited"
=============================================================================
