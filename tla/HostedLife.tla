----------------------------- MODULE HostedLife -----------------------------
(***************************************************************************)
(* The life of one hosted service as the modules SmartMonitor and          *)
(* HardwareMonitor assume it of the generic host: the steps their variable *)
(* host may take, whoever takes them.                                      *)
(***************************************************************************)
VARIABLE life

Step(from, to) == life \in from /\ life' \in to

Init == life = "created"

Next ==
    \/ Step({"created"}, {"started", "failed"})       \* StartAsync
    \/ Step({"started"}, {"serving"})                 \* Kestrel has started
    \/ Step({"serving"}, {"stopping"})                \* StopAsync is called
    \/ Step({"stopping"}, {"stopped", "stopFailed", "abandoned"})
    \/ Step({"created", "failed", "started", "stopped", "stopFailed", "abandoned"},
            {"disposing", "disposed"})                \* the container disposes
    \/ Step({"disposing"}, {"disposed", "disposeFailed"})

LifeSpec == Init /\ [][Next]_life
=============================================================================
