--------------------------- MODULE MCSmartMonitor ---------------------------
(* Instances of SmartMonitor for TLC.                                      *)
EXTENDS SmartMonitor

CONSTANTS d1, d2, d3, n1, n2

\* Two drives behind one adapter share a name, the third has its own.
SharedName == [d \in Devices |-> IF d = d3 THEN n2 ELSE n1]

\* Two drives with names of their own.
OwnName == [d \in Devices |-> IF d = d1 THEN n1 ELSE n2]
=============================================================================
