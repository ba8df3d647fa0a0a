-------------------------- MODULE MCHardwareMonitor --------------------------
(* Instances of HardwareMonitor for TLC.                                    *)
EXTENDS HardwareMonitor

CONSTANTS s1, s2

\* One sensor on each of two nodes.
OneEach == [s \in Sensors |-> IF s = s1 THEN 1 ELSE 2]
=============================================================================
