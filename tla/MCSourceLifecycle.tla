------------------------- MODULE MCSourceLifecycle -------------------------
(* SourceLifecycle with the daemon and one CLI process, and the thresholds *)
(* of health.rs scaled down: of the two intervals the window holds enough  *)
(* cycles for every verdict with the short one only.                       *)
EXTENDS SourceLifecycle

CONSTANTS daemon, cli

MCPollers   == {daemon, cli}
MCAlone     == {daemon}
MCIntervals == {1, 3}
=============================================================================
