--------------------------- MODULE MCProbeProcess ---------------------------
(* Small values for ProbeProcess: a bound twice SLOW_PROBE, suspensions of  *)
(* up to SLOW_PROBE, a wall clock set back or forward by as much, and a day *)
(* so short that every probe may cross midnight.                            *)
EXTENDS ProbeProcess

MCSpawnTimes == {0, 5, 16, 17}
MCSteps == {-2, 0, 2}
=============================================================================
