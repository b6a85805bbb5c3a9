---------------------------- MODULE MCHillclimbJob ----------------------------
(* Instances of HillclimbJob for TLC: a single search with a record beside *)
(* its status, which the sync copies on full ticks only; and a job that    *)
(* runs one search or a fleet of two.                                      *)
EXTENDS HillclimbJob

CONSTANTS s1, s2

MCSingle == <<<<s1, "status">>, <<s1, "other">>>>
MCFleet  == <<<<s1, "status">>, <<s2, "status">>>>
================================================================================
