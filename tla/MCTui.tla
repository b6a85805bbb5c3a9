--------------------------------- MODULE MCTui ---------------------------------
(* An instance of Tui for TLC: two profiles, workspaces and projects, a target.   *)
EXTENDS Tui

CONSTANTS p, q, v, w, a, b, t
================================================================================
