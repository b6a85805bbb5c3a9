------------------------------ MODULE MCLocalState ------------------------------
(* An instance of LocalState for TLC: two processes, two profiles of one           *)
(* workspace, three commands.                                                      *)
EXTENDS LocalState

================================================================================
