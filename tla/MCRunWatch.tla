------------------------------- MODULE MCRunWatch -------------------------------
(* An instance of RunWatch for TLC: two items, the second of them failing.        *)
EXTENDS RunWatch

MCBad == {2}
================================================================================
