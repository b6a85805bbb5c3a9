----------------------------- MODULE WriteOutcome -----------------------------
(***************************************************************************)
(* What a deployment promises about one definition write, whatever happens *)
(* to its requests: the meaning of the statuses of a DeploymentResult.     *)
(*                                                                         *)
(*   succeeded   the platform held the submitted definition                *)
(*   unchanged   the same, and this call wrote nothing                     *)
(*   failed      the write was not taken and never will be - unless the    *)
(*               call says it missed the answer (excused)                  *)
(*   uncertain   nothing is known                                          *)
(*                                                                         *)
(* The write is applied at most once, and every call is reported once.     *)
(***************************************************************************)
VARIABLES
    outcome,    \* "open" until the call reports
    effect,     \* the write on the platform: "none", "possible", "applied"
    backed,     \* the platform held the definition at some instant
    excused     \* the call missed an answer and reported failed

vars == <<outcome, effect, backed, excused>>

Init ==
    /\ outcome = "open" /\ effect = "none"
    /\ backed \in BOOLEAN /\ excused = FALSE

(* The write is on its way; only one that was refused is sent again.       *)
Issue ==
    /\ outcome = "open" /\ effect = "none"
    /\ effect' = "possible"
    /\ UNCHANGED <<outcome, backed, excused>>

Refuse ==
    /\ effect = "possible" /\ effect' = "none"
    /\ UNCHANGED <<outcome, backed, excused>>

(* The platform applies it, which may be after the report.                 *)
Apply ==
    /\ effect = "possible" /\ effect' = "applied"
    /\ backed' = TRUE
    /\ UNCHANGED <<outcome, excused>>

(* Somebody else writes the same definition.                               *)
Back == backed' = TRUE /\ UNCHANGED <<outcome, effect, excused>>

Report ==
    /\ outcome = "open"
    /\ \/ outcome' = "succeeded" /\ backed /\ UNCHANGED <<effect, excused>>
       \/ outcome' = "unchanged" /\ backed /\ effect = "none" /\ UNCHANGED <<effect, excused>>
       \/ outcome' = "failed" /\ effect # "applied" /\ effect' = "none" /\ UNCHANGED excused
       \/ outcome' = "failed" /\ excused' = TRUE /\ UNCHANGED effect
       \/ outcome' = "uncertain" /\ UNCHANGED <<effect, excused>>
    /\ UNCHANGED backed

Next == Issue \/ Refuse \/ Apply \/ Back \/ Report

SafeSpec == Init /\ [][Next]_vars

Spec == SafeSpec /\ WF_vars(Report)
================================================================================
