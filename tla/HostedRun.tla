------------------------------- MODULE HostedRun -------------------------------
(***************************************************************************)
(* What a hosted hillclimb job promises the readers of its bucket: a record*)
(* they see was written by the search, is never replaced by an older one,  *)
(* and once the job has returned its result it is the last one.  A job that*)
(* ends otherwise promises nothing more.                                   *)
(***************************************************************************)
EXTENDS Naturals

CONSTANT Files      \* the records of the run's searches

VARIABLES
    produced,   \* versions of each record the searches have written
    published,  \* the version in the bucket, 0 for none
    ended       \* "no", "result", "otherwise"

vars == <<produced, published, ended>>

Init ==
    /\ produced = [f \in Files |-> 0]
    /\ published = [f \in Files |-> 0]
    /\ ended = "no"

Produce ==
    /\ ended = "no"
    /\ \E changed \in SUBSET Files :
          produced' = [f \in Files |-> produced[f] + IF f \in changed THEN 1 ELSE 0]
    /\ UNCHANGED <<published, ended>>

Put(f) == \E v \in published[f]..produced[f] : published' = [published EXCEPT ![f] = v]

Publish(f) == ended = "no" /\ Put(f) /\ UNCHANGED <<produced, ended>>

Return ==
    /\ ended = "no" /\ ended' = "result"
    /\ published = produced
    /\ UNCHANGED <<produced, published>>

(* The upload it failed in may have been taken.                            *)
Fail ==
    /\ ended = "no" /\ ended' = "otherwise"
    /\ UNCHANGED published \/ \E f \in Files : Put(f)
    /\ UNCHANGED produced

Next == Produce \/ (\E f \in Files : Publish(f)) \/ Return \/ Fail

Spec == Init /\ [][Next]_vars
================================================================================
