-------------------------- MODULE ProjectReportProofs --------------------------
(***************************************************************************)
(* What the report of a deployment attempt says, proved for every project, *)
(* every number of jobs and any number of Ctrl-C, on top of the inductive  *)
(* invariant of ProjectDeployProofs.                                       *)
(*                                                                         *)
(* Within keeps the main thread inside the plan; Errors ties bad rows to   *)
(* the report's error; Settled says which planned targets are done at each *)
(* phase; Contained counts the workflow writes after a failure; Steady and *)
(* Counted follow the shared steps through the preparation of one workflow *)
(* after the other, by the position the preparation has reached. Manned    *)
(* says what the futures of the pool are up to.                            *)
(***************************************************************************)
EXTENDS ProjectDeployProofs, FiniteSetTheorems, WellFoundedInduction

PlannedSteps == UNION {Elements(StepsOf[w]) : w \in Elements(plan.workflows)}

Within ==
    /\ phase = "functions" => Elements(todo) \subseteq Elements(plan.functions)
    /\ phase \in {"prepare", "adopt", "submit"} => Elements(todo) \subseteq Elements(plan.workflows)
    /\ phase = "apps" => Elements(todo) \subseteq Elements(plan.apps)
    /\ phase = "prepare" => Elements(steps) \subseteq PlannedSteps
    /\ phase = "submit" => Elements(todo) \subseteq Elements(changed)
    /\ Elements(changed) \subseteq Elements(plan.workflows)
    /\ pending \subseteq Elements(changed)

Errors ==
    /\ \A t \in Targets : status[t] \in Bad => error
    /\ phase \in Early => \A t \in Targets : status[t] \notin Bad
    /\ phase = "draining" => error
    /\ \A t \in Targets : busy[t] = "queued" => Pool

--------------------------------------------------------------------------------
(* The plan: no target outside it is touched.                              *)

(* The lists the main thread works through are sequences of targets.       *)
LEMMA Lists ==
    ASSUME TypeOK
    PROVE  /\ todo \in Seq(Targets) /\ steps \in Seq(Targets) /\ changed \in Seq(Targets)
           /\ plan.functions \in Seq(Targets) /\ plan.workflows \in Seq(Targets) /\ plan.apps \in Seq(Targets)
           /\ busy \in [Targets -> Works] /\ status \in [Targets -> Statuses] /\ writes \in [Targets -> Nat]
           /\ jobs \in 1..16
  BY PlanTyped, JobsAssumption DEF TypeOK

(* An empty sequence has no elements, any other its head and its tail's.   *)
LEMMA HeadAndTail ==
    ASSUME NEW S, NEW seq \in Seq(S)
    PROVE  /\ seq = <<>> <=> Elements(seq) = {}
           /\ seq # <<>> => Elements(seq) = {Head(seq)} \cup Elements(Tail(seq))
  <1>1. /\ Len(seq) \in Nat /\ DOMAIN seq = 1..Len(seq)
        /\ seq = <<>> <=> Len(seq) = 0
    OBVIOUS
  <1>2. ASSUME seq # <<>>
        PROVE  /\ Head(seq) = seq[1] /\ DOMAIN Tail(seq) = 1..(Len(seq) - 1)
               /\ \A i \in 1..(Len(seq) - 1) : Tail(seq)[i] = seq[i + 1]
    BY <1>2
  <1>3. ASSUME seq # <<>>
        PROVE  Elements(seq) \subseteq {Head(seq)} \cup Elements(Tail(seq))
    <2>1. ASSUME NEW i \in DOMAIN seq
          PROVE  i = 1 \/ (i - 1 \in 1..(Len(seq) - 1) /\ seq[i] = Tail(seq)[i - 1])
      BY <1>1, <1>2, <1>3
    <2> QED
      BY <1>2, <1>3, <2>1 DEF Elements
  <1>4. seq # <<>> => {Head(seq)} \cup Elements(Tail(seq)) \subseteq Elements(seq) /\ Elements(seq) # {}
    BY TailOnce
  <1>5. seq = <<>> => Elements(seq) = {}
    BY <1>1 DEF Elements
  <1> QED
    BY <1>3, <1>4, <1>5

(* What is planned, part by part.                                          *)
LEMMA PlannedParts ==
    /\ Elements(plan.functions) \subseteq Planned /\ Elements(plan.workflows) \subseteq Planned
    /\ Elements(plan.apps) \subseteq Planned /\ PlannedSteps \subseteq Planned
    /\ Planned = Elements(plan.functions) \cup Elements(plan.workflows) \cup Elements(plan.apps) \cup PlannedSteps
  BY DEF Planned, PlannedSteps

(* The target at hand is planned.                                          *)
LEMMA AtHandPlanned ==
    ASSUME TypeOK, Located, Within
    PROVE  /\ (Serial \/ phase \in {"prepare", "adopt", "submit"}) /\ todo # <<>> => Head(todo) \in Planned
           /\ phase \in {"prepare", "adopt", "submit"} /\ todo # <<>> => Head(todo) \in Elements(plan.workflows)
           /\ phase = "prepare" /\ steps # <<>> => Step \in PlannedSteps /\ Step \in Planned
           /\ pending \subseteq Elements(plan.workflows) /\ pending \subseteq Planned
  <1>1. /\ todo # <<>> => Head(todo) \in Elements(todo)
        /\ steps # <<>> => Step \in Elements(steps)
    BY Lists, TailOnce DEF Step
  <1> QED
    BY <1>1, PlannedParts DEF Within, Serial

(* The arguments of the attempt are fixed.                                 *)
LEMMA ArgsFixed == [Next]_vars => UNCHANGED args
  BY DEF Next, MainStep, WorkerStep, EnsureProject, BeginTarget, LookUp, FinishTarget, FunctionsDone, BeginStep,
         ReuseStep, MatchStep, WriteStep, LookUpStepFails, StepWritten, StepWriteFails, WorkflowPrepared,
         PreparationFails, AllPrepared, Compare, Adopt, AllAdopted, Submit, Collect, SubmitDone, AppsDone, Drained,
         PickUp, FinishWorkflow, Interrupt, Closed, vars, args

(* Targets a step may touch: those at hand and those of the pool.          *)
AtWork ==
    (IF Serial \/ phase \in {"prepare", "adopt", "submit"} THEN Serving(todo) ELSE {})
      \cup (IF phase = "prepare" THEN Serving(steps) ELSE {}) \cup pending

(* A step leaves every other target's row and writes alone.                *)
LEMMA OthersUntouched ==
    ASSUME TypeOK, Located, Occupied, [Next]_vars, NEW t \in Targets, t \notin AtWork
    PROVE  busy'[t] = busy[t] /\ status'[t] = status[t] /\ writes'[t] = writes[t]
  <1> USE DEF args, progress
  <1>1. /\ busy \in [Targets -> Works] /\ status \in [Targets -> Statuses] /\ writes \in [Targets -> Nat]
    BY Lists
  <1>2. /\ Serial /\ todo # <<>> => t # Head(todo)
        /\ phase \in {"prepare", "adopt", "submit"} /\ todo # <<>> => t # Head(todo)
        /\ phase = "prepare" /\ steps # <<>> => t # Step
        /\ t \notin pending
    BY DEF AtWork, Serving, Step
  <1>3. CASE EnsureProject \/ FunctionsDone \/ WorkflowPrepared \/ AllPrepared \/ Compare \/ AllAdopted
             \/ Collect \/ SubmitDone \/ AppsDone \/ Drained \/ UNCHANGED vars
    BY <1>3 DEF EnsureProject, FunctionsDone, WorkflowPrepared, AllPrepared, Compare, AllAdopted, Collect,
                SubmitDone, AppsDone, Drained, vars
  <1>4. CASE BeginTarget \/ LookUp \/ FinishTarget
    BY <1>1, <1>2, <1>4 DEF BeginTarget, LookUp, FinishTarget, Begin, StartWrite, End, Abort
  <1>5. CASE BeginStep \/ ReuseStep \/ MatchStep \/ WriteStep \/ StepWritten
    BY <1>1, <1>2, <1>5 DEF BeginStep, ReuseStep, MatchStep, WriteStep, StepWritten, LookingUp, Preparing,
                            Begin, StartWrite, NextStep, End
  <1>6. CASE LookUpStepFails \/ StepWriteFails \/ PreparationFails
    BY <1>1, <1>2, <1>6 DEF LookUpStepFails, StepWriteFails, PreparationFails, LookingUp, Preparing,
                            AbortStep, Abort, End
  <1>7. CASE Adopt \/ Submit
    BY <1>1, <1>2, <1>7 DEF Adopt, Submit, Submittable, Pool
  <1>8. ASSUME NEW w \in Targets, WorkerStep(w)
        PROVE  busy'[t] = busy[t] /\ status'[t] = status[t] /\ writes'[t] = writes[t]
    <2>1. CASE FinishWorkflow(w)
      BY <1>1, <1>2, <2>1 DEF FinishWorkflow, End
    <2>2. CASE PickUp(w) /\ w # t
      BY <1>1, <2>2 DEF PickUp, Begin
    <2>3. CASE PickUp(w) /\ w = t
      <3>1. t \in Active
        BY <2>3 DEF PickUp, Active
      <3>2. phase \in Phases /\ jobs \in 1..16
        BY Lists DEF TypeOK
      <3>3. CASE Serial
        BY <3>1, <3>3 DEF Occupied, AtWork
      <3>4. CASE phase = "prepare"
        BY <3>1, <3>4 DEF Occupied, AtWork
      <3>5. CASE ~Serial /\ phase # "prepare"
        BY <1>2, <3>1, <3>2, <3>5 DEF Occupied, Serial, Pool, Phases
      <3> QED
        BY <3>3, <3>4, <3>5
    <2> QED
      BY <1>8, <2>1, <2>2, <2>3 DEF WorkerStep
  <1>9. CASE Interrupt
    <2>1. CASE InterruptPool
      <3>1. t \notin Cancelled
        BY <1>2 DEF Cancelled
      <3> QED
        BY <1>1, <1>9, <2>1, <3>1 DEF Interrupt, InterruptPool
    <2> QED
      BY <1>1, <1>2, <1>9, <2>1
      DEF Interrupt, InterruptSerial, InterruptStep, InterruptPreparation, InterruptIdle, InterruptShutdown,
          Preparing, AbortStep, Abort, End
  <1> QED
    BY <1>3, <1>4, <1>5, <1>6, <1>7, <1>8, <1>9 DEF Next, MainStep, Closed

(* Every step keeps Within: a phase starts with its part of the plan, the  *)
(* changed workflows are among the planned, those pending among the changed.*)
LEMMA WithinStep ==
    ASSUME TypeOK, Located, Occupied, Within, [Next]_vars
    PROVE  Within'
  <1> USE DEF args, progress
  <1>1. plan' = plan /\ PlannedSteps' = PlannedSteps
    BY ArgsFixed DEF PlannedSteps
  <1>2. /\ todo \in Seq(Targets) /\ steps \in Seq(Targets) /\ changed \in Seq(Targets)
        /\ plan.workflows \in Seq(Targets)
    BY Lists
  <1>3. /\ todo # <<>> => Elements(Tail(todo)) \subseteq Elements(todo) /\ Head(todo) \in Elements(todo)
        /\ steps # <<>> => Elements(Tail(steps)) \subseteq Elements(steps)
        /\ plan.workflows # <<>> => Head(plan.workflows) \in Elements(plan.workflows)
    BY <1>2, TailOnce
  <1>4. ASSUME phase' \in {"ensure", "compare", "draining", "closed"}, UNCHANGED <<changed, pending>>
        PROVE  Within'
    BY <1>1, <1>4 DEF Within
  <1>5. ASSUME UNCHANGED <<phase, progress>> PROVE Within'
    BY <1>1, <1>5 DEF Within
  <1>6. \A w \in Elements(plan.workflows) : Elements(StepsOf[w]) \subseteq PlannedSteps
    BY DEF PlannedSteps
  <1>7. Elements(<<>>) = {}
    BY DEF Elements
  <1>8. CASE EnsureProject
    BY <1>1, <1>4, <1>8 DEF EnsureProject, Enter, Close, Within
  <1>9. CASE BeginTarget \/ BeginStep \/ WriteStep
    BY <1>5, <1>9 DEF BeginTarget, BeginStep, WriteStep
  <1>10. CASE LookUp
    BY <1>4, <1>5, <1>10 DEF LookUp, Abort, Close
  <1>11. CASE FinishTarget
    <2>1. CASE todo' = Tail(todo) /\ UNCHANGED <<phase, steps, changed, pending>>
      BY <1>1, <1>3, <1>11, <2>1 DEF FinishTarget, Within
    <2> QED
      BY <1>4, <1>11, <2>1 DEF FinishTarget, Abort, Close
  <1>12. CASE FunctionsDone
    <2>1. Elements(steps') \subseteq PlannedSteps
      BY <1>3, <1>6, <1>7, <1>12 DEF FunctionsDone
    <2> QED
      BY <1>1, <1>12, <2>1 DEF FunctionsDone, Enter, Within
  <1>13. CASE ReuseStep \/ MatchStep \/ StepWritten
    <2>1. phase = "prepare" /\ steps # <<>> /\ steps' = Tail(steps) /\ UNCHANGED <<phase, todo, changed, pending>>
      BY <1>13 DEF ReuseStep, MatchStep, StepWritten, LookingUp, Preparing, NextStep
    <2> QED
      BY <1>1, <1>3, <2>1 DEF Within
  <1>14. CASE LookUpStepFails \/ StepWriteFails \/ PreparationFails
    BY <1>4, <1>14 DEF LookUpStepFails, StepWriteFails, PreparationFails, AbortStep, Abort, Close
  <1>15. CASE WorkflowPrepared
    <2>1. /\ phase = "prepare" /\ todo # <<>> /\ todo' = Tail(todo) /\ UNCHANGED <<phase, changed, pending>>
          /\ steps' = IF Tail(todo) = <<>> THEN <<>> ELSE StepsOf[Head(Tail(todo))]
      BY <1>15 DEF WorkflowPrepared, Preparing
    <2>2. Tail(todo) \in Seq(Targets)
      BY <1>2, <2>1
    <2>3. Tail(todo) # <<>> => Head(Tail(todo)) \in Elements(Tail(todo))
      BY <2>2, TailOnce
    <2>4. Elements(steps') \subseteq PlannedSteps
      BY <1>3, <1>6, <1>7, <2>1, <2>3 DEF Within
    <2> QED
      BY <1>1, <1>3, <2>1, <2>4 DEF Within
  <1>16. CASE AllPrepared \/ AppsDone \/ Drained
    BY <1>4, <1>16 DEF AllPrepared, AppsDone, Drained
  <1>17. CASE Compare
    BY <1>1, <1>4, <1>17 DEF Compare, Enter, Close, Within
  <1>18. CASE Adopt
    <2>1. /\ phase = "adopt" /\ todo # <<>> /\ todo' = Tail(todo) /\ Head(todo) \in Targets
          /\ changed' \in {changed, Append(changed, Head(todo))} /\ UNCHANGED <<phase, pending>>
      BY <1>18, AtHand DEF Adopt
    <2>2. Elements(changed') \subseteq Elements(changed) \cup {Head(todo)} /\ Elements(changed) \subseteq Elements(changed')
      <3>1. Elements(Append(changed, Head(todo))) = Elements(changed) \cup {Head(todo)}
        BY <1>2, <2>1, AppendOnce
      <3> QED
        BY <2>1, <3>1
    <2> QED
      BY <1>1, <1>3, <2>1, <2>2 DEF Within
  <1>19. CASE AllAdopted
    BY <1>1, <1>19 DEF AllAdopted, Enter, Within
  <1>20. CASE Submit
    <2>1. /\ phase = "submit" /\ todo # <<>> /\ todo' = Tail(todo) /\ pending' = pending \cup {Head(todo)}
          /\ UNCHANGED <<phase, changed>>
      BY <1>20 DEF Submit, Submittable, Pool
    <2> QED
      BY <1>1, <1>3, <2>1 DEF Within
  <1>21. CASE Collect
    <2>1. pending' \subseteq pending /\ UNCHANGED <<phase, todo, steps, changed>>
      BY <1>21 DEF Collect
    <2> QED
      BY <1>1, <2>1 DEF Within
  <1>22. CASE SubmitDone
    BY <1>1, <1>4, <1>22 DEF SubmitDone, Enter, Close, SelectedApps, Within
  <1>23. ASSUME NEW w \in Targets, WorkerStep(w) PROVE Within'
    BY <1>5, <1>23 DEF WorkerStep, PickUp, FinishWorkflow
  <1>24. CASE Interrupt
    BY <1>4, <1>24
    DEF Interrupt, InterruptSerial, InterruptStep, InterruptPreparation, InterruptIdle, InterruptPool,
        InterruptShutdown, AbortStep, Abort, Close, Shutdown
  <1>25. CASE UNCHANGED vars
    BY <1>5, <1>25 DEF vars
  <1> QED
    BY <1>8, <1>9, <1>10, <1>11, <1>12, <1>13, <1>14, <1>15, <1>16, <1>17, <1>18, <1>19, <1>20,
       <1>21, <1>22, <1>23, <1>24, <1>25
    DEF Next, MainStep, Closed

(* Every step keeps the targets outside the plan untouched.                *)
LEMMA OnlySelectedStep ==
    ASSUME TypeOK, Located, Occupied, Within, OnlySelected, [Next]_vars
    PROVE  OnlySelected'
  <1>1. Planned' = Planned
    BY ArgsFixed DEF Planned, args
  <1>2. AtWork \subseteq Planned
    BY AtHandPlanned DEF AtWork, Serving, Step
  <1>3. \A t \in Targets \ Planned : status'[t] = status[t] /\ writes'[t] = writes[t]
    BY <1>2, OthersUntouched
  <1> QED
    BY <1>1, <1>3 DEF OnlySelected

--------------------------------------------------------------------------------
(* Errors: a bad row comes with the report's error.                        *)

(* Every step keeps Errors.                                                *)
LEMMA ErrorsStep ==
    ASSUME TypeOK, Located, Occupied, Within, Errors, [Next]_vars
    PROVE  Errors'
  <1> USE DEF args, progress
  <1>1. /\ busy \in [Targets -> Works] /\ status \in [Targets -> Statuses] /\ writes \in [Targets -> Nat]
        /\ jobs \in 1..16 /\ phase \in Phases
    BY Lists DEF TypeOK
  <1>2. jobs' = jobs
    BY ArgsFixed
  <1>3. /\ Preparatory \subseteq Early /\ "compare" \in Early /\ "adopt" \in Early
        /\ \A p \in {"submit", "apps", "draining", "closed"} : p \notin Early
        /\ \A p \in {"ensure", "functions", "prepare"} : p \in Preparatory
    BY DEF Early, Preparatory
  (* An exception sets the error.                                          *)
  <1>4. ASSUME phase' = "closed", error' = TRUE, \A t \in Targets : busy'[t] # "queued"
        PROVE  Errors'
    BY <1>3, <1>4 DEF Errors
  <1>5. ~Pool => \A t \in Targets : busy[t] # "queued"
    BY DEF Errors
  <1>6. ASSUME ~Pool, NEW t \in Targets, NEW outcome, Abort(t, outcome)
        PROVE  Errors'
    BY <1>1, <1>4, <1>5, <1>6 DEF Abort, End, Close
  <1>7. ASSUME phase = "prepare", todo # <<>>, steps # <<>>, NEW outcome, AbortStep(outcome)
        PROVE  Errors'
    BY <1>1, <1>4, <1>5, <1>7 DEF AbortStep, Close, Pool
  (* Where the main thread goes on no row gets worse.                      *)
  <1>8. ASSUME phase' \in Early => phase \in Early, phase' # "draining", error' = error, Pool => Pool',
               \A t \in Targets : status'[t] \in Bad => status[t] \in Bad,
               \A t \in Targets : busy'[t] = "queued" => busy[t] = "queued"
        PROVE  Errors'
    BY <1>8 DEF Errors
  <1>9. "unattempted" \notin Bad /\ "succeeded" \notin Bad /\ "unchanged" \notin Bad /\ Good \cap Bad = {}
    BY DEF Good, Bad
  <1>10. CASE EnsureProject
    BY <1>3, <1>4, <1>5, <1>8, <1>10 DEF EnsureProject, Enter, Close, Pool
  <1>11. CASE BeginTarget
    <2>1. Head(todo) \in Targets
      BY <1>11, AtHand DEF BeginTarget
    <2>2. UNCHANGED <<phase, error, jobs>> /\ phase # "draining"
      BY <1>2, <1>11 DEF BeginTarget, Serial
    <2>3. ASSUME NEW t \in Targets
          PROVE  /\ status'[t] \in Bad => status[t] \in Bad
                 /\ busy'[t] = "queued" => busy[t] = "queued"
      BY <1>1, <1>9, <1>11, <2>1 DEF BeginTarget, Begin
    <2> QED
      BY <1>8, <2>2, <2>3 DEF Pool
  <1>12. CASE LookUp
    <2>1. Head(todo) \in Targets /\ ~Pool
      BY <1>12, AtHand DEF LookUp, Serial, Pool
    <2>2. CASE StartWrite(Head(todo)) /\ UNCHANGED <<phase, error, status>>
      <3>1. phase # "draining"
        BY <1>12 DEF LookUp, Serial
      <3>2. \A t \in Targets : busy'[t] = "queued" => busy[t] = "queued"
        BY <1>1, <2>1, <2>2 DEF StartWrite
      <3> QED
        BY <1>2, <1>8, <2>2, <3>1, <3>2 DEF Pool
    <2> QED
      BY <1>6, <1>12, <2>1, <2>2 DEF LookUp
  <1>13. CASE FinishTarget
    <2>1. Head(todo) \in Targets /\ ~Pool /\ phase # "draining"
      BY <1>13, AtHand DEF FinishTarget, Serial, Pool
    <2>2. CASE End(Head(todo), "succeeded") /\ UNCHANGED <<phase, error>>
      <3>1. ASSUME NEW t \in Targets
            PROVE  /\ status'[t] \in Bad => status[t] \in Bad
                   /\ busy'[t] = "queued" => busy[t] = "queued"
        BY <1>1, <1>9, <2>1, <2>2 DEF End
      <3> QED
        BY <1>2, <1>8, <2>1, <2>2, <3>1 DEF Pool
    <2> QED
      BY <1>6, <1>13, <2>1, <2>2 DEF FinishTarget
  <1>14. CASE FunctionsDone \/ WorkflowPrepared \/ AllPrepared
    BY <1>3, <1>8, <1>14 DEF FunctionsDone, WorkflowPrepared, AllPrepared, Enter, Preparing, Pool
  <1>15. CASE BeginStep \/ WriteStep
    <2>1. phase = "prepare" /\ UNCHANGED <<phase, error>> /\ Step \in Targets
      BY <1>15, AtHand DEF BeginStep, WriteStep, LookingUp, Preparing
    <2>2. ASSUME NEW t \in Targets
          PROVE  /\ status'[t] \in Bad => status[t] \in Bad
                 /\ busy'[t] = "queued" => busy[t] = "queued"
      BY <1>1, <1>9, <1>15, <2>1 DEF BeginStep, WriteStep, Begin, StartWrite
    <2> QED
      BY <1>8, <2>1, <2>2 DEF Pool
  <1>16. ASSUME phase = "prepare", todo # <<>>, steps # <<>>, NEW outcome \in Good, NextStep(outcome)
         PROVE  Errors'
    <2>1. Step \in Targets
      BY <1>16, AtHand
    <2>2. ASSUME NEW t \in Targets
          PROVE  /\ status'[t] \in Bad => status[t] \in Bad
                 /\ busy'[t] = "queued" => busy[t] = "queued"
      BY <1>1, <1>9, <1>16, <2>1 DEF NextStep, End
    <2> QED
      BY <1>8, <1>16, <2>2 DEF NextStep, Pool
  <1>17. CASE ReuseStep \/ MatchStep \/ StepWritten
    BY <1>16, <1>17 DEF ReuseStep, MatchStep, StepWritten, LookingUp, Preparing, Good
  <1>18. CASE LookUpStepFails \/ StepWriteFails
    BY <1>7, <1>18 DEF LookUpStepFails, StepWriteFails, LookingUp, Preparing
  <1>19. CASE PreparationFails
    BY <1>6, <1>19, AtHand DEF PreparationFails, Preparing, Pool
  <1>20. CASE Compare
    BY <1>3, <1>4, <1>5, <1>8, <1>20 DEF Compare, Enter, Close, Pool
  <1>21. CASE Adopt
    <2>1. Head(todo) \in Targets /\ phase = "adopt" /\ UNCHANGED <<phase, error, busy>>
      BY <1>21, AtHand DEF Adopt
    <2>2. \A t \in Targets : status'[t] \in Bad => status[t] \in Bad
      BY <1>1, <1>9, <1>21, <2>1 DEF Adopt
    <2> QED
      BY <1>8, <2>1, <2>2 DEF Pool
  <1>22. CASE AllAdopted
    BY <1>3, <1>8, <1>22 DEF AllAdopted, Enter, Pool
  <1>23. CASE Submit
    <2>1. Pool /\ Pool' /\ phase' = "submit" /\ UNCHANGED <<status, error>>
      BY <1>2, <1>23 DEF Submit, Pool
    <2> QED
      BY <1>3, <2>1 DEF Errors
  <1>24. CASE Collect
    BY <1>2, <1>8, <1>24 DEF Collect, Pool
  <1>25. CASE SubmitDone
    <2>1. \A t \in Targets : busy[t] # "queued"
      <3>1. CASE jobs = 1
        BY <1>5, <3>1 DEF Pool
      <3>2. CASE jobs # 1
        BY <1>1, <1>25, <3>2 DEF SubmitDone, Occupied, Pool, Active
      <3> QED
        BY <3>1, <3>2
    <2>2. phase' \notin Early /\ phase' # "draining" /\ UNCHANGED <<busy, status>> /\ (error => error')
      BY <1>3, <1>25 DEF SubmitDone, Enter, Close
    <2> QED
      BY <2>1, <2>2 DEF Errors
  <1>26. CASE AppsDone \/ Drained
    BY <1>3, <1>8, <1>26 DEF AppsDone, Drained, Pool
  <1>27. ASSUME NEW w \in Targets, PickUp(w) PROVE Errors'
    <2>1. Pool /\ Pool' /\ UNCHANGED <<phase, error>>
      BY <1>2, <1>27 DEF PickUp, Errors, Pool
    <2>2. ASSUME NEW t \in Targets
          PROVE  /\ status'[t] \in Bad => status[t] \in Bad
                 /\ busy'[t] = "queued" => busy[t] = "queued"
      BY <1>1, <1>9, <1>27 DEF PickUp, Begin
    <2> QED
      BY <1>8, <2>1, <2>2 DEF Pool
  <1>28. ASSUME NEW w \in Targets, FinishWorkflow(w) PROVE Errors'
    <2>1. phase' = phase /\ phase \notin Early /\ (error => error')
      BY <1>3, <1>28, Alone DEF FinishWorkflow, Early, Preparatory, Occupied, Pool
    <2>2. ASSUME NEW t \in Targets
          PROVE  /\ status'[t] \in Bad => error'
                 /\ busy'[t] = "queued" => busy[t] = "queued"
      BY <1>1, <1>28 DEF FinishWorkflow, End, Errors
    <2> QED
      BY <1>2, <2>1, <2>2 DEF Errors, Pool
  <1>29. CASE Interrupt
    <2>1. CASE InterruptSerial
      BY <1>6, <2>1, AtHand DEF InterruptSerial, Serial, Pool
    <2>2. CASE InterruptStep
      BY <1>7, <2>2 DEF InterruptStep, Preparing
    <2>3. CASE InterruptPreparation
      BY <1>6, <2>3, AtHand DEF InterruptPreparation, Preparing, Pool
    <2>4. CASE InterruptIdle \/ InterruptShutdown
      BY <1>4, <1>5, <2>4 DEF InterruptIdle, InterruptShutdown, Close, Pool
    <2>5. CASE InterruptPool
      <3>1. ASSUME NEW t \in Targets PROVE busy'[t] # "queued"
        BY <1>1, <2>5 DEF InterruptPool, Cancelled, Occupied, Active
      <3> QED
        BY <1>3, <2>5, <3>1 DEF InterruptPool, Shutdown, Errors
    <2> QED
      BY <1>29, <2>1, <2>2, <2>3, <2>4, <2>5 DEF Interrupt
  <1>30. CASE UNCHANGED vars
    BY <1>30 DEF vars, Errors, Pool
  <1> QED
    BY <1>10, <1>11, <1>12, <1>13, <1>14, <1>15, <1>17, <1>18, <1>19, <1>20, <1>21, <1>22, <1>23,
       <1>24, <1>25, <1>26, <1>27, <1>28, <1>29, <1>30
    DEF Next, MainStep, WorkerStep, Closed

--------------------------------------------------------------------------------
(* How the phases follow each other, and what each leaves alone.           *)

(* A phase is followed by the next, or by the end.                         *)
LEMMA PhaseMoves ==
    ASSUME [Next]_vars
    PROVE  \/ phase' = phase
           \/ phase' = "closed"
           \/ phase = "ensure" /\ phase' = "functions" /\ EnsureProject
           \/ phase = "functions" /\ phase' = "prepare" /\ FunctionsDone
           \/ phase = "prepare" /\ phase' = "compare" /\ AllPrepared
           \/ phase = "compare" /\ phase' = "adopt" /\ Compare
           \/ phase = "adopt" /\ phase' = "submit" /\ AllAdopted
           \/ phase = "submit" /\ phase' = "apps" /\ SubmitDone
           \/ phase = "submit" /\ phase' = "draining" /\ InterruptPool
  <1>1. CASE EnsureProject \/ FunctionsDone \/ AllPrepared \/ Compare \/ AllAdopted \/ SubmitDone
             \/ AppsDone \/ Drained
    BY <1>1 DEF EnsureProject, FunctionsDone, AllPrepared, Compare, AllAdopted, SubmitDone, AppsDone, Drained,
                Enter, Close
  <1>2. CASE Interrupt
    BY <1>2 DEF Interrupt, InterruptSerial, InterruptStep, InterruptPreparation, InterruptIdle, InterruptPool,
                InterruptShutdown, AbortStep, Abort, Close, Shutdown, Pool
  <1>3. CASE \E w \in Targets : WorkerStep(w)
    BY <1>3 DEF WorkerStep, PickUp, FinishWorkflow
  <1>4. CASE BeginTarget \/ LookUp \/ FinishTarget \/ PreparationFails \/ Adopt \/ Submit \/ Collect \/ UNCHANGED vars
    BY <1>4 DEF BeginTarget, LookUp, FinishTarget, PreparationFails, Adopt, Submit, Collect, Abort, Close, vars
  <1>5. CASE BeginStep \/ ReuseStep \/ MatchStep \/ WriteStep \/ LookUpStepFails \/ StepWritten
             \/ StepWriteFails \/ WorkflowPrepared
    BY <1>5 DEF BeginStep, ReuseStep, MatchStep, WriteStep, LookUpStepFails, StepWritten, StepWriteFails,
                WorkflowPrepared, NextStep, AbortStep, Close
  <1> QED
    BY <1>1, <1>2, <1>3, <1>4, <1>5 DEF Next, MainStep, Closed

(* While a workflow is prepared its steps are at work, one after the other.*)
LEMMA WhilePreparing ==
    ASSUME TypeOK, Located, Occupied, Errors, [Next]_vars, phase = "prepare"
    PROVE  \/ BeginStep \/ ReuseStep \/ MatchStep \/ WriteStep \/ StepWritten
           \/ WorkflowPrepared \/ AllPrepared
           \/ phase' = "closed"
           \/ UNCHANGED vars
  <1>1. ASSUME NEW w \in Targets PROVE ~WorkerStep(w)
    BY Alone DEF WorkerStep, PickUp, FinishWorkflow, Errors, Pool
  <1>2. ~Serial /\ ~Pool
    BY DEF Serial, Pool
  <1> QED
    BY <1>1, <1>2
    DEF Next, MainStep, EnsureProject, BeginTarget, LookUp, FinishTarget, FunctionsDone, LookUpStepFails,
        StepWriteFails, PreparationFails, Compare, Adopt, AllAdopted, Submit, Collect, SubmitDone, AppsDone, Drained,
        Interrupt, InterruptSerial, InterruptStep, InterruptPreparation, InterruptIdle, InterruptPool,
        InterruptShutdown, AbortStep, Abort, Close, Closed

(* Steps are deployed while workflows are prepared and at no other time,   *)
(* functions before, apps after.                                           *)
LEMMA NotAtWork ==
    ASSUME TypeOK, Located, Occupied
    PROVE  /\ phase # "prepare" => AtWork \cap Steps = {}
           /\ phase \in {"prepare", "compare", "adopt", "submit"} => AtWork \cap Elements(Functions) = {}
           /\ phase \in {"compare", "draining", "closed"} => AtWork = pending
  <1>1. phase \in Phases /\ pending \subseteq Elements(Workflows)
    BY DEF TypeOK, Located
  <1>2. todo # <<>> =>
          /\ phase = "functions" => Head(todo) \in Elements(Functions)
          /\ phase \in {"prepare", "adopt", "submit"} => Head(todo) \in Elements(Workflows)
          /\ phase = "apps" => Head(todo) \in Elements(Apps)
    BY TailTyped DEF Located
  <1>3. phase = "prepare" /\ steps # <<>> => Head(steps) \in Steps
    BY TailTyped DEF Located
  <1>4. phase # "prepare" => AtWork \cap Steps = {}
    BY <1>1, <1>2, Disjoint DEF AtWork, Serving, Serial
  <1>5. phase \in {"prepare", "compare", "adopt", "submit"} => AtWork \cap Elements(Functions) = {}
    BY <1>1, <1>2, <1>3, Disjoint DEF AtWork, Serving, Serial
  <1> QED
    BY <1>4, <1>5 DEF AtWork, Serial

(* The platform's steps and the cache change with the steps only.          *)
LEMMA PlatformUntouched ==
    ASSUME [Next]_vars, phase # "prepare"
    PROVE  UNCHANGED <<deployed, cache>>
  BY DEF Next, MainStep, WorkerStep, EnsureProject, BeginTarget, LookUp, FinishTarget, FunctionsDone, BeginStep,
         ReuseStep, MatchStep, WriteStep, LookUpStepFails, StepWritten, StepWriteFails, WorkflowPrepared,
         PreparationFails, AllPrepared, Compare, Adopt, AllAdopted, Submit, Collect, SubmitDone, AppsDone, Drained,
         PickUp, FinishWorkflow, Closed, vars, LookingUp, Preparing,
         Interrupt, InterruptSerial, InterruptStep, InterruptPreparation, InterruptIdle, InterruptPool,
         InterruptShutdown

(* The step that closes the report begins no write, and unless the apps    *)
(* are done it sets the error; a closed report's error stays.              *)
LEMMA Closing ==
    ASSUME TypeOK, Errors, [Next]_vars, phase' = "closed"
    PROVE  UNCHANGED <<writes, late>> /\ (error' \/ AppsDone \/ phase = "closed") /\ (error => error')
  <1>1. CASE \E w \in Targets : WorkerStep(w)
    BY <1>1 DEF WorkerStep, PickUp, FinishWorkflow, Errors, Pool
  <1>2. CASE Interrupt
    BY <1>2 DEF Interrupt, InterruptSerial, InterruptStep, InterruptPreparation, InterruptIdle, InterruptPool,
                InterruptShutdown, AbortStep, Abort, Close, Shutdown
  <1>3. CASE EnsureProject \/ BeginTarget \/ LookUp \/ FinishTarget \/ FunctionsDone \/ Compare \/ Adopt
             \/ AllAdopted \/ Submit \/ Collect \/ SubmitDone \/ AppsDone \/ Drained
    BY <1>3 DEF EnsureProject, BeginTarget, LookUp, FinishTarget, FunctionsDone, Compare, Adopt, AllAdopted,
                Submit, Collect, SubmitDone, AppsDone, Drained, Enter, Abort, Close, Pool, Serial, Errors
  <1>4. CASE BeginStep \/ ReuseStep \/ MatchStep \/ WriteStep \/ LookUpStepFails \/ StepWritten
             \/ StepWriteFails \/ WorkflowPrepared \/ PreparationFails \/ AllPrepared
    BY <1>4 DEF BeginStep, ReuseStep, MatchStep, WriteStep, LookUpStepFails, StepWritten, StepWriteFails,
                WorkflowPrepared, PreparationFails, AllPrepared, NextStep, AbortStep, Abort, Close,
                LookingUp, Preparing
  <1>5. CASE UNCHANGED vars
    BY <1>5 DEF vars
  <1> QED
    BY <1>1, <1>2, <1>3, <1>4, <1>5 DEF Next, MainStep, Closed

--------------------------------------------------------------------------------
(* Stepped: the steps of all planned workflows come first.                 *)
AllSteps == \A s \in PlannedSteps : status[s] \in Good

(* A planned step that is not good yet is still to come.                   *)
Stepped ==
    /\ phase = "prepare" =>
         \A s \in PlannedSteps :
            \/ status[s] \in Good
            \/ s \in Elements(steps)
            \/ todo # <<>> /\ \E w \in Elements(Tail(todo)) : s \in Elements(StepsOf[w])
    /\ phase \in {"compare", "adopt", "submit", "apps", "draining"} => AllSteps
    /\ phase = "closed" => AllSteps \/ \A w \in Elements(Workflows) : writes[w] = 0

(* The steps of planned workflows are steps of the project.                *)
LEMMA PlannedStepsTyped ==
    ASSUME TypeOK
    PROVE  /\ PlannedSteps \subseteq Steps /\ Steps \subseteq Targets
           /\ Elements(plan.workflows) \subseteq Elements(Workflows)
           /\ \A w \in Elements(Workflows) : Elements(StepsOf[w]) \subseteq Steps
  BY PlanTyped, ProjectTyped DEF TypeOK, PlannedSteps, Steps

(* Every step keeps Stepped.                                               *)
LEMMA SteppedStep ==
    ASSUME TypeOK, Located, Occupied, Recorded, Within, Errors, Stepped, [Next]_vars
    PROVE  Stepped'
  <1> USE DEF args, progress
  <1>1. plan' = plan /\ PlannedSteps' = PlannedSteps
    BY ArgsFixed DEF PlannedSteps
  <1>2. PlannedSteps \subseteq Steps /\ Steps \subseteq Targets
    BY PlannedStepsTyped
  <1>3. status \in [Targets -> Statuses] /\ busy \in [Targets -> Works] /\ phase \in Phases
    BY Lists DEF TypeOK
  (* The report is closed before the comparison: no workflow was written.  *)
  <1>4. ASSUME phase \in Early, phase' = "closed" PROVE Stepped'
    <2>1. \A w \in Elements(Workflows) : writes'[w] = 0
      BY <1>4, Closing DEF Recorded
    <2> QED
      BY <1>4, <2>1 DEF Stepped
  <1>5. CASE phase # "prepare"
    <2>1. \A s \in PlannedSteps : status'[s] = status[s]
      BY <1>2, <1>5, NotAtWork, OthersUntouched
    <2>2. CASE phase \in {"compare", "adopt", "submit", "apps", "draining"}
      BY <1>1, <2>1, <2>2, PhaseMoves DEF Stepped, AllSteps
    <2>3. CASE phase = "closed"
      <3>1. phase' = "closed"
        BY <2>3, PhaseMoves
      <3>2. writes' = writes
        BY <3>1, Closing
      <3> QED
        BY <1>1, <2>1, <2>3, <3>1, <3>2 DEF Stepped, AllSteps
    <2>4. CASE phase \in {"ensure", "functions"}
      <3>1. CASE FunctionsDone
        <4>1. /\ phase' = "prepare" /\ todo' = plan.workflows
              /\ steps' = IF plan.workflows = <<>> THEN <<>> ELSE StepsOf[Head(plan.workflows)]
          BY <3>1 DEF FunctionsDone, Enter
        <4>2. ASSUME NEW s \in PlannedSteps
              PROVE  \/ s \in Elements(steps')
                     \/ todo' # <<>> /\ \E w \in Elements(Tail(todo')) : s \in Elements(StepsOf[w])
          <5>1. PICK w \in Elements(plan.workflows) : s \in Elements(StepsOf[w])
            BY DEF PlannedSteps
          <5>2. plan.workflows \in Seq(Targets)
            BY Lists
          <5>3. plan.workflows # <<>> /\ (w = Head(plan.workflows) \/ w \in Elements(Tail(plan.workflows)))
            BY <5>1, <5>2, HeadAndTail
          <5>4. CASE w = Head(plan.workflows)
            <6>1. steps' = StepsOf[w]
              BY <4>1, <5>3, <5>4
            <6> QED
              BY <5>1, <6>1
          <5>5. CASE w \in Elements(Tail(plan.workflows))
            <6>1. todo' = plan.workflows /\ Elements(Tail(todo')) = Elements(Tail(plan.workflows))
              BY <4>1
            <6> QED
              BY <5>1, <5>3, <5>5, <6>1
          <5> QED
            BY <5>3, <5>4, <5>5
        <4> QED
          BY <1>1, <4>1, <4>2 DEF Stepped
      <3>2. CASE phase' = "closed"
        BY <1>4, <2>4, <3>2 DEF Early, Preparatory
      <3>3. CASE phase' \in {"ensure", "functions"}
        BY <3>3 DEF Stepped
      <3> QED
        BY <2>4, <3>1, <3>2, <3>3, PhaseMoves
    <2> QED
      BY <1>3, <1>5, <2>2, <2>3, <2>4 DEF Phases
  <1>6. CASE phase = "prepare"
    <2>1. todo \in Seq(Targets) /\ steps \in Seq(Targets)
      BY Lists
    <2>2. CASE BeginStep \/ WriteStep
      <3>1. steps # <<>> /\ UNCHANGED <<phase, todo, steps>> /\ Step \in Elements(steps)
        BY <2>1, <2>2, TailOnce DEF BeginStep, WriteStep, LookingUp, Preparing, Step
      <3>2. \A s \in Targets : s # Step => status'[s] = status[s]
        BY <1>3, <2>2 DEF BeginStep, WriteStep, Begin
      <3> QED
        BY <1>1, <1>2, <1>6, <3>1, <3>2 DEF Stepped
    <2>3. CASE ReuseStep \/ MatchStep \/ StepWritten
      <3>1. PICK outcome \in Good : NextStep(outcome) /\ todo # <<>> /\ steps # <<>>
        BY <2>3 DEF ReuseStep, MatchStep, StepWritten, LookingUp, Preparing, Good
      <3>2. UNCHANGED <<phase, todo>> /\ steps' = Tail(steps) /\ Step \in Targets
        BY <1>6, <3>1, AtHand DEF NextStep
      <3>3. status'[Step] \in Good /\ \A s \in Targets : s # Step => status'[s] = status[s]
        BY <1>3, <3>1, <3>2 DEF NextStep, End
      <3>4. Elements(steps) = {Step} \cup Elements(steps')
        BY <2>1, <3>1, <3>2, HeadAndTail DEF Step
      <3> QED
        BY <1>1, <1>2, <1>6, <3>2, <3>3, <3>4 DEF Stepped
    <2>4. CASE WorkflowPrepared
      <3>1. /\ todo # <<>> /\ steps = <<>> /\ todo' = Tail(todo) /\ UNCHANGED <<phase, status>>
            /\ steps' = IF Tail(todo) = <<>> THEN <<>> ELSE StepsOf[Head(Tail(todo))]
        BY <2>4 DEF WorkflowPrepared, Preparing
      <3>2. Elements(steps) = {}
        BY <3>1 DEF Elements
      <3>3. Tail(todo) \in Seq(Targets)
        BY <2>1, <3>1
      <3>4. ASSUME NEW s \in PlannedSteps, status[s] \notin Good
            PROVE  \/ s \in Elements(steps')
                   \/ todo' # <<>> /\ \E w \in Elements(Tail(todo')) : s \in Elements(StepsOf[w])
        <4>1. PICK w \in Elements(Tail(todo)) : s \in Elements(StepsOf[w])
          BY <1>6, <3>2, <3>4 DEF Stepped
        <4>2. Tail(todo) # <<>> /\ (w = Head(Tail(todo)) \/ w \in Elements(Tail(Tail(todo))))
          BY <3>3, <4>1, HeadAndTail
        <4>3. CASE w = Head(Tail(todo))
          <5>1. steps' = StepsOf[w]
            BY <3>1, <4>2, <4>3
          <5> QED
            BY <4>1, <5>1
        <4>4. CASE w \in Elements(Tail(Tail(todo)))
          <5>1. todo' = Tail(todo) /\ Elements(Tail(todo')) = Elements(Tail(Tail(todo)))
            BY <3>1
          <5> QED
            BY <4>1, <4>2, <4>4, <5>1
        <4> QED
          BY <4>2, <4>3, <4>4
      <3> QED
        BY <1>1, <1>6, <3>1, <3>4 DEF Stepped
    <2>5. CASE AllPrepared
      <3>1. phase' = "compare" /\ todo = <<>> /\ UNCHANGED status
        BY <2>5 DEF AllPrepared
      <3>2. steps = <<>> /\ Elements(steps) = {}
        BY <1>6, <3>1 DEF Located, Elements
      <3> QED
        BY <1>1, <1>6, <3>1, <3>2 DEF Stepped, AllSteps
    <2>6. CASE phase' = "closed"
      BY <1>4, <1>6, <2>6 DEF Early, Preparatory
    <2>7. CASE UNCHANGED vars
      BY <1>1, <1>6, <2>7 DEF vars, Stepped
    <2> QED
      BY <1>6, <2>2, <2>3, <2>4, <2>5, <2>6, <2>7, WhilePreparing
  <1> QED
    BY <1>5, <1>6

--------------------------------------------------------------------------------
(* Settled: which planned targets are done.                                *)

(* A planned function or app that is not good yet is still to come; with   *)
(* the apps everything else is done.                                       *)
FunctionsSettled ==
    /\ phase = "functions" =>
         \A t \in Elements(plan.functions) : status[t] \in Good \/ t \in Elements(todo)
    /\ phase \in {"prepare", "compare", "adopt", "submit"} =>
         \A t \in Elements(plan.functions) : status[t] \in Good

(* A workflow is to be adopted, or changed, or done; a changed one is to   *)
(* be submitted, at work, done, or known as failed.                        *)
WorkflowsSettled ==
    /\ phase = "adopt" =>
         \A w \in Elements(plan.workflows) :
            status[w] \in Good \/ w \in Elements(todo) \/ w \in Elements(changed)
    /\ phase = "submit" =>
         \A w \in Elements(plan.workflows) :
            \/ w \in Elements(todo)
            \/ w \in pending /\ busy[w] # "idle"
            \/ status[w] \in Good
            \/ status[w] \in Bad /\ (w \in pending \/ failure)

AppsSettled ==
    /\ phase = "apps" => \A t \in Planned : status[t] \in Good \/ t \in Elements(todo)
    /\ phase = "closed" /\ ~error => \A t \in Planned : status[t] \in Good

Settled == FunctionsSettled /\ WorkflowsSettled /\ AppsSettled

(* Everything planned is a target.                                         *)
LEMMA PlannedTyped ==
    ASSUME TypeOK
    PROVE  /\ Planned \subseteq Targets
           /\ Elements(plan.functions) \subseteq Elements(Functions)
  <1>1. /\ Elements(plan.functions) \subseteq Targets /\ Elements(plan.workflows) \subseteq Targets
        /\ Elements(plan.apps) \subseteq Targets /\ PlannedSteps \subseteq Targets
    BY Lists, ElementsTyped, PlannedStepsTyped
  <1>2. Elements(plan.functions) \subseteq Elements(Functions)
    BY PlanTyped, ElementsTyped DEF TypeOK
  <1> QED
    BY <1>1, <1>2, PlannedParts

(* Functions and apps: where the main thread goes on, a target that is     *)
(* touched is still to come, or good.                                      *)
LEMMA SerialProgress ==
    ASSUME TypeOK, Located, Occupied, Errors, [Next]_vars, phase \in {"functions", "apps"}, phase' = phase,
           NEW t \in Targets, status[t] \in Good \/ t \in Elements(todo)
    PROVE  status'[t] \in Good \/ t \in Elements(todo')
  <1> USE DEF args, progress
  <1>1. /\ busy \in [Targets -> Works] /\ status \in [Targets -> Statuses] /\ todo \in Seq(Targets)
    BY Lists
  <1>2. todo # <<>> => Elements(todo) = {Head(todo)} \cup Elements(Tail(todo)) /\ Head(todo) \in Targets
    BY <1>1, HeadAndTail
  <1>3. CASE BeginTarget
    BY <1>1, <1>2, <1>3 DEF BeginTarget, Begin
  <1>4. CASE LookUp
    BY <1>4 DEF LookUp, Abort, Close
  <1>5. CASE FinishTarget
    <2>1. todo # <<>> /\ End(Head(todo), "succeeded") /\ todo' = Tail(todo)
      BY <1>5 DEF FinishTarget, Abort, Close
    <2>2. status'[Head(todo)] \in Good /\ (t # Head(todo) => status'[t] = status[t])
      BY <1>1, <1>2, <2>1 DEF End, Good
    <2> QED
      BY <1>2, <2>1, <2>2
  <1>6. ASSUME NEW w \in Targets PROVE ~WorkerStep(w)
    BY Alone DEF WorkerStep, PickUp, FinishWorkflow, Errors, Pool, Serial
  <1>7. CASE UNCHANGED vars
    BY <1>7 DEF vars
  <1> QED
    BY <1>3, <1>4, <1>5, <1>6, <1>7
    DEF Next, MainStep, EnsureProject, FunctionsDone, BeginStep, ReuseStep, MatchStep, WriteStep, LookUpStepFails,
        StepWritten, StepWriteFails, WorkflowPrepared, PreparationFails, AllPrepared, Compare, Adopt, AllAdopted,
        Submit, Collect, SubmitDone, AppsDone, Drained, LookingUp, Preparing, Pool, Enter, Interrupt, InterruptSerial,
        InterruptStep, InterruptPreparation, InterruptIdle, InterruptPool, InterruptShutdown, AbortStep, Abort,
        Close, Closed

(* Every step keeps FunctionsSettled.                                      *)
LEMMA FunctionsSettledStep ==
    ASSUME TypeOK, Located, Occupied, Errors, FunctionsSettled, [Next]_vars
    PROVE  FunctionsSettled'
  <1>1. plan' = plan /\ Elements(plan.functions) \subseteq Elements(Functions) /\ Elements(Functions) \subseteq Targets
    BY ArgsFixed, PlannedTyped, ProjectTyped DEF args
  <1>2. CASE phase \in {"prepare", "compare", "adopt", "submit"}
    <2>1. \A t \in Elements(plan.functions) : status'[t] = status[t]
      BY <1>1, <1>2, NotAtWork, OthersUntouched
    <2> QED
      BY <1>1, <1>2, <2>1, PhaseMoves DEF FunctionsSettled
  <1>3. CASE phase = "functions" /\ phase' = "functions"
    BY <1>1, <1>3, SerialProgress DEF FunctionsSettled
  <1>4. CASE FunctionsDone
    <2>1. Elements(todo) = {}
      BY <1>4 DEF FunctionsDone, Elements
    <2> QED
      BY <1>1, <1>4, <2>1 DEF FunctionsDone, Enter, FunctionsSettled
  <1>5. CASE EnsureProject
    BY <1>1, <1>5 DEF EnsureProject, Enter, Close, FunctionsSettled
  <1>6. CASE phase' \in {"ensure", "apps", "draining", "closed"}
    BY <1>6 DEF FunctionsSettled
  <1> QED
    BY <1>2, <1>3, <1>4, <1>5, <1>6, PhaseMoves DEF TypeOK, Phases

(* Every step keeps WorkflowsSettled.                                      *)
LEMMA WorkflowsSettledStep ==
    ASSUME TypeOK, Located, Occupied, Ordered, Within, Errors, WorkflowsSettled, [Next]_vars
    PROVE  WorkflowsSettled'
  <1> USE DEF args, progress
  <1>1. /\ plan' = plan /\ Elements(plan.workflows) \subseteq Targets
    BY ArgsFixed, Lists, ElementsTyped
  <1>2. /\ busy \in [Targets -> Works] /\ status \in [Targets -> Statuses]
        /\ todo \in Seq(Targets) /\ changed \in Seq(Targets)
    BY Lists
  <1>3. todo # <<>> => Elements(todo) = {Head(todo)} \cup Elements(Tail(todo)) /\ Head(todo) \in Targets
    BY <1>2, HeadAndTail
  <1>4. Elements(<<>>) = {}
    BY DEF Elements
  <1>5. CASE Compare
    BY <1>1, <1>5 DEF Compare, Enter, Close, WorkflowsSettled
  <1>6. CASE Adopt
    <2>1. /\ phase = "adopt" /\ phase' = "adopt" /\ todo # <<>> /\ todo' = Tail(todo)
      BY <1>6 DEF Adopt
    <2>2. Elements(Append(changed, Head(todo))) = Elements(changed) \cup {Head(todo)}
      BY <1>2, <1>3, <2>1, AppendOnce
    <2>3. ASSUME NEW w \in Elements(plan.workflows)
          PROVE  status'[w] \in Good \/ w \in Elements(todo') \/ w \in Elements(changed')
      <3>1. CASE Head(todo) \in matched
        <4>1. status' = [status EXCEPT ![Head(todo)] = "unchanged"] /\ changed' = changed
          BY <1>6, <3>1 DEF Adopt
        <4> QED
          BY <1>1, <1>2, <1>3, <2>1, <4>1 DEF WorkflowsSettled, Good
      <3>2. CASE Head(todo) \notin matched
        <4>1. status' = status /\ changed' = Append(changed, Head(todo))
          BY <1>6, <3>2 DEF Adopt
        <4> QED
          BY <1>3, <2>1, <2>2, <4>1 DEF WorkflowsSettled
      <3> QED
        BY <3>1, <3>2
    <2> QED
      BY <1>1, <2>1, <2>3 DEF WorkflowsSettled
  <1>7. CASE AllAdopted
    BY <1>1, <1>4, <1>7 DEF AllAdopted, Enter, WorkflowsSettled
  (* The serial submission: one workflow after the other.                  *)
  <1>8. CASE (BeginTarget \/ LookUp) /\ phase = "submit" /\ phase' = phase
    <2>1. todo # <<>> /\ UNCHANGED <<todo, pending, failure>> /\ phase = "submit"
      BY <1>8 DEF BeginTarget, LookUp, Abort, Close
    <2>2. \A t \in Targets : t # Head(todo) => busy'[t] = busy[t] /\ status'[t] = status[t]
      BY <1>2, <1>8 DEF BeginTarget, LookUp, Begin, StartWrite, Abort, Close
    <2>3. Head(todo) \in Elements(todo)
      BY <1>3, <2>1
    <2> QED
      BY <1>1, <1>8, <2>1, <2>2, <2>3 DEF WorkflowsSettled
  <1>9. CASE FinishTarget /\ phase = "submit" /\ phase' = phase
    <2>1. todo # <<>> /\ End(Head(todo), "succeeded") /\ todo' = Tail(todo) /\ UNCHANGED <<pending, failure>>
      BY <1>9 DEF FinishTarget, Abort, Close
    <2>2. /\ status'[Head(todo)] \in Good
          /\ \A t \in Targets : t # Head(todo) => busy'[t] = busy[t] /\ status'[t] = status[t]
      BY <1>2, <1>3, <2>1 DEF End, Good
    <2> QED
      BY <1>1, <1>3, <1>9, <2>1, <2>2 DEF WorkflowsSettled
  (* The pool.                                                             *)
  <1>10. CASE Submit
    <2>1. /\ phase = "submit" /\ todo # <<>> /\ todo' = Tail(todo) /\ pending' = pending \cup {Head(todo)}
          /\ busy' = [busy EXCEPT ![Head(todo)] = "queued"] /\ UNCHANGED <<phase, status, failure>>
      BY <1>10 DEF Submit, Submittable, Pool
    <2> QED
      BY <1>1, <1>2, <1>3, <2>1 DEF WorkflowsSettled
  <1>11. CASE Collect
    <2>1. /\ phase = "submit" /\ UNCHANGED <<phase, todo, busy, status>>
          /\ pending' = pending \ {w \in pending : busy[w] = "idle"}
          /\ failure' = (failure \/ \E w \in pending : busy[w] = "idle" /\ status[w] \in Bad)
      BY <1>11 DEF Collect, Pool
    <2>2. ASSUME NEW w \in Elements(plan.workflows)
          PROVE  \/ w \in Elements(todo')
                 \/ w \in pending' /\ busy'[w] # "idle"
                 \/ status'[w] \in Good
                 \/ status'[w] \in Bad /\ (w \in pending' \/ failure')
      <3>1. \/ w \in Elements(todo)
            \/ w \in pending /\ busy[w] # "idle"
            \/ status[w] \in Good
            \/ status[w] \in Bad /\ (w \in pending \/ failure)
        BY <2>1 DEF WorkflowsSettled
      <3> QED
        BY <2>1, <3>1
    <2> QED
      BY <1>1, <2>1, <2>2 DEF WorkflowsSettled
  <1>12. ASSUME NEW w \in Targets, PickUp(w) PROVE WorkflowsSettled'
    <2>1. w \in pending /\ phase = "submit" /\ UNCHANGED <<phase, todo, pending, failure>>
      BY <1>12 DEF PickUp, Errors, Pool, Occupied, Active
    <2>2. /\ busy'[w] = "write"
          /\ \A t \in Targets : t # w => busy'[t] = busy[t] /\ status'[t] = status[t]
      BY <1>2, <1>12 DEF PickUp, Begin
    <2> QED
      BY <1>1, <2>1, <2>2 DEF WorkflowsSettled
  <1>13. ASSUME NEW w \in Targets, FinishWorkflow(w) PROVE WorkflowsSettled'
    <2>1. w \in pending /\ UNCHANGED <<phase, todo, pending, failure>> /\ phase # "adopt"
      BY <1>13, Alone DEF FinishWorkflow
    <2>2. /\ status'[w] \in Good \cup Bad
          /\ \A t \in Targets : t # w => busy'[t] = busy[t] /\ status'[t] = status[t]
      BY <1>2, <1>13 DEF FinishWorkflow, End, Good
    <2> QED
      BY <1>1, <2>1, <2>2 DEF WorkflowsSettled
  <1>14. CASE UNCHANGED vars
    BY <1>1, <1>14 DEF vars, WorkflowsSettled
  <1>15. CASE phase' \notin {"adopt", "submit"}
    BY <1>15 DEF WorkflowsSettled
  <1> QED
    BY <1>5, <1>6, <1>7, <1>8, <1>9, <1>10, <1>11, <1>12, <1>13, <1>14, <1>15
    DEF Next, MainStep, WorkerStep, EnsureProject, BeginTarget, LookUp, FinishTarget, Serial, FunctionsDone, BeginStep,
        ReuseStep, MatchStep, WriteStep, LookUpStepFails, StepWritten, StepWriteFails, WorkflowPrepared,
        PreparationFails, AllPrepared, SubmitDone, AppsDone, Drained, LookingUp, Preparing, NextStep, Enter,
        Interrupt, InterruptSerial, InterruptStep, InterruptPreparation, InterruptIdle, InterruptPool,
        InterruptShutdown, Shutdown, AbortStep, Abort, Close, Closed

(* Every step keeps AppsSettled.                                           *)
LEMMA AppsSettledStep ==
    ASSUME TypeOK, Located, Occupied, Within, Errors, Stepped, Settled, [Next]_vars
    PROVE  AppsSettled'
  <1> USE DEF args, progress
  <1>1. plan' = plan /\ Planned' = Planned /\ Planned \subseteq Targets
    BY ArgsFixed, PlannedTyped DEF Planned
  <1>2. /\ busy \in [Targets -> Works] /\ status \in [Targets -> Statuses] /\ jobs \in 1..16
    BY Lists
  <1>3. Elements(<<>>) = {}
    BY DEF Elements
  <1>4. CASE phase = "apps" /\ phase' = "apps"
    BY <1>1, <1>4, SerialProgress DEF Settled, AppsSettled
  <1>5. CASE AppsDone
    BY <1>1, <1>3, <1>5 DEF AppsDone, Settled, AppsSettled
  <1>6. CASE SubmitDone /\ phase' = "apps"
    <2>1. /\ phase = "submit" /\ ~failure /\ todo' = plan.apps /\ UNCHANGED status
      BY <1>6 DEF SubmitDone, Enter, Close, SelectedApps
    <2>2. todo = <<>> /\ pending = {}
      <3>1. CASE jobs = 1
        BY <1>6, <2>1, <3>1, Alone DEF SubmitDone, Serial
      <3>2. CASE jobs # 1
        <4>1. pending = {} /\ ~Submittable
          BY <1>6, <3>2 DEF SubmitDone
        <4>2. Cardinality(pending) = 0
          BY <4>1, FS_EmptySet
        <4> QED
          BY <1>2, <2>1, <4>1, <4>2 DEF Submittable
      <3> QED
        BY <3>1, <3>2
    <2>3. \A w \in Elements(plan.workflows) : status[w] \in Good
      BY <1>3, <2>1, <2>2 DEF Settled, WorkflowsSettled
    <2>4. \A t \in Elements(plan.functions) \cup PlannedSteps : status[t] \in Good
      BY <2>1 DEF Settled, FunctionsSettled, Stepped, AllSteps
    <2>5. \A t \in Planned : status'[t] \in Good \/ t \in Elements(todo')
      BY <2>1, <2>3, <2>4, PlannedParts
    <2> QED
      BY <1>1, <1>6, <2>5 DEF AppsSettled
  <1>7. CASE phase = "closed"
    <2>1. CASE UNCHANGED vars
      BY <1>1, <1>7, <2>1 DEF vars, Settled, AppsSettled
    <2>2. ASSUME NEW w \in Targets, FinishWorkflow(w)
          PROVE  AppsSettled'
      <3>1. /\ phase' = phase /\ (error' <=> (error \/ status'[w] \in Bad))
            /\ status'[w] \in Good \cup Bad
            /\ \A t \in Targets : t # w => status'[t] = status[t]
        BY <1>2, <2>2 DEF FinishWorkflow, End, Good
      <3> QED
        BY <1>1, <1>7, <3>1 DEF Settled, AppsSettled
    <2>3. ASSUME NEW w \in Targets PROVE ~PickUp(w)
      BY <1>7 DEF PickUp, Errors, Pool
    <2> QED
      BY <1>7, <2>1, <2>2, <2>3
      DEF Next, MainStep, WorkerStep, EnsureProject, BeginTarget, LookUp, FinishTarget, Serial, FunctionsDone,
          BeginStep, ReuseStep, MatchStep, WriteStep, LookUpStepFails, StepWritten, StepWriteFails, WorkflowPrepared,
          PreparationFails, AllPrepared, Compare, Adopt, AllAdopted, Submit, Collect, SubmitDone, AppsDone, Drained,
          LookingUp, Preparing, Pool, Interrupt, InterruptSerial, InterruptStep, InterruptPreparation,
          InterruptIdle, InterruptPool, InterruptShutdown, Closed
  <1>8. CASE phase' = "closed" /\ error'
    BY <1>8 DEF AppsSettled
  <1>9. CASE phase' \notin {"apps", "closed"}
    BY <1>9 DEF AppsSettled
  <1> QED
    BY <1>4, <1>5, <1>6, <1>7, <1>8, <1>9, PhaseMoves, Closing

--------------------------------------------------------------------------------
(* Contained: what is written after a workflow write has failed.           *)

(* A changed workflow has failed; the submitted ones no worker has taken.  *)
Failed == \E w \in Elements(changed) : status[w] \in Bad
Queued == {w \in pending : busy[w] = "queued"}

(* Until it is collected the failed workflow takes one of the jobs places; *)
(* late writes and those queued share the others.                          *)
Contained ==
    /\ IsFiniteSet(pending) /\ Cardinality(pending) <= jobs
    /\ phase \in Early => late = 0
    /\ failure => jobs > 1
    /\ phase = "submit" =>
         /\ \A w \in Elements(todo) : status[w] \notin Bad
         /\ \A w \in pending : busy[w] # "idle" => status[w] \notin Bad
         /\ ~Failed => late = 0
         /\ ~failure => \A w \in Elements(changed) : status[w] \in Bad => w \in pending /\ busy[w] = "idle"
         /\ Failed /\ ~failure => late + Cardinality(Queued) < Cardinality(pending)
         /\ failure => late + Cardinality(Queued) < jobs
    /\ FailureContained

(* What may change the pool, the count of late writes and the failure.     *)
LEMMA PoolMoves ==
    ASSUME [Next]_vars
    PROVE  \/ \E w \in Targets : PickUp(w)
           \/ Submit
           \/ Collect
           \/ UNCHANGED <<late, pending, failure>>
  <1> USE DEF progress
  <1>1. CASE Interrupt
    BY <1>1 DEF Interrupt, InterruptSerial, InterruptStep, InterruptPreparation, InterruptIdle, InterruptPool,
                InterruptShutdown, AbortStep, Abort, Close
  <1>2. CASE EnsureProject \/ BeginTarget \/ LookUp \/ FinishTarget \/ FunctionsDone \/ Compare \/ Adopt
             \/ AllAdopted \/ SubmitDone \/ AppsDone \/ Drained
    BY <1>2 DEF EnsureProject, BeginTarget, LookUp, FinishTarget, FunctionsDone, Compare, Adopt, AllAdopted,
                SubmitDone, AppsDone, Drained, Enter, Abort, Close
  <1>3. CASE BeginStep \/ ReuseStep \/ MatchStep \/ WriteStep \/ LookUpStepFails \/ StepWritten
             \/ StepWriteFails \/ WorkflowPrepared \/ PreparationFails \/ AllPrepared
    BY <1>3 DEF BeginStep, ReuseStep, MatchStep, WriteStep, LookUpStepFails, StepWritten, StepWriteFails,
                WorkflowPrepared, PreparationFails, AllPrepared, NextStep, AbortStep, Abort, Close
  <1>4. CASE UNCHANGED vars
    BY <1>4 DEF vars
  <1> QED
    BY <1>1, <1>2, <1>3, <1>4 DEF Next, MainStep, WorkerStep, FinishWorkflow, Closed

(* While the changed workflows are submitted only these steps are taken.   *)
LEMMA WhileSubmitting ==
    ASSUME [Next]_vars, phase = "submit", phase' = "submit"
    PROVE  \/ BeginTarget \/ LookUp \/ FinishTarget \/ Submit \/ Collect
           \/ \E w \in Targets : WorkerStep(w)
           \/ UNCHANGED vars
  BY DEF Next, MainStep, EnsureProject, FunctionsDone, BeginStep, ReuseStep, MatchStep, WriteStep, LookUpStepFails,
         StepWritten, StepWriteFails, WorkflowPrepared, PreparationFails, AllPrepared, Compare, Adopt, AllAdopted,
         SubmitDone, AppsDone, Drained, LookingUp, Preparing, Enter, Interrupt, InterruptSerial, InterruptStep,
         InterruptPreparation, InterruptIdle, InterruptPool, InterruptShutdown, Shutdown, AbortStep, Abort, Close, Closed

(* How many a pool has: one added, one taken, all but one.                 *)
LEMMA PoolCounts ==
    ASSUME IsFiniteSet(pending)
    PROVE  /\ Cardinality(pending) \in Nat
           /\ IsFiniteSet(Queued) /\ Cardinality(Queued) \in Nat /\ Cardinality(Queued) <= Cardinality(pending)
           /\ \A w : w \notin pending =>
                IsFiniteSet(pending \cup {w}) /\ Cardinality(pending \cup {w}) = Cardinality(pending) + 1
           /\ \A w : w \notin Queued => Cardinality(Queued \cup {w}) = Cardinality(Queued) + 1
           /\ \A w : w \in Queued => Cardinality(Queued \ {w}) = Cardinality(Queued) - 1
           /\ \A w : w \in pending /\ w \notin Queued => Cardinality(Queued) < Cardinality(pending)
  <1>1. Queued \in SUBSET pending
    BY DEF Queued
  <1>2. IsFiniteSet(Queued) /\ Cardinality(Queued) <= Cardinality(pending)
    BY <1>1, FS_Subset
  <1>3. Cardinality(pending) \in Nat /\ Cardinality(Queued) \in Nat
    BY <1>2, FS_CardinalityType
  <1>4. ASSUME NEW w, w \in pending, w \notin Queued
        PROVE  Cardinality(Queued) < Cardinality(pending)
    <2>1. IsFiniteSet(pending \ {w}) /\ Cardinality(pending \ {w}) = Cardinality(pending) - 1
      BY <1>4, FS_RemoveElement
    <2>2. Queued \in SUBSET (pending \ {w})
      BY <1>1, <1>4
    <2>3. Cardinality(Queued) <= Cardinality(pending \ {w})
      BY <2>1, <2>2, FS_Subset
    <2> QED
      BY <1>3, <2>1, <2>3
  <1>5. ASSUME NEW w, w \notin pending
        PROVE  IsFiniteSet(pending \cup {w}) /\ Cardinality(pending \cup {w}) = Cardinality(pending) + 1
    BY <1>5, FS_AddElement
  <1>6. ASSUME NEW w, w \notin Queued
        PROVE  Cardinality(Queued \cup {w}) = Cardinality(Queued) + 1
    BY <1>2, <1>6, FS_AddElement
  <1>7. ASSUME NEW w, w \in Queued
        PROVE  Cardinality(Queued \ {w}) = Cardinality(Queued) - 1
    BY <1>2, <1>7, FS_RemoveElement
  <1> QED
    BY <1>2, <1>3, <1>4, <1>5, <1>6, <1>7

(* Every step keeps Contained.                                             *)
LEMMA ContainedStep ==
    ASSUME TypeOK, Located, Occupied, Ordered, Within, Errors, Contained, [Next]_vars
    PROVE  Contained'
  <1> USE DEF args, progress
  <1>1. /\ busy \in [Targets -> Works] /\ status \in [Targets -> Statuses] /\ todo \in Seq(Targets)
        /\ changed \in Seq(Targets) /\ jobs \in 1..16 /\ jobs' = jobs /\ late \in Nat /\ late' \in Nat
    BY Lists, ArgsFixed, TypeStep DEF TypeOK
  <1>2. todo # <<>> => Elements(todo) = {Head(todo)} \cup Elements(Tail(todo)) /\ Head(todo) \in Targets
    BY <1>1, HeadAndTail
  <1>3. /\ IsFiniteSet(pending) /\ Cardinality(pending) <= jobs /\ late <= jobs - 1
        /\ pending \subseteq Elements(changed) /\ Elements(changed) \subseteq Targets
        /\ Elements(todo) \subseteq Targets
    BY <1>1, ElementsTyped DEF Contained, FailureContained, Within
  <1>4. Queued \subseteq pending
    BY DEF Queued
  <1>5. "submit" \notin Early /\ "apps" \notin Early /\ "draining" \notin Early /\ "closed" \notin Early
    BY DEF Early, Preparatory
  <1>6. ASSUME NEW w \in Targets, PickUp(w) PROVE Contained'
    <2>1. /\ phase = "submit" /\ w \in Queued /\ UNCHANGED <<phase, todo, changed, pending, failure>>
          /\ late' = IF Failed THEN late + 1 ELSE late
      BY <1>6 DEF PickUp, Errors, Pool, Occupied, Active, Queued, Failed
    <2>2. /\ status[w] \notin Bad
          /\ \A t \in Targets : (status'[t] \in Bad <=> status[t] \in Bad) /\ (t # w => busy'[t] = busy[t])
          /\ busy'[w] = "write" /\ busy[w] = "queued"
      <3>1. status[w] \notin Bad
        BY <2>1 DEF Contained, Queued
      <3> QED
        BY <1>1, <1>6, <3>1 DEF PickUp, Begin, Bad
    <2>3. Failed' <=> Failed
      BY <1>3, <2>1, <2>2 DEF Failed
    <2>4. Queued' = Queued \ {w}
      BY <1>3, <2>1, <2>2 DEF Queued
    <2>5. Cardinality(Queued') = Cardinality(Queued) - 1 /\ Cardinality(Queued) \in Nat /\ Cardinality(pending) \in Nat
          /\ Cardinality(Queued') \in Nat
      BY <1>3, <2>1, <2>4, PoolCounts, FS_EmptySet
    <2>6. late' + Cardinality(Queued') <= late + Cardinality(Queued)
          /\ (Failed => late' + Cardinality(Queued') = late + Cardinality(Queued))
      BY <1>1, <2>1, <2>5
    <2>7. Failed => late + Cardinality(Queued) < jobs
      BY <1>1, <1>3, <2>1, <2>5 DEF Contained
    <2>8. late' <= jobs - 1
      BY <1>1, <1>3, <2>1, <2>5, <2>6, <2>7
    <2>9. /\ \A v \in Elements(todo) : status'[v] \notin Bad
          /\ \A v \in pending : busy'[v] # "idle" => status'[v] \notin Bad
          /\ ~failure => \A v \in Elements(changed) : status'[v] \in Bad => v \in pending /\ busy'[v] = "idle"
      BY <1>3, <2>1, <2>2 DEF Contained
    <2>10. /\ Failed /\ ~failure => late' + Cardinality(Queued') < Cardinality(pending)
           /\ failure => late' + Cardinality(Queued') < jobs
           /\ ~Failed => late' = 0
      BY <1>1, <2>1, <2>5, <2>6 DEF Contained
    <2> QED
      BY <1>1, <1>3, <1>5, <2>1, <2>3, <2>8, <2>9, <2>10 DEF Contained, FailureContained
  <1>7. ASSUME NEW w \in Targets, FinishWorkflow(w) PROVE Contained'
    <2>1. /\ w \in pending /\ busy[w] = "write" /\ UNCHANGED <<phase, todo, changed, pending, failure, late>>
      BY <1>7 DEF FinishWorkflow
    <2>2. /\ \A t \in Targets : t # w => status'[t] = status[t] /\ busy'[t] = busy[t]
          /\ busy'[w] = "idle"
      BY <1>1, <1>7 DEF FinishWorkflow, End
    <2>3. Queued' = Queued /\ w \notin Queued
      BY <1>3, <2>1, <2>2 DEF Queued
    <2>4. CASE phase = "submit"
      <3>1. w \notin Elements(todo)
        BY <2>1, <2>4 DEF Ordered
      <3>2. /\ \A v \in Elements(todo) : status'[v] \notin Bad
            /\ \A v \in pending : busy'[v] # "idle" => status'[v] \notin Bad
            /\ ~failure => \A v \in Elements(changed) : status'[v] \in Bad => v \in pending /\ busy'[v] = "idle"
        BY <1>3, <2>1, <2>2, <2>4, <3>1 DEF Contained
      <3>3. ~failure => Failed \/ late = 0
        BY <2>4 DEF Contained
      <3>4. Failed => Failed'
        <4>1. status[w] \notin Bad
          BY <2>1, <2>4 DEF Contained
        <4> QED
          BY <1>3, <2>1, <2>2, <4>1 DEF Failed
      <3>5. Cardinality(Queued) < Cardinality(pending) /\ Cardinality(Queued) \in Nat
        BY <1>3, <2>1, <2>3, PoolCounts
      <3>6. Failed' /\ ~failure => late + Cardinality(Queued) < Cardinality(pending)
        BY <1>1, <2>4, <3>3, <3>5 DEF Contained
      <3>7. (~Failed' => late = 0) /\ (failure => late + Cardinality(Queued) < jobs)
        BY <2>4, <3>4 DEF Contained
      <3> QED
        BY <1>1, <1>3, <1>5, <2>1, <2>3, <2>4, <3>2, <3>6, <3>7 DEF Contained, FailureContained
    <2>5. CASE phase # "submit"
      BY <1>1, <2>1, <2>5 DEF Contained, FailureContained
    <2> QED
      BY <2>4, <2>5
  <1>8. CASE Submit
    <2>1. /\ phase = "submit" /\ todo # <<>> /\ todo' = Tail(todo) /\ ~failure /\ Cardinality(pending) < jobs
          /\ pending' = pending \cup {Head(todo)} /\ busy' = [busy EXCEPT ![Head(todo)] = "queued"]
          /\ UNCHANGED <<phase, status, changed, failure, late>>
      BY <1>8 DEF Submit, Submittable, Pool
    <2>2. Head(todo) \in Targets /\ Head(todo) \in Elements(todo) /\ Head(todo) \notin pending
          /\ Elements(todo') \subseteq Elements(todo)
      BY <1>2, <2>1 DEF Ordered
    <2>3. Queued' = Queued \cup {Head(todo)} /\ Head(todo) \notin Queued
      BY <1>1, <1>3, <2>1, <2>2 DEF Queued
    <2>4. /\ IsFiniteSet(pending') /\ Cardinality(pending') = Cardinality(pending) + 1
          /\ Cardinality(Queued') = Cardinality(Queued) + 1
          /\ Cardinality(pending) \in Nat /\ Cardinality(Queued) \in Nat
      BY <1>3, <2>1, <2>2, <2>3, PoolCounts
    <2>5. Failed' <=> Failed
      BY <2>1 DEF Failed
    <2>6. /\ \A v \in Elements(todo') : status'[v] \notin Bad
          /\ \A v \in pending' : busy'[v] # "idle" => status'[v] \notin Bad
          /\ \A v \in Elements(changed) : status'[v] \in Bad => v \in pending' /\ busy'[v] = "idle"
      BY <1>1, <1>3, <2>1, <2>2 DEF Contained
    <2>7. /\ Cardinality(pending') <= jobs
          /\ ~Failed => late = 0
          /\ Failed => late + Cardinality(Queued') < Cardinality(pending')
      BY <1>1, <2>1, <2>4 DEF Contained
    <2> QED
      BY <1>1, <1>3, <1>5, <2>1, <2>4, <2>5, <2>6, <2>7 DEF Contained, FailureContained
  <1>9. CASE Collect
    <2>1. /\ phase = "submit" /\ UNCHANGED <<phase, todo, changed, busy, status, late>>
          /\ pending' = pending \ {w \in pending : busy[w] = "idle"}
          /\ failure' = (failure \/ \E w \in pending : busy[w] = "idle" /\ status[w] \in Bad) /\ jobs > 1
      BY <1>9 DEF Collect, Pool
    <2>2. Queued' = Queued /\ (Failed' <=> Failed) /\ pending' \subseteq pending
      BY <2>1 DEF Queued, Failed
    <2>3. IsFiniteSet(pending') /\ Cardinality(pending') <= Cardinality(pending)
      BY <1>3, <2>2, FS_Subset
    <2>4. Cardinality(pending) \in Nat /\ Cardinality(Queued) \in Nat /\ Cardinality(pending') \in Nat
      BY <1>3, <2>3, PoolCounts, FS_CardinalityType
    <2>5. failure' => late + Cardinality(Queued) < jobs
      <3>1. CASE failure
        BY <2>1, <3>1 DEF Contained
      <3>2. CASE ~failure
        <4> SUFFICES ASSUME failure' PROVE late + Cardinality(Queued) < jobs
          OBVIOUS
        <4>1. Failed
          BY <1>3, <2>1, <3>2 DEF Failed
        <4>2. late + Cardinality(Queued) < Cardinality(pending)
          BY <2>1, <3>2, <4>1 DEF Contained
        <4> QED
          BY <1>1, <1>3, <2>4, <4>2
      <3> QED
        BY <3>1, <3>2
    <2>6. ~failure' => ~Failed
      BY <1>3, <2>1 DEF Contained, Failed
    <2>7. /\ \A v \in Elements(todo) : status[v] \notin Bad
          /\ \A v \in pending' : busy[v] # "idle" => status[v] \notin Bad
          /\ ~Failed => late = 0
      BY <2>1, <2>2 DEF Contained
    <2> QED
      BY <1>1, <1>3, <1>5, <2>1, <2>2, <2>3, <2>4, <2>5, <2>6, <2>7 DEF Contained, FailureContained, Failed
  <1>10. CASE AllAdopted
    <2>1. /\ phase = "adopt" /\ phase' = "submit" /\ todo' = changed /\ pending = {} /\ pending' = {}
          /\ UNCHANGED <<status, late, changed, failure>>
      BY <1>10, Alone DEF AllAdopted, Enter
    <2>2. ~Failed' /\ late = 0 /\ \A v \in Elements(changed) : status[v] \notin Bad
      BY <1>3, <2>1 DEF Errors, Contained, Failed, Early
    <2>3. Queued' = {} /\ Cardinality(Queued') = 0
      BY <2>1, FS_EmptySet DEF Queued
    <2>4. IsFiniteSet(pending') /\ Cardinality(pending') = 0
      BY <2>1, FS_EmptySet
    <2> QED
      BY <1>1, <1>5, <2>1, <2>2, <2>3, <2>4 DEF Contained, FailureContained
  <1>11. ASSUME UNCHANGED <<late, pending, failure>>, phase' # "submit" PROVE Contained'
    <2>1. phase' \in Early => phase \in Early
      BY <1>11, PhaseMoves DEF Early, Preparatory
    <2> QED
      BY <1>1, <1>3, <1>11, <2>1 DEF Contained, FailureContained
  (* One workflow after the other: the pool stays empty.                   *)
  <1>12. CASE (BeginTarget \/ LookUp \/ FinishTarget) /\ phase = "submit" /\ phase' = "submit"
    <2>1. pending = {} /\ todo # <<>> /\ UNCHANGED <<changed, pending, failure, late>>
          /\ todo' \in {todo, Tail(todo)}
      BY <1>12, Alone DEF BeginTarget, LookUp, FinishTarget, Abort, Close
    <2>2. Elements(todo') \subseteq Elements(todo)
      BY <1>2, <2>1
    <2>3. \A t \in Targets : status'[t] \in Bad => status[t] \in Bad
      BY <1>1, <1>2, <1>12, <2>1 DEF BeginTarget, LookUp, FinishTarget, Begin, StartWrite, End, Abort, Close, Bad
    <2>4. Queued' = Queued
      BY <2>1 DEF Queued
    <2>5. ~failure
      BY <1>12 DEF BeginTarget, LookUp, FinishTarget, Serial, Contained
    <2>6. ~Failed /\ ~Failed' /\ late = 0
      BY <1>3, <1>12, <2>1, <2>3, <2>5 DEF Contained, Failed
    <2> QED
      BY <1>1, <1>3, <1>5, <1>12, <2>1, <2>2, <2>3, <2>4, <2>5, <2>6 DEF Contained, FailureContained, Failed
  <1>13. CASE UNCHANGED vars
    BY <1>1, <1>13 DEF vars, Contained, FailureContained, Failed, Queued
  <1> QED
    BY <1>6, <1>7, <1>8, <1>9, <1>10, <1>11, <1>12, <1>13, PoolMoves, WhileSubmitting, PhaseMoves DEF WorkerStep

--------------------------------------------------------------------------------
(* Shared: steps several workflows use.  The workflows are prepared in the *)
(* order of the plan; Passed of them are done with.                        *)
Passed == Len(plan.workflows) - Len(todo)

AtPosition ==
    /\ Len(todo) <= Len(plan.workflows)
    /\ \A i \in DOMAIN todo : todo[i] = plan.workflows[Passed + i]
    /\ todo # <<>> => Elements(steps) \subseteq Elements(StepsOf[Head(todo)])

(* What the workflow being prepared resolves for a step it uses.           *)
UsesNow(s) == todo # <<>> /\ s \in Elements(StepsOf[Head(todo)])
Renewed(s) == UsesNow(s) /\ cache[s].definition = Wanted[Head(todo)][s]

(* The cache has a step's definition as its latest user wanted it; for a   *)
(* step the workflow has deployed already, that user is the workflow.      *)
Tracked(s) ==
    /\ \A i \in Uses(s) :
          i <= Passed /\ (\A j \in Uses(s) : j <= i \/ Passed < j)
             => cache[s].definition = WantedAt(i, s) \/ Renewed(s)
    /\ UsesNow(s) /\ s \notin Elements(steps) => Renewed(s)

(* The changes of definition among the first n workflows of the plan.      *)
ChangesUpTo(s, n) == {i \in Uses(s) : i <= n /\ ~SameAsBefore(i, s)}

(* The workflow being prepared adds one write to those of the ones before  *)
(* it, and only when it wants another definition.                          *)
Counted(s) ==
    /\ writes[s] <= Cardinality(ChangesUpTo(s, Passed + 1))
    /\ busy[s] # "write" /\ ~Renewed(s) => writes[s] <= Cardinality(ChangesUpTo(s, Passed))

AsLast ==
    \A s \in Steps \ Built : \A i \in Uses(s) :
       (\A j \in Uses(s) : j <= i) => deployed[s] = WantedAt(i, s)

Shared ==
    /\ phase \in {"ensure", "functions"} => \A s \in Steps \ Built : writes[s] = 0
    /\ phase = "prepare" => AtPosition /\ \A s \in Steps \ Built : Tracked(s) /\ Counted(s)
    /\ phase \in {"compare", "adopt", "submit", "apps", "draining"} => AsLast
    /\ phase = "closed" /\ ~error => AsLast
    /\ StepWrittenOncePerDefinition

(* A nonempty set of positions has a last one.                             *)
LEMMA LastExists ==
    ASSUME NEW n \in Nat, NEW T \in SUBSET (1..n), T # {}
    PROVE  \E i \in T : \A j \in T : j <= i
  <1> DEFINE R == OpToRel(<, Nat)
             D == {n - i : i \in T}
  <1>1. IsWellFoundedOn(R, Nat)
    BY NatLessThanWellFounded
  <1>2. \A x, y \in Nat : x < y => <<x, y>> \in R
    BY DEF OpToRel
  <1>3. \A i \in T : i \in Nat /\ n - i \in Nat
    OBVIOUS
  <1>4. D \subseteq Nat /\ D # {}
    BY <1>3
  <1> HIDE DEF R
  <1>5. \E d \in D : \A e \in D : ~(<<e, d>> \in R)
    BY <1>1, <1>4, WFMin
  <1>6. PICK i \in T : \A j \in T : ~(<<n - j, n - i>> \in R)
    BY <1>5
  <1>7. \A j \in T : ~(n - j < n - i)
    BY <1>2, <1>3, <1>6
  <1> QED
    BY <1>3, <1>7

(* Where a step is used is a finite set of positions of the plan, and the  *)
(* changes up to a later position are no fewer.                            *)
LEMMA ChangesCounted ==
    ASSUME TypeOK, NEW s
    PROVE  /\ Len(plan.workflows) \in Nat /\ Uses(s) \subseteq 1..Len(plan.workflows)
           /\ \A n : Cardinality(ChangesUpTo(s, n)) \in Nat /\ Cardinality(ChangesUpTo(s, n)) <= Changes(s)
           /\ Changes(s) \in Nat
           /\ \A n \in Nat : Cardinality(ChangesUpTo(s, n)) <= Cardinality(ChangesUpTo(s, n + 1))
           /\ \A n \in Nat : n + 1 \notin Uses(s) => ChangesUpTo(s, n + 1) = ChangesUpTo(s, n)
           /\ \A n \in Nat : n + 1 \in Uses(s) /\ ~SameAsBefore(n + 1, s)
                => Cardinality(ChangesUpTo(s, n + 1)) = Cardinality(ChangesUpTo(s, n)) + 1
  <1> DEFINE All == {i \in Uses(s) : ~SameAsBefore(i, s)}
  <1>1. Len(plan.workflows) \in Nat /\ Uses(s) \subseteq 1..Len(plan.workflows)
    <2>1. plan.workflows \in Seq(Targets)
      BY Lists
    <2> QED
      BY <2>1 DEF Uses
  <1>2. Uses(s) \subseteq Int
    BY <1>1
  <1>3. IsFiniteSet(1..Len(plan.workflows))
    BY <1>1, FS_Interval
  <1>4. IsFiniteSet(All)
    BY <1>1, <1>3, FS_Subset
  <1>5. Cardinality(All) \in Nat /\ Changes(s) = Cardinality(All)
    BY <1>4, FS_CardinalityType DEF Changes
  <1>6. ASSUME NEW n
        PROVE  /\ IsFiniteSet(ChangesUpTo(s, n)) /\ Cardinality(ChangesUpTo(s, n)) \in Nat
               /\ Cardinality(ChangesUpTo(s, n)) <= Cardinality(All)
    <2>1. ChangesUpTo(s, n) \in SUBSET All
      BY DEF ChangesUpTo
    <2> QED
      BY <1>4, <2>1, FS_Subset, FS_CardinalityType
  <1>7. ASSUME NEW n \in Nat
        PROVE  Cardinality(ChangesUpTo(s, n)) <= Cardinality(ChangesUpTo(s, n + 1))
    <2>1. ChangesUpTo(s, n) \in SUBSET ChangesUpTo(s, n + 1)
      BY <1>2 DEF ChangesUpTo
    <2> QED
      BY <1>6, <2>1, FS_Subset
  <1>8. ASSUME NEW n \in Nat, n + 1 \notin Uses(s)
        PROVE  ChangesUpTo(s, n + 1) = ChangesUpTo(s, n)
    BY <1>2, <1>8 DEF ChangesUpTo
  <1>9. ASSUME NEW n \in Nat, n + 1 \in Uses(s), ~SameAsBefore(n + 1, s)
        PROVE  Cardinality(ChangesUpTo(s, n + 1)) = Cardinality(ChangesUpTo(s, n)) + 1
    <2>1. ChangesUpTo(s, n + 1) = ChangesUpTo(s, n) \cup {n + 1} /\ n + 1 \notin ChangesUpTo(s, n)
      BY <1>2, <1>9 DEF ChangesUpTo
    <2> QED
      BY <1>6, <2>1, FS_AddElement
  <1> QED
    BY <1>1, <1>5, <1>6, <1>7, <1>8, <1>9

(* The workflow at hand is the next of the plan.                           *)
LEMMA Position ==
    ASSUME TypeOK, Located, AtPosition, phase = "prepare"
    PROVE  /\ Passed \in Nat /\ Passed <= Len(plan.workflows)
           /\ todo = <<>> => Passed = Len(plan.workflows)
           /\ todo # <<>> => /\ Passed + 1 \in DOMAIN plan.workflows
                             /\ plan.workflows[Passed + 1] = Head(todo)
                             /\ Head(todo) \in Elements(Workflows)
           /\ \A s : UsesNow(s) <=> Passed + 1 \in Uses(s)
           /\ \A s : UsesNow(s) => WantedAt(Passed + 1, s) = Wanted[Head(todo)][s]
  <1>1. todo \in Seq(Targets) /\ plan.workflows \in Seq(Targets)
    BY Lists
  <1>2. /\ Len(todo) \in Nat /\ Len(plan.workflows) \in Nat
        /\ DOMAIN todo = 1..Len(todo) /\ DOMAIN plan.workflows = 1..Len(plan.workflows)
        /\ todo = <<>> <=> Len(todo) = 0
        /\ todo # <<>> => Head(todo) = todo[1]
    BY <1>1
  <1>3. Passed \in Nat /\ Passed <= Len(plan.workflows) /\ (todo = <<>> => Passed = Len(plan.workflows))
    BY <1>2 DEF AtPosition, Passed
  <1>4. ASSUME todo # <<>>
        PROVE  Passed + 1 \in DOMAIN plan.workflows /\ plan.workflows[Passed + 1] = Head(todo)
    BY <1>2, <1>3, <1>4 DEF AtPosition, Passed
  <1>5. todo # <<>> => Head(todo) \in Elements(Workflows)
    BY AtHand
  <1>6. ASSUME NEW s
        PROVE  /\ UsesNow(s) <=> Passed + 1 \in Uses(s)
               /\ UsesNow(s) => WantedAt(Passed + 1, s) = Wanted[Head(todo)][s]
    <2>1. CASE todo # <<>>
      BY <1>4, <2>1 DEF UsesNow, Uses, WantedAt
    <2>2. CASE todo = <<>>
      BY <1>2, <1>3, <2>2 DEF UsesNow, Uses
    <2> QED
      BY <2>1, <2>2
  <1> QED
    BY <1>3, <1>4, <1>5, <1>6

(* A step the cache does not have as the workflow wants it is a change.    *)
LEMMA WriteIsChange ==
    ASSUME TypeOK, Located, AtPosition, phase = "prepare", NEW s, Tracked(s), UsesNow(s), ~Renewed(s)
    PROVE  ~SameAsBefore(Passed + 1, s)
  <1> SUFFICES ASSUME SameAsBefore(Passed + 1, s) PROVE FALSE
    OBVIOUS
  <1>1. PICK j \in Uses(s) :
           /\ j < Passed + 1 /\ WantedAt(j, s) = WantedAt(Passed + 1, s)
           /\ \A k \in Uses(s) : k <= j \/ Passed + 1 <= k
    BY DEF SameAsBefore
  <1>2. Uses(s) \subseteq Int /\ Passed \in Int
    BY ChangesCounted, Position
  <1>3. j <= Passed /\ \A k \in Uses(s) : k <= j \/ Passed < k
    BY <1>1, <1>2
  <1>4. cache[s].definition = WantedAt(j, s)
    BY <1>3 DEF Tracked
  <1> QED
    BY <1>1, <1>4, Position DEF Renewed

(* The plan does not change, nor do the uses of a step and their changes.  *)
LEMMA UsesFixed ==
    ASSUME plan' = plan, NEW s
    PROVE  /\ Uses(s)' = Uses(s) /\ Changes(s)' = Changes(s)
           /\ \A i : WantedAt(i, s)' = WantedAt(i, s)
           /\ \A n : ChangesUpTo(s, n)' = ChangesUpTo(s, n)
  <1>1. Uses(s)' = Uses(s)
    BY DEF Uses
  <1>2. \A i : WantedAt(i, s)' = WantedAt(i, s)
    BY DEF WantedAt
  <1>3. \A i : SameAsBefore(i, s)' <=> SameAsBefore(i, s)
    BY <1>1, <1>2 DEF SameAsBefore
  <1> QED
    BY <1>1, <1>2, <1>3 DEF Changes, ChangesUpTo

(* A step that is not touched is tracked and counted as before, ...        *)
LEMMA OtherStepKept ==
    ASSUME plan' = plan, todo' = todo, NEW s, Tracked(s), Counted(s),
           cache'[s] = cache[s], writes'[s] = writes[s], busy[s] = "write" => busy'[s] = "write",
           s \in Elements(steps) => s \in Elements(steps')
    PROVE  Tracked(s)' /\ Counted(s)'
  <1>1. Passed' = Passed
    BY DEF Passed
  <1>2. Renewed(s)' <=> Renewed(s)
    BY DEF Renewed, UsesNow
  <1>3. UsesNow(s)' <=> UsesNow(s)
    BY DEF UsesNow
  <1>4. Tracked(s)'
    BY <1>1, <1>2, <1>3, UsesFixed DEF Tracked
  <1>5. Counted(s)'
    BY <1>1, <1>2, UsesFixed DEF Counted
  <1> QED
    BY <1>4, <1>5

(* ... and one the workflow has deployed is as the workflow wants it.      *)
LEMMA RenewedKept ==
    ASSUME plan' = plan, todo' = todo, NEW s, Tracked(s), Counted(s), writes'[s] = writes[s], Renewed(s)'
    PROVE  Tracked(s)' /\ Counted(s)'
  <1>1. Passed' = Passed
    BY DEF Passed
  <1>2. Tracked(s)'
    BY DEF Tracked
  <1>3. Counted(s)'
    BY <1>1, UsesFixed DEF Counted
  <1> QED
    BY <1>2, <1>3

(* The next workflow starts where the one before has ended.                *)
LEMMA NextWorkflow ==
    ASSUME TypeOK, Located, AtPosition, phase = "prepare", WorkflowPrepared, [Next]_vars
    PROVE  /\ AtPosition'
           /\ \A s \in Steps \ Built : Tracked(s) /\ Counted(s) => Tracked(s)' /\ Counted(s)'
  <1> USE DEF args, progress
  <1>1. /\ todo # <<>> /\ steps = <<>> /\ todo' = Tail(todo) /\ UNCHANGED <<phase, plan, busy, cache, writes>>
        /\ steps' = IF Tail(todo) = <<>> THEN <<>> ELSE StepsOf[Head(Tail(todo))]
    BY DEF WorkflowPrepared, Preparing
  <1>2. todo \in Seq(Targets) /\ todo' \in Seq(Targets) /\ plan.workflows \in Seq(Targets)
    BY <1>1, Lists
  <1>3. /\ Len(todo) \in Nat /\ Len(todo) > 0 /\ Len(todo') = Len(todo) - 1 /\ Len(plan.workflows) \in Nat
        /\ DOMAIN todo = 1..Len(todo) /\ DOMAIN todo' = 1..Len(todo')
        /\ \A i \in 1..Len(todo') : todo'[i] = todo[i + 1]
    BY <1>1, <1>2
  <1>4. Passed' = Passed + 1 /\ Passed \in Nat
    BY <1>1, <1>3, Position DEF Passed
  <1>5. todo' # <<>> => steps' = StepsOf[Head(todo')]
    BY <1>1
  <1>6. AtPosition'
    <2>1. ASSUME NEW i \in DOMAIN todo' PROVE todo'[i] = plan.workflows[Passed' + i]
      <3>1. i \in Nat /\ i + 1 \in DOMAIN todo /\ todo'[i] = todo[i + 1] /\ Passed + (i + 1) = Passed' + i
        BY <1>3, <1>4
      <3> QED
        BY <3>1 DEF AtPosition
    <2>2. Len(todo') <= Len(plan.workflows)
      BY <1>3 DEF AtPosition
    <2> QED
      BY <1>1, <1>5, <2>1, <2>2 DEF AtPosition
  <1>7. ASSUME NEW s \in Steps \ Built, Tracked(s), Counted(s)
        PROVE  Tracked(s)' /\ Counted(s)'
    <2>1. Elements(steps) = {}
      BY <1>1 DEF Elements
    <2>2. UsesNow(s) => cache[s].definition = WantedAt(Passed + 1, s)
      BY <1>7, <2>1, Position DEF Tracked, Renewed
    <2>3. Renewed(s) => UsesNow(s)
      BY DEF Renewed
    <2>4. Uses(s) \subseteq Int
      BY ChangesCounted
    <2>5. ASSUME NEW i \in Uses(s), i <= Passed + 1, \A j \in Uses(s) : j <= i \/ Passed + 1 < j
          PROVE  cache[s].definition = WantedAt(i, s)
      <3>1. CASE UsesNow(s)
        <4>1. Passed + 1 \in Uses(s)
          BY <3>1, Position
        <4>2. i = Passed + 1
          BY <1>4, <2>4, <2>5, <4>1
        <4> QED
          BY <2>2, <3>1, <4>2
      <3>2. CASE ~UsesNow(s)
        <4>1. Passed + 1 \notin Uses(s)
          BY <3>2, Position
        <4>2. i <= Passed /\ \A j \in Uses(s) : j <= i \/ Passed < j
          BY <1>4, <2>4, <2>5, <4>1
        <4> QED
          BY <1>7, <2>3, <3>2, <4>2 DEF Tracked
      <3> QED
        BY <3>1, <3>2
    <2>6. UsesNow(s)' => s \in Elements(steps')
      BY <1>5 DEF UsesNow
    <2>7. Tracked(s)'
      BY <1>1, <1>4, <2>5, <2>6, UsesFixed DEF Tracked
    <2>8. writes[s] <= Cardinality(ChangesUpTo(s, Passed + 1))
      BY <1>7 DEF Counted
    <2>9. Cardinality(ChangesUpTo(s, Passed + 1)) <= Cardinality(ChangesUpTo(s, Passed + 2))
      <3>1. Passed + 1 \in Nat /\ (Passed + 1) + 1 = Passed + 2
        BY <1>4
      <3> QED
        BY <3>1, ChangesCounted
    <2>10. Counted(s)'
      <3>1. writes[s] \in Nat
        BY Lists, PlannedStepsTyped
      <3>3. Passed' + 1 = Passed + 2
        BY <1>4
      <3>4. Cardinality(ChangesUpTo(s, Passed + 1)) \in Nat /\ Cardinality(ChangesUpTo(s, Passed + 2)) \in Nat
        BY ChangesCounted
      <3>2. writes[s] <= Cardinality(ChangesUpTo(s, Passed' + 1)) /\ writes[s] <= Cardinality(ChangesUpTo(s, Passed'))
        BY <1>4, <2>8, <2>9, <3>1, <3>3, <3>4
      <3> QED
        BY <1>1, <3>2, UsesFixed DEF Counted
    <2> QED
      BY <2>7, <2>10
  <1> QED
    BY <1>6, <1>7

(* Every step keeps Shared.                                                *)
LEMMA SharedStep ==
    ASSUME TypeOK, Located, Occupied, Recorded, Errors, Shared, [Next]_vars
    PROVE  Shared'
  <1> USE DEF args, progress
  <1>1. plan' = plan /\ Steps \subseteq Targets
    BY ArgsFixed, PlannedStepsTyped
  <1>2. /\ busy \in [Targets -> Works] /\ writes \in [Targets -> Nat] /\ cache \in [Steps -> Entries]
        /\ todo \in Seq(Targets) /\ steps \in Seq(Targets) /\ phase \in Phases
    BY Lists DEF TypeOK
  <1>3. ASSUME NEW s PROVE Uses(s)' = Uses(s) /\ Changes(s)' = Changes(s) /\ \A i : WantedAt(i, s)' = WantedAt(i, s)
    BY <1>1, UsesFixed
  <1>4. UNCHANGED deployed => (AsLast' <=> AsLast)
    BY <1>3 DEF AsLast
  <1>5. UNCHANGED writes => StepWrittenOncePerDefinition'
    BY <1>3 DEF Shared, StepWrittenOncePerDefinition
  <1>6. CASE phase # "prepare"
    <2>1. UNCHANGED <<deployed, cache>>
      BY <1>6, PlatformUntouched
    <2>2. \A s \in Steps : writes'[s] = writes[s]
      BY <1>1, <1>6, NotAtWork, OthersUntouched
    <2>3. StepWrittenOncePerDefinition'
      BY <1>3, <2>2 DEF Shared, StepWrittenOncePerDefinition
    <2>4. CASE FunctionsDone
      <3>1. /\ phase = "functions" /\ phase' = "prepare" /\ todo' = plan.workflows
            /\ steps' = IF plan.workflows = <<>> THEN <<>> ELSE StepsOf[Head(plan.workflows)]
        BY <2>4 DEF FunctionsDone, Enter
      <3>2. plan.workflows \in Seq(Targets) /\ Len(plan.workflows) \in Nat
        BY Lists
      <3>3. Passed' = 0
        BY <1>1, <3>1, <3>2 DEF Passed
      <3>4. todo' # <<>> => steps' = StepsOf[Head(todo')]
        BY <3>1
      <3>5. AtPosition'
        BY <1>1, <3>1, <3>2, <3>3, <3>4 DEF AtPosition
      <3>6. ASSUME NEW s \in Steps \ Built
            PROVE  Tracked(s)' /\ Counted(s)'
        <4>1. Uses(s) \subseteq 1..Len(plan.workflows)
          BY ChangesCounted
        <4>2. \A i \in Uses(s) : ~(i <= 0)
          BY <3>2, <4>1
        <4>3. UsesNow(s)' => s \in Elements(steps')
          BY <3>4 DEF UsesNow
        <4>4. Tracked(s)'
          BY <1>3, <3>3, <4>2, <4>3 DEF Tracked
        <4>5. writes'[s] = 0
          BY <2>2, <3>1 DEF Shared
        <4>6. \A n : ChangesUpTo(s, n)' = ChangesUpTo(s, n) /\ Cardinality(ChangesUpTo(s, n)) \in Nat
          BY <1>1, UsesFixed, ChangesCounted
        <4>7. Counted(s)'
          BY <3>3, <4>5, <4>6 DEF Counted
        <4> QED
          BY <4>4, <4>7
      <3> QED
        BY <2>3, <3>1, <3>5, <3>6 DEF Shared
    <2>5. CASE phase' = "closed"
      <3>1. ~error' => AsLast
        BY <2>5, Closing DEF AppsDone, Shared
      <3> QED
        BY <1>4, <2>1, <2>3, <2>5, <3>1 DEF Shared
    <2>6. CASE phase' # "closed" /\ ~FunctionsDone
      BY <1>4, <1>6, <2>1, <2>2, <2>3, <2>6, PhaseMoves DEF Shared
    <2> QED
      BY <2>4, <2>5, <2>6
  <1>7. CASE phase = "prepare"
    <2>1. AtPosition /\ \A s \in Steps \ Built : Tracked(s) /\ Counted(s)
      BY <1>7 DEF Shared
    <2>2. steps # <<>> /\ todo # <<>> =>
            /\ Step \in Steps /\ Step \in Targets /\ Step \in Elements(steps) /\ UsesNow(Step)
            /\ Want = Wanted[Head(todo)][Step]
            /\ Elements(steps) = {Step} \cup Elements(Tail(steps))
      BY <1>2, <1>7, <2>1, AtHand, HeadAndTail DEF AtPosition, UsesNow, Step, Want
    <2>3. ASSUME UNCHANGED <<phase, todo>>, Elements(steps') \subseteq Elements(steps),
                 \A s \in Steps \ Built : Tracked(s)' /\ Counted(s)'
          PROVE  Shared'
      <3>1. AtPosition'
        BY <1>1, <2>1, <2>3 DEF AtPosition, Passed
      <3>2. StepWrittenOncePerDefinition'
        <4>1. ASSUME NEW s \in Steps \ Built PROVE writes'[s] <= Changes(s)
          <5>1. writes'[s] <= Cardinality(ChangesUpTo(s, Passed' + 1)) /\ writes'[s] \in Nat
            BY <1>1, <2>3, TypeStep, UsesFixed DEF Counted, TypeOK
          <5>2. Cardinality(ChangesUpTo(s, Passed' + 1)) <= Changes(s) /\ Changes(s) \in Nat
                /\ Cardinality(ChangesUpTo(s, Passed' + 1)) \in Nat
            BY ChangesCounted
          <5> QED
            BY <5>1, <5>2
        <4> QED
          BY <1>3, <4>1 DEF StepWrittenOncePerDefinition
      <3> QED
        BY <1>7, <2>3, <3>1, <3>2 DEF Shared
    <2>4. CASE BeginStep
      <3>1. /\ steps # <<>> /\ todo # <<>> /\ busy' = [busy EXCEPT ![Step] = "lookup"] /\ busy[Step] = "idle"
            /\ UNCHANGED <<phase, todo, steps, cache, writes>>
        BY <2>4 DEF BeginStep, Begin, Preparing
      <3>2. \A s \in Steps \ Built : busy[s] = "write" => busy'[s] = "write"
        BY <1>1, <1>2, <3>1
      <3> QED
        BY <1>1, <2>1, <2>3, <3>1, <3>2, OtherStepKept
    <2>5. CASE WriteStep
      <3>1. /\ steps # <<>> /\ todo # <<>> /\ busy[Step] = "lookup"
            /\ busy' = [busy EXCEPT ![Step] = "write"] /\ writes' = [writes EXCEPT ![Step] = @ + 1]
            /\ UNCHANGED <<phase, todo, steps, cache>>
            /\ Step \notin Built => cache[Step].definition # Want
        BY <2>5 DEF WriteStep, StartWrite, LookingUp, Preparing, Reusable
      <3>2. ASSUME NEW s \in Steps \ Built, s # Step PROVE Tracked(s)' /\ Counted(s)'
        BY <1>1, <1>2, <2>1, <2>2, <3>1, <3>2, OtherStepKept
      <3>3. ASSUME NEW s \in Steps \ Built, s = Step PROVE Tracked(s)' /\ Counted(s)'
        <4>1. Tracked(s) /\ Counted(s) /\ ~Renewed(s)
          BY <2>1, <2>2, <3>1, <3>3 DEF Renewed
        <4>2. ~SameAsBefore(Passed + 1, s) /\ Passed + 1 \in Uses(s) /\ Passed \in Nat
          BY <1>7, <2>1, <2>2, <3>1, <3>3, <4>1, WriteIsChange, Position
        <4>3. Cardinality(ChangesUpTo(s, Passed + 1)) = Cardinality(ChangesUpTo(s, Passed)) + 1
              /\ Cardinality(ChangesUpTo(s, Passed)) \in Nat
          BY <4>2, ChangesCounted
        <4>4. writes[s] <= Cardinality(ChangesUpTo(s, Passed))
          BY <3>1, <3>3, <4>1 DEF Counted
        <4>5. writes'[s] = writes[s] + 1 /\ writes[s] \in Nat /\ busy'[s] = "write" /\ Passed' = Passed
          BY <1>2, <2>2, <3>1, <3>3, <1>1 DEF Passed
        <4>6. writes'[s] <= Cardinality(ChangesUpTo(s, Passed + 1))
          BY <4>3, <4>4, <4>5
        <4>7. Counted(s)'
          BY <1>1, <4>5, <4>6, UsesFixed DEF Counted
        <4>8. Tracked(s)'
          BY <1>1, <3>1, <4>1, <4>5, UsesFixed DEF Tracked, Renewed, UsesNow
        <4> QED
          BY <4>7, <4>8
      <3>5. \A s \in Steps \ Built : Tracked(s)' /\ Counted(s)'
        BY <3>2, <3>3
      <3> QED
        BY <2>3, <3>1, <3>5
    <2>6. CASE ReuseStep \/ MatchStep \/ StepWritten
      <3>1. PICK outcome : NextStep(outcome) /\ steps # <<>> /\ todo # <<>>
        BY <2>6 DEF ReuseStep, MatchStep, StepWritten, LookingUp, Preparing
      <3>2. /\ steps' = Tail(steps) /\ UNCHANGED <<phase, todo, writes>>
            /\ busy' = [busy EXCEPT ![Step] = "idle"]
        BY <2>6, <3>1 DEF NextStep, End, ReuseStep, MatchStep, StepWritten
      <3>3. Step \notin Built => cache'[Step].definition = Want
        BY <1>2, <2>2, <2>6, <3>1 DEF ReuseStep, MatchStep, StepWritten, Reusable, SameOnPlatform, Remember
      <3>4. \A s \in Steps : s # Step => cache'[s] = cache[s]
        BY <1>2, <2>2, <2>6, <3>1 DEF ReuseStep, MatchStep, StepWritten, Remember
      <3>5. ASSUME NEW s \in Steps \ Built PROVE Tracked(s)' /\ Counted(s)'
        <4>1. CASE s = Step
          <5>1. Renewed(s)'
            BY <2>2, <3>1, <3>2, <3>3, <4>1 DEF Renewed, UsesNow
          <5> QED
            BY <1>1, <2>1, <3>2, <5>1, RenewedKept
        <4>2. CASE s # Step
          <5>1. busy'[s] = busy[s] /\ (s \in Elements(steps) => s \in Elements(steps'))
            BY <1>1, <1>2, <2>2, <3>1, <3>2, <4>2
          <5> QED
            BY <1>1, <2>1, <3>2, <3>4, <4>2, <5>1, OtherStepKept
        <4> QED
          BY <4>1, <4>2
      <3> QED
        BY <2>2, <2>3, <3>1, <3>2, <3>5
    <2>7. CASE WorkflowPrepared
      <3>1. phase' = phase /\ UNCHANGED <<writes>>
        BY <2>7 DEF WorkflowPrepared
      <3> QED
        BY <1>5, <1>7, <2>1, <2>7, <3>1, NextWorkflow DEF Shared
    <2>8. CASE AllPrepared
      <3>1. todo = <<>> /\ phase' = "compare" /\ UNCHANGED <<deployed, writes>>
        BY <2>8 DEF AllPrepared
      <3>2. Passed = Len(plan.workflows) /\ Len(plan.workflows) \in Nat
        BY <1>7, <2>1, <3>1, Position, ChangesCounted
      <3>3. ASSUME NEW s \in Steps \ Built, NEW i \in Uses(s), \A j \in Uses(s) : j <= i
            PROVE  deployed[s] = WantedAt(i, s)
        <4>1. i <= Passed
          BY <3>2, ChangesCounted
        <4>2. cache[s].definition = WantedAt(i, s)
          BY <2>1, <3>1, <3>3, <4>1 DEF Tracked, Renewed, UsesNow
        <4>3. WantedAt(i, s) \in Definitions
          <5>1. plan.workflows[i] \in Elements(Workflows)
            BY PlannedStepsTyped DEF Uses, Elements
          <5> QED
            BY <5>1, ProjectTyped DEF WantedAt
        <4> QED
          BY <1>7, <4>2, <4>3, AbsentAssumption DEF Recorded, Preparatory, CacheHonest
      <3> QED
        BY <1>4, <1>5, <3>1, <3>3 DEF Shared, AsLast
    <2>9. CASE phase' = "closed"
      BY <1>5, <1>7, <2>9, Closing DEF AppsDone, Shared
    <2>10. CASE UNCHANGED vars
      <3>1. UNCHANGED <<phase, todo, steps, cache, writes, busy>>
        BY <2>10 DEF vars
      <3> QED
        BY <1>1, <2>1, <2>3, <3>1, OtherStepKept
    <2> QED
      BY <1>7, <2>4, <2>5, <2>6, <2>7, <2>8, <2>9, <2>10, WhilePreparing
  <1> QED
    BY <1>6, <1>7


--------------------------------------------------------------------------------
(* The invariant of the report, and what follows from it.                  *)
ReportInv ==
    Inv /\ Within /\ OnlySelected /\ Errors /\ Stepped /\ Settled /\ Contained /\ Shared

(* It holds at the start, ...                                              *)
LEMMA ReportInit == Init => ReportInv
  <1> SUFFICES ASSUME Init PROVE ReportInv
    OBVIOUS
  <1>1. Inv /\ TypeOK
    BY InvInit DEF Inv
  <1>2. Elements(<<>>) = {}
    BY DEF Elements
  <1>3. Within
    BY <1>2 DEF Init, Within
  <1>4. OnlySelected
    BY DEF Init, OnlySelected
  <1>5. Errors
    BY DEF Init, Errors, Bad
  <1>6. Stepped
    BY DEF Init, Stepped
  <1>7. Settled
    BY DEF Init, Settled, FunctionsSettled, WorkflowsSettled, AppsSettled
  <1>8. Contained
    <2>1. IsFiniteSet({}) /\ Cardinality({}) = 0
      BY FS_EmptySet
    <2>2. jobs \in 1..16
      BY <1>1, Lists
    <2> QED
      BY <2>1, <2>2 DEF Init, Contained, FailureContained
  <1>9. Shared
    <2>1. \A s \in Steps \ Built : writes[s] = 0
      BY ProjectTyped DEF Init
    <2>2. ASSUME NEW s \in Steps \ Built PROVE writes[s] <= Changes(s)
      <3>1. Cardinality(ChangesUpTo(s, 0)) \in Nat /\ Cardinality(ChangesUpTo(s, 0)) <= Changes(s)
            /\ Changes(s) \in Nat
        BY <1>1, ChangesCounted
      <3> QED
        BY <2>1, <3>1
    <2> QED
      BY <2>1, <2>2 DEF Init, Shared, StepWrittenOncePerDefinition
  <1> QED
    BY <1>1, <1>3, <1>4, <1>5, <1>6, <1>7, <1>8, <1>9 DEF ReportInv

(* ... every step keeps it.                                                *)
LEMMA ReportStep == ReportInv /\ [Next]_vars => ReportInv'
  <1> SUFFICES ASSUME ReportInv, [Next]_vars PROVE ReportInv'
    OBVIOUS
  <1>1. /\ TypeOK /\ Located /\ Occupied /\ Ordered /\ Recorded
        /\ Within /\ OnlySelected /\ Errors /\ Stepped /\ Settled /\ Contained /\ Shared
    BY DEF ReportInv, Inv
  <1>2. FunctionsSettled /\ WorkflowsSettled /\ AppsSettled
    BY <1>1 DEF Settled
  <1>3. Inv'
    BY InvStep DEF ReportInv
  <1>4. Within'
    BY <1>1, WithinStep
  <1>5. OnlySelected'
    BY <1>1, OnlySelectedStep
  <1>6. Errors'
    BY <1>1, ErrorsStep
  <1>7. Stepped'
    BY <1>1, SteppedStep
  <1>8. Settled'
    BY <1>1, <1>2, FunctionsSettledStep, WorkflowsSettledStep, AppsSettledStep DEF Settled
  <1>9. Contained'
    BY <1>1, ContainedStep
  <1>10. Shared'
    BY <1>1, SharedStep
  <1> QED
    BY <1>3, <1>4, <1>5, <1>6, <1>7, <1>8, <1>9, <1>10 DEF ReportInv

(* The inductive invariant of the report.                                  *)
THEOREM ReportInvAlways == Spec => []ReportInv
  BY ReportInit, ReportStep, PTL DEF Spec

(* A target the selection does not name or need keeps its row unattempted  *)
(* and is never written (Project.deploy with `only`).                      *)
THEOREM SelectedOnly == Spec => []OnlySelected
  BY ReportInvAlways, PTL DEF ReportInv

(* No workflow is written before every step of every selected workflow is  *)
(* succeeded or unchanged: Project.deploy prepares all of them first.      *)
THEOREM StepsFirst == Spec => []StepsBeforeWorkflows
  <1>1. ReportInv => StepsBeforeWorkflows
    <2> SUFFICES ASSUME ReportInv, NEW w \in Elements(plan.workflows), writes[w] > 0
                 PROVE  \A v \in Elements(plan.workflows) : \A s \in Elements(StepsOf[v]) : status[s] \in Good
      BY DEF StepsBeforeWorkflows
    <2>1. w \in Elements(Workflows) /\ phase \in Phases
      BY PlannedStepsTyped DEF ReportInv, Inv, TypeOK
    <2>2. phase \notin Early
      BY <2>1 DEF ReportInv, Inv, Recorded
    <2>3. AllSteps
      BY <2>1, <2>2 DEF ReportInv, Stepped, Phases, Early, Preparatory
    <2> QED
      BY <2>3 DEF AllSteps, PlannedSteps
  <1> QED
    BY <1>1, ReportInvAlways, PTL

(* A report without an error has every planned target succeeded or         *)
(* unchanged, and a failed or uncertain row makes the report an error,     *)
(* whichever thread wrote the row (Project.deploy, _submit_workflows).     *)
THEOREM ReportIsClean == Spec => []CleanReport
  <1>1. ReportInv => CleanReport
    <2> SUFFICES ASSUME ReportInv PROVE CleanReport
      OBVIOUS
    <2>1. Planned \subseteq Targets
      BY PlannedTyped DEF ReportInv, Inv
    <2> QED
      BY <2>1 DEF ReportInv, Settled, AppsSettled, Errors, CleanReport
  <1> QED
    BY <1>1, ReportInvAlways, PTL

(* Once a workflow write has failed at most the other jobs - 1 workflow    *)
(* writes are begun, the ones the pool had already been handed.            *)
THEOREM FailureIsContained == Spec => []FailureContained
  BY ReportInvAlways, PTL DEF ReportInv, Contained

(* After a report without an error a step several workflows share has the  *)
(* definition the last of them resolved, although the step cache skips the *)
(* writes it takes for repeated ones.                                      *)
THEOREM SharedStepsAsLastWanted == Spec => []SharedStepAsLastWanted
  <1>1. ReportInv => SharedStepAsLastWanted
    <2> SUFFICES ASSUME ReportInv, phase = "closed", ~error, NEW s \in Planned \cap (Steps \ Built)
                 PROVE  deployed[s] = Wanted[plan.workflows[LastUse(s)]][s]
      BY DEF SharedStepAsLastWanted
    <2>1. TypeOK /\ AsLast
      BY DEF ReportInv, Inv, Shared
    <2>2. s \in PlannedSteps
      <3>1. /\ Elements(plan.functions) \subseteq Elements(Functions)
            /\ Elements(plan.workflows) \subseteq Elements(Workflows)
            /\ Elements(plan.apps) \subseteq Elements(Apps)
        BY <2>1, PlanTyped, ElementsTyped DEF TypeOK
      <3> QED
        BY <3>1, PlannedParts, TargetsAssumption
    <2>3. Uses(s) # {}
      BY <2>2 DEF PlannedSteps, Elements, Uses
    <2>4. Len(plan.workflows) \in Nat /\ Uses(s) \subseteq 1..Len(plan.workflows)
      BY <2>1, ChangesCounted
    <2>5. \E i \in Uses(s) : \A j \in Uses(s) : j <= i
      BY <2>3, <2>4, LastExists
    <2>6. LastUse(s) \in Uses(s) /\ \A j \in Uses(s) : j <= LastUse(s)
      <3> DEFINE Last(i) == /\ s \in Elements(StepsOf[plan.workflows[i]])
                            /\ \A j \in DOMAIN plan.workflows :
                                  s \in Elements(StepsOf[plan.workflows[j]]) => j <= i
      <3>1. \E i \in DOMAIN plan.workflows : Last(i)
        BY <2>5 DEF Uses
      <3>2. LastUse(s) = CHOOSE i \in DOMAIN plan.workflows : Last(i)
        BY DEF LastUse
      <3>3. LastUse(s) \in DOMAIN plan.workflows /\ Last(LastUse(s))
        BY <3>1, <3>2
      <3> QED
        BY <3>3 DEF Uses
    <2> QED
      BY <2>1, <2>6 DEF AsLast, WantedAt
  <1> QED
    BY <1>1, ReportInvAlways, PTL

(* A step that is not built is written at most once for each change of its *)
(* definition along the workflows of the plan that use it, in their order. *)
THEOREM StepsWrittenOncePerDefinition == Spec => []StepWrittenOncePerDefinition
  BY ReportInvAlways, PTL DEF ReportInv, Shared

--------------------------------------------------------------------------------
(* The pool: nobody waits for a future that no worker will end.            *)

Manned ==
    Pool \/ phase = "draining" =>
        \A w \in pending : /\ busy[w] \in {"idle", "queued", "write"}
                           /\ phase = "draining" => busy[w] # "queued"

(* While the main thread waits for the pool, a future it waits for is done,*)
(* being written, or next for a worker that is free; and while it drains   *)
(* the pool, what is not done is being written.                            *)
FuturesEnd ==
    /\ Pool /\ pending # {} =>
         \E w \in pending : \/ busy[w] \in {"idle", "write"}
                            \/ busy[w] = "queued" /\ Cardinality(Writing) < jobs
    /\ phase = "draining" => \A w \in pending : busy[w] \in {"idle", "write"}

LEMMA MannedStep ==
    ASSUME TypeOK, Located, Occupied, Manned, [Next]_vars
    PROVE  Manned'
  <1> USE DEF args, progress
  <1>1. /\ busy \in [Targets -> Works] /\ jobs' = jobs
        /\ pending \subseteq Targets
    BY Lists, ArgsFixed DEF TypeOK, args
  <1>2. CASE Submit
    <2>1. Pool /\ phase' = phase /\ pending' = pending \cup {Head(todo)} /\ todo # <<>>
          /\ busy' = [busy EXCEPT ![Head(todo)] = "queued"]
      BY <1>2 DEF Submit, Submittable
    <2>2. Head(todo) \in Targets
      BY <2>1, Lists
    <2>3. ASSUME NEW w \in pending' PROVE busy'[w] \in {"idle", "queued", "write"}
      BY <1>1, <2>1, <2>2 DEF Manned
    <2> QED
      BY <2>1, <2>3 DEF Manned, Pool
  <1>3. CASE Collect
    <2>1. Pool /\ phase' = phase /\ pending' \subseteq pending /\ busy' = busy
      BY <1>3 DEF Collect
    <2> QED
      BY <1>1, <2>1 DEF Manned, Pool
  <1>4. CASE Interrupt
    <2>1. CASE InterruptPool
      <3>1. Pool /\ pending' = pending /\ phase' = "draining"
            /\ busy' = [t \in Targets |-> IF t \in Cancelled THEN "idle" ELSE busy[t]]
        BY <2>1 DEF InterruptPool, Shutdown
      <3>2. ASSUME NEW w \in pending PROVE busy'[w] \in {"idle", "write"}
        BY <1>1, <3>1 DEF Manned, Cancelled
      <3> QED
        BY <3>1, <3>2 DEF Manned, Pool
    <2>2. CASE ~InterruptPool
      <3>1. phase' = "closed"
        BY <1>4, <2>2 DEF Interrupt, InterruptSerial, InterruptStep, InterruptPreparation, InterruptIdle,
                          InterruptShutdown, AbortStep, Abort, Close
      <3> QED
        BY <3>1 DEF Manned, Pool
    <2> QED
      BY <2>1, <2>2
  <1>5. ASSUME NEW w \in Targets, WorkerStep(w)
        PROVE  Manned'
    <2>1. UNCHANGED <<phase, pending>> /\ busy' \in {[busy EXCEPT ![w] = "write"], [busy EXCEPT ![w] = "idle"]}
      BY <1>5 DEF WorkerStep, PickUp, FinishWorkflow, Begin, End
    <2> QED
      BY <1>1, <2>1 DEF Manned, Pool
  <1>6. CASE Closed \/ UNCHANGED vars
    BY <1>6 DEF Closed, vars, Manned, Pool
  <1>7. CASE MainStep /\ ~Submit /\ ~Collect
    <2>1. pending' = pending
      BY <1>7 DEF MainStep, EnsureProject, BeginTarget, LookUp, FinishTarget, FunctionsDone, BeginStep, ReuseStep,
                  MatchStep, WriteStep, LookUpStepFails, StepWritten, StepWriteFails, WorkflowPrepared,
                  PreparationFails, AllPrepared, Compare, Adopt, AllAdopted, SubmitDone, AppsDone, Drained,
                  Abort, AbortStep, Close, NextStep
    <2>2. CASE ~Pool /\ phase \notin {"draining", "closed"}
      BY <2>1, <2>2 DEF Occupied, Manned
    <2>3. CASE phase \in {"draining", "closed"} \/ Pool
      <3>1. phase' \in {"closed", "apps"}
        BY <1>7, <2>3 DEF MainStep, EnsureProject, BeginTarget, LookUp, FinishTarget, FunctionsDone, BeginStep,
                ReuseStep, MatchStep, WriteStep, LookUpStepFails, StepWritten, StepWriteFails, WorkflowPrepared,
                PreparationFails, AllPrepared, Compare, Adopt, AllAdopted, SubmitDone, AppsDone, Drained, Pool,
                Serial, Preparing, LookingUp, Enter, Close
      <3> QED
        BY <3>1 DEF Manned, Pool
    <2> QED
      BY <2>2, <2>3
  <1> QED
    BY <1>2, <1>3, <1>4, <1>5, <1>6, <1>7 DEF Next

(* The main thread never waits for a workflow that no worker is writing or *)
(* will take, also after Ctrl-C has cancelled what was not begun (the pool *)
(* of Project.deploy): the safety half of Termination, for any jobs.       *)
THEOREM NobodyWaitsInVain == Spec => []FuturesEnd
  <1>1. Init => Manned
    BY DEF Init, Manned, Pool
  <1>2. ReportInv /\ Manned /\ [Next]_vars => Manned'
    BY MannedStep DEF ReportInv, Inv
  <1>3. ReportInv /\ Manned => FuturesEnd
    <2> SUFFICES ASSUME ReportInv, Manned PROVE FuturesEnd
      OBVIOUS
    <2>1. TypeOK /\ Occupied /\ jobs \in 1..16
      BY Lists DEF ReportInv, Inv
    <2>2. ASSUME Pool, pending # {}, \A w \in pending : busy[w] \notin {"idle", "write"}
          PROVE  \E w \in pending : busy[w] = "queued" /\ Cardinality(Writing) < jobs
      <3>1. PICK w \in pending : busy[w] = "queued"
        BY <2>2 DEF Manned
      <3>2. Writing = {}
        BY <2>1, <2>2 DEF Occupied, Active, Writing
      <3> QED
        BY <2>1, <2>2, <3>1, <3>2, FS_EmptySet DEF Pool
    <2> QED
      BY <2>2 DEF FuturesEnd, Manned
  <1> QED
    BY <1>1, <1>2, <1>3, ReportInvAlways, PTL DEF Spec
================================================================================
