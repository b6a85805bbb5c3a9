-------------------------- MODULE ProjectDeployProofs --------------------------
(***************************************************************************)
(* Proofs about a deployment attempt: for every project, every number of   *)
(* concurrent workflow writes and any number of Ctrl-C.                    *)
(*                                                                         *)
(* The inductive invariant says where the main thread is in the plan       *)
(* (Located), whose deploy is under way (Occupied), and what the rows of   *)
(* the report and the step cache say of the writes so far (Recorded).      *)
(***************************************************************************)
EXTENDS ProjectDeploy, SequenceTheorems, TLAPS

Located ==
    /\ phase = "functions" => todo \in Seq(Elements(Functions))
    /\ phase \in {"prepare", "adopt", "submit"} => todo \in Seq(Elements(Workflows))
    /\ phase = "apps" => todo \in Seq(Elements(Apps))
    /\ phase = "prepare" => steps \in Seq(Steps) /\ (todo = <<>> => steps = <<>>)
    /\ changed \in Seq(Elements(Workflows))
    /\ pending \subseteq Elements(Workflows)

Serving(seq) == IF seq = <<>> THEN {} ELSE {Head(seq)}

Occupied ==
    /\ phase \in {"ensure", "compare", "adopt"} => Active = {}
    /\ Serial => Active \subseteq Serving(todo)
    /\ phase = "prepare" => Active \subseteq Serving(steps)
    /\ Pool \/ phase \in {"draining", "closed"} => Active \subseteq pending
    /\ ~Pool /\ phase \notin {"draining", "closed"} => pending = {}
    /\ phase = "draining" => interrupts > 0
    /\ QuietUnlessInterruptedTwice

Honest(t) ==
    /\ status[t] \in {"unattempted", "unchanged"} => writes[t] = 0
    /\ status[t] = "succeeded" => writes[t] > 0

(* The cache of a step's writes, while workflows are prepared.             *)
CacheHonest(s) ==
    /\ cache[s].definition = Absent \/ cache[s].matched => writes[s] = 0 \/ busy[s] = "write"
    /\ cache[s].definition # Absent => deployed[s] = cache[s].definition
    /\ cache[s].definition # Absent /\ ~cache[s].matched => writes[s] > 0

Preparatory == {"ensure", "functions", "prepare"}
Early == Preparatory \cup {"compare", "adopt"}

Rows ==
    \A t \in Targets :
        /\ busy[t] \in {"idle", "queued"} => Honest(t)
        /\ busy[t] = "write" => writes[t] > 0

Recorded ==
    /\ Rows
    /\ phase \in Early => \A t \in Targets : busy[t] # "queued"
    /\ phase \in Early => \A w \in Elements(Workflows) : writes[w] = 0
    /\ phase \in Preparatory => \A s \in Steps \ Built : CacheHonest(s)

(* No workflow is submitted twice.                                         *)
Ordered ==
    /\ Once(plan.workflows)
    /\ phase \in Preparatory \cup {"compare"} => changed = <<>>
    /\ phase = "adopt" =>
         Once(todo) /\ Once(changed) /\ Elements(todo) \cap Elements(changed) = {}
    /\ phase = "submit" => Once(todo) /\ Elements(todo) \cap pending = {}

Inv == TypeOK /\ Located /\ Occupied /\ Ordered /\ Recorded

--------------------------------------------------------------------------------
(* The project and its plan.                                               *)

(* The elements of a sequence, and the sequence over them.                 *)
LEMMA ElementsTyped ==
    ASSUME NEW S, NEW seq \in Seq(S)
    PROVE  Elements(seq) \subseteq S /\ seq \in Seq(Elements(seq))
  <1>1. Len(seq) \in Nat /\ DOMAIN seq = 1..Len(seq) /\ \A i \in DOMAIN seq : seq[i] \in S
    OBVIOUS
  <1>2. \A i \in 1..Len(seq) : seq[i] \in Elements(seq)
    BY <1>1 DEF Elements
  <1>3. seq \in [1..Len(seq) -> Elements(seq)]
    BY <1>1, <1>2
  <1>4. Elements(seq) \subseteq S
    BY <1>1 DEF Elements
  <1>5. seq \in Seq(Elements(seq))
    BY <1>1, <1>3
  <1> QED
    BY <1>4, <1>5

(* A sequence over a set is one over every larger set.                     *)
LEMMA SubSequence ==
    ASSUME NEW S, NEW T, S \subseteq T, NEW seq \in Seq(S)
    PROVE  seq \in Seq(T)
  OBVIOUS

(* What the assumption on the project says of each of its parts.           *)
LEMMA ProjectTyped ==
    /\ Elements(Functions) \subseteq Targets /\ Functions \in Seq(Elements(Functions))
    /\ Elements(Workflows) \subseteq Targets /\ Workflows \in Seq(Elements(Workflows))
    /\ Elements(Apps) \subseteq Targets /\ Apps \in Seq(Elements(Apps))
    /\ \A w \in Elements(Workflows) : StepsOf[w] \in Seq(Steps)
    /\ Steps \subseteq Targets
    /\ \A w \in Elements(Workflows), s \in Steps : Wanted[w][s] \in Definitions
  <1>1. \A w \in Elements(Workflows) :
           /\ Elements(StepsOf[w]) \subseteq Targets /\ StepsOf[w] \in Seq(Elements(StepsOf[w]))
           /\ Elements(StepsOf[w]) \subseteq Steps
    BY TargetsAssumption, ElementsTyped DEF Steps
  <1>2. \A w \in Elements(Workflows) : StepsOf[w] \in Seq(Steps)
    BY <1>1, SubSequence
  <1>3. Steps \subseteq Targets
    BY <1>1 DEF Steps
  <1> QED
    BY <1>2, <1>3, TargetsAssumption, ElementsTyped

(* Every selection is a plan.                                              *)
LEMMA SelectionTyped == Selection \subseteq Plans
  <1>1. [functions |-> Functions, workflows |-> Workflows, apps |-> Apps] \in Plans
    BY ProjectTyped DEF Plans
  <1>2. ASSUME NEW n \in 1..Len(Workflows), NEW pick \in InOrder(n)
        PROVE  [i \in 1..Len(pick) |-> Workflows[pick[i]]] \in Seq(Elements(Workflows))
    <2>1. n \in Nat /\ pick \in [1..n -> DOMAIN Workflows]
      BY ProjectTyped DEF InOrder
    <2>2. pick \in Seq(DOMAIN Workflows) /\ Len(pick) = n
      BY <2>1, IsASeq
    <2>3. [i \in 1..n |-> Workflows[pick[i]]] \in [1..n -> Elements(Workflows)]
      BY <2>1 DEF Elements
    <2> QED
      BY <2>1, <2>2, <2>3, IsASeq
  <1>3. <<>> \in Seq(Elements(Functions)) /\ <<>> \in Seq(Elements(Apps))
    OBVIOUS
  <1>4. ASSUME NEW pick \in UNION {InOrder(n) : n \in 1..Len(Workflows)}
        PROVE  [functions |-> <<>>, apps |-> <<>>,
                workflows |-> [i \in 1..Len(pick) |-> Workflows[pick[i]]]] \in Plans
    <2>1. PICK n \in 1..Len(Workflows) : pick \in InOrder(n)
      BY <1>4
    <2>2. [i \in 1..Len(pick) |-> Workflows[pick[i]]] \in Seq(Elements(Workflows))
      BY <1>2, <2>1
    <2> QED
      BY <1>3, <2>2 DEF Plans
  <1> QED
    BY <1>1, <1>4 DEF Selection

(* The parts of a plan are targets of the project.                         *)
LEMMA PlanTyped ==
    ASSUME plan \in Plans
    PROVE  /\ plan.functions \in Seq(Elements(Functions)) /\ plan.functions \in Seq(Targets)
           /\ plan.workflows \in Seq(Elements(Workflows)) /\ plan.workflows \in Seq(Targets)
           /\ plan.apps \in Seq(Elements(Apps)) /\ plan.apps \in Seq(Targets)
           /\ Elements(plan.workflows) \subseteq Elements(Workflows)
  BY ProjectTyped, SubSequence, ElementsTyped DEF Plans

--------------------------------------------------------------------------------
(* Type correctness.                                                       *)

(* Rows and writes of one target keep the type of the tables.              *)
LEMMA TablesTyped ==
    ASSUME TypeOK, NEW t \in Targets
    PROVE  /\ \A work \in Works : [busy EXCEPT ![t] = work] \in [Targets -> Works]
           /\ \A outcome \in Statuses : [status EXCEPT ![t] = outcome] \in [Targets -> Statuses]
           /\ [writes EXCEPT ![t] = @ + 1] \in [Targets -> Nat]
           /\ Bad \subseteq Statuses /\ Good \subseteq Statuses
  BY DEF TypeOK, Bad, Good, Statuses

(* The targets a phase is at belong to the project.                        *)
LEMMA AtHand ==
    ASSUME TypeOK, Located
    PROVE  /\ Serial /\ todo # <<>> => Head(todo) \in Targets
           /\ phase = "prepare" /\ todo # <<>> => Head(todo) \in Elements(Workflows) /\ Head(todo) \in Targets
           /\ phase = "prepare" /\ steps # <<>> =>
                Step \in Steps /\ Step \in Targets /\ (todo # <<>> => Want \in Definitions)
           /\ todo # <<>> => Tail(todo) \in Seq(Targets) /\ Head(todo) \in Targets
           /\ steps # <<>> => Tail(steps) \in Seq(Targets) /\ Head(steps) \in Targets
  <1>1. todo \in Seq(Targets) /\ steps \in Seq(Targets)
    BY DEF TypeOK
  <1>2. phase = "prepare" /\ todo # <<>> => Head(todo) \in Elements(Workflows)
    BY DEF Located
  <1>3. phase = "prepare" /\ steps # <<>> => Step \in Steps
    BY DEF Located, Step
  <1> QED
    BY <1>1, <1>2, <1>3, ProjectTyped DEF Want, Step

(* Every step keeps the types.                                             *)
LEMMA TypeStep ==
    ASSUME TypeOK, Located, [Next]_vars
    PROVE  TypeOK'
  <1> USE DEF args, progress
  <1>1. /\ {"idle", "queued", "lookup", "write"} = Works
        /\ {"unattempted", "unchanged", "succeeded", "failed", "uncertain"} = Statuses
        /\ <<>> \in Seq(Targets) /\ TRUE \in BOOLEAN /\ FALSE \in BOOLEAN
    BY DEF Works, Statuses
  <1>2. plan.functions \in Seq(Targets) /\ plan.workflows \in Seq(Targets) /\ plan.apps \in Seq(Targets)
    BY PlanTyped DEF TypeOK
  <1>3. \A w \in Elements(Workflows) : StepsOf[w] \in Seq(Targets)
    BY ProjectTyped, SubSequence
  <1>4. plan.workflows # <<>> => Head(plan.workflows) \in Elements(Workflows)
    BY PlanTyped DEF TypeOK
  (* The ends of a target's deploy.                                        *)
  <1>5. ASSUME NEW t \in Targets, NEW outcome \in Statuses, End(t, outcome)
        PROVE  busy' \in [Targets -> Works] /\ status' \in [Targets -> Statuses]
    BY <1>1, <1>5, TablesTyped DEF End
  <1>6. ASSUME NEW t \in Targets, NEW outcome \in Bad, Abort(t, outcome)
        PROVE  /\ busy' \in [Targets -> Works] /\ status' \in [Targets -> Statuses]
               /\ phase' = "closed" /\ error' = TRUE /\ UNCHANGED progress
    BY <1>5, <1>6, TablesTyped DEF Abort, Close
  <1>7. ASSUME phase = "prepare", todo # <<>>, steps # <<>>, NEW outcome \in Bad, AbortStep(outcome)
        PROVE  /\ busy' \in [Targets -> Works] /\ status' \in [Targets -> Statuses]
               /\ phase' = "closed" /\ error' = TRUE /\ UNCHANGED progress
    <2>1. Step \in Targets /\ Head(todo) \in Targets /\ outcome \in Statuses
      BY <1>7, AtHand, TablesTyped
    <2> QED
      BY <1>1, <1>7, <2>1 DEF AbortStep, Close, TypeOK
  <1>8. ASSUME phase = "prepare", todo # <<>>, steps # <<>>, NEW outcome \in Statuses, NextStep(outcome)
        PROVE  /\ busy' \in [Targets -> Works] /\ status' \in [Targets -> Statuses] /\ steps' \in Seq(Targets)
               /\ UNCHANGED <<phase, todo, changed, matched, pending, failure, error>>
    BY <1>5, <1>8, AtHand DEF NextStep
  <1>9. CASE EnsureProject
    BY <1>2, <1>9 DEF EnsureProject, Enter, Close, TypeOK, Phases
  <1>10. CASE BeginTarget
    <2>1. Head(todo) \in Targets
      BY <1>10, AtHand DEF BeginTarget
    <2>2. /\ busy' \in {[busy EXCEPT ![Head(todo)] = "write"], [busy EXCEPT ![Head(todo)] = "lookup"]}
          /\ status' = [status EXCEPT ![Head(todo)] = "unattempted"]
          /\ writes' \in {writes, [writes EXCEPT ![Head(todo)] = @ + 1]}
      BY <1>10 DEF BeginTarget, Begin
    <2>3. busy' \in [Targets -> Works] /\ status' \in [Targets -> Statuses] /\ writes' \in [Targets -> Nat]
      <3>1. writes \in [Targets -> Nat]
        BY DEF TypeOK
      <3> QED
        BY <1>1, <2>1, <2>2, <3>1, TablesTyped
    <2> QED
      BY <1>10, <2>3 DEF BeginTarget, TypeOK
  <1>11. CASE LookUp
    <2>1. Head(todo) \in Targets
      BY <1>11, AtHand DEF LookUp
    <2>2. CASE StartWrite(Head(todo)) /\ UNCHANGED <<phase, progress, error, status>>
      <3>1. busy' \in [Targets -> Works] /\ writes' \in [Targets -> Nat]
        BY <1>1, <2>1, <2>2, TablesTyped DEF StartWrite
      <3> QED
        BY <1>11, <2>2, <3>1 DEF LookUp, TypeOK
    <2>3. CASE \E outcome \in Bad : Abort(Head(todo), outcome) /\ UNCHANGED writes
      BY <1>6, <1>11, <2>1, <2>3 DEF LookUp, TypeOK, Phases
    <2> QED
      BY <1>11, <2>2, <2>3 DEF LookUp
  <1>12. CASE FinishTarget
    <2>1. Head(todo) \in Targets /\ Tail(todo) \in Seq(Targets)
      BY <1>12, AtHand DEF FinishTarget
    <2>2. CASE /\ End(Head(todo), "succeeded") /\ todo' = Tail(todo)
               /\ UNCHANGED <<phase, steps, changed, matched, pending, failure, error>>
      BY <1>1, <1>5, <1>12, <2>1, <2>2 DEF FinishTarget, TypeOK
    <2>3. CASE \E outcome \in Bad : Abort(Head(todo), outcome)
      BY <1>6, <1>12, <2>1, <2>3 DEF FinishTarget, TypeOK, Phases
    <2> QED
      BY <1>12, <2>2, <2>3 DEF FinishTarget
  <1>13. CASE FunctionsDone
    BY <1>1, <1>2, <1>3, <1>4, <1>13 DEF FunctionsDone, Enter, TypeOK, Phases
  <1>14. CASE BeginStep
    <2>1. Step \in Targets
      BY <1>14, AtHand DEF BeginStep, Preparing
    <2> QED
      BY <1>1, <1>14, <2>1, TablesTyped DEF BeginStep, Begin, TypeOK
  <1>15. CASE ReuseStep
    BY <1>1, <1>8, <1>15 DEF ReuseStep, LookingUp, Preparing, TypeOK
  <1>16. CASE MatchStep
    <2>1. phase = "prepare" /\ todo # <<>> /\ steps # <<>> /\ NextStep("unchanged")
      BY <1>16 DEF MatchStep, LookingUp, Preparing
    <2>2. cache' \in [Steps -> Entries]
      BY <1>16, <2>1, AtHand DEF MatchStep, Remember, TypeOK, Entries
    <2> QED
      BY <1>1, <1>8, <1>16, <2>1, <2>2 DEF MatchStep, TypeOK
  <1>17. CASE WriteStep
    <2>1. Step \in Targets
      BY <1>17, AtHand DEF WriteStep, LookingUp, Preparing
    <2> QED
      BY <1>1, <1>17, <2>1, TablesTyped DEF WriteStep, StartWrite, TypeOK
  <1>18. CASE LookUpStepFails
    BY <1>7, <1>18 DEF LookUpStepFails, LookingUp, Preparing, TypeOK, Phases
  <1>19. CASE StepWritten
    <2>1. phase = "prepare" /\ todo # <<>> /\ steps # <<>> /\ NextStep("succeeded")
      BY <1>19 DEF StepWritten, Preparing
    <2>2. cache' \in [Steps -> Entries] /\ deployed' \in [Steps -> Definitions \cup {Absent}]
      BY <1>19, <2>1, AtHand DEF StepWritten, Remember, TypeOK, Entries
    <2> QED
      BY <1>1, <1>8, <1>19, <2>1, <2>2 DEF StepWritten, TypeOK
  <1>20. CASE StepWriteFails
    <2>1. phase = "prepare" /\ todo # <<>> /\ steps # <<>>
      BY <1>20 DEF StepWriteFails, Preparing
    <2>2. deployed' \in [Steps -> Definitions \cup {Absent}]
      BY <1>20, <2>1, AtHand DEF StepWriteFails, TypeOK
    <2> QED
      BY <1>7, <1>20, <2>1, <2>2 DEF StepWriteFails, TypeOK, Phases
  <1>21. CASE WorkflowPrepared
    <2>1. phase = "prepare" /\ todo # <<>> /\ todo' = Tail(todo) /\ Tail(todo) \in Seq(Targets)
      BY <1>21, AtHand DEF WorkflowPrepared, Preparing
    <2>2. Tail(todo) # <<>> => Head(Tail(todo)) \in Elements(Workflows)
      BY <2>1 DEF Located
    <2> QED
      BY <1>1, <1>3, <1>21, <2>1, <2>2 DEF WorkflowPrepared, TypeOK
  <1>22. CASE PreparationFails
    <2>1. Head(todo) \in Targets
      BY <1>22, AtHand DEF PreparationFails, Preparing
    <2> QED
      BY <1>6, <1>22, <2>1 DEF PreparationFails, TypeOK, Phases
  <1>23. CASE AllPrepared \/ AllAdopted \/ AppsDone \/ Drained
    BY <1>23 DEF AllPrepared, AllAdopted, AppsDone, Drained, Enter, TypeOK, Phases
  <1>24. CASE Compare
    <2>1. Elements(plan.workflows) \subseteq Targets
      BY PlanTyped, ProjectTyped DEF TypeOK
    <2>2. matched' \subseteq Targets
      BY <1>24, <2>1 DEF Compare, Close, TypeOK
    <2> QED
      BY <1>2, <1>24, <2>2 DEF Compare, Close, Enter, TypeOK, Phases
  <1>25. CASE Adopt
    <2>1. Head(todo) \in Targets /\ Tail(todo) \in Seq(Targets)
      BY <1>25, AtHand DEF Adopt
    <2>2. status' \in {status, [status EXCEPT ![Head(todo)] = "unchanged"]}
      BY <1>25 DEF Adopt
    <2>3. status' \in [Targets -> Statuses]
      BY <1>1, <2>1, <2>2, TablesTyped DEF TypeOK
    <2>4. changed' \in {changed, Append(changed, Head(todo))}
      BY <1>25 DEF Adopt
    <2>5. changed \in Seq(Targets)
      BY DEF TypeOK
    <2>6. changed' \in Seq(Targets)
      BY <2>1, <2>4, <2>5, AppendProperties
    <2> QED
      BY <1>25, <2>1, <2>3, <2>6 DEF Adopt, TypeOK
  <1>26. CASE Submit
    <2>1. Head(todo) \in Targets /\ Tail(todo) \in Seq(Targets)
      BY <1>26, AtHand DEF Submit, Submittable
    <2> QED
      BY <1>1, <1>26, <2>1, TablesTyped DEF Submit, TypeOK
  <1>27. CASE Collect
    BY <1>27 DEF Collect, TypeOK
  <1>28. CASE SubmitDone
    BY <1>2, <1>28 DEF SubmitDone, Close, Enter, SelectedApps, TypeOK, Phases
  <1>29. ASSUME NEW w \in Targets, PickUp(w) PROVE TypeOK'
    BY <1>1, <1>29, TablesTyped DEF PickUp, Begin, TypeOK
  <1>30. ASSUME NEW w \in Targets, FinishWorkflow(w) PROVE TypeOK'
    <2>1. PICK outcome \in Statuses : End(w, outcome)
      BY <1>30 DEF FinishWorkflow, Bad, Statuses
    <2>2. error' \in BOOLEAN
      BY <1>30 DEF FinishWorkflow
    <2> QED
      BY <1>5, <1>30, <2>1, <2>2 DEF FinishWorkflow, TypeOK
  <1>31. CASE Interrupt
    <2>1. interrupts' \in 0..MaxInterrupts /\ UNCHANGED <<args, cache, writes, late>>
      BY <1>31, InterruptsAssumption DEF Interrupt, TypeOK
    <2>2. \A t : Outcomes(t) \subseteq Bad
      BY DEF Outcomes, Bad
    <2>3. CASE InterruptSerial
      <3>1. Head(todo) \in Targets
        BY <2>3, AtHand DEF InterruptSerial
      <3> QED
        BY <1>6, <2>1, <2>2, <2>3, <3>1 DEF InterruptSerial, TypeOK, Phases
    <2>4. CASE InterruptStep
      <3>1. phase = "prepare" /\ todo # <<>> /\ steps # <<>>
        BY <2>4 DEF InterruptStep, Preparing
      <3>2. deployed' \in [Steps -> Definitions \cup {Absent}]
        BY <2>4, <3>1, AtHand DEF InterruptStep, TypeOK
      <3> QED
        BY <1>7, <2>1, <2>2, <2>4, <3>1, <3>2 DEF InterruptStep, TypeOK, Phases
    <2>5. CASE InterruptPreparation
      <3>1. Head(todo) \in Targets /\ "failed" \in Bad
        BY <2>5, AtHand DEF InterruptPreparation, Preparing, Bad
      <3> QED
        BY <1>6, <2>1, <2>5, <3>1 DEF InterruptPreparation, TypeOK, Phases
    <2>6. CASE InterruptIdle \/ InterruptShutdown
      BY <2>1, <2>6 DEF InterruptIdle, InterruptShutdown, Close, TypeOK, Phases
    <2>7. CASE InterruptPool
      <3>1. busy' \in [Targets -> Works]
        BY <1>1, <2>7 DEF InterruptPool, TypeOK
      <3> QED
        BY <2>1, <2>7, <3>1 DEF InterruptPool, Shutdown, TypeOK, Phases
    <2> QED
      BY <1>31, <2>3, <2>4, <2>5, <2>6, <2>7 DEF Interrupt
  <1>32. CASE UNCHANGED vars
    BY <1>32 DEF vars, TypeOK
  <1> QED
    BY <1>9, <1>10, <1>11, <1>12, <1>13, <1>14, <1>15, <1>16, <1>17, <1>18, <1>19, <1>20,
       <1>21, <1>22, <1>23, <1>24, <1>25, <1>26, <1>27, <1>28, <1>29, <1>30, <1>31, <1>32
    DEF Next, MainStep, WorkerStep, Closed

--------------------------------------------------------------------------------
(* Located: a phase goes through its own part of the plan.                 *)

(* Head and tail of a sequence that is not empty.                          *)
LEMMA TailTyped ==
    ASSUME NEW S, NEW seq \in Seq(S), seq # <<>>
    PROVE  Head(seq) \in S /\ Tail(seq) \in Seq(S)
  OBVIOUS

(* A sequence with one more element of the same set.                       *)
LEMMA AppendTyped ==
    ASSUME NEW S, NEW seq \in Seq(S), NEW e \in S
    PROVE  Append(seq, e) \in Seq(S)
  OBVIOUS

(* Phases that go through no targets.                                      *)
LEMMA LocatedWhenClosed ==
    ASSUME Located, phase' \in {"closed", "draining", "compare", "ensure"}, UNCHANGED <<changed, pending>>
    PROVE  Located'
  BY DEF Located

(* Steps of a target do not move the main thread on.                       *)
LEMMA LocatedWhenStill ==
    ASSUME Located, UNCHANGED <<phase, progress>>
    PROVE  Located'
  BY DEF Located, progress

(* Every step keeps Located.                                               *)
LEMMA LocatedStep ==
    ASSUME TypeOK, Located, [Next]_vars
    PROVE  Located'
  <1> USE DEF args, progress
  <1>1. /\ plan.functions \in Seq(Elements(Functions)) /\ plan.workflows \in Seq(Elements(Workflows))
        /\ plan.apps \in Seq(Elements(Apps))
    BY PlanTyped DEF TypeOK
  <1>2. \A w \in Elements(Workflows) : StepsOf[w] \in Seq(Steps)
    BY ProjectTyped
  <1>3. \A t, outcome : Abort(t, outcome) => Located'
    BY LocatedWhenClosed DEF Abort, Close
  <1>4. \A outcome : AbortStep(outcome) => Located'
    BY LocatedWhenClosed DEF AbortStep, Close
  <1>5. ASSUME phase = "prepare", todo # <<>>, steps # <<>>, NEW outcome, NextStep(outcome)
        PROVE  Located'
    BY <1>5, TailTyped DEF NextStep, Located
  <1>6. CASE EnsureProject
    <2>1. CASE Close
      BY <1>6, <2>1, LocatedWhenClosed DEF Close
    <2>2. CASE Enter("functions", plan.functions) /\ UNCHANGED <<changed, pending>>
      BY <1>1, <2>2 DEF Enter, Located
    <2> QED
      BY <1>6, <2>1, <2>2 DEF EnsureProject
  <1>7. CASE BeginTarget \/ BeginStep \/ WriteStep
    BY <1>7, LocatedWhenStill DEF BeginTarget, BeginStep, WriteStep
  <1>8. CASE LookUp
    BY <1>3, <1>8, LocatedWhenStill DEF LookUp
  <1>9. CASE FinishTarget
    <2>1. CASE /\ todo' = Tail(todo) /\ UNCHANGED <<phase, steps, changed, matched, pending, failure, error>>
      BY <1>9, <2>1, TailTyped DEF FinishTarget, Serial, Located
    <2> QED
      BY <1>3, <1>9, <2>1 DEF FinishTarget
  <1>10. CASE FunctionsDone
    BY <1>1, <1>2, <1>10, TailTyped DEF FunctionsDone, Enter, Located
  <1>11. CASE ReuseStep \/ MatchStep \/ StepWritten
    BY <1>5, <1>11 DEF ReuseStep, MatchStep, StepWritten, LookingUp, Preparing
  <1>12. CASE LookUpStepFails \/ StepWriteFails
    BY <1>4, <1>12 DEF LookUpStepFails, StepWriteFails
  <1>13. CASE WorkflowPrepared
    <2>1. phase = "prepare" /\ phase' = "prepare" /\ todo # <<>> /\ todo' = Tail(todo) /\ UNCHANGED <<changed, pending>>
      BY <1>13 DEF WorkflowPrepared, Preparing
    <2>2. todo' \in Seq(Elements(Workflows)) /\ (todo' # <<>> => Head(todo') \in Elements(Workflows))
      BY <2>1, TailTyped DEF Located
    <2>3. steps' \in Seq(Steps) /\ (todo' = <<>> => steps' = <<>>)
      BY <1>2, <1>13, <2>1, <2>2 DEF WorkflowPrepared
    <2> QED
      BY <2>1, <2>2, <2>3 DEF Located
  <1>14. CASE PreparationFails
    BY <1>3, <1>14 DEF PreparationFails
  <1>15. CASE AllPrepared \/ AppsDone \/ Drained
    BY <1>15, LocatedWhenClosed DEF AllPrepared, AppsDone, Drained
  <1>16. CASE Compare
    <2>1. CASE Close
      BY <1>16, <2>1, LocatedWhenClosed DEF Close
    <2>2. CASE Enter("adopt", plan.workflows) /\ UNCHANGED <<changed, pending>>
      BY <1>1, <2>2 DEF Enter, Located
    <2> QED
      BY <1>16, <2>1, <2>2 DEF Compare
  <1>17. CASE Adopt
    <2>1. /\ phase = "adopt" /\ phase' = "adopt" /\ todo # <<>> /\ todo' = Tail(todo) /\ pending' = pending
          /\ changed' \in {changed, Append(changed, Head(todo))}
      BY <1>17 DEF Adopt
    <2>2. /\ todo' \in Seq(Elements(Workflows)) /\ Head(todo) \in Elements(Workflows)
          /\ changed \in Seq(Elements(Workflows)) /\ pending \subseteq Elements(Workflows)
      BY <2>1, TailTyped DEF Located
    <2>3. changed' \in Seq(Elements(Workflows))
      <3>1. Append(changed, Head(todo)) \in Seq(Elements(Workflows))
        BY <2>2, AppendTyped
      <3> QED
        BY <2>1, <2>2, <3>1
    <2> QED
      BY <2>1, <2>2, <2>3 DEF Located
  <1>18. CASE AllAdopted
    BY <1>18 DEF AllAdopted, Enter, Located
  <1>19. CASE Submit
    <2>1. /\ phase = "submit" /\ phase' = "submit" /\ todo # <<>> /\ todo' = Tail(todo)
          /\ pending' = pending \cup {Head(todo)} /\ changed' = changed
      BY <1>19 DEF Submit, Submittable, Pool
    <2> QED
      BY <2>1, TailTyped DEF Located
  <1>20. CASE Collect
    BY <1>20 DEF Collect, Located
  <1>21. CASE SubmitDone
    <2>1. CASE Close
      BY <1>21, <2>1, LocatedWhenClosed DEF Close
    <2>2. CASE Enter("apps", SelectedApps) /\ UNCHANGED <<changed, pending>>
      BY <1>1, <2>2 DEF Enter, SelectedApps, Located
    <2> QED
      BY <1>21, <2>1, <2>2 DEF SubmitDone
  <1>22. ASSUME NEW w \in Targets, WorkerStep(w) PROVE Located'
    BY <1>22, LocatedWhenStill DEF WorkerStep, PickUp, FinishWorkflow
  <1>23. CASE Interrupt
    <2>1. CASE InterruptSerial \/ InterruptStep \/ InterruptPreparation
      BY <1>3, <1>4, <2>1 DEF InterruptSerial, InterruptStep, InterruptPreparation
    <2>2. CASE InterruptIdle \/ InterruptShutdown
      BY <2>2, LocatedWhenClosed DEF InterruptIdle, InterruptShutdown, Close
    <2>3. CASE InterruptPool
      BY <2>3, LocatedWhenClosed DEF InterruptPool, Shutdown
    <2> QED
      BY <1>23, <2>1, <2>2, <2>3 DEF Interrupt
  <1>24. CASE UNCHANGED vars
    BY <1>24, LocatedWhenStill DEF vars
  <1> QED
    BY <1>6, <1>7, <1>8, <1>9, <1>10, <1>11, <1>12, <1>13, <1>14, <1>15, <1>16, <1>17, <1>18,
       <1>19, <1>20, <1>21, <1>22, <1>23, <1>24
    DEF Next, MainStep, Closed

--------------------------------------------------------------------------------
(* Occupied: whose deploy is under way.                                    *)

(* One entry of busy changes.                                              *)
LEMMA ActiveChanges ==
    ASSUME TypeOK, NEW t \in Targets, NEW work, busy' = [busy EXCEPT ![t] = work]
    PROVE  /\ Active' \subseteq Active \cup {t}
           /\ t \in Active => Active' \subseteq Active
           /\ work = "idle" => Active' = Active \ {t}
  BY DEF Active, TypeOK

(* Where nothing is under way and nothing pending, nothing is claimed.     *)
LEMMA OccupiedWhenQuiet ==
    ASSUME Active' = {}, pending' = {}, phase' # "draining"
    PROVE  Occupied'
  BY DEF Occupied, QuietUnlessInterruptedTwice, QuietWhenClosed

(* A deploy under way that goes on, or ends, where the main thread stays.  *)
LEMMA OccupiedWhenStill ==
    ASSUME Occupied, UNCHANGED <<args, phase, progress, interrupts>>, Active' \subseteq Active
    PROVE  Occupied'
  BY DEF Occupied, QuietUnlessInterruptedTwice, QuietWhenClosed, args, progress, Serial, Pool, Serving

(* Nothing is pending, and at most the head is active.                     *)
LEMMA Alone ==
    ASSUME TypeOK, Occupied
    PROVE  /\ Serial => pending = {} /\ (todo = <<>> => Active = {}) /\ (todo # <<>> => Active \subseteq {Head(todo)})
           /\ phase = "prepare" =>
                pending = {} /\ (steps = <<>> => Active = {}) /\ (steps # <<>> => Active \subseteq {Step})
           /\ phase \in {"ensure", "compare", "adopt"} => pending = {} /\ Active = {}
  BY DEF Occupied, Serial, Pool, Serving, Step

(* Every step keeps Occupied.                                              *)
LEMMA OccupiedStep ==
    ASSUME TypeOK, Located, Occupied, [Next]_vars
    PROVE  Occupied'
  <1> USE DEF args, progress
  <1>1. jobs \in 1..16
    BY JobsAssumption DEF TypeOK
  <1>2. UNCHANGED busy => Active' = Active
    BY DEF Active
  <1>3. ASSUME NEW t \in Targets, NEW outcome, Abort(t, outcome), pending = {}, Active \subseteq {t}
        PROVE  Occupied'
    BY <1>3, ActiveChanges, OccupiedWhenQuiet DEF Abort, End, Close
  <1>4. ASSUME phase = "prepare", todo # <<>>, steps # <<>>, NEW outcome, AbortStep(outcome)
        PROVE  Occupied'
    BY <1>4, AtHand, Alone, ActiveChanges, OccupiedWhenQuiet DEF AbortStep, Close
  <1>5. ASSUME phase = "prepare", todo # <<>>, steps # <<>>, NEW outcome, NextStep(outcome)
        PROVE  Occupied'
    BY <1>5, AtHand, Alone, ActiveChanges, OccupiedWhenQuiet DEF NextStep, End
  <1>6. CASE EnsureProject \/ Compare
    BY <1>2, <1>6, Alone, OccupiedWhenQuiet DEF EnsureProject, Compare, Enter, Close
  <1>7. CASE BeginTarget
    <2>1. Serial /\ todo # <<>> /\ Head(todo) \in Targets
      BY <1>7, AtHand DEF BeginTarget
    <2>2. Active' \subseteq Active \cup {Head(todo)}
      BY <1>7, <2>1, ActiveChanges DEF BeginTarget, Begin
    <2>3. Active' \subseteq Serving(todo) /\ UNCHANGED <<args, phase, progress, interrupts>>
      BY <1>7, <2>1, <2>2, Alone DEF BeginTarget, Serving
    <2> QED
      BY <2>1, <2>3 DEF Occupied, Serial, Pool, Serving, QuietUnlessInterruptedTwice, QuietWhenClosed
  <1>8. CASE LookUp
    <2>1. Serial /\ todo # <<>> /\ Head(todo) \in Targets /\ Head(todo) \in Active
      BY <1>8, AtHand DEF LookUp, Active
    <2>2. CASE StartWrite(Head(todo)) /\ UNCHANGED <<phase, progress, error, status>>
      BY <1>8, <2>1, <2>2, ActiveChanges, OccupiedWhenStill DEF LookUp, StartWrite
    <2> QED
      BY <1>3, <1>8, <2>1, <2>2, Alone DEF LookUp
  <1>9. CASE FinishTarget
    <2>1. Serial /\ todo # <<>> /\ Head(todo) \in Targets
      BY <1>9, AtHand DEF FinishTarget
    <2>2. CASE End(Head(todo), "succeeded") /\ UNCHANGED <<phase, pending>>
      BY <2>1, <2>2, Alone, ActiveChanges, OccupiedWhenQuiet DEF End, Serial
    <2> QED
      BY <1>3, <1>9, <2>1, <2>2, Alone DEF FinishTarget
  <1>10. CASE FunctionsDone \/ AppsDone
    BY <1>2, <1>10, Alone, OccupiedWhenQuiet DEF FunctionsDone, AppsDone, Enter, Serial
  <1>11. CASE BeginStep
    <2>1. phase = "prepare" /\ steps # <<>> /\ Step \in Targets
      BY <1>11, AtHand DEF BeginStep, Preparing
    <2>2. Active' \subseteq Serving(steps) /\ UNCHANGED <<args, phase, progress, interrupts>>
      BY <1>11, <2>1, ActiveChanges, Alone DEF BeginStep, Begin, Serving, Step
    <2> QED
      BY <2>1, <2>2 DEF Occupied, Serial, Pool, Serving, QuietUnlessInterruptedTwice, QuietWhenClosed
  <1>12. CASE WriteStep
    <2>1. Step \in Targets /\ Step \in Active
      BY <1>12, AtHand DEF WriteStep, LookingUp, Preparing, Active
    <2> QED
      BY <1>12, <2>1, ActiveChanges, OccupiedWhenStill DEF WriteStep, StartWrite
  <1>13. CASE ReuseStep \/ MatchStep \/ StepWritten
    BY <1>5, <1>13 DEF ReuseStep, MatchStep, StepWritten, LookingUp, Preparing
  <1>14. CASE LookUpStepFails \/ StepWriteFails
    BY <1>4, <1>14 DEF LookUpStepFails, StepWriteFails, LookingUp, Preparing
  <1>15. CASE WorkflowPrepared
    BY <1>2, <1>15, Alone, OccupiedWhenQuiet DEF WorkflowPrepared, Preparing
  <1>16. CASE PreparationFails
    BY <1>3, <1>16, Alone, AtHand DEF PreparationFails, Preparing
  <1>17. CASE AllPrepared
    BY <1>2, <1>17, Alone, OccupiedWhenQuiet DEF AllPrepared, Located
  <1>18. CASE Adopt \/ AllAdopted
    BY <1>2, <1>18, Alone, OccupiedWhenQuiet DEF Adopt, AllAdopted, Enter
  <1>19. CASE Submit
    <2>1. phase = "submit" /\ Pool /\ Pool' /\ Head(todo) \in Targets /\ phase' = "submit"
          /\ pending' = pending \cup {Head(todo)} /\ Active \subseteq pending
      BY <1>19, AtHand DEF Submit, Submittable, Pool, Occupied
    <2>2. Active' \subseteq pending'
      BY <1>19, <2>1, ActiveChanges DEF Submit
    <2> QED
      BY <2>1, <2>2 DEF Occupied, Serial, Pool, QuietUnlessInterruptedTwice, QuietWhenClosed
  <1>20. CASE Collect
    <2>1. Pool /\ Pool' /\ Active' = Active /\ Active \subseteq pending /\ phase' = phase
      BY <1>2, <1>20 DEF Collect, Pool, Occupied
    <2>2. Active' \subseteq pending'
      BY <1>20, <2>1 DEF Collect, Active
    <2> QED
      BY <2>1, <2>2 DEF Occupied, Serial, Pool, QuietUnlessInterruptedTwice, QuietWhenClosed
  <1>21. CASE SubmitDone
    <2>1. pending = {} /\ Active = {}
      BY <1>1, <1>21, Alone DEF SubmitDone, Occupied, Serial, Pool
    <2> QED
      BY <1>2, <1>21, <2>1, OccupiedWhenQuiet DEF SubmitDone, Close, Enter
  <1>22. CASE Drained
    <2>1. Active = {} /\ Active' = {} /\ phase' = "closed"
      BY <1>2, <1>22 DEF Drained, Occupied, Active
    <2> QED
      BY <2>1 DEF Occupied, Serial, Pool, QuietUnlessInterruptedTwice, QuietWhenClosed
  <1>23. ASSUME NEW w \in Targets, WorkerStep(w) PROVE Occupied'
    <2>1. CASE PickUp(w)
      BY <2>1, ActiveChanges, OccupiedWhenStill DEF PickUp, Begin, Active
    <2>2. CASE FinishWorkflow(w)
      <3>1. PICK outcome : End(w, outcome)
        BY <2>2 DEF FinishWorkflow
      <3>2. busy' = [busy EXCEPT ![w] = "idle"]
        BY <3>1 DEF End
      <3>3. w \in Active
        BY <2>2 DEF FinishWorkflow, Active
      <3>4. Active' \subseteq Active
        BY <3>2, <3>3, ActiveChanges
      <3>5. UNCHANGED <<args, phase, progress, interrupts>>
        BY <2>2 DEF FinishWorkflow
      <3> QED
        BY <3>4, <3>5, OccupiedWhenStill
    <2> QED
      BY <1>23, <2>1, <2>2 DEF WorkerStep
  <1>24. CASE Interrupt
    <2>1. interrupts' = interrupts + 1 /\ interrupts \in Nat
      BY <1>24, InterruptsAssumption DEF Interrupt, TypeOK
    <2>2. CASE InterruptSerial
      BY <1>3, <2>2, Alone, AtHand DEF InterruptSerial
    <2>3. CASE InterruptStep
      BY <1>4, <2>3 DEF InterruptStep, Preparing
    <2>4. CASE InterruptPreparation
      <3>1. phase = "prepare" /\ todo # <<>> /\ Head(todo) \in Targets /\ pending = {}
        BY <2>4, Alone, AtHand DEF InterruptPreparation, Preparing
      <3>2. Active = {}
        BY <2>4, <3>1, Alone DEF InterruptPreparation, Active
      <3> QED
        BY <1>3, <2>4, <3>1, <3>2 DEF InterruptPreparation
    <2>5. CASE InterruptIdle
      <3>1. pending = {} /\ Active = {}
        <4>1. CASE Serial
          BY <2>5, <4>1, Alone DEF InterruptIdle, Active
        <4>2. CASE phase = "prepare"
          BY <2>5, <4>2, Alone DEF InterruptIdle, Preparing, Located
        <4>3. CASE phase \in {"ensure", "compare", "adopt"}
          BY <4>3, Alone
        <4> QED
          BY <1>1, <2>5, <4>1, <4>2, <4>3 DEF InterruptIdle, Serial, Pool, TypeOK, Phases
      <3> QED
        BY <1>2, <2>5, <3>1, OccupiedWhenQuiet DEF InterruptIdle, Close
    <2>6. CASE InterruptPool
      <3>1. phase' = "draining" /\ pending' = pending /\ Active \subseteq pending
        BY <2>6 DEF InterruptPool, Shutdown, Occupied
      <3>2. Active' \subseteq Active
        BY <2>6 DEF InterruptPool, Active
      <3> QED
        BY <2>1, <3>1, <3>2 DEF Occupied, Serial, Pool, QuietUnlessInterruptedTwice, QuietWhenClosed
    <2>7. CASE InterruptShutdown
      <3>1. phase' = "closed" /\ pending' = pending /\ Active' = Active /\ Active \subseteq pending /\ interrupts > 0
        BY <1>2, <2>7 DEF InterruptShutdown, Close, Occupied
      <3> QED
        BY <2>1, <3>1 DEF Occupied, Serial, Pool, QuietUnlessInterruptedTwice, QuietWhenClosed
    <2> QED
      BY <1>24, <2>2, <2>3, <2>4, <2>5, <2>6, <2>7 DEF Interrupt
  <1>25. CASE UNCHANGED vars
    BY <1>2, <1>25, OccupiedWhenStill DEF vars
  <1> QED
    BY <1>6, <1>7, <1>8, <1>9, <1>10, <1>11, <1>12, <1>13, <1>14, <1>15, <1>16, <1>17, <1>18,
       <1>19, <1>20, <1>21, <1>22, <1>23, <1>24, <1>25
    DEF Next, MainStep, Closed

--------------------------------------------------------------------------------
(* Ordered: no workflow is submitted twice.                                *)

(* The rest of a sequence without duplicates lacks its head.               *)
LEMMA TailOnce ==
    ASSUME NEW S, NEW seq \in Seq(S), seq # <<>>
    PROVE  /\ Head(seq) \in Elements(seq) /\ Elements(Tail(seq)) \subseteq Elements(seq)
           /\ Once(seq) => Once(Tail(seq)) /\ Head(seq) \notin Elements(Tail(seq))
  <1>1. /\ Len(seq) \in Nat /\ Len(seq) > 0 /\ DOMAIN seq = 1..Len(seq) /\ Head(seq) = seq[1]
        /\ DOMAIN Tail(seq) = 1..(Len(seq) - 1)
        /\ \A i \in 1..(Len(seq) - 1) : Tail(seq)[i] = seq[i + 1]
    OBVIOUS
  <1> QED
    BY <1>1 DEF Elements, Once

(* A new element keeps a sequence free of duplicates.                      *)
LEMMA AppendOnce ==
    ASSUME NEW S, NEW seq \in Seq(S), NEW e \in S
    PROVE  /\ Elements(Append(seq, e)) = Elements(seq) \cup {e}
           /\ Once(seq) /\ e \notin Elements(seq) => Once(Append(seq, e))
  <1>1. /\ Len(seq) \in Nat /\ DOMAIN seq = 1..Len(seq)
        /\ DOMAIN Append(seq, e) = 1..(Len(seq) + 1)
        /\ \A i \in 1..Len(seq) : Append(seq, e)[i] = seq[i]
        /\ Append(seq, e)[Len(seq) + 1] = e
    OBVIOUS
  <1>2. 1..(Len(seq) + 1) = (1..Len(seq)) \cup {Len(seq) + 1}
    BY <1>1
  <1> QED
    BY <1>1, <1>2 DEF Elements, Once

(* The workflows of a plan are distinct.                                   *)
LEMMA SelectionOnce ==
    ASSUME NEW selected \in Selection
    PROVE  Once(selected.workflows)
  <1>1. CASE selected = [functions |-> Functions, workflows |-> Workflows, apps |-> Apps]
    BY <1>1, TargetsAssumption
  <1>2. ASSUME NEW n \in 1..Len(Workflows), NEW pick \in InOrder(n),
               selected.workflows = [i \in 1..Len(pick) |-> Workflows[pick[i]]]
        PROVE  Once(selected.workflows)
    <2>1. n \in Nat /\ pick \in [1..n -> DOMAIN Workflows] /\ DOMAIN Workflows \subseteq Nat
      BY ProjectTyped DEF InOrder
    <2>2. Len(pick) = n
      BY <2>1, IsASeq
    <2>3. \A i, k \in 1..n : i # k => pick[i] # pick[k]
      <3>1. \A i, k \in 1..n : i < k => pick[i] < pick[k]
        BY DEF InOrder
      <3>2. \A i, k \in 1..n : i # k => i < k \/ k < i
        BY <2>1
      <3>3. \A i \in 1..n : pick[i] \in Nat
        BY <2>1
      <3> QED
        BY <3>1, <3>2, <3>3
    <2>4. \A i \in 1..n : pick[i] \in DOMAIN Workflows
      BY <2>1
    <2> QED
      BY <1>2, <2>2, <2>3, <2>4, TargetsAssumption DEF Once
  <1> QED
    BY <1>1, <1>2 DEF Selection

(* Every step keeps Ordered.                                               *)
LEMMA OrderedStep ==
    ASSUME TypeOK, Located, Occupied, Ordered, [Next]_vars
    PROVE  Ordered'
  <1> USE DEF args, progress
  <1>1. todo \in Seq(Targets) /\ changed \in Seq(Targets) /\ plan' = plan
    BY DEF TypeOK, Next, MainStep, WorkerStep, EnsureProject, BeginTarget, LookUp, FinishTarget, FunctionsDone,
       BeginStep, ReuseStep, MatchStep, WriteStep, LookUpStepFails, StepWritten, StepWriteFails, WorkflowPrepared,
       PreparationFails, AllPrepared, Compare, Adopt, AllAdopted, Submit, Collect, SubmitDone, AppsDone, Drained,
       PickUp, FinishWorkflow, Interrupt, Closed, vars
  <1>2. ASSUME phase' \in {"apps", "draining", "closed"} PROVE Ordered'
    BY <1>1, <1>2 DEF Ordered, Preparatory
  <1>3. ASSUME UNCHANGED <<phase, todo, changed, pending>> PROVE Ordered'
    BY <1>1, <1>3 DEF Ordered
  <1>4. \A t, outcome : Abort(t, outcome) => Ordered'
    BY <1>2 DEF Abort, Close
  <1>5. \A outcome : AbortStep(outcome) => Ordered'
    BY <1>2 DEF AbortStep, Close
  (* Until the comparison nothing is known to have changed.                *)
  <1>6. ASSUME phase \in Preparatory, phase' \in Preparatory \cup {"compare"}, changed' = changed
        PROVE  Ordered'
    BY <1>1, <1>6 DEF Ordered, Preparatory
  <1>7. \A outcome : phase = "prepare" /\ NextStep(outcome) => Ordered'
    BY <1>6 DEF NextStep, Preparatory
  <1>8. CASE EnsureProject
    BY <1>2, <1>6, <1>8 DEF EnsureProject, Enter, Close, Preparatory
  <1>9. CASE BeginTarget \/ BeginStep \/ WriteStep
    BY <1>3, <1>9 DEF BeginTarget, BeginStep, WriteStep
  <1>10. CASE LookUp
    BY <1>3, <1>4, <1>10 DEF LookUp
  <1>11. CASE FinishTarget
    <2>1. CASE todo' = Tail(todo) /\ UNCHANGED <<phase, changed, pending>>
      <3>1. phase = "functions" \/ phase = "apps" \/ phase = "submit"
        BY <1>11 DEF FinishTarget, Serial
      <3>2. phase = "submit" => Once(todo') /\ Elements(todo') \cap pending' = {}
        BY <1>1, <1>11, <2>1, TailOnce DEF FinishTarget, Ordered
      <3> QED
        BY <1>1, <2>1, <3>1, <3>2 DEF Ordered, Preparatory
    <2> QED
      BY <1>4, <1>11, <2>1 DEF FinishTarget
  <1>12. CASE FunctionsDone \/ WorkflowPrepared \/ AllPrepared
    BY <1>6, <1>12 DEF FunctionsDone, WorkflowPrepared, AllPrepared, Enter, Preparing, Preparatory
  <1>13. CASE ReuseStep \/ MatchStep \/ StepWritten
    BY <1>7, <1>13 DEF ReuseStep, MatchStep, StepWritten, LookingUp, Preparing
  <1>14. CASE LookUpStepFails \/ StepWriteFails \/ PreparationFails
    BY <1>4, <1>5, <1>14 DEF LookUpStepFails, StepWriteFails, PreparationFails
  <1>15. CASE Compare
    <2>1. CASE Enter("adopt", plan.workflows) /\ changed' = changed
      <3>1. phase' = "adopt" /\ todo' = plan.workflows /\ changed' = <<>>
        BY <1>15, <2>1 DEF Compare, Enter, Ordered
      <3> QED
        BY <1>1, <3>1 DEF Ordered, Preparatory, Elements, Once
    <2> QED
      BY <1>2, <1>15, <2>1 DEF Compare, Close
  <1>16. CASE Adopt
    <2>1. /\ phase = "adopt" /\ phase' = "adopt" /\ todo # <<>> /\ todo' = Tail(todo)
          /\ changed' \in {changed, Append(changed, Head(todo))} /\ Head(todo) \in Targets
      BY <1>16, AtHand DEF Adopt
    <2>2. Once(todo) /\ Once(changed) /\ Elements(todo) \cap Elements(changed) = {}
      BY <2>1 DEF Ordered
    <2>3. /\ Once(todo') /\ Head(todo) \notin Elements(todo')
          /\ Elements(todo') \subseteq Elements(todo) /\ Head(todo) \in Elements(todo)
      BY <1>1, <2>1, <2>2, TailOnce
    <2>4. Once(changed') /\ Elements(changed') \subseteq Elements(changed) \cup {Head(todo)}
      <3>1. Head(todo) \notin Elements(changed)
        BY <2>2, <2>3
      <3>2. Elements(Append(changed, Head(todo))) = Elements(changed) \cup {Head(todo)}
        BY <1>1, <2>1, AppendOnce
      <3>3. Once(Append(changed, Head(todo)))
        BY <1>1, <2>1, <2>2, <3>1, AppendOnce
      <3> QED
        BY <2>1, <2>2, <3>2, <3>3
    <2> QED
      BY <1>1, <2>1, <2>2, <2>3, <2>4 DEF Ordered, Preparatory
  <1>17. CASE AllAdopted
    <2>1. phase' = "submit" /\ todo' = changed /\ Once(changed) /\ pending' = {}
      BY <1>17, Alone DEF AllAdopted, Enter, Ordered
    <2> QED
      BY <1>1, <2>1 DEF Ordered, Preparatory
  <1>18. CASE Submit
    <2>1. /\ phase = "submit" /\ phase' = "submit" /\ todo # <<>> /\ todo' = Tail(todo)
          /\ pending' = pending \cup {Head(todo)} /\ Once(todo) /\ Elements(todo) \cap pending = {}
      BY <1>18 DEF Submit, Submittable, Pool, Ordered
    <2>2. Once(todo') /\ Elements(todo') \cap pending' = {}
      BY <1>1, <2>1, TailOnce
    <2> QED
      BY <1>1, <2>1, <2>2 DEF Ordered, Preparatory
  <1>19. CASE Collect
    <2>1. phase = "submit" /\ UNCHANGED <<phase, todo>> /\ pending' \subseteq pending
      BY <1>19 DEF Collect, Pool
    <2> QED
      BY <1>1, <2>1 DEF Ordered, Preparatory
  <1>20. CASE SubmitDone \/ AppsDone \/ Drained
    BY <1>2, <1>20 DEF SubmitDone, AppsDone, Drained, Close, Enter
  <1>21. ASSUME NEW w \in Targets, WorkerStep(w) PROVE Ordered'
    BY <1>3, <1>21 DEF WorkerStep, PickUp, FinishWorkflow
  <1>22. CASE Interrupt
    BY <1>2, <1>4, <1>5, <1>22
    DEF Interrupt, InterruptSerial, InterruptStep, InterruptPreparation, InterruptIdle, InterruptPool,
        InterruptShutdown, Shutdown, Close
  <1>23. CASE UNCHANGED vars
    BY <1>3, <1>23 DEF vars
  <1> QED
    BY <1>8, <1>9, <1>10, <1>11, <1>12, <1>13, <1>14, <1>15, <1>16, <1>17, <1>18, <1>19,
       <1>20, <1>21, <1>22, <1>23
    DEF Next, MainStep, Closed

--------------------------------------------------------------------------------
(* Recorded: what the rows and the cache say of the writes so far.         *)

(* Functions, workflows and steps are different targets.                   *)
LEMMA Disjoint ==
    /\ Steps \cap (Elements(Functions) \cup Elements(Workflows) \cup Elements(Apps)) = {}
    /\ Elements(Functions) \cap Elements(Workflows) = {}
  BY TargetsAssumption

(* Steps that touch no row.                                                *)
LEMMA RecordedWhenStill ==
    ASSUME Recorded, UNCHANGED <<busy, status, writes>>,
           phase' \in Early => phase \in Early,
           phase' \in Preparatory => phase \in Preparatory /\ UNCHANGED <<deployed, cache>>
    PROVE  Recorded'
  BY DEF Recorded, Rows, Honest, CacheHonest

(* The attempt ends: a row that changes is a bad one.                      *)
LEMMA RecordedWhenEnded ==
    ASSUME Recorded, phase' \notin Early, writes' = writes,
           \A t \in Targets :
               \/ busy'[t] = busy[t] /\ status'[t] = status[t]
               \/ busy[t] = "queued" /\ busy'[t] = "idle" /\ status'[t] = status[t]
               \/ status'[t] \in Bad /\ busy'[t] \in {"idle", busy[t]}
    PROVE  Recorded'
  <1>1. ASSUME NEW t \in Targets
        PROVE  /\ busy'[t] \in {"idle", "queued"} => Honest(t)'
               /\ busy'[t] = "write" => writes'[t] > 0
    BY DEF Recorded, Rows, Honest, Bad
  <1> QED
    BY <1>1 DEF Recorded, Rows, Preparatory, Early

(* Every step keeps Recorded.                                              *)
LEMMA RecordedStep ==
    ASSUME TypeOK, Located, Occupied, Ordered, Recorded, [Next]_vars
    PROVE  Recorded'
  <1> USE DEF args, progress
  <1>1. /\ busy \in [Targets -> Works] /\ status \in [Targets -> Statuses] /\ writes \in [Targets -> Nat]
        /\ deployed \in [Steps -> Definitions \cup {Absent}] /\ cache \in [Steps -> Entries]
    BY DEF TypeOK
  <1>2. /\ Preparatory \subseteq Early
        /\ \A p \in {"submit", "apps", "draining", "closed"} : p \notin Early
        /\ "compare" \notin Preparatory /\ "adopt" \notin Preparatory
    BY DEF Early, Preparatory
  <1>3. ASSUME NEW t \in Targets, NEW outcome \in Bad, Abort(t, outcome), UNCHANGED writes
        PROVE  Recorded'
    BY <1>1, <1>2, <1>3, RecordedWhenEnded DEF Abort, End, Close
  <1>4. ASSUME phase = "prepare", todo # <<>>, steps # <<>>, NEW outcome \in Bad, AbortStep(outcome),
               UNCHANGED writes
        PROVE  Recorded'
    <2>1. Step \in Targets /\ Head(todo) \in Targets /\ "failed" \in Bad
      BY <1>4, AtHand DEF Bad
    <2> QED
      BY <1>1, <1>2, <1>4, <2>1, RecordedWhenEnded DEF AbortStep, Close
  (* A step's deploy ends and the preparation goes on.                     *)
  <1>5. ASSUME phase = "prepare", todo # <<>>, steps # <<>>, NEW outcome, NextStep(outcome),
               UNCHANGED writes,
               outcome \in {"unattempted", "unchanged"} => writes[Step] = 0,
               outcome = "succeeded" => writes[Step] > 0,
               \A s \in Steps \ Built : CacheHonest(s)'
        PROVE  Recorded'
    <2>1. Step \in Targets /\ phase' = phase
      BY <1>5, AtHand DEF NextStep
    <2>2. Rows'
      <3>1. ASSUME NEW t \in Targets
            PROVE  /\ busy'[t] \in {"idle", "queued"} => Honest(t)'
                   /\ busy'[t] = "write" => writes'[t] > 0
        BY <1>1, <1>5, <2>1 DEF NextStep, End, Recorded, Rows, Honest
      <3> QED
        BY <3>1 DEF Rows
    <2>3. \A t \in Targets : busy'[t] # "queued" \/ busy[t] = "queued"
      BY <1>1, <1>5, <2>1 DEF NextStep, End
    <2> QED
      BY <1>5, <2>1, <2>2, <2>3 DEF Recorded
  <1>6. CASE EnsureProject \/ FunctionsDone \/ WorkflowPrepared \/ AllPrepared \/ Compare
    BY <1>2, <1>6, RecordedWhenStill
    DEF EnsureProject, FunctionsDone, WorkflowPrepared, AllPrepared, Compare, Enter, Close, Preparing, Early, Preparatory
  <1>7. CASE AllAdopted \/ Collect \/ SubmitDone \/ AppsDone \/ Drained
    BY <1>2, <1>7, RecordedWhenStill
    DEF AllAdopted, Collect, SubmitDone, AppsDone, Drained, Enter, Close, Pool
  <1>8. CASE BeginTarget
    <2>1. Serial /\ Head(todo) \in Targets
      BY <1>8, AtHand DEF BeginTarget
    <2>2. phase = "functions" => Head(todo) \notin Steps
      BY <1>8, Disjoint, TailTyped DEF BeginTarget, Located
    <2>3. CASE phase = "submit" /\ Begin(Head(todo), "write") /\ writes' = [writes EXCEPT ![Head(todo)] = @ + 1]
      <3>1. phase' \notin Early
        BY <1>2, <1>8, <2>3 DEF BeginTarget
      <3>2. ASSUME NEW t \in Targets
            PROVE  /\ busy'[t] \in {"idle", "queued"} => Honest(t)'
                   /\ busy'[t] = "write" => writes'[t] > 0
        BY <1>1, <2>1, <2>3 DEF Begin, Recorded, Rows, Honest
      <3> QED
        BY <1>2, <3>1, <3>2 DEF Recorded, Rows
    <2>4. CASE phase # "submit" /\ Begin(Head(todo), "lookup") /\ UNCHANGED writes
      <3>1. ASSUME NEW t \in Targets
            PROVE  /\ busy'[t] \in {"idle", "queued"} => Honest(t)'
                   /\ busy'[t] = "write" => writes'[t] > 0
                   /\ busy'[t] # "queued" \/ busy[t] = "queued"
        BY <1>1, <2>1, <2>4 DEF Begin, Recorded, Rows, Honest
      <3>2. phase \in Preparatory => phase = "functions"
        BY <2>1 DEF Serial, Preparatory
      <3>3. phase \in Preparatory => \A s \in Steps \ Built : CacheHonest(s)'
        BY <1>1, <1>8, <2>2, <2>4, <3>2 DEF BeginTarget, Begin, Recorded, CacheHonest
      <3> QED
        BY <1>8, <2>4, <3>1, <3>3 DEF BeginTarget, Recorded, Rows
    <2> QED
      BY <1>8, <2>3, <2>4 DEF BeginTarget
  <1>9. CASE LookUp
    <2>1. Serial /\ todo # <<>> /\ Head(todo) \in Targets
      BY <1>9, AtHand DEF LookUp
    <2>2. phase = "functions" => Head(todo) \notin Steps /\ Head(todo) \notin Elements(Workflows)
      BY <2>1, Disjoint, TailTyped DEF Located
    <2>3. CASE StartWrite(Head(todo)) /\ UNCHANGED <<phase, progress, error, status>>
      <3>1. ASSUME NEW t \in Targets
            PROVE  /\ busy'[t] \in {"idle", "queued"} => Honest(t)'
                   /\ busy'[t] = "write" => writes'[t] > 0
                   /\ busy'[t] # "queued" \/ busy[t] = "queued"
        BY <1>1, <2>1, <2>3 DEF StartWrite, Recorded, Rows, Honest
      <3>2. phase \in Early => phase = "functions"
        BY <2>1 DEF Serial, Early, Preparatory
      <3>3. phase \in Early => \A w \in Elements(Workflows) : writes'[w] = 0
        BY <1>1, <2>1, <2>2, <2>3, <3>2, ProjectTyped DEF StartWrite, Recorded
      <3>4. phase \in Preparatory => \A s \in Steps \ Built : CacheHonest(s)'
        BY <1>1, <1>2, <1>9, <2>1, <2>2, <2>3, <3>2, ProjectTyped DEF LookUp, StartWrite, Recorded, CacheHonest
      <3> QED
        BY <2>3, <3>1, <3>3, <3>4 DEF Recorded, Rows
    <2> QED
      BY <1>3, <1>9, <2>1, <2>3 DEF LookUp
  <1>10. CASE FinishTarget
    <2>1. Serial /\ todo # <<>> /\ Head(todo) \in Targets /\ busy[Head(todo)] = "write"
      BY <1>10, AtHand DEF FinishTarget
    <2>2. phase = "functions" => Head(todo) \notin Steps
      BY <2>1, Disjoint, TailTyped DEF Located
    <2>3. CASE End(Head(todo), "succeeded") /\ phase' = phase
      <3>1. ASSUME NEW t \in Targets
            PROVE  /\ busy'[t] \in {"idle", "queued"} => Honest(t)'
                   /\ busy'[t] = "write" => writes'[t] > 0
                   /\ busy'[t] # "queued" \/ busy[t] = "queued"
        BY <1>1, <1>10, <2>1, <2>3 DEF FinishTarget, End, Recorded, Rows, Honest
      <3>2. phase \in Preparatory => phase = "functions"
        BY <2>1 DEF Serial, Preparatory
      <3>3. phase \in Preparatory => \A s \in Steps \ Built : CacheHonest(s)'
        BY <1>1, <1>10, <2>1, <2>2, <2>3, <3>2, ProjectTyped DEF FinishTarget, End, Recorded, CacheHonest
      <3> QED
        BY <1>10, <2>3, <3>1, <3>3 DEF FinishTarget, Recorded, Rows
    <2> QED
      BY <1>3, <1>10, <2>1, <2>3 DEF FinishTarget
  <1>11. CASE BeginStep
    <2>1. Step \in Steps /\ Step \in Targets /\ busy[Step] = "idle"
      BY <1>11, AtHand DEF BeginStep, Preparing
    <2>2. ASSUME NEW t \in Targets
          PROVE  /\ busy'[t] \in {"idle", "queued"} => Honest(t)'
                 /\ busy'[t] = "write" => writes'[t] > 0
                 /\ busy'[t] # "queued" \/ busy[t] = "queued"
      BY <1>1, <1>11, <2>1 DEF BeginStep, Begin, Recorded, Rows, Honest
    <2>3. \A s \in Steps : CacheHonest(s) => CacheHonest(s)'
      BY <1>1, <1>11, <2>1, ProjectTyped DEF BeginStep, Begin, CacheHonest
    <2> QED
      BY <1>11, <2>2, <2>3 DEF BeginStep, Recorded, Rows
  <1>12. CASE ReuseStep
    <2>1. phase = "prepare" /\ todo # <<>> /\ steps # <<>> /\ Step \in Steps \ Built /\ busy[Step] = "lookup"
          /\ Step \in Targets /\ cache[Step].definition = Want /\ Want # Absent
      BY <1>12, AtHand, AbsentAssumption DEF ReuseStep, LookingUp, Preparing, Reusable
    <2>2. CacheHonest(Step)
      BY <2>1 DEF Recorded, Preparatory
    <2>3. IF cache[Step].matched THEN writes[Step] = 0 ELSE writes[Step] > 0
      BY <1>1, <2>1, <2>2 DEF CacheHonest, Entries
    <2>4. \A s \in Steps : CacheHonest(s) => CacheHonest(s)'
      BY <1>1, <1>12, <2>1, ProjectTyped DEF ReuseStep, NextStep, End, CacheHonest
    <2>5. \A s \in Steps \ Built : CacheHonest(s)'
      BY <2>1, <2>4 DEF Recorded, Preparatory
    <2> QED
      BY <1>5, <1>12, <2>1, <2>3, <2>5 DEF ReuseStep
  <1>13. CASE MatchStep
    <2>1. phase = "prepare" /\ todo # <<>> /\ steps # <<>> /\ Step \in Steps \ Built /\ busy[Step] = "lookup"
          /\ Step \in Targets /\ cache[Step].definition # Want /\ Want # Absent /\ deployed[Step] = Want
      BY <1>13, AtHand, AbsentAssumption
      DEF MatchStep, LookingUp, Preparing, Reusable, SameOnPlatform
    <2>2. CacheHonest(Step)
      BY <2>1 DEF Recorded, Preparatory
    <2>3. writes[Step] = 0
      BY <2>1, <2>2 DEF CacheHonest
    <2>4. cache' = [cache EXCEPT ![Step] = [definition |-> Want, matched |-> TRUE]]
      BY <1>13, <2>1 DEF MatchStep, Remember
    <2>5. \A s \in Steps : CacheHonest(s) => CacheHonest(s)'
      BY <1>1, <1>13, <2>1, <2>3, <2>4, ProjectTyped DEF MatchStep, NextStep, End, CacheHonest
    <2>6. \A s \in Steps \ Built : CacheHonest(s)'
      BY <2>1, <2>5 DEF Recorded, Preparatory
    <2> QED
      BY <1>5, <1>13, <2>1, <2>3, <2>6 DEF MatchStep
  <1>14. CASE WriteStep
    <2>1. Step \in Steps /\ Step \in Targets /\ busy[Step] = "lookup" /\ Step \notin Elements(Workflows)
      BY <1>14, AtHand, Disjoint DEF WriteStep, LookingUp, Preparing
    <2>2. ASSUME NEW t \in Targets
          PROVE  /\ busy'[t] \in {"idle", "queued"} => Honest(t)'
                 /\ busy'[t] = "write" => writes'[t] > 0
                 /\ busy'[t] # "queued" \/ busy[t] = "queued"
                 /\ t # Step => writes'[t] = writes[t]
      BY <1>1, <1>14, <2>1 DEF WriteStep, StartWrite, Recorded, Rows, Honest
    <2>3. \A s \in Steps : CacheHonest(s) => CacheHonest(s)'
      BY <1>1, <1>14, <2>1, ProjectTyped DEF WriteStep, StartWrite, CacheHonest
    <2> QED
      BY <1>14, <2>1, <2>2, <2>3, ProjectTyped DEF WriteStep, Recorded, Rows
  <1>15. CASE StepWritten
    <2>1. phase = "prepare" /\ todo # <<>> /\ steps # <<>> /\ Step \in Steps /\ busy[Step] = "write"
          /\ Step \in Targets /\ Want # Absent
      BY <1>15, AtHand, AbsentAssumption DEF StepWritten, Preparing
    <2>2. writes[Step] > 0
      BY <2>1 DEF Recorded, Rows
    <2>3. Step \notin Built =>
            cache' = [cache EXCEPT ![Step] = [definition |-> Want, matched |-> FALSE]]
      BY <1>15 DEF StepWritten, Remember
    <2>4. \A s \in Steps \ Built : s # Step => cache'[s] = cache[s] /\ deployed'[s] = deployed[s]
      BY <1>1, <1>15, <2>1 DEF StepWritten, Remember
    <2>5. ASSUME NEW s \in Steps \ Built
          PROVE  CacheHonest(s)'
      <3>1. CASE s = Step
        BY <1>1, <1>15, <2>1, <2>2, <2>3, <3>1 DEF StepWritten, CacheHonest
      <3>2. CASE s # Step
        <4>1. CacheHonest(s) /\ s \in Targets /\ busy'[s] = busy[s] /\ writes'[s] = writes[s]
          BY <1>1, <1>15, <2>1, <3>2, ProjectTyped DEF StepWritten, NextStep, End, Recorded, Preparatory
        <4> QED
          BY <2>4, <3>2, <4>1 DEF CacheHonest
      <3> QED
        BY <3>1, <3>2
    <2> QED
      BY <1>5, <1>15, <2>1, <2>2, <2>5 DEF StepWritten
  <1>16. CASE LookUpStepFails \/ StepWriteFails
    BY <1>4, <1>16 DEF LookUpStepFails, StepWriteFails, LookingUp, Preparing
  <1>17. CASE PreparationFails
    BY <1>3, <1>17, AtHand DEF PreparationFails, Preparing
  <1>18. CASE Adopt
    <2>1. phase = "adopt" /\ phase' = "adopt" /\ Head(todo) \in Elements(Workflows) /\ Head(todo) \in Targets
      BY <1>18, TailTyped, AtHand DEF Adopt, Located
    <2>2. writes[Head(todo)] = 0 /\ UNCHANGED <<busy, writes>>
      BY <1>18, <2>1 DEF Recorded, Early, Adopt
    <2>3. ASSUME NEW t \in Targets
          PROVE  busy[t] \in {"idle", "queued"} => Honest(t)'
      <3>1. status'[t] = status[t] \/ (t = Head(todo) /\ status'[t] = "unchanged")
        BY <1>1, <1>18, <2>1 DEF Adopt
      <3> QED
        BY <2>2, <3>1 DEF Recorded, Rows, Honest
    <2> QED
      BY <1>2, <2>1, <2>2, <2>3 DEF Recorded, Rows
  <1>19. CASE Submit
    <2>1. phase' \notin Early /\ Head(todo) \in Targets /\ UNCHANGED <<status, writes>>
      BY <1>2, <1>19, AtHand DEF Submit, Pool, Submittable
    <2>2. busy[Head(todo)] = "idle"
      <3>1. Pool /\ todo # <<>> /\ Head(todo) \in Elements(todo)
        BY <1>19, TailOnce DEF Submit, Submittable, TypeOK
      <3>2. Active \subseteq pending /\ Head(todo) \notin pending
        BY <3>1 DEF Occupied, Ordered, Pool
      <3> QED
        BY <2>1, <3>2 DEF Active
    <2>3. ASSUME NEW t \in Targets
          PROVE  /\ busy'[t] \in {"idle", "queued"} => Honest(t)'
                 /\ busy'[t] = "write" => writes'[t] > 0
      BY <1>1, <1>19, <2>1, <2>2 DEF Submit, Recorded, Rows, Honest
    <2> QED
      BY <1>2, <2>1, <2>3 DEF Recorded, Rows
  <1>20. ASSUME NEW w \in Targets, PickUp(w) PROVE Recorded'
    <2>1. phase' = phase /\ phase \notin Early
      BY <1>20 DEF PickUp, Recorded
    <2>2. ASSUME NEW t \in Targets
          PROVE  /\ busy'[t] \in {"idle", "queued"} => Honest(t)'
                 /\ busy'[t] = "write" => writes'[t] > 0
      BY <1>1, <1>20 DEF PickUp, Begin, Recorded, Rows, Honest
    <2> QED
      BY <1>2, <2>1, <2>2 DEF Recorded, Rows
  <1>21. ASSUME NEW w \in Targets, FinishWorkflow(w) PROVE Recorded'
    <2>1. phase' = phase /\ phase \notin Early
      BY <1>21, Alone DEF FinishWorkflow, Early, Preparatory, Occupied, Pool
    <2>2. PICK outcome \in Bad \cup {"succeeded"} : End(w, outcome)
      BY <1>21 DEF FinishWorkflow
    <2>3. ASSUME NEW t \in Targets
          PROVE  /\ busy'[t] \in {"idle", "queued"} => Honest(t)'
                 /\ busy'[t] = "write" => writes'[t] > 0
      BY <1>1, <1>21, <2>2 DEF FinishWorkflow, End, Recorded, Rows, Honest, Bad
    <2> QED
      BY <1>2, <2>1, <2>3 DEF Recorded, Rows
  <1>22. CASE Interrupt
    <2>1. UNCHANGED <<writes, cache>>
      BY <1>22 DEF Interrupt
    <2>2. \A t : Outcomes(t) \subseteq Bad
      BY DEF Outcomes, Bad
    <2>3. CASE InterruptSerial
      BY <1>3, <2>1, <2>2, <2>3, AtHand DEF InterruptSerial
    <2>4. CASE InterruptStep
      BY <1>4, <2>1, <2>2, <2>4 DEF InterruptStep, Preparing
    <2>5. CASE InterruptPreparation
      BY <1>3, <2>1, <2>5, AtHand DEF InterruptPreparation, Preparing, Bad
    <2>6. CASE InterruptIdle \/ InterruptShutdown
      BY <1>2, <2>1, <2>6, RecordedWhenStill DEF InterruptIdle, InterruptShutdown, Close
    <2>7. CASE InterruptPool
      BY <1>1, <1>2, <2>1, <2>7, RecordedWhenEnded DEF InterruptPool, Shutdown, Cancelled
    <2> QED
      BY <1>22, <2>3, <2>4, <2>5, <2>6, <2>7 DEF Interrupt
  <1>23. CASE UNCHANGED vars
    BY <1>23, RecordedWhenStill DEF vars
  <1> QED
    BY <1>6, <1>7, <1>8, <1>9, <1>10, <1>11, <1>12, <1>13, <1>14, <1>15, <1>16, <1>17, <1>18,
       <1>19, <1>20, <1>21, <1>22, <1>23
    DEF Next, MainStep, WorkerStep, Closed

--------------------------------------------------------------------------------
(* The invariant holds in every reachable state.                           *)

(* It holds at the start, ...                                              *)
LEMMA InvInit == Init => Inv
  <1> SUFFICES ASSUME Init PROVE Inv
    OBVIOUS
  <1>1. Active = {}
    BY DEF Init, Active
  <1>2. plan \in Plans /\ Once(plan.workflows)
    BY SelectionTyped, SelectionOnce DEF Init
  <1>3. TypeOK
    <2>1. todo \in Seq(Targets) /\ steps \in Seq(Targets) /\ changed \in Seq(Targets)
      BY DEF Init
    <2>2. busy \in [Targets -> Works] /\ status \in [Targets -> Statuses] /\ writes \in [Targets -> Nat]
      BY DEF Init, Works, Statuses
    <2>3. cache \in [Steps -> Entries]
      <3>1. NoEntry \in Entries
        BY DEF NoEntry, Entries
      <3> QED
        BY <3>1 DEF Init
    <2>4. interrupts \in 0..MaxInterrupts /\ late \in Nat
      BY InterruptsAssumption DEF Init
    <2> QED
      BY <1>2, <2>1, <2>2, <2>3, <2>4 DEF Init, TypeOK, Phases
  <1>4. Located
    BY DEF Init, Located
  <1>5. Occupied
    BY <1>1, OccupiedWhenQuiet DEF Init, Occupied, Serial, Pool, QuietUnlessInterruptedTwice, QuietWhenClosed
  <1>6. Ordered
    BY <1>2 DEF Init, Ordered, Preparatory
  <1>7. Recorded
    <2>1. Rows
      BY DEF Init, Rows, Honest
    <2>2. \A s \in Steps \ Built : CacheHonest(s)
      BY ProjectTyped DEF Init, CacheHonest, NoEntry
    <2> QED
      BY <2>1, <2>2, ProjectTyped DEF Init, Recorded
  <1> QED
    BY <1>3, <1>4, <1>5, <1>6, <1>7 DEF Inv

(* ... every step keeps it.                                                *)
LEMMA InvStep == Inv /\ [Next]_vars => Inv'
  BY TypeStep, LocatedStep, OccupiedStep, OrderedStep, RecordedStep DEF Inv

(* The inductive invariant of a deployment attempt.                        *)
THEOREM InvAlways == Spec => []Inv
  BY InvInit, InvStep, PTL DEF Spec

(* Every variable of the attempt keeps its type: whatever the project, the *)
(* number of jobs and the Ctrl-C pressed.                                  *)
THEOREM TypeCorrect == Spec => []TypeOK
  BY InvAlways, PTL DEF Inv

(* A closed report is final - no write is under way - unless Ctrl-C was    *)
(* pressed a second time (the shutdown of _submit_workflows).              *)
THEOREM QuietUntilSecondInterrupt == Spec => []QuietUnlessInterruptedTwice
  BY InvAlways, PTL DEF Inv, Occupied

(* Every row of a closed report can be taken at its word: for functions,   *)
(* apps, workflows and the steps workflows share through the step cache.   *)
THEOREM HonestRows == Spec => []HonestReport
  <1>1. Inv => HonestReport
    BY DEF Inv, Recorded, Rows, Honest, HonestReport
  <1> QED
    BY <1>1, InvAlways, PTL
================================================================================
