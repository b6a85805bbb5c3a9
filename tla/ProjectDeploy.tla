----------------------------- MODULE ProjectDeploy -----------------------------
(***************************************************************************)
(* Project.deploy: one deployment attempt of a project, from the plan of   *)
(* its targets to the closed report.  The main thread ensures the project, *)
(* deploys standalone functions, prepares every selected workflow (which   *)
(* deploys the workflow's steps), compares the prepared definitions, hands *)
(* the changed ones to a pool of `jobs` threads (_submit_workflows), and   *)
(* deploys the ASGI apps.  Ctrl-C reaches the main thread only.            *)
(*                                                                         *)
(* One definition write is one interval here - begun, then ended with a    *)
(* status; DefinitionWrite opens that interval and shows which status      *)
(* (WriteOutcome) it may end with.  No other deployer is at work: what a   *)
(* rival does to one write is DefinitionWrite's subject.                   *)
(***************************************************************************)
EXTENDS Integers, Sequences, FiniteSets

CONSTANTS
    Targets,        \* functions, steps, workflows and apps of the project
    Functions,      \* the standalone functions, in declaration order
    Workflows,      \* the workflows, in declaration order
    Apps,           \* the ASGI apps, in declaration order
    StepsOf,        \* the steps a workflow refers to, in order of first use
    Definitions,    \* resolved step definitions (image, source, resources)
    Wanted,         \* the definition a workflow resolves for each of its steps
    Built,          \* steps with an image build, never compared nor reused
    Absent,         \* no definition, no entry
    JobChoices,     \* values of the argument jobs: concurrent workflow writes
    MaxInterrupts   \* bound: Ctrl-C pressed during the attempt

Elements(seq) == {seq[i] : i \in DOMAIN seq}
Once(seq) == \A i, k \in DOMAIN seq : seq[i] = seq[k] => i = k
Steps == UNION {Elements(StepsOf[w]) : w \in Elements(Workflows)}

ASSUME TargetsAssumption ==
    /\ Functions \in Seq(Targets) /\ Workflows \in Seq(Targets) /\ Apps \in Seq(Targets)
    /\ Once(Workflows)      \* two workflows of one name are refused beforehand
    /\ StepsOf \in [Elements(Workflows) -> Seq(Targets)]
    /\ Wanted \in [Elements(Workflows) -> [Steps -> Definitions]]
    /\ Built \subseteq Steps
    /\ Elements(Functions) \cap Elements(Workflows) = {}
    /\ Steps \cap (Elements(Functions) \cup Elements(Workflows) \cup Elements(Apps)) = {}
ASSUME AbsentAssumption == Absent \notin Definitions
ASSUME JobsAssumption == JobChoices \subseteq 1..16
ASSUME InterruptsAssumption == MaxInterrupts \in Nat

VARIABLES
    plan,       \* the selected functions, workflows and apps
    jobs,       \* the argument jobs
    comparable, \* the backend has the compare-deployments routes
    phase,      \* where the main thread is
    todo,       \* targets the phase has still to go through
    steps,      \* steps the workflow being prepared has still to deploy
    changed,    \* workflows whose definition did not match
    matched,    \* workflows the comparison found unchanged
    pending,    \* workflows submitted to the pool and not yet collected
    failure,    \* a collected workflow failed
    busy,       \* what is being done for each target
    status,     \* the report: one status per target
    error,      \* the report: the attempt ended with an error
    deployed,   \* platform: the definition of each step
    cache,      \* this attempt's step writes: definition and whether it matched
    writes,     \* definition writes begun for each target
    late,       \* workflow writes begun after one had failed
    interrupts  \* Ctrl-C pressed so far

args == <<plan, jobs, comparable>>
progress == <<todo, steps, changed, matched, pending, failure>>
vars == <<args, phase, progress, busy, status, error, deployed, cache, writes, late, interrupts>>

Phases == {"ensure", "functions", "prepare", "compare", "adopt", "submit", "apps", "draining", "closed"}
Works  == {"idle", "queued", "lookup", "write"}
Statuses == {"unattempted", "unchanged", "succeeded", "failed", "uncertain"}
Bad    == {"failed", "uncertain"}
Good   == {"succeeded", "unchanged"}
Plans  == [functions : Seq(Elements(Functions)), workflows : Seq(Elements(Workflows)),
           apps : Seq(Elements(Apps))]
NoEntry == [definition |-> Absent, matched |-> FALSE]
Entries == [definition : Definitions \cup {Absent}, matched : BOOLEAN]

Active  == {t \in Targets : busy[t] # "idle"}
Writing == {t \in Targets : busy[t] = "write"}

TypeOK ==
    /\ plan \in Plans /\ jobs \in JobChoices /\ comparable \in BOOLEAN
    /\ phase \in Phases
    /\ todo \in Seq(Targets) /\ steps \in Seq(Targets) /\ changed \in Seq(Targets)
    /\ matched \subseteq Targets /\ pending \subseteq Targets
    /\ failure \in BOOLEAN /\ error \in BOOLEAN
    /\ busy \in [Targets -> Works]
    /\ status \in [Targets -> Statuses]
    /\ deployed \in [Steps -> Definitions \cup {Absent}]
    /\ cache \in [Steps -> Entries]
    /\ writes \in [Targets -> Nat]
    /\ late \in Nat /\ interrupts \in 0..MaxInterrupts

(* Without `only` everything attached to the project is planned; with it,  *)
(* the n workflows it names, in declaration order, and what they need.     *)
InOrder(n) ==
    {pick \in [1..n -> DOMAIN Workflows] : \A i, k \in 1..n : i < k => pick[i] < pick[k]}

Selection ==
    {[functions |-> Functions, workflows |-> Workflows, apps |-> Apps]}
      \cup {[functions |-> <<>>, apps |-> <<>>, workflows |-> [i \in 1..Len(pick) |-> Workflows[pick[i]]]] :
                pick \in UNION {InOrder(n) : n \in 1..Len(Workflows)}}

Init ==
    /\ plan \in Selection
    /\ jobs \in JobChoices
    /\ comparable \in BOOLEAN
    /\ deployed \in [Steps -> Definitions \cup {Absent}]
    /\ phase = "ensure" /\ todo = <<>> /\ steps = <<>> /\ changed = <<>>
    /\ matched = {} /\ pending = {} /\ failure = FALSE /\ error = FALSE
    /\ busy = [t \in Targets |-> "idle"]
    /\ status = [t \in Targets |-> "unattempted"]
    /\ cache = [s \in Steps |-> NoEntry]
    /\ writes = [t \in Targets |-> 0]
    /\ late = 0 /\ interrupts = 0

--------------------------------------------------------------------------------
(* The deploy wrapper around one target (_environment_scoped_deploy).      *)

(* A target's deploy starts: its last outcome is forgotten.                *)
Begin(t, work) ==
    /\ busy' = [busy EXCEPT ![t] = work]
    /\ status' = [status EXCEPT ![t] = "unattempted"]

(* Its deploy ends with a status.                                          *)
End(t, outcome) ==
    /\ busy' = [busy EXCEPT ![t] = "idle"]
    /\ status' = [status EXCEPT ![t] = outcome]

CloseWithoutError == phase' = "closed" /\ UNCHANGED <<progress, error>>
Close == phase' = "closed" /\ error' = TRUE /\ UNCHANGED progress

(* An exception in the main thread closes the report at once.              *)
Abort(t, outcome) == End(t, outcome) /\ Close

StartWrite(t) ==
    /\ busy' = [busy EXCEPT ![t] = "write"]
    /\ writes' = [writes EXCEPT ![t] = @ + 1]

Enter(next, targets) ==
    /\ phase' = next /\ todo' = targets

--------------------------------------------------------------------------------
(* ensure_project, after the checks that touch no target.                  *)
EnsureProject ==
    /\ phase = "ensure"
    /\ \/ /\ Enter("functions", plan.functions)
          /\ UNCHANGED <<steps, changed, matched, pending, failure, error>>
       \/ Close
    /\ UNCHANGED <<args, busy, status, deployed, cache, writes, late, interrupts>>

--------------------------------------------------------------------------------
(* Targets the main thread deploys one after the other: functions, apps,   *)
(* and with jobs = 1 the changed workflows, already prepared.              *)
Serial == phase \in {"functions", "apps"} \/ (phase = "submit" /\ jobs = 1)

BeginTarget ==
    /\ Serial /\ todo # <<>>
    /\ LET t == Head(todo)
       IN /\ busy[t] = "idle"
          /\ IF phase = "submit"
             THEN /\ Begin(t, "write")
                  /\ writes' = [writes EXCEPT ![t] = @ + 1]
             ELSE Begin(t, "lookup") /\ UNCHANGED writes
    /\ UNCHANGED <<args, phase, progress, error, deployed, cache, late, interrupts>>

(* Secrets, volumes, buckets, the build and the lookup by name, before the *)
(* write.  An upload of a build is a write too: its loss is uncertain.     *)
LookUp ==
    /\ Serial /\ todo # <<>>
    /\ LET t == Head(todo)
       IN /\ busy[t] = "lookup"
          /\ \/ StartWrite(t) /\ UNCHANGED <<phase, progress, error, status>>
             \/ /\ \E outcome \in Bad : Abort(t, outcome)
                /\ UNCHANGED writes
    /\ UNCHANGED <<args, deployed, cache, late, interrupts>>

FinishTarget ==
    /\ Serial /\ todo # <<>>
    /\ LET t == Head(todo)
       IN /\ busy[t] = "write"
          /\ \/ /\ End(t, "succeeded")
                /\ todo' = Tail(todo)
                /\ UNCHANGED <<phase, steps, changed, matched, pending, failure, error>>
             \/ \E outcome \in Bad : Abort(t, outcome)
    /\ UNCHANGED <<args, deployed, cache, writes, late, interrupts>>

FunctionsDone ==
    /\ phase = "functions" /\ todo = <<>>
    /\ Enter("prepare", plan.workflows)
    /\ steps' = IF plan.workflows = <<>> THEN <<>> ELSE StepsOf[Head(plan.workflows)]
    /\ UNCHANGED <<args, changed, matched, pending, failure, busy, status, error,
                   deployed, cache, writes, late, interrupts>>

--------------------------------------------------------------------------------
(* Preparing the workflow at the head of todo: Workflow._deploy_definition *)
(* up to the write, which _DefinitionPrepared stops.                       *)
Preparing == phase = "prepare" /\ todo # <<>>
Step      == Head(steps)
Want      == Wanted[Head(todo)][Step]

(* The exception of a step passes through the workflow's wrapper too.      *)
AbortStep(outcome) ==
    /\ busy' = [busy EXCEPT ![Step] = "idle"]
    /\ status' = [status EXCEPT ![Step] = outcome, ![Head(todo)] = "failed"]
    /\ Close

NextStep(outcome) ==
    /\ End(Step, outcome)
    /\ steps' = Tail(steps)
    /\ UNCHANGED <<phase, todo, changed, matched, pending, failure, error>>

BeginStep ==
    /\ Preparing /\ steps # <<>> /\ busy[Step] = "idle"
    /\ Begin(Step, "lookup")
    /\ UNCHANGED <<args, phase, progress, error, deployed, cache, writes, late, interrupts>>

LookingUp == Preparing /\ steps # <<>> /\ busy[Step] = "lookup"

(* The step was deployed before in this attempt, with this definition.     *)
ReusableWhateverDefinition == Step \notin Built /\ cache[Step].definition # Absent
Reusable == Step \notin Built /\ cache[Step].definition = Want

ReuseStep ==
    /\ LookingUp /\ Reusable
    /\ NextStep(IF cache[Step].matched THEN "unchanged" ELSE "succeeded")
    /\ UNCHANGED <<args, deployed, cache, writes, late, interrupts>>

(* What an existing step is compared with; a new one is posted.            *)
SameOnPlatform == comparable /\ Step \notin Built /\ deployed[Step] = Want

RememberAsMatched(entry) ==
    cache' = IF Step \in Built THEN cache ELSE [cache EXCEPT ![Step] = [entry EXCEPT !.matched = TRUE]]
RememberNothing(entry) == cache' = cache
Remember(entry) ==
    cache' = IF Step \in Built THEN cache ELSE [cache EXCEPT ![Step] = entry]

MatchStep ==
    /\ LookingUp /\ ~Reusable /\ SameOnPlatform
    /\ NextStep("unchanged")
    /\ Remember([definition |-> Want, matched |-> TRUE])
    /\ UNCHANGED <<args, deployed, writes, late, interrupts>>

WriteStep ==
    /\ LookingUp /\ ~Reusable /\ ~SameOnPlatform
    /\ StartWrite(Step)
    /\ UNCHANGED <<args, phase, progress, status, error, deployed, cache, late, interrupts>>

LookUpStepFails ==
    /\ LookingUp
    /\ \E outcome \in Bad : AbortStep(outcome)
    /\ UNCHANGED <<args, deployed, cache, writes, late, interrupts>>

StepWritten ==
    /\ Preparing /\ steps # <<>> /\ busy[Step] = "write"
    /\ NextStep("succeeded")
    /\ deployed' = [deployed EXCEPT ![Step] = Want]
    /\ Remember([definition |-> Want, matched |-> FALSE])
    /\ UNCHANGED <<args, writes, late, interrupts>>

StepWriteFailureIgnored ==
    /\ Preparing /\ steps # <<>> /\ busy[Step] = "write"
    /\ \E outcome \in Bad : NextStep(outcome)
    /\ UNCHANGED <<args, deployed, cache, writes, late, interrupts>>
StepWriteFails ==
    /\ Preparing /\ steps # <<>> /\ busy[Step] = "write"
    /\ \E outcome \in Bad : AbortStep(outcome)
    /\ deployed' \in {deployed, [deployed EXCEPT ![Step] = Want]}
    /\ UNCHANGED <<args, cache, writes, late, interrupts>>

(* The step graph is traced, the workflow looked up and its definition put *)
(* together; the workflow's own row stays unattempted.                     *)
WorkflowPrepared ==
    /\ Preparing /\ steps = <<>>
    /\ todo' = Tail(todo)
    /\ steps' = IF Tail(todo) = <<>> THEN <<>> ELSE StepsOf[Head(Tail(todo))]
    /\ UNCHANGED <<args, phase, changed, matched, pending, failure, busy, status, error,
                   deployed, cache, writes, late, interrupts>>

PreparationFails ==
    /\ Preparing /\ steps = <<>>
    /\ \E outcome \in Bad : Abort(Head(todo), outcome)
    /\ UNCHANGED <<args, deployed, cache, writes, late, interrupts>>

AllPrepared ==
    /\ phase = "prepare" /\ todo = <<>>
    /\ phase' = "compare"
    /\ UNCHANGED <<args, progress, busy, status, error, deployed, cache, writes, late, interrupts>>

--------------------------------------------------------------------------------
(* One comparison for all prepared definitions; a backend without the route*)
(* matches none.                                                           *)
Compare ==
    /\ phase = "compare"
    /\ \/ /\ matched' \in IF comparable THEN SUBSET Elements(plan.workflows) ELSE {{}}
          /\ Enter("adopt", plan.workflows)
          /\ UNCHANGED <<steps, changed, pending, failure, error>>
       \/ Close
    /\ UNCHANGED <<args, busy, status, deployed, cache, writes, late, interrupts>>

(* A matching workflow is done without a request, the others are kept for  *)
(* the pool.                                                               *)
Adopt ==
    /\ phase = "adopt" /\ todo # <<>>
    /\ todo' = Tail(todo)
    /\ LET w == Head(todo)
       IN IF w \in matched
          THEN status' = [status EXCEPT ![w] = "unchanged"] /\ UNCHANGED changed
          ELSE changed' = Append(changed, w) /\ UNCHANGED status
    /\ UNCHANGED <<args, phase, steps, matched, pending, failure, busy, error,
                   deployed, cache, writes, late, interrupts>>

AllAdopted ==
    /\ phase = "adopt" /\ todo = <<>>
    /\ Enter("submit", changed)
    /\ UNCHANGED <<args, steps, changed, matched, pending, failure, busy, status, error,
                   deployed, cache, writes, late, interrupts>>

--------------------------------------------------------------------------------
(* The pool (Project._submit_workflows with jobs > 1).                     *)
Pool == phase = "submit" /\ jobs > 1

SubmittableOneTooMany   == ~failure /\ Cardinality(pending) <= jobs /\ todo # <<>>
Submittable == ~failure /\ Cardinality(pending) < jobs /\ todo # <<>>

Submit ==
    /\ Pool /\ Submittable
    /\ pending' = pending \cup {Head(todo)}
    /\ busy' = [busy EXCEPT ![Head(todo)] = "queued"]
    /\ todo' = Tail(todo)
    /\ UNCHANGED <<args, phase, steps, changed, matched, failure, status, error,
                   deployed, cache, writes, late, interrupts>>

(* A worker thread takes a submitted workflow and writes its definition.   *)
PickUp(w) ==
    /\ busy[w] = "queued" /\ Cardinality(Writing) < jobs
    /\ Begin(w, "write")
    /\ writes' = [writes EXCEPT ![w] = @ + 1]
    /\ late' = IF \E v \in Elements(changed) : status[v] \in Bad THEN late + 1 ELSE late
    /\ UNCHANGED <<args, phase, progress, error, deployed, cache, interrupts>>

(* A worker's write ends, also when the main thread no longer waits for it.*)
FinishWorkflow(w) ==
    /\ w \in pending /\ busy[w] = "write"
    /\ \E outcome \in Bad \cup {"succeeded"} : End(w, outcome)
    /\ error' = (error \/ status'[w] \in Bad)
    /\ UNCHANGED <<args, phase, progress, deployed, cache, writes, late, interrupts>>

(* wait(FIRST_COMPLETED): every future that is done, then their results.   *)
CollectWithoutRemoving ==
    /\ Pool /\ ~Submittable
    /\ \E w \in pending : busy[w] = "idle"
    /\ UNCHANGED vars
Collect ==
    /\ Pool /\ ~Submittable
    /\ LET done == {w \in pending : busy[w] = "idle"}
       IN /\ done # {}
          /\ pending' = pending \ done
          /\ failure' = (failure \/ \E w \in done : status[w] \in Bad)
    /\ UNCHANGED <<args, phase, todo, steps, changed, matched, busy, status, error,
                   deployed, cache, writes, late, interrupts>>

EveryApp == Apps
SelectedApps == plan.apps

SubmitDone ==
    /\ phase = "submit"
    /\ IF jobs = 1 THEN todo = <<>> ELSE pending = {} /\ ~Submittable
    /\ IF failure
       THEN Close
       ELSE /\ Enter("apps", SelectedApps)
            /\ UNCHANGED <<steps, changed, matched, pending, failure, error>>
    /\ UNCHANGED <<args, busy, status, deployed, cache, writes, late, interrupts>>

AppsDone ==
    /\ phase = "apps" /\ todo = <<>>
    /\ phase' = "closed"
    /\ UNCHANGED <<args, progress, busy, status, error, deployed, cache, writes, late, interrupts>>

--------------------------------------------------------------------------------
(* Ctrl-C in the main thread.                                              *)

(* During a write of its own the target is uncertain - or failed, when no  *)
(* request was under way; before it, failed.                               *)
OutcomesInterrupted(t) == {"interrupted"}
Outcomes(t) == IF busy[t] = "write" THEN Bad ELSE {"failed"}

InterruptSerial ==
    /\ Serial /\ todo # <<>> /\ busy[Head(todo)] # "idle"
    /\ \E outcome \in Outcomes(Head(todo)) : Abort(Head(todo), outcome)
    /\ UNCHANGED deployed

InterruptStep ==
    /\ Preparing /\ steps # <<>> /\ busy[Step] # "idle"
    /\ \E outcome \in Outcomes(Step) : AbortStep(outcome)
    /\ IF busy[Step] = "write"
       THEN deployed' \in {deployed, [deployed EXCEPT ![Step] = Want]}
       ELSE UNCHANGED deployed

InterruptPreparation ==
    /\ Preparing /\ (steps # <<>> => busy[Step] = "idle")
    /\ Abort(Head(todo), "failed")
    /\ UNCHANGED deployed

(* Between targets nothing is under way.                                   *)
InterruptIdle ==
    /\ phase \notin {"draining", "closed"} /\ ~Preparing /\ ~Pool
    /\ Serial /\ todo # <<>> => busy[Head(todo)] = "idle"
    /\ Close
    /\ UNCHANGED <<busy, status, deployed>>

(* executor.shutdown(wait=True, cancel_futures=True): what no worker has   *)
(* taken is cancelled, what is being written is waited for.                *)
Cancelled == {w \in pending : busy[w] = "queued"}

ShutdownWithoutWaiting == phase' = "closed"
Shutdown == phase' = "draining"

InterruptPool ==
    /\ Pool
    /\ Shutdown /\ error' = TRUE
    /\ busy' = [t \in Targets |-> IF t \in Cancelled THEN "idle" ELSE busy[t]]
    /\ UNCHANGED <<progress, status, deployed>>

(* A second Ctrl-C during the shutdown: the wait is over.                  *)
InterruptShutdown ==
    /\ phase = "draining" /\ Close
    /\ UNCHANGED <<busy, status, deployed>>

Interrupt ==
    /\ interrupts < MaxInterrupts /\ interrupts' = interrupts + 1
    /\ \/ InterruptSerial \/ InterruptStep \/ InterruptPreparation
       \/ InterruptIdle \/ InterruptPool \/ InterruptShutdown
    /\ UNCHANGED <<args, cache, writes, late>>

Drained ==
    /\ phase = "draining" /\ \A w \in pending : busy[w] = "idle"
    /\ phase' = "closed"
    /\ UNCHANGED <<args, progress, busy, status, error, deployed, cache, writes, late, interrupts>>

Closed == phase = "closed" /\ UNCHANGED vars

--------------------------------------------------------------------------------
MainStep ==
    \/ EnsureProject \/ BeginTarget \/ LookUp \/ FinishTarget \/ FunctionsDone
    \/ BeginStep \/ ReuseStep \/ MatchStep \/ WriteStep \/ LookUpStepFails
    \/ StepWritten \/ StepWriteFails \/ WorkflowPrepared \/ PreparationFails \/ AllPrepared
    \/ Compare \/ Adopt \/ AllAdopted \/ Submit \/ Collect \/ SubmitDone \/ AppsDone \/ Drained

WorkerStep(w) == PickUp(w) \/ FinishWorkflow(w)

Next == MainStep \/ (\E w \in Targets : WorkerStep(w)) \/ Interrupt \/ Closed

(* The main thread and every worker thread keep running, and every write   *)
(* ends (DefinitionWrite's Termination).                                   *)
Spec == Init /\ [][Next]_vars /\ WF_vars(MainStep) /\ \A w \in Targets : WF_vars(WorkerStep(w))

--------------------------------------------------------------------------------
(* Properties.                                                             *)
Planned ==
    Elements(plan.functions) \cup Elements(plan.workflows) \cup Elements(plan.apps)
      \cup UNION {Elements(StepsOf[w]) : w \in Elements(plan.workflows)}

(* No workflow is written before every step of every selected workflow is  *)
(* deployed: a failing preparation leaves all workflows alone.             *)
StepsBeforeWorkflows ==
    \A w \in Elements(plan.workflows) : writes[w] > 0 =>
        \A v \in Elements(plan.workflows) : \A s \in Elements(StepsOf[v]) : status[s] \in Good

(* Every row of a report can be taken at its word: unattempted and         *)
(* unchanged targets were not written in this attempt, succeeded ones were *)
(* - also for a step that several workflows deploy.                        *)
HonestReport ==
    phase = "closed" =>
        \A t \in Targets : busy[t] = "idle" =>
            /\ status[t] \in {"unattempted", "unchanged"} => writes[t] = 0
            /\ status[t] = "succeeded" => writes[t] > 0

(* A report without an error has every planned target succeeded or         *)
(* unchanged, and one with a failed or uncertain row has an error.         *)
CleanReport ==
    phase = "closed" =>
        /\ ~error => \A t \in Planned : status[t] \in Good
        /\ (\E t \in Planned : status[t] \in Bad) => error

(* Targets outside the selection are not touched.                          *)
OnlySelected == \A t \in Targets \ Planned : writes[t] = 0 /\ status[t] = "unattempted"

(* What a comment in _submit_workflows says: already-issued writes finish   *)
(* and reconcile their outcomes before the final report is printed.        *)
QuietWhenClosed == phase = "closed" => Active = {}

(* It holds up to a second Ctrl-C, which cuts the shutdown short.          *)
QuietUnlessInterruptedTwice == interrupts < 2 => QuietWhenClosed

(* Once a workflow write has failed at most the other jobs - 1 are begun:  *)
(* those submitted before the main thread learns of it.                    *)
FailureContained == late <= jobs - 1

(* A step shared by workflows is left as the last workflow that uses it    *)
(* resolved it, although repeated writes of one definition are skipped.    *)
LastUse(s) ==
    CHOOSE i \in DOMAIN plan.workflows :
        /\ s \in Elements(StepsOf[plan.workflows[i]])
        /\ \A j \in DOMAIN plan.workflows :
              s \in Elements(StepsOf[plan.workflows[j]]) => j <= i

SharedStepAsLastWanted ==
    phase = "closed" /\ ~error =>
        \A s \in Planned \cap (Steps \ Built) :
            deployed[s] = Wanted[plan.workflows[LastUse(s)]][s]

(* Shared steps with the same resolved definition are written once: a step *)
(* is written again only when the definition differs from the previous one.*)
Uses(s) == {i \in DOMAIN plan.workflows : s \in Elements(StepsOf[plan.workflows[i]])}
WantedAt(i, s) == Wanted[plan.workflows[i]][s]
SameAsBefore(i, s) ==
    \E j \in Uses(s) :
        /\ j < i /\ WantedAt(j, s) = WantedAt(i, s)
        /\ \A k \in Uses(s) : k <= j \/ i <= k
Changes(s) == Cardinality({i \in Uses(s) : ~SameAsBefore(i, s)})

StepWrittenOncePerDefinition == \A s \in Steps \ Built : writes[s] <= Changes(s)

(* Every attempt ends with a closed report in which nothing is pending.    *)
Termination == <>(phase = "closed" /\ Active = {})
================================================================================
