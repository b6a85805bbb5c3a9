----------------------------- MODULE HillclimbJob -----------------------------
(***************************************************************************)
(* A hosted hillclimb job (hosted_search): the main thread runs one search *)
(* in its own process or waits for a fleet of engine processes, a daemon   *)
(* thread (_StateSync) copies the searches' records to a bucket and pulls  *)
(* control commands from it, and a SIGTERM handler interrupts the main     *)
(* thread when the platform is about to kill the container.                *)
(*                                                                         *)
(* The engines and the platform are external: an engine writes records,    *)
(* polls its control directory and ends in one of the states the summary   *)
(* distinguishes; the platform queues commands and sends one SIGTERM.      *)
(***************************************************************************)
EXTENDS Integers, Sequences, FiniteSets

CONSTANTS
    Tree,           \* the records of the searches, in the order of the directory tree
    Commands,       \* control commands the platform may queue
    Nobody,         \* no holder of the sync lock
    FullEvery,      \* SYNC_INTERVAL_S // STATUS_SYNC_INTERVAL_S: ticks per full copy
    MaxWrites,      \* bound: versions of a record
    MaxFailures     \* bound: failing calls to the bucket

(* A record is a search with its status.json or its other records (the     *)
(* journal, best/, ...).  The job runs one search in-process, or all.      *)
Files == {Tree[i] : i \in DOMAIN Tree}
Searches == {f[1] : f \in Files}
Status(s) == <<s, "status">>
Other(s) == <<s, "other">>

(* The request the job itself puts into the control directories.           *)
Stop == "sigterm-stop"

ASSUME TreeAssumption ==
    /\ Tree \in Seq(Searches \X {"status", "other"}) /\ Tree # <<>>
    /\ \A s \in Searches : Status(s) \in Files
(* Nobody is none of the threads of the job, and the request the job makes *)
(* itself is told apart from the commands that come from outside.          *)
ASSUME NobodyAssumption == Nobody \notin {"main", "loop", "handler"}
ASSUME StopAssumption == Stop \notin Commands
ASSUME LimitsAssumption ==
    /\ FullEvery \in Nat \ {0}
    /\ MaxWrites \in Nat \ {0, 1} /\ MaxFailures \in Nat

VARIABLES
    members,    \* the searches of this job
    main,       \* where the main thread is
    raising,    \* the exception it is unwinding
    handler,    \* where the SIGTERM handler is
    loop,       \* where the sync thread is
    tick,       \* ticks since its last full copy
    sync,       \* the copy under way: who holds the lock, the file it is at, what was read
    engine,     \* each engine process: not started, up, or its exit
    state,      \* the state its status record shows
    local,      \* versions written of each record
    uploaded,   \* the fingerprint remembered for each record
    bucket,     \* the version of each record in the bucket
    inbox,      \* commands in each search's control directory
    given,      \* commands ever put there by the sync
    queue,      \* commands in the bucket
    seen,       \* commands the sync has dealt with
    todo,       \* commands of the listing being worked through
    lost,       \* seen commands whose download failed
    failures,   \* failing bucket calls so far
    signalled,  \* SIGTERM was sent
    result      \* the result returned: a state, and whether it carries an error

records == <<engine, state, local, inbox>>
copies  == <<uploaded, bucket>>
control == <<given, queue, seen, todo, lost>>
threads == <<main, raising, handler, loop, tick>>
vars == <<members, threads, sync, records, copies, control, failures, signalled, result>>

MainPlaces == {"setup", "started", "launching", "waiting", "parking", "joining", "flushing",
               "summarising", "returned", "raised", "exited"}
HandlerPlaces == {"off", "stopping", "parking", "flushing", "leaving"}
LoopPlaces == {"off", "waiting", "locking", "copying", "listing", "pulling", "ended"}
Holders    == {"main", "loop", "handler", Nobody}
Exits      == {"clean", "error"}
States     == {"none", "running", "done", "failed", "stopped", "parked"}
Verdicts   == {"done", "failed", "parked", "stopped", "running"}
NoResult   == [state |-> "none", error |-> FALSE]
Free       == [holder |-> Nobody, full |-> FALSE, next |-> 1, reading |-> FALSE, read |-> 0]

Fleet == Cardinality(members) > 1
Over  == main \in {"returned", "raised", "exited"}
Down(s) == engine[s] \in Exits
(* Signal handlers run in the main thread, on top of what it was doing; so *)
(* does a search that is not part of a fleet.                              *)
MainRuns == ~Over /\ handler = "off"
EngineRuns(s) == ~Over /\ engine[s] = "up" /\ (Fleet \/ handler = "off")

TypeOK ==
    /\ members \subseteq Searches
    /\ main \in MainPlaces /\ raising \in {"nothing", "error", "exit"}
    /\ handler \in HandlerPlaces /\ loop \in LoopPlaces /\ tick \in 0..(FullEvery - 1)
    /\ sync \in [holder : Holders, full : BOOLEAN, next : 1..(Len(Tree) + 1), reading : BOOLEAN, read : 0..MaxWrites]
    /\ engine \in [Searches -> {"off", "up"} \cup Exits]
    /\ state \in [Searches -> States]
    /\ local \in [Files -> 0..MaxWrites]
    /\ uploaded \in [Files -> 0..MaxWrites] /\ bucket \in [Files -> 0..MaxWrites]
    /\ inbox \in [Searches -> SUBSET (Commands \cup {Stop})]
    /\ given \in [Searches -> SUBSET Commands]
    /\ queue \subseteq Commands /\ seen \subseteq Commands
    /\ todo \subseteq Commands /\ lost \subseteq Commands
    /\ failures \in 0..MaxFailures /\ signalled \in BOOLEAN
    /\ result \in [state : Verdicts, error : BOOLEAN] \cup {NoResult}

Init ==
    /\ members \in {{s} : s \in Searches} \cup {Searches}
    /\ main = "setup" /\ raising = "nothing" /\ handler = "off"
    /\ loop = "off" /\ tick = 0 /\ sync = Free
    /\ engine = [s \in Searches |-> "off"] /\ state = [s \in Searches |-> "none"]
    /\ local = [f \in Files |-> 0]
    /\ uploaded = [f \in Files |-> 0] /\ bucket = [f \in Files |-> 0]
    /\ inbox = [s \in Searches |-> {}] /\ given = [s \in Searches |-> {}]
    /\ queue = {} /\ seen = {} /\ todo = {} /\ lost = {}
    /\ failures = 0 /\ signalled = FALSE /\ result = NoResult

--------------------------------------------------------------------------------
(* The engines (external).                                                 *)

EngineWrites(f) == local' = [local EXCEPT ![f] = @ + 1]

(* The last record of a search is always within the bound.                 *)
EngineReports(s) ==
    /\ EngineRuns(s) /\ state[s] = "none"
    /\ state' = [state EXCEPT ![s] = "running"]
    /\ EngineWrites(Status(s))
    /\ UNCHANGED <<members, threads, sync, engine, copies, inbox, control, failures, signalled, result>>

EngineProgresses(s) ==
    /\ EngineRuns(s) /\ state[s] = "running"
    /\ \/ local[Status(s)] < MaxWrites - 1 /\ EngineWrites(Status(s))
       \/ Other(s) \in Files /\ local[Other(s)] < MaxWrites - 1 /\ EngineWrites(Other(s))
    /\ UNCHANGED <<members, threads, sync, engine, state, copies, inbox, control, failures, signalled, result>>

EngineExits(s, final, exit) ==
    /\ engine' = [engine EXCEPT ![s] = exit]
    /\ state' = [state EXCEPT ![s] = final]
    /\ local' = IF final = state[s] THEN local ELSE [local EXCEPT ![Status(s)] = @ + 1]
    /\ inbox' = [inbox EXCEPT ![s] = {}]     \* nobody reads it any more
    /\ UNCHANGED <<members, threads, sync, copies, control, failures, signalled, result>>

EngineEnds(s) ==
    /\ EngineRuns(s) /\ state[s] = "running"
    /\ EngineExits(s, "done", "clean") \/ EngineExits(s, "failed", "error")

(* Between operators the engine polls its control directory.               *)
EngineObeys(s) ==
    /\ EngineRuns(s) /\ state[s] = "running" /\ inbox[s] # {}
    /\ EngineExits(s, "stopped", "clean")

EngineCrashes(s) == EngineRuns(s) /\ EngineExits(s, state[s], "error")

(* SIGTERM from the job: the engine parks, or is killed after the grace.   *)
EngineTerminated(s) ==
    /\ ~Over /\ engine[s] = "up"
    /\ handler = "parking" \/ (MainRuns /\ main = "parking")
    /\ \/ state[s] = "running" /\ EngineExits(s, "parked", "clean")
       \/ EngineExits(s, state[s], "error")

--------------------------------------------------------------------------------
(* The platform (external).                                                *)
Request(c) ==
    /\ ~Over /\ c \notin queue /\ queue' = queue \cup {c}
    /\ UNCHANGED <<members, threads, sync, records, copies, given, seen, todo, lost, failures, signalled, result>>

(* Before the handler is installed SIGTERM ends the process.               *)
Sigterm ==
    /\ ~Over /\ ~signalled /\ signalled' = TRUE
    /\ IF main \in {"setup", "started"}
       THEN main' = "exited" /\ UNCHANGED handler
       ELSE handler' = "stopping" /\ UNCHANGED main
    /\ UNCHANGED <<members, raising, loop, tick, sync, records, copies, control, failures, result>>

--------------------------------------------------------------------------------
(* _StateSync.sync_once, called by three parties under one lock.           *)
BucketFails == failures < MaxFailures /\ failures' = failures + 1

Current == Tree[sync.next]

Lock(who, full) ==
    /\ sync.holder = Nobody
    /\ sync' = [Free EXCEPT !.holder = who, !.full = full]

(* Files not in scope and files unchanged since their last copy are passed.*)
Passed(f) == (~sync.full /\ f # Status(f[1])) \/ local[f] = uploaded[f]

(* The fingerprint is taken before the file is read.                       *)
StatFile ==
    /\ ~sync.reading /\ sync.next <= Len(Tree)
    /\ sync' = IF Passed(Current)
               THEN [sync EXCEPT !.next = @ + 1]
               ELSE [sync EXCEPT !.reading = TRUE, !.read = local[Current]]
    /\ UNCHANGED copies

RememberNewest(f) == uploaded' = [uploaded EXCEPT ![f] = local[f]]
RememberFingerprint(f) == uploaded' = [uploaded EXCEPT ![f] = sync.read]

(* The bucket gets what the file holds at some moment since.               *)
Put(f) == \E v \in sync.read..local[f] : bucket' = [bucket EXCEPT ![f] = v]

PutFile ==
    /\ sync.reading
    /\ Put(Current) /\ RememberFingerprint(Current)
    /\ sync' = [sync EXCEPT !.next = @ + 1, !.reading = FALSE, !.read = 0]

CopyStep(who) == sync.holder = who /\ (StatFile \/ PutFile) /\ UNCHANGED failures

(* The upload raises, whether or not the bucket took it.                   *)
CopyFailsLocked(who) ==
    /\ sync.holder = who /\ sync.reading
    /\ BucketFails
    /\ Put(Current) \/ UNCHANGED bucket
    /\ sync' = [Free EXCEPT !.holder = who]
    /\ UNCHANGED uploaded
CopyFails(who) ==
    /\ sync.holder = who /\ sync.reading
    /\ BucketFails
    /\ Put(Current) \/ UNCHANGED bucket
    /\ sync' = Free
    /\ UNCHANGED uploaded

CopyDone(who) == sync.holder = who /\ ~sync.reading /\ sync.next > Len(Tree) /\ sync' = Free

--------------------------------------------------------------------------------
(* The sync thread (_StateSync._loop).                                     *)
stopping == main \in {"joining", "flushing", "summarising"}

LoopTickUnwrapped ==
    /\ ~Over /\ loop = "waiting" /\ ~stopping
    /\ tick' = tick + 1
    /\ loop' = "locking"
    /\ UNCHANGED <<members, main, raising, handler, sync, records, copies, control, failures, signalled, result>>
LoopTick ==
    /\ ~Over /\ loop = "waiting" /\ ~stopping
    /\ tick' = (tick + 1) % FullEvery
    /\ loop' = "locking"
    /\ UNCHANGED <<members, main, raising, handler, sync, records, copies, control, failures, signalled, result>>

FullTick == tick = 0

LoopLocks ==
    /\ ~Over /\ loop = "locking"
    /\ Lock("loop", FullTick)
    /\ loop' = "copying"
    /\ UNCHANGED <<members, main, raising, handler, tick, records, copies, control, failures, signalled, result>>

LoopCopies ==
    /\ ~Over /\ loop = "copying" /\ CopyStep("loop")
    /\ UNCHANGED <<members, threads, records, control, signalled, result>>

(* Any failure of the sync is logged and forgotten.                        *)
LoopDies == loop' = "ended"
LoopGoesOn == loop' = "waiting"

LoopCopyFails ==
    /\ ~Over /\ loop = "copying" /\ CopyFails("loop")
    /\ LoopGoesOn
    /\ UNCHANGED <<members, main, raising, handler, tick, records, control, signalled, result>>

LoopCopyDone ==
    /\ ~Over /\ loop = "copying" /\ CopyDone("loop")
    /\ loop' = "listing"
    /\ UNCHANGED <<members, main, raising, handler, tick, records, copies, control, failures, signalled, result>>

(* pull_control: what the listing holds and was not dealt with yet.        *)
ListAllCommands == todo' = queue
ListNewCommands == todo' = queue \ seen

ListCommands ==
    /\ ~Over /\ loop = "listing"
    /\ \/ ListNewCommands /\ loop' = "pulling" /\ UNCHANGED failures
       \/ BucketFails /\ LoopGoesOn /\ UNCHANGED todo
    /\ UNCHANGED <<members, main, raising, handler, tick, sync, records, copies,
                   given, queue, seen, lost, signalled, result>>

(* One command: marked as seen, downloaded, put into the control directory *)
(* of every search whose own status says running.  A search that ends      *)
(* between its status being read and the command being put never polls it. *)
Running == {s \in members : state[s] = "running"}

PullCommand(c) ==
    /\ ~Over /\ loop = "pulling" /\ c \in todo
    /\ seen' = seen \cup {c}
    /\ \/ /\ todo' = todo \ {c}
          /\ inbox' = [s \in Searches |-> IF s \in Running THEN inbox[s] \cup {c} ELSE inbox[s]]
          /\ given' = [s \in Searches |-> IF s \in Running THEN given[s] \cup {c} ELSE given[s]]
          /\ UNCHANGED <<loop, lost, failures>>
       \/ /\ BucketFails /\ LoopGoesOn /\ todo' = {} /\ lost' = lost \cup {c}
          /\ UNCHANGED <<inbox, given>>
    /\ UNCHANGED <<members, main, raising, handler, tick, sync, engine, state, local, copies,
                   queue, signalled, result>>

PullDone ==
    /\ ~Over /\ loop = "pulling" /\ todo = {}
    /\ loop' = "waiting"
    /\ UNCHANGED <<members, main, raising, handler, tick, sync, records, copies, control, failures, signalled, result>>

LoopEnds ==
    /\ ~Over /\ loop = "waiting" /\ stopping
    /\ loop' = "ended"
    /\ UNCHANGED <<members, main, raising, handler, tick, sync, records, copies, control, failures, signalled, result>>

--------------------------------------------------------------------------------
(* The main thread (hosted_search).                                        *)
MainGoes(place) == MainRuns /\ main' = place

(* The manifest is written before anything runs; then the thread starts.   *)
Setup ==
    /\ main = "setup"
    /\ \/ MainGoes("started") /\ loop' = "waiting" /\ UNCHANGED <<raising, failures>>
       \/ MainGoes("raised") /\ BucketFails /\ raising' = "error" /\ UNCHANGED loop
    /\ UNCHANGED <<members, handler, tick, sync, records, copies, control, signalled, result>>

InstallHandler ==
    /\ main = "started" /\ MainGoes("launching")
    /\ UNCHANGED <<members, raising, handler, loop, tick, sync, records, copies, control, failures, signalled, result>>

(* A single search starts running in this thread; run_fleet starts one     *)
(* process after the other, and only then is `fleet` known to the handler. *)
Launch(s) ==
    /\ main = "launching" /\ MainRuns
    /\ s \in members /\ engine[s] = "off"
    /\ engine' = [engine EXCEPT ![s] = "up"]
    /\ UNCHANGED <<members, threads, sync, state, local, inbox, copies, control, failures, signalled, result>>

Launched ==
    /\ main = "launching" /\ \A s \in members : engine[s] # "off"
    /\ MainGoes("waiting")
    /\ UNCHANGED <<members, raising, handler, loop, tick, sync, records, copies, control, failures, signalled, result>>

(* run_fleet raises; the engines it has started are left running.          *)
LaunchFails ==
    /\ main = "launching" /\ Fleet /\ MainGoes("joining")
    /\ raising' = "error"
    /\ UNCHANGED <<members, handler, loop, tick, sync, records, copies, control, failures, signalled, result>>

(* The single search returned or raised; every engine of the fleet exited. *)
SearchesEnd ==
    /\ main = "waiting" /\ \A s \in members : Down(s)
    /\ MainGoes("joining")
    /\ raising' = IF ~Fleet /\ \E s \in members : engine[s] = "error" /\ state[s] # "failed"
                  THEN "error" ELSE raising
    /\ UNCHANGED <<members, handler, loop, tick, sync, records, copies, control, failures, signalled, result>>

(* request_stop_everywhere.                                                *)
StopEverywhere ==
    inbox' = [s \in Searches |-> IF s \in Running THEN inbox[s] \cup {Stop} ELSE inbox[s]]

(* The deadline of the fleet: park the stragglers, kill those that do not. *)
Deadline ==
    /\ main = "waiting" /\ Fleet /\ \E s \in members : ~Down(s)
    /\ MainGoes("parking")
    /\ StopEverywhere
    /\ UNCHANGED <<members, raising, handler, loop, tick, sync, engine, state, local, copies, control, failures, signalled, result>>

StragglersLeft == TRUE
StragglersDown == \A s \in members : Down(s)

Parked ==
    /\ main = "parking" /\ StragglersDown
    /\ MainGoes("joining")
    /\ UNCHANGED <<members, raising, handler, loop, tick, sync, records, copies, control, failures, signalled, result>>

FlushOfStatus ==
    /\ main = "joining" /\ MainGoes("flushing")
    /\ Lock("main", FALSE)
    /\ UNCHANGED <<members, raising, handler, loop, tick, records, copies, control, failures, signalled, result>>

(* stop(): the join may time out with the sync thread still at work.       *)
Flush ==
    /\ main = "joining" /\ MainGoes("flushing")
    /\ Lock("main", TRUE)
    /\ UNCHANGED <<members, raising, handler, loop, tick, records, copies, control, failures, signalled, result>>

FlushCopies ==
    /\ main = "flushing" /\ MainRuns /\ CopyStep("main")
    /\ UNCHANGED <<members, threads, records, control, signalled, result>>

(* The final flush is not guarded.                                         *)
FlushFails ==
    /\ main = "flushing" /\ CopyFails("main")
    /\ MainGoes("raised") /\ raising' = "error"
    /\ UNCHANGED <<members, handler, loop, tick, records, control, signalled, result>>

FlushDone ==
    /\ main = "flushing" /\ CopyDone("main")
    /\ MainGoes(CASE raising = "nothing" -> "summarising"
                  [] raising = "error" -> "raised"
                  [] OTHER -> "exited")
    /\ UNCHANGED <<members, raising, handler, loop, tick, records, copies, control, failures, signalled, result>>

(* summarize_run: the verdict over the status records found.  A record of  *)
(* a fleet that still says running belongs to an engine that died.         *)
FinalState(s) == IF Fleet /\ state[s] = "running" THEN "crashed" ELSE state[s]

Verdict ==
    LET found == {FinalState(s) : s \in {x \in members : state[x] # "none"}}
    IN CASE found = {} -> "failed"
         [] found = {"done"} -> "done"
         [] "failed" \in found -> "failed"
         [] "failed" \notin found /\ found \cap {"parked", "crashed"} # {} -> "parked"
         [] found \cap {"failed", "parked", "crashed"} = {} /\ "stopped" \in found -> "stopped"
         [] OTHER -> "running"

ErrorNever == FALSE
ErrorOfExits == \E s \in members : engine[s] = "error"

(* The finishing manifest may fail; the result is returned all the same.   *)
Summarise ==
    /\ main = "summarising" /\ MainGoes("returned")
    /\ result' = [state |-> Verdict, error |-> ErrorOfExits]
    /\ UNCHANGED <<members, raising, handler, loop, tick, sync, records, copies, control, failures, signalled>>

--------------------------------------------------------------------------------
(* The SIGTERM handler (on_sigterm).                                       *)
(* The variable fleet is set: run_fleet has returned.                      *)
FleetKnown == Fleet /\ main # "launching" /\ raising = "nothing"

HandlerStops ==
    /\ ~Over /\ handler = "stopping"
    /\ StopEverywhere
    /\ handler' = IF FleetKnown THEN "parking" ELSE "flushing"
    /\ UNCHANGED <<members, main, raising, loop, tick, sync, engine, state, local, copies, control, failures, signalled, result>>

HandlerParked ==
    /\ ~Over /\ handler = "parking" /\ \A s \in members : Down(s)
    /\ handler' = "flushing"
    /\ UNCHANGED <<members, main, raising, loop, tick, sync, records, copies, control, failures, signalled, result>>

(* The lock is not reentrant: when the interrupted main thread holds it,   *)
(* the handler waits for ever.                                             *)
HandlerLocks ==
    /\ ~Over /\ handler = "flushing" /\ Lock("handler", FALSE)
    /\ UNCHANGED <<members, threads, records, copies, control, failures, signalled, result>>

HandlerCopies ==
    /\ ~Over /\ handler = "flushing" /\ CopyStep("handler")
    /\ UNCHANGED <<members, threads, records, control, signalled, result>>

HandlerFlushed ==
    /\ ~Over /\ handler = "flushing"
    /\ \/ CopyDone("handler") /\ UNCHANGED <<copies, failures>>
       \/ CopyFails("handler")
    /\ handler' = "leaving"
    /\ UNCHANGED <<members, main, raising, loop, tick, records, control, signalled, result>>

(* With a fleet the main thread goes on and finds its engines gone.        *)
HandlerReturns ==
    /\ ~Over /\ handler = "leaving" /\ FleetKnown
    /\ handler' = "off"
    /\ UNCHANGED <<members, main, raising, loop, tick, sync, records, copies, control, failures, signalled, result>>

(* Without one SystemExit(143) unwinds the main thread: into the final     *)
(* flush while the search runs, out of it when it comes during it.  The    *)
(* search, if it was running in this thread, parks or just dies.           *)
LeftAtOnce == "exited"
LeftAfter == IF main \in {"launching", "waiting"} THEN "joining" ELSE "exited"
HandlerExits ==
    /\ ~Over /\ handler = "leaving" /\ ~FleetKnown
    /\ handler' = "off" /\ raising' = "exit"
    /\ main' = LeftAfter
    /\ \/ /\ \E s \in members : ~Fleet /\ engine[s] = "up" /\ state[s] = "running"
          /\ engine' = [s \in Searches |-> IF engine[s] = "up" THEN "clean" ELSE engine[s]]
          /\ state' = [s \in Searches |-> IF engine[s] = "up" THEN "parked" ELSE state[s]]
          /\ local' = [f \in Files |-> local[f] + IF engine[f[1]] = "up" /\ f[2] = "status" THEN 1 ELSE 0]
       \/ /\ engine' = [s \in Searches |-> IF ~Fleet /\ engine[s] = "up" THEN "error" ELSE engine[s]]
          /\ UNCHANGED <<state, local>>
    /\ UNCHANGED <<members, loop, tick, sync, inbox, copies, control, failures, signalled, result>>

(* The two ways to stand still: the job has ended, or the handler waits for*)
(* the thread it has interrupted.                                          *)
SelfLocked == handler = "flushing" /\ sync.holder = "main"

Finished == (Over \/ SelfLocked) /\ UNCHANGED vars

--------------------------------------------------------------------------------
EngineWork(s) == EngineReports(s) \/ EngineProgresses(s) \/ EngineEnds(s) \/ EngineObeys(s) \/ EngineTerminated(s)

LoopStep ==
    \/ LoopTick \/ LoopLocks \/ LoopCopies \/ LoopCopyFails \/ LoopCopyDone \/ ListCommands
    \/ (\E c \in Commands : PullCommand(c)) \/ PullDone \/ LoopEnds

MainStep ==
    \/ Setup \/ InstallHandler \/ (\E s \in Searches : Launch(s)) \/ Launched \/ LaunchFails \/ SearchesEnd
    \/ Deadline \/ Parked \/ Flush \/ FlushCopies \/ FlushFails \/ FlushDone \/ Summarise

HandlerStep ==
    \/ HandlerStops \/ HandlerParked \/ HandlerLocks \/ HandlerCopies
    \/ HandlerFlushed \/ HandlerReturns \/ HandlerExits

Next ==
    \/ \E s \in Searches : EngineWork(s) \/ EngineCrashes(s)
    \/ \E c \in Commands : Request(c)
    \/ Sigterm \/ LoopStep \/ MainStep \/ HandlerStep \/ Finished

(* A search may run as long as it likes: what the sync does meanwhile rests*)
(* on the sync thread alone.                                               *)
SyncSpec == Init /\ [][Next]_vars /\ WF_vars(LoopStep)

(* The threads run; bucket calls time out; an engine that is up works and, *)
(* having a budget, ends.  The lock is free for a whole interval between   *)
(* two copies of the sync thread, so whoever else waits for it gets it.    *)
Spec ==
    /\ Init /\ [][Next]_vars
    /\ WF_vars(LoopStep) /\ WF_vars(MainStep) /\ WF_vars(HandlerStep)
    /\ SF_vars(Flush) /\ SF_vars(HandlerLocks)
    /\ \A s \in Searches : WF_vars(EngineWork(s))

--------------------------------------------------------------------------------
(* Properties.                                                             *)

(* What the readers of the bucket see is what HostedRun promises: records  *)
(* never go back, and a returned result comes with the last of every one.  *)
Reader == INSTANCE HostedRun WITH
    produced <- local, published <- bucket,
    ended <- CASE main = "returned" -> "result"
               [] main \in {"raised", "exited"} -> "otherwise"
               [] OTHER -> "no"

ImplementsHostedRun == Reader!Spec

(* The remembered fingerprint is never newer than the copy in the bucket:  *)
(* else a record that does not change again would never be copied.         *)
NothingForgotten == \A f \in Files : uploaded[f] <= bucket[f] /\ bucket[f] <= local[f]

(* No search is given a command twice, however often the listing is read.  *)
GivenOnce ==
    [][\A s \in Searches, c \in Commands : c \in given[s] /\ c \notin inbox[s] => c \notin inbox'[s]]_vars

(* A command a running search could obey reaches it while the job watches  *)
(* for commands, unless its download failed once.                          *)
Watching == main \in {"launching", "waiting", "parking"} /\ handler = "off"

CommandsReachSearches ==
    \A c \in Commands, s \in Searches :
        c \in queue \ seen /\ state[s] = "running"
            ~> c \in given[s] \cup lost \/ state[s] # "running" \/ ~Watching

(* What request_hosted_stop says: the sync loop delivers the command to    *)
(* every running search.                                                   *)
EveryCommandDelivered ==
    \A c \in Commands, s \in Searches :
        c \in queue \ seen /\ state[s] = "running"
            ~> c \in given[s] \/ state[s] # "running" \/ ~Watching

(* A result that says done without an error has every search of the job    *)
(* done - also when an engine died before its first record - and a fleet's *)
(* result never says running.                                              *)
HonestVerdict ==
    /\ result.state = "done" /\ ~result.error => \A s \in members : state[s] = "done"
    /\ Fleet => result.state # "running"

(* A job that ended by itself or by SIGTERM, without a failing bucket call,*)
(* left the last status record of every engine that has exited.  (A fleet  *)
(* whose launch fails or is cut short by SIGTERM leaves engines that       *)
(* outlive the flush.)                                                     *)
StatusFlushed ==
    Over /\ failures = 0 /\ (Fleet => raising = "nothing")
        => \A s \in members : Down(s) => bucket[Status(s)] = local[Status(s)]

(* What the comment in on_sigterm says: the handler flushes the records    *)
(* before the container is killed - so it must get through its flush.      *)
SigtermFlushes == ~SelfLocked

(* The job ends, or hangs in its own handler: no other wait is endless.    *)
EndsUnlessSelfLocked == <>(Over \/ SelfLocked)
================================================================================
