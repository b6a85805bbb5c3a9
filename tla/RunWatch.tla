-------------------------------- MODULE RunWatch --------------------------------
(* Somebody watches a run: `rebase run` and `rebase run logs` (cli.py, the loop  *)
(* _stream_run_result with its log follower) or Run.result (client.py), against  *)
(* a run whose body maps a function over some items (Function.map) and prints    *)
(* each result as it gets it. What the body prints reaches the log store later,  *)
(* the worker may die without a word, another user may cancel, a read may fail,  *)
(* and the clock passes the deadline whenever it likes.                          *)
(*                                                                               *)
(* Actors: the worker (Begin ... BodyEnds), the platform (RunEnds, Settle,       *)
(* Ingest), another user (Cancel), the clock and the watcher.                    *)
EXTENDS Naturals, Sequences, FiniteSets

CONSTANTS
    N,         \* the items of the map are 1..N
    Bad,       \* the items whose function fails
    None,      \* no value, distinct from every status
    MaxFaults  \* bound: reads that fail, items and streams that are lost

Items    == 1..N
Terminal == {"succeeded", "failed", "cancelled"}
Statuses == {"queued", "submitted", "running"} \cup Terminal
Steps    == Statuses \cup {"pending"}
Kinds    == {"run", "follow", "snapshot", "result"}

ASSUME RunWatchAssumption ==
    /\ N \in Nat \ {0} /\ Bad \subseteq 1..N /\ MaxFaults \in Nat
    /\ None \notin Steps \cup {"timeout", "error"}

VARIABLES
    status,     \* the run's status, as the platform records it
    events,     \* the run's events: how many the platform has recorded
    step,       \* the status of the run's step
    ingested,   \* how many of the body's lines the log store has
    store,      \* whether there is a log store at all
    workflow,   \* the run's target_type: only a workflow's steps are fetched
    \* the worker
    ordered,    \* Function.map's argument, and
    tolerant,   \* return_exceptions
    arrived,    \* items whose event the stream has delivered
    buffer,     \* Function.map's buffer
    body,       \* "idle", "mapping", "returned", "raised", "gone"
    emitted,    \* what the body printed: the items, in the order it was given them
    \* the watcher
    kind,       \* which command it is
    pc,         \* where it stands
    data,       \* Run.data: the status in hand, None before the first
    fresh,      \* first_iteration
    follows,    \* which fetches are still made: "events", "steps", "logs"
    seen,       \* seen_event_ids (how many) and seen_step_statuses
    shown,      \* what it has printed: [events, step, lines]
    listed,     \* whether that ends with the run's whole record, _render_run_snapshot
    since,      \* _RunLogFollower._since: the lines read so far
    expired,    \* the clock has passed the deadline
    verdict,    \* how the command ended
    had,        \* ghost: what there was to show when it was last looked for
    lost,       \* ghost: items whose event the stream will never deliver
    faults      \* what is left of MaxFaults

platform == <<status, events, step, ingested, store, workflow>>
worker   == <<ordered, tolerant, arrived, buffer, body, emitted>>
watcher  == <<kind, pc, data, fresh, follows, seen, shown, listed, since, verdict, had>>
vars     == <<platform, worker, watcher, expired, lost, faults>>

Fault == faults > 0 /\ faults' = faults - 1

NothingSeen == [events |-> 0, step |-> None]

Init ==
    /\ status \in {"queued", "submitted"} /\ events = 0 /\ step = "pending"
    /\ ingested = 0 /\ store \in BOOLEAN /\ workflow \in BOOLEAN
    /\ ordered \in BOOLEAN /\ tolerant \in BOOLEAN
    /\ arrived = {} /\ buffer = {} /\ body = "idle" /\ emitted = <<>>
    /\ kind \in Kinds /\ pc = "start" /\ data = None /\ fresh = TRUE
    /\ follows = IF kind = "result" THEN {}
                 ELSE {"events", "logs"} \cup (IF workflow THEN {"steps"} ELSE {})
    /\ seen = NothingSeen /\ listed = FALSE
    /\ shown = [events |-> <<>>, step |-> <<>>, lines |-> <<>>]
    /\ since = 0 /\ expired = FALSE /\ verdict = None
    /\ had = [events |-> 0, lines |-> 0]
    /\ lost = {} /\ faults = MaxFaults

--------------------------------------------------------------------------------
(* The worker: the run's body is `for result in function.map(items): print(..)`. *)

Begin ==
    /\ body = "idle" /\ status \notin Terminal
    /\ body' = "mapping"
    /\ status' = "running" /\ step' = "running" /\ events' = events + 1
    /\ UNCHANGED <<ingested, store, workflow, ordered, tolerant, arrived, buffer,
                   emitted, watcher, expired, lost, faults>>

\* The item the map gives the body next, if it is there. Unordered, that is the
\* event just read; ordered, the one the body has not had yet.
Given(i) == i \in buffer /\ (ordered => i = Len(emitted) + 1)

\* The stream delivers the events of the items in any order; the map reads the next
\* one when it has given the body all it could.
Arrive(i) ==
    /\ body = "mapping"
    /\ i \in Items \ (arrived \cup lost)
    /\ ~\E j \in Items : Given(j)
    /\ arrived' = arrived \cup {i}
    /\ buffer' = buffer \cup {i}
    /\ UNCHANGED <<platform, ordered, tolerant, body, emitted, watcher, expired, lost,
                   faults>>

\* Function.map yields: the body prints, unless the item failed and the map raises.
Yield(i) ==
    /\ body = "mapping"
    /\ Given(i)
    /\ buffer' = buffer \ {i}
    /\ IF i \in Bad /\ ~tolerant
         THEN body' = "raised" /\ emitted' = emitted
         ELSE emitted' = Append(emitted, i) /\ body' = body
    /\ UNCHANGED <<platform, ordered, tolerant, arrived, watcher, expired, lost,
                   faults>>

\* The stream has ended, as far as it went, and so the map has: what is left in the
\* buffer is left there.
StreamEnds ==
    /\ body = "mapping"
    /\ arrived \cup lost = Items
    /\ ~\E i \in Items : Given(i)
    /\ body' = "returned"
    /\ UNCHANGED <<platform, ordered, tolerant, arrived, buffer, emitted, watcher,
                   expired, lost, faults>>

StreamBreaks ==
    /\ body = "mapping"
    /\ Fault
    /\ body' = "raised"
    /\ UNCHANGED <<platform, ordered, tolerant, arrived, buffer, emitted, watcher,
                   expired, lost>>

\* The platform never sends the event of an item.
ItemLost(i) ==
    /\ body = "mapping"
    /\ i \in Items \ (arrived \cup lost)
    /\ Fault
    /\ lost' = lost \cup {i}
    /\ UNCHANGED <<platform, worker, watcher, expired>>

\* The worker is gone, and tells nobody.
WorkerDies ==
    /\ body = "mapping"
    /\ Fault
    /\ body' = "gone"
    /\ UNCHANGED <<platform, ordered, tolerant, arrived, buffer, emitted, watcher,
                   expired, lost>>

--------------------------------------------------------------------------------
(* The platform, another user, and the clock.                                    *)

StepEnds ==
    /\ body \in {"returned", "raised"} /\ step = "running" /\ status \notin Terminal
    /\ step' = IF body = "returned" THEN "succeeded" ELSE "failed"
    /\ UNCHANGED <<status, events, ingested, store, workflow, worker, watcher,
                   expired, lost, faults>>

RunEnds ==
    /\ step \in {"succeeded", "failed"} /\ status \notin Terminal
    /\ status' = step /\ events' = events + 1
    /\ UNCHANGED <<step, ingested, store, workflow, worker, watcher, expired, lost,
                   faults>>

\* The platform gives up on a worker that is gone - some day, or never.
Settle ==
    /\ body = "gone" /\ status \notin Terminal
    /\ status' = "failed" /\ step' = "failed" /\ events' = events + 1
    /\ UNCHANGED <<ingested, store, workflow, worker, watcher, expired, lost, faults>>

Cancel ==
    /\ status \notin Terminal
    /\ Fault
    /\ status' = "cancelled" /\ events' = events + 1
    /\ step' = IF step \in {"pending", "running"} THEN "cancelled" ELSE step
    /\ body' = IF body = "idle" THEN "idle" ELSE "gone"
    /\ UNCHANGED <<ingested, store, workflow, ordered, tolerant, arrived, buffer,
                   emitted, watcher, expired, lost>>

\* The log store takes in what the body printed, also after the run has ended.
Ingest ==
    /\ store /\ ingested < Len(emitted)
    /\ ingested' = ingested + 1
    /\ UNCHANGED <<status, events, step, store, workflow, worker, watcher, expired,
                   lost, faults>>

DeadlinePasses ==
    /\ pc # "start" /\ ~expired
    /\ expired' = TRUE
    /\ UNCHANGED <<platform, worker, watcher, lost, faults>>

--------------------------------------------------------------------------------
(* The watcher.                                                                  *)

Goto(l) == pc' = l

Done(how) == pc' = "done" /\ verdict' = how

\* The submission's answer, or the first read of the run, is the data in hand - but
\* for a handle that was made with none.
Start ==
    /\ pc = "start"
    /\ data' \in {status} \cup (IF kind = "result" THEN {None} ELSE {})
    /\ Goto(CASE kind = "result" -> "look" [] kind = "snapshot" -> "snap" [] OTHER -> "events")
    /\ UNCHANGED <<platform, worker, kind, fresh, follows, seen, shown, listed, since,
                   verdict, had, expired, lost, faults>>

\* A run that was over when it was first seen has no progress to stream.
AlreadyTerminal == fresh /\ data \in Terminal

\* A fetch that fails once is not made again.
FetchFails(what, next) ==
    /\ Fault
    /\ follows' = follows \ {what}
    /\ Goto(next)
    /\ UNCHANGED <<platform, worker, kind, data, fresh, seen, shown, listed, since,
                   verdict, had, expired, lost>>

Pass(next) ==
    /\ Goto(next)
    /\ UNCHANGED <<platform, worker, kind, data, fresh, follows, seen, shown, listed,
                   since, verdict, had, expired, lost, faults>>

\* The events not yet seen; the platform's list grows at its end.
NewEvents == [k \in 1..(events - seen.events) |-> seen.events + k]

EventsNow == shown.events \o NewEvents

FetchEvents ==
    /\ shown' = [shown EXCEPT !.events = EventsNow]
    /\ seen' = [seen EXCEPT !.events = events]
    /\ had' = [had EXCEPT !.events = events]
    /\ Goto("steps")
    /\ UNCHANGED <<platform, worker, kind, data, fresh, follows, listed, since,
                   verdict, expired, lost, faults>>

PollEvents ==
    /\ pc = "events"
    /\ IF AlreadyTerminal \/ "events" \notin follows THEN Pass("steps")
       ELSE FetchEvents \/ FetchFails("events", "steps")

\* A step is printed when its status is not the one last seen.
StepNews == IF seen.step = step THEN <<>> ELSE <<step>>

StepNow == shown.step \o StepNews

FetchSteps ==
    /\ shown' = [shown EXCEPT !.step = StepNow]
    /\ seen' = [seen EXCEPT !.step = step]
    /\ Goto("logs")
    /\ UNCHANGED <<platform, worker, kind, data, fresh, follows, listed, since,
                   verdict, had, expired, lost, faults>>

PollSteps ==
    /\ pc = "steps"
    /\ IF AlreadyTerminal \/ "steps" \notin follows THEN Pass("logs")
       ELSE FetchSteps \/ FetchFails("steps", "logs")

\* What the store has after the last line read.
LinesNow == shown.lines \o SubSeq(emitted, since + 1, ingested)

\* A mutant: the place in the log is not moved on.
FetchLogsAgain(next) ==
    /\ shown' = [shown EXCEPT !.lines = LinesNow]
    /\ since' = since
    /\ follows' = IF store THEN follows ELSE follows \ {"logs"}
    /\ Goto(next)
    /\ UNCHANGED <<platform, worker, kind, data, fresh, seen, listed, verdict, had,
                   expired, lost, faults>>

\* _RunLogFollower.poll; a run without a log store is not asked again.
FetchLogs(next) ==
    /\ shown' = [shown EXCEPT !.lines = LinesNow]
    /\ since' = ingested
    /\ follows' = IF store THEN follows ELSE follows \ {"logs"}
    /\ Goto(next)
    /\ UNCHANGED <<platform, worker, kind, data, fresh, seen, listed, verdict, had,
                   expired, lost, faults>>

PollLogs ==
    /\ pc = "logs"
    /\ IF AlreadyTerminal \/ "logs" \notin follows THEN Pass("look")
       ELSE FetchLogs("look") \/ FetchFails("logs", "look")

\* The status: the one in hand the first time, read again from then on. Run.result
\* takes the one in hand only if it is the last.
InHand == fresh /\ data # None /\ (kind = "result" => data \in Terminal)

\* A mutant: an ended run is left without a last look at its lines.
LookAndLeave ==
    /\ pc = "look"
    /\ data' = IF InHand THEN data ELSE status
    /\ fresh' = FALSE
    /\ had' = [had EXCEPT !.lines = ingested]
    /\ IF data' \in Terminal THEN Done(data') ELSE Goto("check") /\ verdict' = verdict
    /\ UNCHANGED <<platform, worker, kind, follows, seen, shown, listed, since,
                   expired, lost, faults>>

Look ==
    /\ pc = "look"
    /\ data' = IF InHand THEN data ELSE status
    /\ fresh' = FALSE
    /\ had' = [had EXCEPT !.lines = ingested]
    /\ IF data' \notin Terminal THEN Goto("check") /\ verdict' = verdict
       ELSE IF kind = "result" THEN Done(data')
       ELSE Goto("last") /\ verdict' = verdict
    /\ UNCHANGED <<platform, worker, kind, follows, seen, shown, listed, since,
                   expired, lost, faults>>

\* The read of the run is the one whose failure ends the command, as do the reads
\* `run logs` begins with.
LookFails ==
    /\ \/ pc = "look" /\ ~InHand
       \/ pc = "start" /\ kind \in {"follow", "snapshot"}
       \/ pc \in {"snap", "again"}
    /\ Fault
    /\ Done("error")
    /\ UNCHANGED <<platform, worker, kind, data, fresh, follows, seen, shown, listed,
                   since, had, expired, lost>>

\* The final fetch of the lines, and the verdict.
Last ==
    /\ pc = "last"
    /\ IF "logs" \notin follows THEN Pass("verdict")
       ELSE FetchLogs("verdict") \/ FetchFails("logs", "verdict")

Report ==
    /\ pc = "verdict"
    /\ Done(data)
    /\ UNCHANGED <<platform, worker, kind, data, fresh, follows, seen, shown, listed,
                   since, had, expired, lost, faults>>

\* A mutant: the deadline is for a run that runs.
CheckRunning ==
    /\ pc = "check"
    /\ IF expired /\ data = "running" THEN Done("timeout")
       ELSE Goto(IF kind = "result" THEN "look" ELSE "events") /\ verdict' = verdict
    /\ UNCHANGED <<platform, worker, kind, data, fresh, follows, seen, shown, listed,
                   since, had, expired, lost, faults>>

\* The deadline is looked at after the status; then a pause, and around again. Past
\* it, `run logs` shows what there is once more and leaves with an error.
Check ==
    /\ pc = "check"
    /\ IF expired
         THEN IF kind = "follow" THEN Goto("again") /\ verdict' = verdict ELSE Done("timeout")
         ELSE Goto(IF kind = "result" THEN "look" ELSE "events") /\ verdict' = verdict
    /\ UNCHANGED <<platform, worker, kind, data, fresh, follows, seen, shown, listed,
                   since, had, expired, lost, faults>>

\* _render_run_snapshot prints all events and all steps, whatever was printed before.
AllEvents == [e \in 1..events |-> e]
AllSteps  == IF workflow THEN <<step>> ELSE <<>>

List ==
    /\ shown' = [shown EXCEPT !.events = @ \o AllEvents, !.step = @ \o AllSteps]
    /\ listed' = TRUE

Again ==
    /\ pc = "again"
    /\ List
    /\ data' = status
    /\ had' = [had EXCEPT !.events = events]
    /\ Done("timeout")
    /\ UNCHANGED <<platform, worker, kind, fresh, follows, seen, since, expired, lost,
                   faults>>

\* `run logs --no-follow`: the same, and the lines there are.
Snap ==
    /\ pc = "snap"
    /\ List
    /\ had' = [events |-> events, lines |-> ingested]
    /\ Goto("last")
    /\ UNCHANGED <<platform, worker, kind, data, fresh, follows, seen, since, verdict,
                   expired, lost, faults>>

Watch ==
    \/ Start \/ PollEvents \/ PollSteps \/ PollLogs \/ Look \/ LookFails \/ Last \/ Report
    \/ Check \/ Again \/ Snap

Worker ==
    \/ Begin \/ StreamEnds \/ StreamBreaks \/ WorkerDies
    \/ \E i \in Items : Arrive(i) \/ Yield(i) \/ ItemLost(i)

Platform == StepEnds \/ RunEnds \/ Settle \/ Cancel \/ Ingest

Next == Worker \/ Platform \/ DeadlinePasses \/ Watch

\* The watcher's reads answer or time out, and the clock goes on. Nothing is assumed
\* of the worker, the platform or the log store.
Spec == Init /\ [][Next]_vars /\ WF_vars(Watch) /\ WF_vars(DeadlinePasses)

--------------------------------------------------------------------------------
Seen  == [events : Nat, step : Steps \cup {None}]
Shown == [events : Seq(Nat), step : Seq(Steps), lines : Seq(Items)]
Had   == [events : Nat, lines : Nat]

TypeOK ==
    /\ status \in Statuses /\ events \in Nat
    /\ step \in {"pending", "running"} \cup Terminal
    /\ ingested \in 0..Len(emitted) /\ since \in 0..ingested /\ ordered \in BOOLEAN /\ fresh \in BOOLEAN
    /\ kind \in Kinds /\ faults \in Nat
    /\ buffer \subseteq arrived /\ arrived \cup lost \subseteq Items
    /\ emitted \in Seq(Items)
    /\ body \in {"idle", "mapping", "returned", "raised", "gone"}
    /\ pc \in {"start", "events", "steps", "logs", "look", "last", "verdict", "check",
               "again", "snap", "done"}
    /\ data \in Statuses \cup {None}
    /\ verdict \in Statuses \cup {None, "timeout", "error"}
    /\ seen \in Seen /\ shown \in Shown /\ listed \in BOOLEAN
    /\ workflow \in BOOLEAN
    /\ had \in Had

UpTo(n) == [e \in 1..n |-> e]

\* How much of shown.step is news: the whole record adds one more entry to it.
StepChanges == Len(shown.step) - (IF listed THEN Len(AllSteps) ELSE 0)

\* What the watcher prints is what happened, in order: the body's lines as the body
\* printed them, none twice and none left out; the events as recorded, each once as
\* it is seen, a step when it changes. Only _render_run_snapshot prints all there is
\* again, once and at the end: for `run logs --no-follow`, which has printed nothing
\* before, and for `run logs` past its timeout, which has (cli.py:7473). And the body
\* got the results of an ordered map in the order of the items, of an unordered one
\* each once.
ShownOnceInOrder ==
    /\ shown.lines = SubSeq(emitted, 1, since)
    /\ shown.events = UpTo(seen.events) \o (IF listed THEN UpTo(had.events) ELSE <<>>)
    /\ seen.events <= had.events /\ had.events <= events
    /\ \A k \in 2..StepChanges : shown.step[k] # shown.step[k - 1]
    /\ listed => \/ kind = "snapshot" /\ seen = NothingSeen
                 \/ kind = "follow" /\ verdict = "timeout"
    /\ ordered => \A k \in 1..Len(emitted) : emitted[k] = k
    /\ \A j, k \in 1..Len(emitted) : emitted[j] = emitted[k] => j = k

\* A verdict is the run's, and when it is given nothing is missing: every line the log
\* store had when the run was found ended is printed, unless a fetch of lines failed;
\* and a run that succeeded has given its body every result the platform has sent.
NothingLost ==
    pc = "done" /\ verdict \in Terminal =>
        /\ verdict = status
        /\ kind # "result" /\ "logs" \in follows => Len(shown.lines) >= had.lines
        /\ verdict = "succeeded" /\ lost = {} => Len(emitted) = N

\* Whoever watches stops watching: a verdict, an error, or the deadline - also when the
\* worker is gone and the platform never says so.
WatchEnds == <>(pc = "done")
================================================================================
