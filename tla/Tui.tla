---------------------------------- MODULE Tui ----------------------------------
(* The loads of the terminal UI (tui.py): what its screen shows of the         *)
(* platform, while a timer re-reads it, the reader moves about, deletes        *)
(* projects and changes to another workspace or profile.                       *)
(*                                                                             *)
(* A load is a worker of the event loop that waits for a read in a thread.     *)
(* Workers of one group are exclusive: starting one cancels the one before it, *)
(* wherever it stands. Its thread is not cancelled: it reads on, and the       *)
(* client it reads through still remembers the answer's ETag (LateTag).        *)
(*                                                                             *)
(* Actors: the reader at the keys, the timer (RefreshTick), the platform, the  *)
(* threads of the reads (Answer), and the event loop when an answer is there   *)
(* (Land...). A place is what one client reads: a profile, a workspace and an  *)
(* environment; the platform's state is modelled for the place on screen, as a *)
(* set of projects and a revision, which is what an ETag stands for.           *)
EXTENDS Naturals, FiniteSets

CONSTANTS
    Profiles, Workspaces, Projects, Targets,
    None,         \* no value, distinct from all others
    FailureLimit, \* AUTO_REFRESH_FAILURE_LIMIT
    MaxMoves,     \* bound: what the reader does
    MaxChanges,   \* bound: changes of the platform by others
    MaxFaults,    \* bound: reads and deletions that fail
    MaxEvents     \* bound: all of these together

ASSUME TuiAssumption ==
    /\ Profiles # {} /\ Workspaces # {}
    /\ FailureLimit \in Nat \ {0}
    /\ {MaxMoves, MaxChanges, MaxFaults, MaxEvents} \subseteq Nat

Overview == "overview"
Paths == {Overview} \cup Projects

\* The route of the overview is the route of no project.
ASSUME PathsAssumption == Overview \notin Projects

VARIABLES
    rev, rows,    \* the platform: its revision and its projects
    composite,    \* whether the platform has the routes that answer for a whole view
    profile, workspace, client,  \* whose client this is, and which one of the session
    tags,         \* Client._etags of this client: by path, the revision of its last answer
    view,         \* current_view
    before,       \* view_before_switcher
    overview,     \* workspace_overview: None or what was read, and through which client
    targets,      \* project_targets: None or what was read of which project
    selected,     \* selected_project
    box,          \* the target whose runs box is open (_reveal_level, _runs_reload)
    runs,         \* whose runs are in the runs table; None: it is empty
    dialog,       \* the projects the confirmation dialog is about, None without one
    failures,     \* _refresh_failures
    load,         \* the worker of the group "tui"
    abandoned,    \* paths that cancelled workers' threads are still reading
    deletion,     \* the worker of the group "tui-delete"
    orphans,      \* deletions of cancelled workers that are still under way
    switcher,     \* the switcher: memberships, cursor, environments and their cache
    asking,       \* the workers of "switcher" and "switcher-environments"
    excused,      \* ghost: paths the screen was left behind on without the code knowing
    crossed,      \* ghost: what the switcher was reading when the profile changed
    budget        \* what is left of each bound

platform == <<rev, rows, composite>>
session  == <<profile, workspace, client, tags>>
screen   == <<view, before, overview, targets, selected, box, runs, dialog, failures>>
work     == <<load, abandoned, deletion, orphans>>
picker   == <<switcher, asking, crossed>>
vars     == <<platform, session, screen, work, picker, excused, budget>>

Spend(what) ==
    /\ budget[what] > 0 /\ budget["events"] > 0
    /\ budget' = [budget EXCEPT ![what] = @ - 1, !["events"] = @ - 1]

Idle == [kind |-> "none", state |-> "idle"]

\* A load that starts: what it reads and through which client, whether the timer asked
\* for it (quiet), whether the platform may answer "unchanged", and whether it repairs
\* a failed deletion.
LoadThrough(c, kind, of, quiet, preserve, conditional, repairs) ==
    [client |-> c, kind |-> kind, of |-> of, quiet |-> quiet, preserve |-> preserve,
     conditional |-> conditional, repairs |-> repairs,
     stage |-> IF kind = "runs" THEN "runs" ELSE "composite",
     state |-> "out", rev |-> 0, rows |-> {}, unchanged |-> FALSE]

LoadOf(kind, of, quiet, preserve, conditional, repairs) ==
    LoadThrough(client, kind, of, quiet, preserve, conditional, repairs)

PathOf(l) == IF l.kind = "overview" THEN Overview ELSE l.of

FrameRev(path) ==
    IF path = Overview THEN IF overview = None THEN 0 ELSE overview.rev
    ELSE IF targets = None THEN 0 ELSE IF targets.project = path THEN targets.rev ELSE 0

\* Reads of a whole view: only these have tags.
Tagged(l) == l.kind \in {"overview", "project"} /\ l.stage = "composite" /\ composite

\* The read of a worker that is cancelled goes on.
AbandonedRead(l) == IF Tagged(l) /\ l.state = "out" THEN {PathOf(l)} ELSE {}

Behind(path, tag) == FrameRev(path) > 0 /\ FrameRev(path) < tag

\* What a worker that is cancelled, or fails, leaves undone: an answer that has left its
\* tag and will not be painted, and rows that will not be put back.
Unpainted(l) ==
    IF l.state = "answered" /\ Tagged(l) /\ ~l.unchanged /\ Behind(PathOf(l), l.rev)
      THEN {PathOf(l)} ELSE {}

Unrepaired(l) == IF l.kind = "overview" /\ l.repairs THEN {Overview} ELSE {}

\* run_worker(..., group="tui", exclusive=True)
StartLoad(l) ==
    /\ load' = l
    /\ abandoned' = abandoned \cup AbandonedRead(load)
    /\ excused' = excused \cup Unpainted(load) \cup Unrepaired(load)

Init ==
    /\ rev = 1 /\ rows = Projects /\ composite \in BOOLEAN
    /\ profile = (CHOOSE p \in Profiles : TRUE) /\ client = 0
    /\ workspace = (CHOOSE w \in Workspaces : TRUE)
    /\ tags = [p \in Paths |-> 0]
    /\ view = "workspace" /\ before = "workspace"
    /\ overview = None /\ targets = None /\ selected = None /\ box = None
    /\ runs = None /\ dialog = None /\ failures = 0
    /\ load = LoadThrough(0, "overview", None, FALSE, TRUE, FALSE, FALSE)
    /\ abandoned = {} /\ deletion = Idle /\ orphans = {}
    /\ switcher = [listed |-> None, cursor |-> None, timer |-> None, shown |-> None,
                   cache |-> [w \in Workspaces |-> None]]
    /\ asking = [list |-> None, environments |-> None]
    /\ excused = {} /\ crossed = [list |-> FALSE, environments |-> {}]
    /\ budget = [moves |-> MaxMoves, changes |-> MaxChanges, faults |-> MaxFaults,
                 events |-> MaxEvents]

--------------------------------------------------------------------------------
(* The platform and the threads.                                               *)

\* Somebody else deploys, deletes or runs something.
Change ==
    /\ Spend("changes")
    /\ rev' = rev + 1
    /\ rows' \in {rows} \cup {rows \ {p} : p \in rows}
    /\ UNCHANGED <<composite, session, screen, work, picker, excused>>

\* A mutant: the tag is sent whether or not the answer may be "unchanged".
UnchangedForAnyone(l) == l.stage = "composite" /\ composite /\ tags[PathOf(l)] = rev

\* _composite_read: a 304 for a conditional read whose tag still stands.
Unchanged(l) ==
    /\ l.stage = "composite" /\ composite /\ l.conditional
    /\ tags[PathOf(l)] = rev

\* The thread of the load reads, and the client remembers the tag of a full answer; the
\* answer waits for the event loop.
Answer ==
    /\ load.kind # "none" /\ load.state = "out"
    /\ load' = [load EXCEPT !.state = "answered", !.rev = rev, !.rows = rows,
                            !.unchanged = Unchanged(load)]
    /\ tags' = IF Tagged(load) /\ ~Unchanged(load) THEN [tags EXCEPT ![PathOf(load)] = rev]
               ELSE tags
    /\ UNCHANGED <<platform, profile, workspace, client, screen, abandoned, deletion, orphans,
                   picker, excused, budget>>

ReadFails ==
    /\ load.kind # "none" /\ load.state = "out"
    /\ Spend("faults")
    /\ load' = [load EXCEPT !.state = "failed"]
    /\ UNCHANGED <<platform, session, screen, abandoned, deletion, orphans, picker, excused>>

\* A read nobody waits for any more is answered, now or a while ago: the client
\* remembers its tag, whatever is on the screen. Or it fails.
LateTag(path, tag) ==
    /\ path \in abandoned
    /\ abandoned' = abandoned \ {path}
    /\ tags' = [tags EXCEPT ![path] = tag]
    /\ excused' = IF Behind(path, tag) THEN excused \cup {path} ELSE excused
    /\ UNCHANGED <<platform, profile, workspace, client, screen, load, deletion, orphans,
                   picker, budget>>

LateNothing(path) ==
    /\ path \in abandoned
    /\ abandoned' = abandoned \ {path}
    /\ UNCHANGED <<platform, session, screen, load, deletion, orphans, picker, excused, budget>>

--------------------------------------------------------------------------------
(* The event loop, when the read of the load has an answer.                    *)

\* _clear_target_detail
ClearDetail == box' = None /\ runs' = None

\* _set_error: a failed tick is counted, and only the last of a row is shown, as any
\* other failure is: in the project view, whatever the reader is looking at.
SetError(quiet) ==
    IF quiet /\ failures + 1 < FailureLimit
      THEN failures' = failures + 1 /\ view' = view
      ELSE failures' = 0 /\ view' = "project"

\* What the worker does when a load of it is over: the tick goes on to the runs box.
Ended ==
    load' = IF load.kind = "project" /\ load.quiet /\ box # None
              THEN LoadOf("runs", box, TRUE, TRUE, FALSE, FALSE)
              ELSE Idle

LandFailure ==
    /\ load.kind # "none" /\ load.state = "failed"
    /\ SetError(load.quiet)
    /\ Ended
    /\ excused' = excused \cup Unrepaired(load)
    /\ UNCHANGED <<platform, session, before, overview, targets, selected, box, runs, dialog,
                   abandoned, deletion, orphans, picker, budget>>

LandUnchanged ==
    /\ load.state = "answered" /\ load.unchanged
    /\ failures' = 0
    /\ Ended
    /\ UNCHANGED <<platform, session, view, before, overview, targets, selected, box, runs,
                   dialog, abandoned, deletion, orphans, picker, excused, budget>>

\* What is painted is what was answered, though a later tag may have come in since.
Painted(path) ==
    excused' = IF composite /\ load.rev < tags[path] THEN excused \cup {path}
               ELSE excused \ {path}

\* _load_workspace_overview: the new frame, and the workspace view on screen. A frame
\* is of the client it was read through, whichever is the live one by now.
LandOverview ==
    /\ load.kind = "overview" /\ load.state = "answered" /\ ~load.unchanged
    /\ overview' = [client |-> load.client, rev |-> load.rev, rows |-> load.rows]
    /\ failures' = 0
    /\ targets' = None /\ selected' = None /\ ClearDetail
    /\ view' = "workspace"
    /\ load' = Idle
    /\ Painted(Overview)
    /\ UNCHANGED <<platform, session, before, dialog, abandoned, deletion,
                   orphans, picker, budget>>

Frame == [client |-> load.client, project |-> load.of, rev |-> load.rev]

\* _load_project_targets, the platform answering for the whole project: one frame.
LandProject ==
    /\ load.kind = "project" /\ load.stage = "composite"
    /\ load.state = "answered" /\ ~load.unchanged /\ composite
    /\ targets' = Frame
    /\ failures' = 0
    /\ IF load.preserve THEN UNCHANGED <<box, runs>> ELSE ClearDetail
    /\ Ended
    /\ Painted(load.of)
    /\ UNCHANGED <<platform, session, view, before, overview, selected,
                   dialog, abandoned, deletion, orphans, picker, budget>>

\* No such route: the base is read, painted unless a frame is to be kept, and then
\* the detail, without which the frame stays what it was. Each is read through the
\* client that is live when it is asked for.
NextStage(stage) == [load EXCEPT !.stage = stage, !.state = "out", !.client = client]

LandStage ==
    /\ load.kind = "project" /\ load.state = "answered" /\ ~composite
    /\ \/ /\ load.stage = "composite"
          /\ load' = NextStage("base")
          /\ UNCHANGED <<failures, targets, box, runs>>
       \/ /\ load.stage = "base"
          /\ failures' = 0
          /\ IF load.preserve THEN UNCHANGED <<targets, box, runs>>
             ELSE targets' = Frame /\ ClearDetail
          /\ load' = NextStage("detail")
       \/ /\ load.stage = "detail"
          /\ targets' = Frame
          /\ Ended
          /\ UNCHANGED <<failures, box, runs>>
    /\ UNCHANGED <<platform, session, view, before, overview, selected, dialog,
                   abandoned, deletion, orphans, picker, excused, budget>>

\* _load_runs: painted as the runs of the box, whatever target it is open for.
LandRuns ==
    /\ load.kind = "runs" /\ load.state = "answered"
    /\ runs' = load.of
    /\ load' = Idle
    /\ UNCHANGED <<platform, session, view, before, overview, targets, selected, box, dialog,
                   failures, abandoned, deletion, orphans, picker, excused, budget>>

Land == LandFailure \/ LandUnchanged \/ LandOverview \/ LandProject \/ LandStage \/ LandRuns

--------------------------------------------------------------------------------
(* The timer.                                                                  *)

\* _refresh_tick_paused: a dialog is open or a deletion under way; a reader who has
\* just pressed a key is the timer's coming later.
Paused == dialog # None \/ deletion.kind # "none"

\* What is on screen is read again, and may be answered "unchanged" where there is a
\* frame to keep.
TickLoad ==
    IF view = "workspace"
      THEN LoadOf("overview", None, TRUE, TRUE, overview # None, FALSE)
      ELSE LoadOf("project", selected, TRUE, TRUE,
                  IF targets = None THEN FALSE ELSE targets.project = selected, FALSE)

\* _refresh_tick: a tick that comes while a load is still out cancels it, however often
\* that happens.
RefreshTick ==
    /\ ~Paused
    /\ view = "workspace" \/ (view = "project" /\ selected # None)
    /\ StartLoad(TickLoad)
    /\ UNCHANGED <<platform, session, screen, deletion, orphans, picker, budget>>

--------------------------------------------------------------------------------
(* The reader. A key goes to the dialog while one is open.                     *)

Move == dialog = None /\ Spend("moves")

\* The load action_refresh starts outside the switcher.
RefreshLoad(repairs) ==
    IF view = "project" /\ selected # None
      THEN LoadOf("project", selected, FALSE, TRUE, FALSE, FALSE)
      ELSE LoadOf("overview", None, FALSE, TRUE, FALSE, repairs)

ForgetEnvironments == [switcher EXCEPT !.cache = [w \in Workspaces |-> None], !.cursor = None]

\* action_refresh, by the reader or after a deletion that failed.
Refresh(repairs) ==
    IF view = "switcher"
      THEN /\ switcher' = ForgetEnvironments
           /\ asking' = [asking EXCEPT !.list = profile]
           /\ excused' = IF repairs THEN excused \cup {Overview} ELSE excused
           /\ UNCHANGED <<load, abandoned, crossed>>
    ELSE IF view = "profiles"
      THEN /\ excused' = IF repairs THEN excused \cup {Overview} ELSE excused
           /\ UNCHANGED <<load, abandoned, picker>>
    ELSE /\ load' = RefreshLoad(repairs)
         /\ abandoned' = abandoned \cup AbandonedRead(load)
         /\ excused' = excused \cup Unpainted(load) \cup Unrepaired(load)
              \cup (IF repairs /\ RefreshLoad(TRUE).kind # "overview" THEN {Overview} ELSE {})
         /\ UNCHANGED picker

PressRefresh ==
    /\ Move
    /\ Refresh(FALSE)
    /\ UNCHANGED <<platform, session, screen, deletion, orphans>>

\* _select_project: loading rows until the answer is there.
SelectProject(p) ==
    /\ Move
    /\ view = "workspace" /\ overview # None
    /\ p \in overview.rows
    /\ selected' = p /\ targets' = None /\ ClearDetail
    /\ view' = "project"
    /\ StartLoad(LoadOf("project", p, FALSE, FALSE, FALSE, FALSE))
    /\ UNCHANGED <<platform, session, before, overview, dialog, failures,
                   deletion, orphans, picker>>

\* on_data_table_row_selected, a function or workflow: its runs box opens at once.
SelectTarget(t) ==
    /\ Move
    /\ view = "project" /\ targets # None
    /\ box' = t
    /\ StartLoad(LoadOf("runs", t, FALSE, FALSE, FALSE, FALSE))
    /\ UNCHANGED <<platform, session, view, before, overview, targets, selected, runs, dialog,
                   failures, deletion, orphans, picker>>

\* action_back: the boxes first, then the project; loads that are out stay out.
Back ==
    /\ Move
    /\ \/ /\ view \in {"switcher", "profiles"}
          /\ view' = before
          /\ UNCHANGED <<targets, selected, box, runs>>
       \/ /\ view = "project" /\ box # None
          /\ box' = None
          /\ UNCHANGED <<view, targets, selected, runs>>
       \/ /\ view = "project" /\ box = None
          /\ selected' = None /\ targets' = None /\ ClearDetail
          /\ view' = "workspace"
    /\ UNCHANGED <<platform, session, before, overview, dialog, failures, work, picker, excused>>

--------------------------------------------------------------------------------
(* Deleting projects.                                                          *)

\* action_delete_selection on the projects table: the marked rows, or the one under
\* the cursor.
AskDelete(items) ==
    /\ Move
    /\ view = "workspace" /\ overview # None
    /\ items # {} /\ items \subseteq overview.rows
    /\ dialog' = items
    /\ UNCHANGED <<platform, session, view, before, overview, targets, selected, box, runs,
                   failures, work, picker, excused>>

Dismiss ==
    /\ dialog # None
    /\ dialog' = None
    /\ UNCHANGED <<platform, session, view, before, overview, targets, selected, box, runs,
                   failures, work, picker, excused, budget>>

DeletionOf(items) ==
    [kind |-> "delete", items |-> items, client |-> client, state |-> "out", failed |-> {}]

\* _on_delete_confirmed: the rows go before the platform is asked, and the worker of an
\* earlier deletion is cancelled - what failed of it will not be reported or put back.
Confirm ==
    /\ dialog # None
    /\ dialog' = None
    /\ overview' = IF overview = None THEN None
                   ELSE [overview EXCEPT !.rows = @ \ dialog]
    /\ ClearDetail
    /\ deletion' = DeletionOf(dialog)
    /\ orphans' = IF deletion.kind = "delete" /\ deletion.state = "out"
                    THEN orphans \cup {deletion} ELSE orphans
    /\ excused' = IF deletion.kind = "delete" /\ deletion.state = "done" /\ deletion.failed # {}
                    THEN excused \cup {Overview} ELSE excused
    /\ UNCHANGED <<platform, session, view, before, targets, selected, failures,
                   load, abandoned, picker, budget>>

\* The platform deletes what it can of a batch, of the place the batch came from.
Deleted(d, failed) ==
    /\ failed \subseteq d.items
    /\ IF failed = {} THEN UNCHANGED budget ELSE Spend("faults")
    /\ IF d.client = client /\ (d.items \ failed) \cap rows # {}
         THEN rows' = rows \ (d.items \ failed) /\ rev' = rev + 1
         ELSE UNCHANGED <<rows, rev>>
    /\ UNCHANGED <<composite, session, screen, load, abandoned, picker>>

DeleteAnswered ==
    /\ deletion.kind = "delete" /\ deletion.state = "out"
    /\ \E failed \in SUBSET deletion.items :
          /\ Deleted(deletion, failed)
          /\ deletion' = [deletion EXCEPT !.state = "done", !.failed = failed]
    /\ UNCHANGED <<orphans, excused>>

OrphanAnswered ==
    /\ \E d \in orphans, failed \in SUBSET Projects :
          /\ Deleted(d, failed)
          /\ orphans' = orphans \ {d}
          /\ excused' = IF failed = {} \/ d.client # client THEN excused
                        ELSE excused \cup {Overview}
    /\ UNCHANGED deletion

\* A mutant: a failed deletion is reported, and that is all.
DeleteEndsAlways ==
    /\ deletion.kind = "delete" /\ deletion.state = "done"
    /\ deletion' = Idle
    /\ UNCHANGED <<load, abandoned, picker, excused, platform, session, screen, orphans, budget>>

\* _delete_items: only what failed makes the screen be read again.
DeleteEnds ==
    /\ deletion.kind = "delete" /\ deletion.state = "done"
    /\ deletion' = Idle
    /\ IF deletion.failed # {} THEN Refresh(deletion.client = client)
       ELSE UNCHANGED <<load, abandoned, picker, excused>>
    /\ UNCHANGED <<platform, session, screen, orphans, budget>>

--------------------------------------------------------------------------------
(* The switcher: another workspace, another profile.                           *)

OpenSwitcher(which) ==
    /\ Move
    /\ view # which
    /\ before' = IF view \in {"switcher", "profiles"} THEN before ELSE view
    /\ view' = which
    /\ asking' = IF which = "switcher" THEN [asking EXCEPT !.list = profile] ELSE asking
    /\ UNCHANGED <<platform, session, overview, targets, selected, box, runs, dialog, failures,
                   work, switcher, crossed, excused>>

\* _load_workspaces: the list of whoever's client it asked through.
LandList ==
    /\ asking.list # None
    /\ switcher' = [switcher EXCEPT !.listed = asking.list]
    /\ asking' = [asking EXCEPT !.list = None]
    /\ UNCHANGED <<platform, session, screen, work, crossed, excused, budget>>

ListFails ==
    /\ asking.list # None
    /\ Spend("faults")
    /\ asking' = [asking EXCEPT !.list = None]
    /\ UNCHANGED <<platform, session, screen, work, switcher, crossed, excused>>

Ask(w) == [asking EXCEPT !.environments = [profile |-> profile, workspace |-> w]]

\* _show_workspace_environments, as the cursor moves: from the cache, or asked for - at
\* once for the first, later when the cursor has settled.
CursorTo(w) ==
    /\ Move
    /\ view = "switcher"
    /\ switcher.cursor # w
    /\ LET first  == switcher.cursor = None
           cached == switcher.cache[w] # None
       IN  /\ switcher' = [switcher EXCEPT
                  !.cursor = w,
                  !.timer = IF cached \/ first THEN None ELSE w,
                  !.shown = IF cached THEN [profile |-> switcher.cache[w], workspace |-> w]
                            ELSE None]
           /\ asking' = IF first /\ ~cached THEN Ask(w) ELSE asking
    /\ UNCHANGED <<platform, session, screen, work, crossed, excused>>

\* The cursor has settled, if it has not moved on.
TimerFires ==
    /\ switcher.timer # None
    /\ switcher' = [switcher EXCEPT !.timer = None]
    /\ asking' = IF switcher.cursor = switcher.timer THEN Ask(switcher.timer) ELSE asking
    /\ UNCHANGED <<platform, session, screen, work, crossed, excused, budget>>

\* A mutant: the answer is shown wherever the cursor is.
ShownAnyway(answer) == answer

\* The answer is shown if the cursor is still there.
ShownAtCursor(answer) ==
    IF switcher.cursor = answer.workspace THEN answer ELSE switcher.shown

\* _load_workspace_environments: remembered in any case.
LandEnvironments ==
    /\ asking.environments # None
    /\ LET answer == asking.environments
       IN  switcher' = [switcher EXCEPT !.cache[answer.workspace] = answer.profile,
                                        !.shown = ShownAtCursor(answer)]
    /\ asking' = [asking EXCEPT !.environments = None]
    /\ UNCHANGED <<platform, session, screen, work, crossed, excused, budget>>

EnvironmentsFail ==
    /\ asking.environments # None
    /\ Spend("faults")
    /\ switcher' = IF switcher.cursor = asking.environments.workspace
                     THEN [switcher EXCEPT !.shown = None] ELSE switcher
    /\ asking' = [asking EXCEPT !.environments = None]
    /\ UNCHANGED <<platform, session, screen, work, crossed, excused>>

\* _clone: a client of another place has read nothing.
NoTags == [p \in Paths |-> 0]

\* A mutant: the new place is read once the load that is out has ended.
AdoptAndWait ==
    /\ client' = client + 1
    /\ tags' = NoTags
    /\ rows' \in SUBSET Projects /\ rev' = rev
    /\ overview' = None /\ targets' = None /\ selected' = None /\ ClearDetail
    /\ view' = "workspace"
    /\ load' = IF load.kind = "none"
                 THEN LoadThrough(client', "overview", None, FALSE, TRUE, FALSE, FALSE)
                 ELSE load
    /\ abandoned' = {} /\ excused' = {}
    /\ UNCHANGED <<composite, before, dialog, failures, deletion, orphans>>

\* _adopt_client and _on_environment_chosen: nothing of the old place stays, and the
\* new one is read. What is out through the old client answers to nobody.
Adopt ==
    /\ client' = client + 1
    /\ tags' = NoTags
    /\ rows' \in SUBSET Projects /\ rev' = rev
    /\ overview' = None /\ targets' = None /\ selected' = None /\ ClearDetail
    /\ view' = "workspace"
    /\ load' = LoadThrough(client', "overview", None, FALSE, TRUE, FALSE, FALSE)
    /\ abandoned' = {} /\ excused' = {}
    /\ UNCHANGED <<composite, before, dialog, failures, deletion, orphans>>

LeaveSwitcher == [switcher EXCEPT !.cursor = None, !.timer = None, !.shown = None]

\* _show_workspace_view, when the place chosen is the one that is open: nothing is
\* cleared and nothing read.
ShowWorkspaceView ==
    /\ view' = "workspace"
    /\ UNCHANGED <<platform, session, before, overview, targets, selected, box, runs, dialog,
                   failures, work, picker, excused>>

\* _use_workspace, from the switcher's list or its environments: the open workspace in
\* its open environment, or another of either.
UseWorkspace(w) ==
    /\ Move
    /\ view = "switcher"
    /\ \/ w = workspace /\ ShowWorkspaceView
       \/ /\ workspace' = w
          /\ switcher' = LeaveSwitcher
          /\ Adopt
          /\ UNCHANGED <<profile, asking, crossed>>

\* What is read for the switcher while the profile is changed under it.
Crossing ==
    [list |-> asking.list # None,
     environments |-> IF asking.environments = None THEN {}
                      ELSE {asking.environments.workspace}]

\* _select_workspace_profile: the same workspace ids may mean other workspaces now.
SelectProfile(q) ==
    /\ Move
    /\ view = "profiles"
    /\ \/ q = profile /\ ShowWorkspaceView
       \/ /\ q # profile
          /\ profile' = q
          /\ workspace' \in Workspaces
          /\ switcher' = [LeaveSwitcher EXCEPT !.listed = None,
                                               !.cache = [w \in Workspaces |-> None]]
          /\ crossed' = Crossing
          /\ Adopt
          /\ UNCHANGED asking

\* _on_environment_chosen: another environment of the same workspace.
ChooseEnvironment ==
    /\ Move
    /\ view \in {"workspace", "project"}
    /\ Adopt
    /\ UNCHANGED <<profile, workspace, switcher, asking, crossed>>

Reader ==
    \/ PressRefresh \/ Back \/ Dismiss \/ Confirm \/ ChooseEnvironment
    \/ \E p \in Projects : SelectProject(p)
    \/ \E t \in Targets : SelectTarget(t)
    \/ \E items \in SUBSET Projects : AskDelete(items)
    \/ \E which \in {"switcher", "profiles"} : OpenSwitcher(which)
    \/ \E w \in Workspaces : CursorTo(w) \/ UseWorkspace(w)
    \/ \E q \in Profiles : SelectProfile(q)

Deletion == DeleteAnswered \/ OrphanAnswered \/ DeleteEnds

Switcher == LandList \/ ListFails \/ TimerFires \/ LandEnvironments \/ EnvironmentsFail

Next ==
    \/ Change \/ Answer \/ ReadFails \/ Land \/ RefreshTick
    \/ \E path \in Paths : LateNothing(path) \/ \E tag \in 1..rev : LateTag(path, tag)
    \/ Reader \/ Deletion \/ Switcher

\* Reads are answered or time out, the loop runs what is ready, and the timer comes
\* round. Nothing says that a read is answered before the next tick cancels it.
Fairness ==
    /\ WF_vars(Answer) /\ WF_vars(Land) /\ WF_vars(RefreshTick)
    /\ WF_vars(DeleteAnswered) /\ WF_vars(DeleteEnds)

Spec == Init /\ [][Next]_vars /\ Fairness

--------------------------------------------------------------------------------
Loads ==
    [client : 0..client, kind : {"overview", "project", "runs"}, of : Projects \cup Targets \cup {None},
     quiet : BOOLEAN, preserve : BOOLEAN, conditional : BOOLEAN, repairs : BOOLEAN,
     stage : {"composite", "base", "detail", "runs"}, state : {"out", "answered", "failed"},
     rev : 0..rev, rows : SUBSET Projects, unchanged : BOOLEAN]

Deletions ==
    [kind : {"delete"}, items : SUBSET Projects, client : 0..client,
     state : {"out", "done"}, failed : SUBSET Projects]

TypeOK ==
    /\ rev \in Nat /\ rows \subseteq Projects /\ composite \in BOOLEAN
    /\ profile \in Profiles /\ workspace \in Workspaces /\ client \in Nat
    /\ tags \in [Paths -> 0..rev]
    /\ {view, before} \subseteq {"workspace", "project", "switcher", "profiles"}
    /\ overview \in [client : 0..client, rev : 0..rev, rows : SUBSET Projects] \cup {None}
    /\ targets \in [client : 0..client, project : Projects, rev : 0..rev] \cup {None}
    /\ selected \in Projects \cup {None}
    /\ {box, runs} \subseteq Targets \cup {None}
    /\ dialog \in (SUBSET Projects) \cup {None}
    /\ failures \in 0..(FailureLimit - 1)
    /\ load \in Loads \cup {Idle}
    /\ load.kind = "project" => load.of \in Projects
    /\ load.kind = "runs" => load.of \in Targets
    /\ abandoned \subseteq Paths
    /\ deletion \in Deletions \cup {Idle} /\ orphans \subseteq Deletions
    /\ switcher \in [listed : Profiles \cup {None}, cursor : Workspaces \cup {None},
                     timer : Workspaces \cup {None},
                     shown : [profile : Profiles, workspace : Workspaces] \cup {None},
                     cache : [Workspaces -> Profiles \cup {None}]]
    /\ asking \in [list : Profiles \cup {None},
                   environments : [profile : Profiles, workspace : Workspaces] \cup {None}]
    /\ excused \subseteq Paths
    /\ crossed \in [list : BOOLEAN, environments : SUBSET Workspaces]
    /\ budget \in [{"moves", "changes", "faults", "events"} -> Nat]

\* What is on screen was read from the place the title names: its frames through the
\* live client, the project's of the project that is open, the environments of the
\* workspace under the cursor. And the switcher's were read through the live profile,
\* but for those it was reading when the profile was changed.
NothingOfAnotherPlace ==
    /\ overview # None => overview.client = client
    /\ targets # None =>
         /\ targets.client = client
         /\ selected # None => targets.project = selected
    /\ switcher.cursor # None /\ switcher.shown # None =>
         switcher.shown.workspace = switcher.cursor
    /\ switcher.listed \in {None, profile} \/ crossed.list
    /\ \A w \in Workspaces \ crossed.environments :
         /\ switcher.cache[w] \in {None, profile}
         /\ switcher.shown # None /\ switcher.shown.workspace = w =>
              switcher.shown.profile = profile

\* "Unchanged" means what it says: when the platform answers so, the frame on screen
\* is the revision it answers for, and no row the reader deleted in vain is missing -
\* unless a read that was cancelled has left a tag nobody painted, or a deletion that
\* was cancelled has left the rows that failed.
UnchangedMeansOnScreen ==
    load.state = "answered" /\ load.unchanged /\ PathOf(load) \notin excused =>
        /\ FrameRev(PathOf(load)) \in {0, load.rev}
        /\ load.kind = "overview" /\ overview # None /\ load.rev = rev
             /\ deletion.kind = "none" => overview.rows = rows

\* The reader looks at what the platform has.
Current ==
    CASE view = "workspace" -> /\ overview # None
                               /\ overview.rev = rev /\ overview.rows = rows
      [] view = "project"   -> /\ targets # None
                               /\ targets.rev = rev /\ targets.project = selected
                               /\ box # None => runs = box
      [] OTHER              -> TRUE

\* The timer has nothing to read: an error shown without a project, an open dialog.
Waiting == (view = "project" /\ selected = None) \/ dialog # None

Misled == IF view = "workspace" THEN Overview \in excused ELSE selected \in excused

\* As long as the timer time and again lets a load come to its end, the screen ends up
\* showing what the platform has, however the reader, the platform, failing reads and
\* ticks that cancelled a load got in each other's way - but for what a cancelled read
\* or a cancelled deletion has left behind unknown. Nothing in _refresh_tick makes the
\* timer do so: reads slower than it are each cancelled by the next tick.
LoadsEnd == []<>(load.kind = "none")

ScreenCatchesUp == LoadsEnd => <>[](Current \/ Waiting \/ Misled)
================================================================================
