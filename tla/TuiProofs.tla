------------------------------- MODULE TuiProofs -------------------------------
(* That the terminal UI shows nothing of another place, proved for any number of *)
(* profiles, workspaces, projects and targets, however much the reader moves.    *)
(* The property is inductive once it is known what is on its way: a load reads   *)
(* through the live client, the project being read is the one on screen, and     *)
(* what the switcher asked for was asked of the live profile (PlaceInv). TypeOK is proved along with it, in       *)
(* parts.                                                                        *)
EXTENDS Tui, TLAPS

Budgets == {"moves", "changes", "faults", "events"}

PlatformOK ==
    /\ rev \in Nat /\ rows \subseteq Projects /\ composite \in BOOLEAN
    /\ budget \in [Budgets -> Nat]

SessionOK ==
    /\ profile \in Profiles /\ workspace \in Workspaces /\ client \in Nat
    /\ tags \in [Paths -> 0..rev]

Overviews == [client : 0..client, rev : 0..rev, rows : SUBSET Projects]
Details   == [client : 0..client, project : Projects, rev : 0..rev]

ScreenOK ==
    /\ {view, before} \subseteq {"workspace", "project", "switcher", "profiles"}
    /\ overview \in Overviews \cup {None} /\ targets \in Details \cup {None}
    /\ selected \in Projects \cup {None}
    /\ {box, runs} \subseteq Targets \cup {None}
    /\ dialog \in (SUBSET Projects) \cup {None}
    /\ failures \in 0..(FailureLimit - 1)

LoadOK ==
    /\ load \in Loads \cup {Idle}
    /\ load.kind = "project" => load.of \in Projects
    /\ load.kind = "runs" => load.of \in Targets
    /\ abandoned \subseteq Paths

DeletionOK == deletion \in Deletions \cup {Idle} /\ orphans \subseteq Deletions

Places == [profile : Profiles, workspace : Workspaces]

PickerOK ==
    /\ switcher \in [listed : Profiles \cup {None}, cursor : Workspaces \cup {None},
                     timer : Workspaces \cup {None}, shown : Places \cup {None},
                     cache : [Workspaces -> Profiles \cup {None}]]
    /\ asking \in [list : Profiles \cup {None}, environments : Places \cup {None}]
    /\ crossed \in [list : BOOLEAN, environments : SUBSET Workspaces]

ExcusedOK == excused \subseteq Paths

(* A load reads through the live client, and the project on screen is the one   *)
(* that is being read; and what the switcher asked for is asked of the live      *)
(* profile, unless that was changed meanwhile.                                   *)
PlaceInv ==
    /\ load.kind # "none" => load.client = client
    /\ load.kind = "project" /\ selected # None => load.of = selected
    /\ asking.list \in {None, profile} \/ crossed.list
    /\ asking.environments # None =>
         \/ asking.environments.profile = profile
         \/ asking.environments.workspace \in crossed.environments

Parts == /\ PlatformOK /\ SessionOK /\ ScreenOK /\ LoadOK
         /\ DeletionOK /\ PickerOK /\ ExcusedOK

IInv == TypeOK /\ PlaceInv /\ NothingOfAnotherPlace

USE TuiAssumption

LEMMA TypeParts == TypeOK <=> Parts
BY DEF TypeOK, Parts, PlatformOK, SessionOK, ScreenOK, LoadOK, DeletionOK, PickerOK, ExcusedOK,
       Overviews, Details, Places, Budgets

LEMMA Spent ==
    ASSUME PlatformOK, NEW what \in {"moves", "changes", "faults", "events"}, Spend(what)
    PROVE  budget' \in [Budgets -> Nat]
BY DEF PlatformOK, Spend, Budgets

LEMMA PlatformStep ==
    ASSUME Parts, [Next]_vars
    PROVE  PlatformOK'
<1> USE DEF Parts
<1>1. CASE Change BY <1>1, Spent DEF Change, PlatformOK, Move, platform
<1>2. CASE ReadFails BY <1>2, Spent DEF ReadFails, PlatformOK, Move, platform
<1>3. CASE RefreshTick BY <1>3, Spent DEF RefreshTick, PlatformOK, Move, platform
<1>4. CASE PressRefresh BY <1>4, Spent DEF PressRefresh, PlatformOK, Move, platform
<1>5. CASE Back BY <1>5, Spent DEF Back, PlatformOK, Move, platform
<1>6. CASE ChooseEnvironment BY <1>6, Spent DEF ChooseEnvironment, Adopt, PlatformOK, Move, platform
<1>7. ASSUME NEW p \in Projects, SelectProject(p) PROVE PlatformOK'
      BY <1>7, Spent DEF SelectProject, PlatformOK, Move, platform
<1>8. ASSUME NEW t \in Targets, SelectTarget(t) PROVE PlatformOK'
      BY <1>8, Spent DEF SelectTarget, PlatformOK, Move, platform
<1>9. ASSUME NEW items \in SUBSET Projects, AskDelete(items) PROVE PlatformOK'
      BY <1>9, Spent DEF AskDelete, PlatformOK, Move, platform
<1>10. ASSUME NEW which \in {"switcher", "profiles"}, OpenSwitcher(which) PROVE PlatformOK'
      BY <1>10, Spent DEF OpenSwitcher, PlatformOK, Move, platform
<1>11. ASSUME NEW w \in Workspaces, CursorTo(w) PROVE PlatformOK'
      BY <1>11, Spent DEF CursorTo, PlatformOK, Move, platform
<1>12. ASSUME NEW w \in Workspaces, UseWorkspace(w) PROVE PlatformOK'
      BY <1>12, Spent DEF UseWorkspace, ShowWorkspaceView, Adopt, PlatformOK, Move, platform
<1>13. ASSUME NEW q \in Profiles, SelectProfile(q) PROVE PlatformOK'
      BY <1>13, Spent DEF SelectProfile, ShowWorkspaceView, Adopt, PlatformOK, Move, platform
<1>14. CASE DeleteAnswered BY <1>14, Spent DEF DeleteAnswered, Deleted, PlatformOK, Move, platform
<1>15. CASE OrphanAnswered BY <1>15, Spent DEF OrphanAnswered, Deleted, PlatformOK, Move, platform
<1>16. CASE ListFails BY <1>16, Spent DEF ListFails, PlatformOK, Move, platform
<1>17. CASE EnvironmentsFail BY <1>17, Spent DEF EnvironmentsFail, PlatformOK, Move, platform
<1>18. CASE UNCHANGED <<platform, budget>>
      BY <1>18 DEF PlatformOK, platform, session, screen, work, picker
<1> QED
    BY <1>1, <1>2, <1>3, <1>4, <1>5, <1>6, <1>7, <1>8, <1>9, <1>10, <1>11, <1>12, <1>13, <1>14,
       <1>15, <1>16, <1>17, <1>18
    DEF Next, Land, Reader, Deletion, Switcher, vars, platform, session, screen, work, picker,
        Answer, LandFailure, LandUnchanged, LandOverview, LandProject, LandStage, LandRuns,
        LateTag, LateNothing, Dismiss, Confirm, DeleteEnds, LandList, TimerFires, LandEnvironments

(* Revisions and clients are numbered.                                          *)
Grows == rev <= rev' /\ client <= client' /\ rev' \in Nat /\ client' \in Nat

LEMMA AdoptGrows ==
    ASSUME PlatformOK, SessionOK, Adopt
    PROVE  Grows
BY DEF Adopt, Grows, PlatformOK, SessionOK

LEMMA StaysGrows ==
    ASSUME PlatformOK, SessionOK, UNCHANGED <<rev, client>>
    PROVE  Grows
BY DEF Grows, PlatformOK, SessionOK

LEMMA GrowsStep ==
    ASSUME Parts, [Next]_vars
    PROVE  Grows
<1> USE DEF Parts
<1>1. CASE Change BY <1>1 DEF Change, Grows, PlatformOK, SessionOK, session, platform
<1>2. CASE ChooseEnvironment
      BY <1>2 DEF ChooseEnvironment, Adopt, Grows, PlatformOK, SessionOK, session, platform
<1>3. ASSUME NEW w \in Workspaces, UseWorkspace(w) PROVE Grows
      BY <1>3, AdoptGrows, StaysGrows DEF UseWorkspace, ShowWorkspaceView, session, platform
<1>4. ASSUME NEW q \in Profiles, SelectProfile(q) PROVE Grows
      BY <1>4, AdoptGrows, StaysGrows DEF SelectProfile, ShowWorkspaceView, session, platform
<1>5. CASE DeleteAnswered
      BY <1>5 DEF DeleteAnswered, Deleted, Grows, PlatformOK, SessionOK, session, platform
<1>6. CASE OrphanAnswered
      BY <1>6 DEF OrphanAnswered, Deleted, Grows, PlatformOK, SessionOK, session, platform
<1>7. CASE UNCHANGED <<rev, client>>
      BY <1>7 DEF Grows, PlatformOK, SessionOK, platform, session, screen, work, picker
<1> QED
    BY <1>1, <1>2, <1>3, <1>4, <1>5, <1>6, <1>7
    DEF Next, Land, Reader, Deletion, Switcher, vars, platform, session, screen, work, picker,
        Answer, ReadFails, LandFailure, LandUnchanged, LandOverview, LandProject, LandStage,
        LandRuns, RefreshTick, LateTag, LateNothing, PressRefresh, Back, Dismiss, Confirm,
        SelectProject, SelectTarget, AskDelete, OpenSwitcher, CursorTo, DeleteEnds, LandList,
        ListFails, TimerFires, LandEnvironments, EnvironmentsFail

(* What a worker that has a load is doing.                                     *)
LEMMA LoadFacts ==
    ASSUME LoadOK, load.kind # "none" \/ load.state # "idle"
    PROVE  /\ load \in Loads /\ load.client \in 0..client
           /\ load.rev \in 0..rev /\ load.rows \subseteq Projects
BY DEF LoadOK, Loads, Idle

LEMMA TagsGrow ==
    ASSUME SessionOK, PlatformOK, Grows, UNCHANGED session
    PROVE  SessionOK'
<1>1. 0..rev \subseteq 0..rev' BY DEF Grows, PlatformOK
<1> QED BY <1>1 DEF SessionOK, session

LEMMA AdoptSession ==
    ASSUME SessionOK, PlatformOK, Adopt
    PROVE  client' \in Nat /\ tags' \in [Paths -> 0..rev']
BY DEF Adopt, NoTags, SessionOK, PlatformOK

LEMMA SessionStep ==
    ASSUME Parts, [Next]_vars
    PROVE  SessionOK'
<1> USE DEF Parts
<1>1. CASE Change BY <1>1, GrowsStep, TagsGrow DEF Change
<1>2. CASE Answer
      <2>1. /\ UNCHANGED <<rev, profile, workspace, client>>
            /\ tags' \in {tags, [tags EXCEPT ![PathOf(load)] = rev]}
            BY <1>2 DEF Answer, platform
      <2>2. [tags EXCEPT ![PathOf(load)] = rev] \in [Paths -> 0..rev]
            <3>1. tags \in [Paths -> 0..rev] /\ rev \in 0..rev BY DEF SessionOK, PlatformOK
            <3> QED BY <3>1
      <2> QED BY <2>1, <2>2 DEF SessionOK
<1>3. ASSUME NEW path \in Paths, NEW tag \in 1..rev, LateTag(path, tag) PROVE SessionOK'
      BY <1>3 DEF LateTag, SessionOK, PlatformOK, platform
<1>4. CASE UNCHANGED <<session, rev>> BY <1>4 DEF SessionOK, session
<1>5. CASE ChooseEnvironment BY <1>5 DEF ChooseEnvironment, Adopt, NoTags, SessionOK, PlatformOK
<1>6. ASSUME NEW w \in Workspaces, UseWorkspace(w) PROVE SessionOK'
      <2>1. CASE ShowWorkspaceView
            BY <2>1 DEF ShowWorkspaceView, SessionOK, session, platform
      <2>2. CASE Adopt
            <3>1. workspace' \in Workspaces /\ UNCHANGED profile
                  BY <1>6, <2>2 DEF UseWorkspace, ShowWorkspaceView, SessionOK, session
            <3> QED BY <2>2, <3>1, AdoptSession DEF SessionOK
      <2> QED BY <1>6, <2>1, <2>2 DEF UseWorkspace
<1>7. ASSUME NEW q \in Profiles, SelectProfile(q) PROVE SessionOK'
      <2>1. CASE ShowWorkspaceView
            BY <2>1 DEF ShowWorkspaceView, SessionOK, session, platform
      <2>2. CASE Adopt
            <3>1. workspace' \in Workspaces /\ profile' \in Profiles
                  BY <1>7, <2>2 DEF SelectProfile, ShowWorkspaceView, SessionOK, session
            <3> QED BY <2>2, <3>1, AdoptSession DEF SessionOK
      <2> QED BY <1>7, <2>1, <2>2 DEF SelectProfile
<1>8. CASE DeleteAnswered BY <1>8, GrowsStep, TagsGrow DEF DeleteAnswered, Deleted
<1>9. CASE OrphanAnswered BY <1>9, GrowsStep, TagsGrow DEF OrphanAnswered, Deleted
<1>10. CASE UNCHANGED <<session, rev>>
      BY <1>10 DEF SessionOK, platform, session, screen, work, picker
<1> QED
    BY <1>1, <1>2, <1>3, <1>4, <1>5, <1>6, <1>7, <1>8, <1>9, <1>10
    DEF Next, Land, Reader, Deletion, Switcher, vars, platform, session, screen, work, picker,
        ReadFails, LandFailure, LandUnchanged, LandOverview, LandProject, LandStage, LandRuns,
        RefreshTick, LateNothing, PressRefresh, Back, Dismiss, Confirm, SelectProject, SelectTarget,
        AskDelete, OpenSwitcher, CursorTo, DeleteEnds, LandList, ListFails, TimerFires,
        LandEnvironments, EnvironmentsFail

LEMMA FramesGrow ==
    ASSUME Grows, PlatformOK, SessionOK
    PROVE  Overviews \subseteq Overviews' /\ Details \subseteq Details'
BY DEF Grows, PlatformOK, SessionOK, Overviews, Details

LEMMA ScreenGrows ==
    ASSUME ScreenOK, Grows, PlatformOK, SessionOK, UNCHANGED screen
    PROVE  ScreenOK'
BY FramesGrow DEF ScreenOK, screen

LEMMA AdoptScreen ==
    ASSUME ScreenOK, Adopt
    PROVE  ScreenOK'
BY DEF Adopt, ClearDetail, ScreenOK

LEMMA ShownScreen ==
    ASSUME ScreenOK, ShowWorkspaceView
    PROVE  ScreenOK'
<1>1. Overviews' = Overviews /\ Details' = Details
      BY DEF ShowWorkspaceView, Overviews, Details, platform, session
<1> QED BY <1>1 DEF ShowWorkspaceView, ScreenOK

LEMMA ScreenStep ==
    ASSUME Parts, [Next]_vars
    PROVE  ScreenOK'
<1> USE DEF Parts
<1>1. CASE Change BY <1>1, GrowsStep, ScreenGrows DEF Change
<1>2. CASE LandFailure
      BY <1>2, LoadFacts DEF LandFailure, SetError, ClearDetail, ScreenOK, PlatformOK,
         SessionOK, platform, session, Overviews, Details, LoadOK
<1>3. CASE LandUnchanged
      BY <1>3, LoadFacts DEF LandUnchanged, SetError, ClearDetail, ScreenOK, PlatformOK,
         SessionOK, platform, session, Overviews, Details, LoadOK
<1>4. CASE LandOverview
      BY <1>4, LoadFacts DEF LandOverview, Frame, ClearDetail, ScreenOK, PlatformOK, SessionOK,
         platform, session, Overviews, Details, LoadOK
<1>5. CASE LandProject
      BY <1>5, LoadFacts DEF LandProject, Frame, ClearDetail, ScreenOK, PlatformOK, SessionOK,
         platform, session, Overviews, Details, LoadOK
<1>6. CASE LandStage
      BY <1>6, LoadFacts DEF LandStage, Frame, ClearDetail, ScreenOK, PlatformOK, SessionOK,
         platform, session, Overviews, Details, LoadOK
<1>7. CASE LandRuns
      BY <1>7, LoadFacts DEF LandRuns, SetError, ClearDetail, ScreenOK, PlatformOK, SessionOK,
         platform, session, Overviews, Details, LoadOK
<1>8. CASE Back
      BY <1>8, LoadFacts DEF Back, SetError, ClearDetail, ScreenOK, PlatformOK, SessionOK,
         platform, session, Overviews, Details, LoadOK
<1>9. CASE Dismiss
      BY <1>9, LoadFacts DEF Dismiss, SetError, ClearDetail, ScreenOK, PlatformOK, SessionOK,
         platform, session, Overviews, Details, LoadOK
<1>10. CASE Confirm
      BY <1>10, LoadFacts DEF Confirm, Frame, ClearDetail, ScreenOK, PlatformOK, SessionOK,
         platform, session, Overviews, Details, LoadOK
<1>11. CASE ChooseEnvironment BY <1>11 DEF ChooseEnvironment, Adopt, ClearDetail, ScreenOK
<1>12. ASSUME NEW p \in Projects, SelectProject(p) PROVE ScreenOK'
      BY <1>12, LoadFacts DEF SelectProject, SetError, ClearDetail, ScreenOK, PlatformOK,
         SessionOK, platform, session, Overviews, Details, LoadOK
<1>13. ASSUME NEW t \in Targets, SelectTarget(t) PROVE ScreenOK'
      BY <1>13, LoadFacts DEF SelectTarget, SetError, ClearDetail, ScreenOK, PlatformOK,
         SessionOK, platform, session, Overviews, Details, LoadOK
<1>14. ASSUME NEW items \in SUBSET Projects, AskDelete(items) PROVE ScreenOK'
      BY <1>14, LoadFacts DEF AskDelete, SetError, ClearDetail, ScreenOK, PlatformOK, SessionOK,
         platform, session, Overviews, Details, LoadOK
<1>15. ASSUME NEW which \in {"switcher", "profiles"}, OpenSwitcher(which) PROVE ScreenOK'
      BY <1>15, LoadFacts DEF OpenSwitcher, SetError, ClearDetail, ScreenOK, PlatformOK,
         SessionOK, platform, session, Overviews, Details, LoadOK
<1>16. ASSUME NEW w \in Workspaces, UseWorkspace(w) PROVE ScreenOK'
      BY <1>16, AdoptScreen, ShownScreen DEF UseWorkspace
<1>17. ASSUME NEW q \in Profiles, SelectProfile(q) PROVE ScreenOK'
      BY <1>17, AdoptScreen, ShownScreen DEF SelectProfile
<1>18. CASE DeleteAnswered BY <1>18, GrowsStep, ScreenGrows DEF DeleteAnswered, Deleted
<1>19. CASE OrphanAnswered BY <1>19, GrowsStep, ScreenGrows DEF OrphanAnswered, Deleted
<1>20. CASE UNCHANGED <<screen, rev, client>>
      BY <1>20 DEF ScreenOK, Overviews, Details, platform, session, screen, work, picker
<1> QED
    BY <1>1, <1>2, <1>3, <1>4, <1>5, <1>6, <1>7, <1>8, <1>9, <1>10, <1>11, <1>12, <1>13, <1>14,
       <1>15, <1>16, <1>17, <1>18, <1>19, <1>20
    DEF Next, Land, Reader, Deletion, Switcher, vars, platform, session, screen, work, picker,
        Answer, ReadFails, RefreshTick, LateTag, LateNothing, PressRefresh, CursorTo,
        DeleteEnds, LandList, ListFails, TimerFires, LandEnvironments, EnvironmentsFail

--------------------------------------------------------------------------------
(* The workers.                                                                *)
LEMMA LoadsGrow ==
    ASSUME Grows, PlatformOK, SessionOK
    PROVE  Loads \subseteq Loads'
<1>1. 0..rev \subseteq 0..rev' BY DEF Grows, PlatformOK
<1>2. 0..client \subseteq 0..client' BY DEF Grows, SessionOK
<1> QED BY <1>1, <1>2 DEF Loads

LEMMA LoadGrows ==
    ASSUME LoadOK, Grows, PlatformOK, SessionOK, UNCHANGED <<load, abandoned>>
    PROVE  LoadOK'
BY LoadsGrow DEF LoadOK

LEMMA AbandonedType ==
    ASSUME LoadOK, PlatformOK
    PROVE  AbandonedRead(load) \subseteq Paths
<1>1. CASE load \in Loads BY <1>1 DEF LoadOK, Loads, AbandonedRead, Tagged, PathOf, Paths
<1>2. CASE load = Idle BY <1>2 DEF AbandonedRead, Tagged, Idle
<1> QED BY <1>1, <1>2 DEF LoadOK

(* A load that starts has the type, and leaves a read at most.                 *)
LEMMA Starts ==
    ASSUME LoadOK, PlatformOK, UNCHANGED rev, client' \in Nat, NEW c \in 0..client',
           NEW kind \in {"overview", "project", "runs"},
           NEW of \in Projects \cup Targets \cup {None}, NEW quiet \in BOOLEAN,
           NEW preserve \in BOOLEAN, NEW conditional \in BOOLEAN, NEW repairs \in BOOLEAN,
           kind = "project" => of \in Projects, kind = "runs" => of \in Targets,
           load' = LoadThrough(c, kind, of, quiet, preserve, conditional, repairs),
           abandoned' \subseteq abandoned \cup AbandonedRead(load)
    PROVE  LoadOK'
<1>1. load' \in Loads' /\ load'.kind = kind /\ load'.of = of
      BY DEF LoadThrough, Loads, PlatformOK
<1>2. abandoned' \subseteq Paths BY AbandonedType DEF LoadOK
<1> QED BY <1>1, <1>2 DEF LoadOK

(* ... through the live client.                                                *)
LEMMA StartsHere ==
    ASSUME LoadOK, PlatformOK, SessionOK, UNCHANGED <<rev, client>>,
           NEW kind \in {"overview", "project", "runs"},
           NEW of \in Projects \cup Targets \cup {None}, NEW quiet \in BOOLEAN,
           NEW preserve \in BOOLEAN, NEW conditional \in BOOLEAN, NEW repairs \in BOOLEAN,
           kind = "project" => of \in Projects, kind = "runs" => of \in Targets,
           load' = LoadOf(kind, of, quiet, preserve, conditional, repairs),
           abandoned' \subseteq abandoned \cup AbandonedRead(load)
    PROVE  LoadOK'
<1>1. client' \in Nat /\ client \in 0..client' BY DEF SessionOK
<1> QED BY <1>1, Starts DEF LoadOf

LEMMA StopsOrGoesOn ==
    ASSUME LoadOK, PlatformOK, SessionOK, ScreenOK, UNCHANGED <<rev, client, abandoned>>, Ended
    PROVE  LoadOK'
<1>1. CASE load' = Idle BY <1>1 DEF LoadOK, Idle
<1>2. CASE load' = LoadOf("runs", box, TRUE, TRUE, FALSE, FALSE) /\ box # None
      <2>1. box \in Targets BY <1>2 DEF ScreenOK
      <2> QED BY <1>2, <2>1, StartsHere
<1> QED BY <1>1, <1>2 DEF Ended

LEMMA TickStarts ==
    ASSUME LoadOK, PlatformOK, SessionOK, ScreenOK, UNCHANGED <<rev, client>>, StartLoad(TickLoad),
           view = "workspace" \/ (view = "project" /\ selected # None)
    PROVE  LoadOK'
<1>1. abandoned' \subseteq abandoned \cup AbandonedRead(load) BY DEF StartLoad
<1>2. CASE view = "workspace"
      <2>1. load' = LoadOf("overview", None, TRUE, TRUE, overview # None, FALSE)
            BY <1>2 DEF StartLoad, TickLoad
      <2>2. (overview # None) \in BOOLEAN OBVIOUS
      <2> QED BY <1>1, <2>1, <2>2, StartsHere
<1>3. CASE view = "project" /\ selected # None
      <2> DEFINE again == IF targets = None THEN FALSE ELSE targets.project = selected
      <2>1. load' = LoadOf("project", selected, TRUE, TRUE, again, FALSE)
            BY <1>3 DEF StartLoad, TickLoad
      <2>2. selected \in Projects /\ again \in BOOLEAN BY <1>3 DEF ScreenOK
      <2> HIDE DEF again
      <2> QED BY <1>1, <2>1, <2>2, StartsHere
<1> QED BY <1>2, <1>3

LEMMA RefreshStarts ==
    ASSUME LoadOK, PlatformOK, SessionOK, ScreenOK, UNCHANGED <<rev, client>>, NEW repairs \in BOOLEAN, Refresh(repairs)
    PROVE  LoadOK'
<1>1. CASE UNCHANGED <<load, abandoned>>
      <2>1. Loads' = Loads BY DEF Loads
      <2> QED BY <1>1, <2>1 DEF LoadOK
<1>2. CASE load' = RefreshLoad(repairs) /\ abandoned' = abandoned \cup AbandonedRead(load)
      <2>1. CASE view = "project" /\ selected # None
            <3>1. selected \in Projects BY <2>1 DEF ScreenOK
            <3> QED BY <1>2, <2>1, <3>1, StartsHere DEF RefreshLoad
      <2>2. CASE ~(view = "project" /\ selected # None)
            BY <1>2, <2>2, StartsHere DEF RefreshLoad
      <2> QED BY <2>1, <2>2
<1> QED BY <1>1, <1>2 DEF Refresh

LEMMA AdoptStarts ==
    ASSUME LoadOK, PlatformOK, SessionOK, Adopt
    PROVE  LoadOK'
<1>1. load' = LoadThrough(client', "overview", None, FALSE, TRUE, FALSE, FALSE)
      /\ abandoned' = {} /\ rev' = rev /\ client' = client + 1
      BY DEF Adopt
<1>2. client' \in Nat /\ client' \in 0..client' BY <1>1 DEF SessionOK
<1> QED BY <1>1, <1>2, Starts

LEMMA LoadStep ==
    ASSUME Parts, [Next]_vars
    PROVE  LoadOK'
<1> USE DEF Parts
<1>1. CASE Change BY <1>1, GrowsStep, LoadGrows DEF Change, work
<1>2. CASE Answer 
      <2>1. Unchanged(load) \in BOOLEAN BY DEF Unchanged
      <2>2. load \in Loads BY <1>2, LoadFacts DEF Answer
      <2>0. /\ load' = [load EXCEPT !.state = "answered", !.rev = rev, !.rows = rows,
                                    !.unchanged = Unchanged(load)]
            /\ UNCHANGED <<rev, client, abandoned>> /\ rev \in 0..rev /\ rows \in SUBSET Projects
            BY <1>2 DEF Answer, PlatformOK, platform, session
      <2>3. load' \in Loads /\ UNCHANGED <<load.kind, load.of, abandoned, rev, client>>
            BY <2>0, <2>1, <2>2 DEF Loads
      <2>4. Loads' = Loads BY <2>3 DEF Loads
      <2> QED BY <2>3, <2>4 DEF LoadOK
<1>3. CASE ReadFails 
      <2>2. load \in Loads BY <1>3, LoadFacts DEF ReadFails
      <2>3. load' \in Loads /\ UNCHANGED <<load.kind, load.of, abandoned, rev, client>>
            BY <1>3, <2>2 DEF ReadFails, Loads, platform, session
      <2>4. Loads' = Loads BY <2>3 DEF Loads
      <2> QED BY <2>3, <2>4 DEF LoadOK
<1>4. CASE LandFailure BY <1>4, StopsOrGoesOn DEF LandFailure, platform, session
<1>5. CASE LandUnchanged BY <1>5, StopsOrGoesOn DEF LandUnchanged, platform, session
<1>6. CASE LandOverview BY <1>6 DEF LandOverview, platform, session, LoadOK, Loads, Idle
<1>7. CASE LandProject BY <1>7, StopsOrGoesOn DEF LandProject, platform, session
<1>8. CASE LandStage 
      <2>1. load \in Loads BY <1>8, LoadFacts DEF LandStage
      <2>2. CASE Ended BY <1>8, <2>2, StopsOrGoesOn DEF LandStage, platform, session
      <2>3. CASE ~Ended
            <3>1. load' \in Loads /\ UNCHANGED <<load.kind, load.of, abandoned, rev, client>>
                  <4>1. \E stage \in {"base", "detail"} : load' = NextStage(stage)
                        BY <1>8, <2>3 DEF LandStage
                  <4>2. client \in 0..client BY DEF SessionOK
                  <4>3. load' \in Loads /\ UNCHANGED <<load.kind, load.of>>
                        BY <2>1, <4>1, <4>2 DEF NextStage, Loads
                  <4> QED BY <1>8, <4>3 DEF LandStage, platform, session
            <3>2. Loads' = Loads BY <3>1 DEF Loads
            <3> QED BY <3>1, <3>2 DEF LoadOK
      <2> QED BY <2>2, <2>3
<1>9. CASE LandRuns BY <1>9 DEF LandRuns, platform, session, LoadOK, Loads, Idle
<1>10. CASE RefreshTick BY <1>10, TickStarts DEF RefreshTick, platform, session
<1>11. ASSUME NEW path \in Paths, NEW tag \in 1..rev, LateTag(path, tag) PROVE LoadOK'
      BY <1>11 DEF LateTag, platform, session, LoadOK, Loads
<1>12. ASSUME NEW path \in Paths, LateNothing(path) PROVE LoadOK'
      BY <1>12 DEF LateNothing, platform, session, LoadOK, Loads
<1>13. CASE PressRefresh BY <1>13, RefreshStarts DEF PressRefresh, platform, session
<1>14. CASE ChooseEnvironment BY <1>14, AdoptStarts DEF ChooseEnvironment
<1>15. ASSUME NEW p \in Projects, SelectProject(p) PROVE LoadOK' 
      <2>1. load' = LoadOf("project", p, FALSE, FALSE, FALSE, FALSE) /\ UNCHANGED <<rev, client>>
            /\ abandoned' = abandoned \cup AbandonedRead(load)
            BY <1>15 DEF SelectProject, StartLoad, platform, session
      <2> QED BY <1>15, <2>1, StartsHere
<1>16. ASSUME NEW t \in Targets, SelectTarget(t) PROVE LoadOK' 
      <2>1. load' = LoadOf("runs", t, FALSE, FALSE, FALSE, FALSE) /\ UNCHANGED <<rev, client>>
            /\ abandoned' = abandoned \cup AbandonedRead(load)
            BY <1>16 DEF SelectTarget, StartLoad, platform, session
      <2> QED BY <1>16, <2>1, StartsHere
<1>17. ASSUME NEW w \in Workspaces, UseWorkspace(w) PROVE LoadOK' 
      <2>1. CASE Adopt BY <2>1, AdoptStarts
      <2>2. CASE ~Adopt
            BY <1>17, <2>2 DEF UseWorkspace, ShowWorkspaceView, LoadOK, Loads, platform, session, work
      <2> QED BY <2>1, <2>2
<1>18. ASSUME NEW q \in Profiles, SelectProfile(q) PROVE LoadOK' 
      <2>1. CASE Adopt BY <2>1, AdoptStarts
      <2>2. CASE ~Adopt
            BY <1>18, <2>2 DEF SelectProfile, ShowWorkspaceView, LoadOK, Loads, platform, session, work
      <2> QED BY <2>1, <2>2
<1>19. CASE DeleteAnswered BY <1>19, GrowsStep, LoadGrows DEF DeleteAnswered, work, Deleted
<1>20. CASE OrphanAnswered BY <1>20, GrowsStep, LoadGrows DEF OrphanAnswered, work, Deleted
<1>21. CASE DeleteEnds 
      <2>1. CASE UNCHANGED <<load, abandoned>>
            <3>1. UNCHANGED <<rev, client>> BY <1>21 DEF DeleteEnds, platform, session
            <3> QED BY <2>1, <3>1 DEF LoadOK, Loads, Loads
      <2>2. CASE Refresh(deletion.client = client)
            BY <1>21, <2>2, RefreshStarts DEF DeleteEnds, platform, session
      <2> QED BY <1>21, <2>1, <2>2 DEF DeleteEnds
<1>22. CASE UNCHANGED <<load, abandoned, rev, client>>
      BY <1>22 DEF LoadOK, Loads, platform, session, screen, work, picker
<1> QED
    BY <1>1, <1>2, <1>3, <1>4, <1>5, <1>6, <1>7, <1>8, <1>9, <1>10, <1>11, <1>12, <1>13, <1>14,
       <1>15, <1>16, <1>17, <1>18, <1>19, <1>20, <1>21, <1>22
    DEF Next, Land, Reader, Deletion, Switcher, vars, platform, session, screen, work, picker,
        Back, Dismiss, Confirm, AskDelete, OpenSwitcher, CursorTo, LandList, ListFails,
        TimerFires, LandEnvironments, EnvironmentsFail

LEMMA DeletionGrows ==
    ASSUME DeletionOK, Grows, SessionOK, UNCHANGED <<deletion, orphans>>
    PROVE  DeletionOK'
<1>1. 0..client \subseteq 0..client' BY DEF Grows, SessionOK
<1> QED BY <1>1 DEF DeletionOK, Deletions

LEMMA DeletionStep ==
    ASSUME Parts, [Next]_vars
    PROVE  DeletionOK'
<1> USE DEF Parts
<1>1. CASE Confirm 
      <2>1. deletion' = DeletionOf(dialog) /\ UNCHANGED client /\ dialog \in SUBSET Projects
            BY <1>1 DEF Confirm, ScreenOK, session
      <2>2. orphans' \subseteq orphans \cup (IF deletion.kind = "delete" THEN {deletion} ELSE {})
            BY <1>1 DEF Confirm
      <2>3. deletion' \in Deletions BY <2>1 DEF DeletionOf, Deletions, SessionOK
      <2>4. Deletions' = Deletions BY <2>1 DEF Deletions
      <2>5. orphans' \subseteq Deletions BY <2>2 DEF DeletionOK, Deletions, Idle
      <2> QED BY <2>3, <2>4, <2>5 DEF DeletionOK
<1>2. CASE ChooseEnvironment BY <1>2, GrowsStep, DeletionGrows DEF ChooseEnvironment, Adopt
<1>3. ASSUME NEW w \in Workspaces, UseWorkspace(w) PROVE DeletionOK'
      BY <1>3, GrowsStep, DeletionGrows DEF UseWorkspace, ShowWorkspaceView, Adopt, work
<1>4. ASSUME NEW q \in Profiles, SelectProfile(q) PROVE DeletionOK'
      BY <1>4, GrowsStep, DeletionGrows DEF SelectProfile, ShowWorkspaceView, Adopt, work
<1>5. CASE DeleteAnswered 
      <2>1. deletion \in Deletions /\ UNCHANGED client
            BY <1>5 DEF DeleteAnswered, Deleted, DeletionOK, Idle, session
      <2>2. PICK failed \in SUBSET deletion.items :
                 deletion' = [deletion EXCEPT !.state = "done", !.failed = failed]
            BY <1>5 DEF DeleteAnswered
      <2> QED BY <1>5, <2>1, <2>2 DEF DeleteAnswered, DeletionOK, Deletions
<1>6. CASE OrphanAnswered BY <1>6 DEF OrphanAnswered, Deleted, DeletionOK, Deletions, session
<1>7. CASE DeleteEnds BY <1>7 DEF DeleteEnds, DeletionOK, Deletions, session
<1>8. CASE UNCHANGED <<deletion, orphans, client>>
      BY <1>8 DEF DeletionOK, Deletions, platform, session, screen, work, picker
<1> QED
    BY <1>1, <1>2, <1>3, <1>4, <1>5, <1>6, <1>7, <1>8
    DEF Next, Land, Reader, Deletion, Switcher, vars, platform, session, screen, work, picker,
        Change, Answer, ReadFails, LandFailure, LandUnchanged, LandOverview, LandProject,
        LandStage, LandRuns, RefreshTick, LateTag, LateNothing, PressRefresh, Back, Dismiss,
        SelectProject, SelectTarget, AskDelete, OpenSwitcher, CursorTo, LandList, ListFails,
        TimerFires, LandEnvironments, EnvironmentsFail

LEMMA RefreshPicker ==
    ASSUME PickerOK, SessionOK, NEW repairs, Refresh(repairs)
    PROVE  PickerOK'
<1>1. CASE UNCHANGED picker BY <1>1 DEF PickerOK, picker
<1>2. CASE /\ switcher' = ForgetEnvironments
           /\ asking' = [asking EXCEPT !.list = profile] /\ UNCHANGED crossed
      <2>1. asking' \in [list : Profiles \cup {None}, environments : Places \cup {None}]
            BY <1>2 DEF PickerOK, SessionOK
      <2> QED BY <1>2, <2>1 DEF PickerOK, ForgetEnvironments
<1> QED BY <1>1, <1>2 DEF Refresh

LEMMA PickerStep ==
    ASSUME Parts, [Next]_vars
    PROVE  PickerOK'
<1> USE DEF Parts
<1>1. CASE PressRefresh BY <1>1, RefreshPicker DEF PressRefresh
<1>2. CASE ChooseEnvironment
      BY <1>2 DEF ChooseEnvironment, PickerOK, LeaveSwitcher, SessionOK, picker
<1>3. ASSUME NEW which \in {"switcher", "profiles"}, OpenSwitcher(which) PROVE PickerOK'
      BY <1>3 DEF OpenSwitcher, PickerOK, SessionOK, Places, Ask, ShownAtCursor, Refresh,
         ForgetEnvironments, picker
<1>4. ASSUME NEW w \in Workspaces, CursorTo(w) PROVE PickerOK'
      BY <1>4 DEF CursorTo, PickerOK, SessionOK, Places, Ask, ShownAtCursor, Refresh,
         ForgetEnvironments, picker
<1>5. ASSUME NEW w \in Workspaces, UseWorkspace(w) PROVE PickerOK'
      BY <1>5 DEF UseWorkspace, ShowWorkspaceView, PickerOK, LeaveSwitcher, SessionOK, picker
<1>6. ASSUME NEW q \in Profiles, SelectProfile(q) PROVE PickerOK'
      <2>1. CASE UNCHANGED picker BY <2>1 DEF PickerOK, picker
      <2>2. CASE ~UNCHANGED picker
            <3>1. switcher' = [LeaveSwitcher EXCEPT !.listed = None, !.cache = [w \in Workspaces |-> None]]
                  /\ crossed' = Crossing /\ UNCHANGED asking
                  BY <1>6, <2>2 DEF SelectProfile, ShowWorkspaceView
            <3>2. Crossing \in [list : BOOLEAN, environments : SUBSET Workspaces]
                  BY DEF Crossing, PickerOK, Places
            <3> QED BY <3>1, <3>2 DEF PickerOK, LeaveSwitcher
      <2> QED BY <2>1, <2>2
<1>7. CASE DeleteEnds 
      <2>1. CASE Refresh(deletion.client = client) BY <2>1, RefreshPicker
      <2>2. CASE UNCHANGED picker BY <2>2 DEF PickerOK, picker
      <2> QED BY <1>7, <2>1, <2>2 DEF DeleteEnds
<1>8. CASE LandList
      BY <1>8 DEF LandList, PickerOK, SessionOK, Places, Ask, ShownAtCursor, Refresh,
         ForgetEnvironments, picker
<1>9. CASE ListFails
      BY <1>9 DEF ListFails, PickerOK, SessionOK, Places, Ask, ShownAtCursor, Refresh,
         ForgetEnvironments, picker
<1>10. CASE TimerFires
      BY <1>10 DEF TimerFires, PickerOK, SessionOK, Places, Ask, ShownAtCursor, Refresh,
         ForgetEnvironments, picker
<1>11. CASE LandEnvironments
      BY <1>11 DEF LandEnvironments, PickerOK, SessionOK, Places, Ask, ShownAtCursor, Refresh,
         ForgetEnvironments, picker
<1>12. CASE EnvironmentsFail
      BY <1>12 DEF EnvironmentsFail, PickerOK, SessionOK, Places, Ask, ShownAtCursor, Refresh,
         ForgetEnvironments, picker
<1>13. CASE UNCHANGED <<switcher, asking, crossed>>
      BY <1>13 DEF PickerOK, platform, session, screen, work, picker
<1> QED
    BY <1>1, <1>2, <1>3, <1>4, <1>5, <1>6, <1>7, <1>8, <1>9, <1>10, <1>11, <1>12, <1>13
    DEF Next, Land, Reader, Deletion, Switcher, vars, Deleted, platform, session, screen, work,
        picker,
        Change, Answer, ReadFails, LandFailure, LandUnchanged, LandOverview, LandProject,
        LandStage, LandRuns, RefreshTick, LateTag, LateNothing, Back, Dismiss, Confirm,
        SelectProject, SelectTarget, AskDelete, DeleteAnswered, OrphanAnswered

LEMMA PathType ==
    ASSUME LoadOK, load.kind \in {"overview", "project"}
    PROVE  PathOf(load) \in Paths
BY DEF LoadOK, PathOf, Paths

LEMMA UnrepairedType ==
    ASSUME NEW l
    PROVE  Unrepaired(l) \subseteq Paths
BY DEF Unrepaired, Paths

LEMMA UnpaintedType ==
    ASSUME LoadOK
    PROVE  Unpainted(load) \subseteq Paths
BY PathType DEF Unpainted, Tagged

LEMMA ExcusedStep ==
    ASSUME Parts, [Next]_vars
    PROVE  ExcusedOK'
<1> USE DEF Parts
<1>1. CASE LandFailure
      BY <1>1, UnrepairedType, UnpaintedType DEF LandFailure, ExcusedOK, StartLoad, Refresh, Painted, LoadOK, Paths
<1>2. CASE LandOverview
      BY <1>2, UnrepairedType, UnpaintedType DEF LandOverview, ExcusedOK, StartLoad, Refresh, Painted, LoadOK, Paths
<1>3. CASE LandProject
      BY <1>3, UnrepairedType, UnpaintedType DEF LandProject, ExcusedOK, StartLoad, Refresh, Painted, LoadOK, Paths
<1>4. CASE RefreshTick
      BY <1>4, UnrepairedType, UnpaintedType DEF RefreshTick, ExcusedOK, StartLoad, Refresh, Painted, LoadOK, Paths
<1>5. ASSUME NEW path \in Paths, NEW tag \in 1..rev, LateTag(path, tag) PROVE ExcusedOK'
      BY <1>5, UnrepairedType, UnpaintedType DEF LateTag, ExcusedOK, StartLoad, Refresh, Painted, LoadOK, Paths
<1>6. CASE PressRefresh
      BY <1>6, UnrepairedType, UnpaintedType DEF PressRefresh, ExcusedOK, StartLoad, Refresh, Painted, LoadOK, Paths
<1>7. CASE Confirm BY <1>7, UnrepairedType, UnpaintedType DEF Confirm, ExcusedOK, StartLoad, Refresh, Painted, LoadOK, Paths
<1>8. CASE ChooseEnvironment BY <1>8 DEF ChooseEnvironment, Adopt, ExcusedOK
<1>9. ASSUME NEW p \in Projects, SelectProject(p) PROVE ExcusedOK'
      BY <1>9, UnrepairedType, UnpaintedType DEF SelectProject, ExcusedOK, StartLoad, Refresh, Painted, LoadOK, Paths
<1>10. ASSUME NEW t \in Targets, SelectTarget(t) PROVE ExcusedOK'
      BY <1>10, UnrepairedType, UnpaintedType DEF SelectTarget, ExcusedOK, StartLoad, Refresh, Painted, LoadOK, Paths
<1>11. ASSUME NEW w \in Workspaces, UseWorkspace(w) PROVE ExcusedOK'
      BY <1>11 DEF UseWorkspace, ShowWorkspaceView, Adopt, ExcusedOK
<1>12. ASSUME NEW q \in Profiles, SelectProfile(q) PROVE ExcusedOK'
      BY <1>12 DEF SelectProfile, ShowWorkspaceView, Adopt, ExcusedOK
<1>13. CASE OrphanAnswered
      BY <1>13, UnrepairedType, UnpaintedType DEF OrphanAnswered, ExcusedOK, StartLoad, Refresh, Painted, LoadOK, Paths
<1>14. CASE DeleteEnds
      BY <1>14, UnrepairedType, UnpaintedType DEF DeleteEnds, ExcusedOK, StartLoad, Refresh, Painted, LoadOK, Paths
<1>15. CASE UNCHANGED <<excused>>
      BY <1>15 DEF ExcusedOK, platform, session, screen, work, picker
<1> QED
    BY <1>1, <1>2, <1>3, <1>4, <1>5, <1>6, <1>7, <1>8, <1>9, <1>10, <1>11, <1>12, <1>13, <1>14,
       <1>15
    DEF Next, Land, Reader, Deletion, Switcher, vars, platform, session, screen, work, picker,
        Change, Answer, ReadFails, LandUnchanged, LandStage, LandRuns, LateNothing, Back,
        Dismiss, AskDelete, OpenSwitcher, CursorTo, DeleteAnswered, LandList, ListFails,
        TimerFires, LandEnvironments, EnvironmentsFail

--------------------------------------------------------------------------------
(* The frames, and the project that is being read.                             *)
FramesHere ==
    /\ overview # None => overview.client = client
    /\ targets # None => /\ targets.client = client
                         /\ selected # None => targets.project = selected
    /\ load.kind # "none" => load.client = client
    /\ load.kind = "project" /\ selected # None => load.of = selected

(* The switcher, and what it has asked for.                                    *)
SwitcherHere ==
    /\ switcher.cursor # None /\ switcher.shown # None =>
         switcher.shown.workspace = switcher.cursor
    /\ switcher.listed \in {None, profile} \/ crossed.list
    /\ asking.list \in {None, profile} \/ crossed.list
    /\ \A w \in Workspaces \ crossed.environments :
         /\ switcher.cache[w] \in {None, profile}
         /\ switcher.shown # None /\ switcher.shown.workspace = w =>
              switcher.shown.profile = profile
    /\ asking.environments # None =>
         \/ asking.environments.profile = profile
         \/ asking.environments.workspace \in crossed.environments

LEMMA PlaceParts == PlaceInv /\ NothingOfAnotherPlace <=> FramesHere /\ SwitcherHere
BY DEF PlaceInv, NothingOfAnotherPlace, FramesHere, SwitcherHere

LEMMA RefreshReads ==
    ASSUME LoadOK, ScreenOK, FramesHere, NEW repairs, Refresh(repairs),
           UNCHANGED <<client, selected>>
    PROVE  /\ load'.kind # "none" => load'.client = client'
           /\ load'.kind = "project" /\ selected' # None => load'.of = selected'
BY DEF Refresh, RefreshLoad, LoadOf, LoadThrough, FramesHere

LEMMA FramesStep ==
    ASSUME Parts, FramesHere, [Next]_vars
    PROVE  FramesHere'
<1> USE DEF Parts
<1>1. CASE Answer 
      <2>1. load \in Loads BY <1>1, LoadFacts DEF Answer
      <2>2. UNCHANGED <<load.kind, load.of, load.client>> BY <1>1, <2>1 DEF Answer, Loads
      <2> QED BY <1>1, <2>2 DEF Answer, FramesHere, session, screen
<1>2. CASE ReadFails 
      <2>1. load \in Loads BY <1>2, LoadFacts DEF ReadFails
      <2>2. UNCHANGED <<load.kind, load.of, load.client>> BY <1>2, <2>1 DEF ReadFails, Loads
      <2> QED BY <1>2, <2>2 DEF ReadFails, FramesHere, session, screen
<1>3. CASE LandFailure BY <1>3 DEF LandFailure, Ended, LoadOf, LoadThrough, Idle, FramesHere, Frame, session
<1>4. CASE LandUnchanged BY <1>4 DEF LandUnchanged, Ended, LoadOf, LoadThrough, Idle, FramesHere, Frame, session
<1>5. CASE LandOverview BY <1>5 DEF LandOverview, FramesHere, Idle, session
<1>6. CASE LandProject BY <1>6 DEF LandProject, Ended, LoadOf, LoadThrough, Idle, FramesHere, Frame, session
<1>7. CASE LandStage 
      <2>1. load \in Loads BY <1>7, LoadFacts DEF LandStage
      <2>2. UNCHANGED <<client, overview, selected>> /\ targets' \in {targets, Frame} /\ load.kind = "project"
            BY <1>7 DEF LandStage, session
      <2>3. /\ load'.kind # "none" => load'.client = client
            /\ load'.kind = "project" => load'.of = load.of
            <3>1. CASE Ended BY <3>1 DEF Ended, LoadOf, LoadThrough, Idle
            <3>2. CASE ~Ended BY <1>7, <2>1, <3>2 DEF LandStage, NextStage, Loads
            <3> QED BY <3>1, <3>2
      <2> QED BY <2>2, <2>3 DEF FramesHere, Frame
<1>8. CASE LandRuns BY <1>8 DEF LandRuns, Ended, LoadOf, LoadThrough, Idle, FramesHere, Frame, session
<1>9. CASE RefreshTick
      BY <1>9 DEF RefreshTick, StartLoad, TickLoad, LoadOf, LoadThrough, FramesHere, session, screen
<1>10. CASE PressRefresh BY <1>10, RefreshReads DEF PressRefresh, FramesHere, session, screen
<1>11. CASE Back BY <1>11 DEF Back, FramesHere, session, work
<1>12. CASE Confirm BY <1>12 DEF Confirm, FramesHere, session, ScreenOK, Overviews
<1>13. CASE ChooseEnvironment BY <1>13 DEF ChooseEnvironment, Adopt, LoadThrough, FramesHere, ClearDetail
<1>14. ASSUME NEW p \in Projects, SelectProject(p) PROVE FramesHere'
      BY <1>14 DEF SelectProject, StartLoad, LoadOf, LoadThrough, FramesHere, session
<1>15. ASSUME NEW t \in Targets, SelectTarget(t) PROVE FramesHere'
      BY <1>15 DEF SelectTarget, StartLoad, LoadOf, LoadThrough, FramesHere, session
<1>16. ASSUME NEW w \in Workspaces, UseWorkspace(w) PROVE FramesHere'
      BY <1>16 DEF UseWorkspace, ShowWorkspaceView, Adopt, LoadThrough, FramesHere, ClearDetail,
         platform, session, work
<1>17. ASSUME NEW q \in Profiles, SelectProfile(q) PROVE FramesHere'
      BY <1>17 DEF SelectProfile, ShowWorkspaceView, Adopt, LoadThrough, FramesHere, ClearDetail,
         platform, session, work
<1>18. CASE DeleteEnds 
      <2>1. UNCHANGED <<client, overview, targets, selected>>
            BY <1>18 DEF DeleteEnds, session, screen
      <2>2. CASE Refresh(deletion.client = client) BY <2>1, <2>2, RefreshReads DEF FramesHere
      <2>3. CASE UNCHANGED load BY <2>1, <2>3 DEF FramesHere
      <2> QED BY <1>18, <2>2, <2>3 DEF DeleteEnds
<1>19. CASE UNCHANGED <<overview, targets, selected, client, load>>
      BY <1>19 DEF FramesHere, platform, session, screen, work, picker
<1> QED
    BY <1>1, <1>2, <1>3, <1>4, <1>5, <1>6, <1>7, <1>8, <1>9, <1>10, <1>11, <1>12, <1>13, <1>14,
       <1>15, <1>16, <1>17, <1>18, <1>19
    DEF Next, Land, Reader, Deletion, Switcher, vars, Deleted, platform, session, screen, work,
        picker,
        Change, LateTag, LateNothing, Dismiss, AskDelete, OpenSwitcher, CursorTo,
        DeleteAnswered, OrphanAnswered, LandList, ListFails, TimerFires, LandEnvironments,
        EnvironmentsFail

LEMMA RefreshAsks ==
    ASSUME PickerOK, SwitcherHere, UNCHANGED profile, NEW repairs, Refresh(repairs)
    PROVE  SwitcherHere'
<1>1. CASE UNCHANGED picker BY <1>1 DEF SwitcherHere, picker
<1>2. CASE /\ switcher' = ForgetEnvironments
           /\ asking' = [asking EXCEPT !.list = profile] /\ UNCHANGED crossed
      <2>1. /\ UNCHANGED <<switcher.listed, switcher.shown, asking.environments>>
            /\ switcher'.cursor = None /\ asking'.list = profile
            /\ \A w \in Workspaces : switcher'.cache[w] = None
            BY <1>2 DEF PickerOK, ForgetEnvironments
      <2> QED BY <1>2, <2>1 DEF SwitcherHere
<1> QED BY <1>1, <1>2 DEF Refresh

LEMMA SwitcherStep ==
    ASSUME Parts, SwitcherHere, [Next]_vars
    PROVE  SwitcherHere'
<1> USE DEF Parts
<1>1. CASE PressRefresh BY <1>1, RefreshAsks DEF PressRefresh, session
<1>2. CASE ChooseEnvironment
      BY <1>2 DEF ChooseEnvironment, SwitcherHere, PickerOK, LeaveSwitcher, picker
<1>3. ASSUME NEW which \in {"switcher", "profiles"}, OpenSwitcher(which) PROVE SwitcherHere'
      BY <1>3 DEF OpenSwitcher, SwitcherHere, PickerOK, SessionOK, Places, Ask, ShownAtCursor,
         session, picker
<1>4. ASSUME NEW w \in Workspaces, CursorTo(w) PROVE SwitcherHere'
      BY <1>4 DEF CursorTo, SwitcherHere, PickerOK, SessionOK, Places, Ask, ShownAtCursor,
         session, picker
<1>5. ASSUME NEW w \in Workspaces, UseWorkspace(w) PROVE SwitcherHere'
      BY <1>5 DEF UseWorkspace, ShowWorkspaceView, session, SwitcherHere, PickerOK, LeaveSwitcher, picker
<1>6. ASSUME NEW q \in Profiles, SelectProfile(q) PROVE SwitcherHere'
      <2>1. CASE q = profile
            BY <1>6, <2>1 DEF SelectProfile, ShowWorkspaceView, SwitcherHere, session, picker
      <2>2. CASE q # profile
            <3>1. /\ switcher' = [LeaveSwitcher EXCEPT !.listed = None, !.cache = [w \in Workspaces |-> None]]
                  /\ crossed' = Crossing /\ UNCHANGED asking
                  BY <1>6, <2>2 DEF SelectProfile
            <3>2. /\ switcher'.cursor = None /\ switcher'.shown = None /\ switcher'.listed = None
                  /\ \A w \in Workspaces : switcher'.cache[w] = None
                  BY <3>1 DEF PickerOK, LeaveSwitcher
            <3>3. /\ asking.list # None => crossed'.list
                  /\ asking.environments # None =>
                       asking.environments.workspace \in crossed'.environments
                  BY <3>1 DEF Crossing
            <3> QED BY <3>1, <3>2, <3>3 DEF SwitcherHere
      <2> QED BY <2>1, <2>2
<1>7. CASE DeleteEnds 
      <2>1. UNCHANGED profile BY <1>7 DEF DeleteEnds, session
      <2>2. CASE Refresh(deletion.client = client) BY <2>1, <2>2, RefreshAsks
      <2>3. CASE UNCHANGED picker BY <2>1, <2>3 DEF SwitcherHere, picker
      <2> QED BY <1>7, <2>2, <2>3 DEF DeleteEnds
<1>8. CASE LandList
      BY <1>8 DEF LandList, SwitcherHere, PickerOK, SessionOK, Places, Ask, ShownAtCursor,
         session, picker
<1>9. CASE ListFails
      BY <1>9 DEF ListFails, SwitcherHere, PickerOK, SessionOK, Places, Ask, ShownAtCursor,
         session, picker
<1>10. CASE TimerFires
      BY <1>10 DEF TimerFires, SwitcherHere, PickerOK, SessionOK, Places, Ask, ShownAtCursor,
         session, picker
<1>11. CASE LandEnvironments
      BY <1>11 DEF LandEnvironments, SwitcherHere, PickerOK, SessionOK, Places, Ask,
         ShownAtCursor, session, picker
<1>12. CASE EnvironmentsFail
      BY <1>12 DEF EnvironmentsFail, SwitcherHere, PickerOK, SessionOK, Places, Ask,
         ShownAtCursor, session, picker
<1>13. CASE UNCHANGED <<switcher, asking, crossed, profile>>
      BY <1>13 DEF SwitcherHere, platform, session, screen, work, picker
<1> QED
    BY <1>1, <1>2, <1>3, <1>4, <1>5, <1>6, <1>7, <1>8, <1>9, <1>10, <1>11, <1>12, <1>13
    DEF Next, Land, Reader, Deletion, Switcher, vars, Deleted, platform, session, screen, work,
        picker,
        Change, Answer, ReadFails, LandFailure, LandUnchanged, LandOverview, LandProject,
        LandStage, LandRuns, RefreshTick, LateTag, LateNothing, Back, Dismiss, Confirm,
        SelectProject, SelectTarget, AskDelete, DeleteAnswered, OrphanAnswered

--------------------------------------------------------------------------------
LEMMA InitInv == Init => IInv
<1> SUFFICES ASSUME Init PROVE IInv OBVIOUS
<1>1. PlatformOK
      <2>1. composite \in BOOLEAN BY Zenon DEF Init
      <2>2. budget \in [Budgets -> Nat] BY DEF Init, Budgets
      <2> QED BY <2>1, <2>2 DEF Init, PlatformOK
<1>2. SessionOK
      <2>1. profile \in Profiles /\ workspace \in Workspaces BY DEF Init
      <2> QED BY <2>1 DEF Init, SessionOK
<1>3. ScreenOK BY DEF Init, ScreenOK
<1>4. LoadOK BY DEF Init, LoadOK, Loads, LoadThrough
<1>5. DeletionOK BY DEF Init, DeletionOK
<1>6. PickerOK BY DEF Init, PickerOK
<1>7. ExcusedOK BY DEF Init, ExcusedOK
<1>8. FramesHere BY DEF Init, FramesHere, LoadThrough
<1>9. SwitcherHere BY DEF Init, SwitcherHere
<1> QED
    BY <1>1, <1>2, <1>3, <1>4, <1>5, <1>6, <1>7, <1>8, <1>9, TypeParts, PlaceParts DEF IInv, Parts

LEMMA StepInv == IInv /\ [Next]_vars => IInv'
<1> SUFFICES ASSUME IInv, [Next]_vars PROVE IInv' OBVIOUS
<1>1. Parts /\ FramesHere /\ SwitcherHere BY TypeParts, PlaceParts DEF IInv
<1>2. Parts'
      <2>1. PlatformOK' /\ SessionOK' /\ ScreenOK' BY <1>1, PlatformStep, SessionStep, ScreenStep
      <2>2. LoadOK' /\ DeletionOK' BY <1>1, LoadStep, DeletionStep
      <2>3. PickerOK' /\ ExcusedOK' BY <1>1, PickerStep, ExcusedStep
      <2> QED BY <2>1, <2>2, <2>3 DEF Parts
<1>3. FramesHere' /\ SwitcherHere' BY <1>1, FramesStep, SwitcherStep
<1>4. TypeOK' BY <1>2, TypeParts, PTL
<1>5. PlaceInv' /\ NothingOfAnotherPlace' BY <1>3, PlaceParts, PTL
<1> QED BY <1>4, <1>5 DEF IInv

LEMMA Invariance == Spec => []IInv
BY InitInv, StepInv, PTL DEF Spec

(* The screen, its loads and its deletions keep their types.                    *)
THEOREM TypeCorrect == Spec => []TypeOK
<1>1. IInv => TypeOK BY DEF IInv
<1> QED BY <1>1, Invariance, PTL

(* What the terminal UI shows was read from the place its title names, however  *)
(* late an answer comes (tui.py, _adopt_client and the loads).                  *)
THEOREM NothingElsewhere == Spec => []NothingOfAnotherPlace
<1>1. IInv => NothingOfAnotherPlace BY DEF IInv
<1> QED BY <1>1, Invariance, PTL

--------------------------------------------------------------------------------
(* What "unchanged" rests on. The tag a client sends of a path is not newer     *)
(* than the frame on screen, or there is no such frame, or the answer that left *)
(* it is about to be painted, or the screen was left behind; an answer that waits for the event loop is as true as it was when it *)
(* was given; and rows are missing from the overview only while the deletion    *)
(* that took them is under way or a read is out that will put them back.        *)
Numbered == rev > 0 /\ (overview # None => overview.rev > 0)

\* A full answer of this path waits for the event loop.
Awaited(path, l) ==
    l.state = "answered" /\ Tagged(l) /\ ~l.unchanged /\ PathOf(l) = path

TagsTrue ==
    composite => \A path \in Paths \ excused :
        Behind(path, tags[path]) => Awaited(path, load) /\ tags[path] <= load.rev

AnswerTrue ==
    /\ load.kind # "none" => /\ load.unchanged => load.conditional
                             /\ load.conditional => ~load.repairs
    /\ load.state = "answered" =>
         /\ load.rev > 0
         /\ load.rev = rev => load.rows = rows
         /\ load.unchanged /\ PathOf(load) \notin excused =>
              FrameRev(PathOf(load)) \in {0, load.rev}

\* A read that puts back what a deletion took in vain.
Repairing == load.kind = "overview" /\ load.repairs

\* A deletion that has taken more rows than the platform has, and will say so.
Recovering ==
    /\ deletion.kind = "delete" /\ deletion.client = client
    /\ IF deletion.state = "out" THEN deletion.items \cap rows # {} ELSE deletion.failed # {}

RowsTrue ==
    Overview \notin excused /\ overview # None /\ overview.rev = rev /\ overview.rows # rows =>
        /\ overview.rows \subseteq rows
        /\ dialog # None => dialog \subseteq overview.rows /\ dialog # {}
        /\ Repairing \/ Recovering

Faithful == Numbered /\ TagsTrue /\ AnswerTrue /\ RowsTrue

LEMMA OverviewFacts ==
    ASSUME ScreenOK, overview # None
    PROVE  overview \in Overviews /\ overview.rev \in 0..rev /\ overview.rows \subseteq Projects
BY DEF ScreenOK, Overviews

LEMMA NumberedStep ==
    ASSUME Parts, Numbered, AnswerTrue, [Next]_vars
    PROVE  Numbered'
<1> USE DEF Parts
<1>1. rev' > 0 BY GrowsStep DEF Grows, Numbered, PlatformOK
<1>2. CASE LandOverview BY <1>1, <1>2 DEF LandOverview, AnswerTrue, Numbered
<1>3. CASE Confirm
      <2>1. overview # None => overview'.rev = overview.rev
            BY <1>3, OverviewFacts DEF Confirm, Overviews
      <2> QED BY <1>1, <1>3, <2>1 DEF Confirm, Numbered
<1>4. CASE overview' = None BY <1>1, <1>4 DEF Numbered
<1>5. CASE UNCHANGED overview BY <1>1, <1>5 DEF Numbered
<1> QED
    BY <1>2, <1>3, <1>4, <1>5
    DEF Next, Land, Reader, Deletion, Switcher, vars, Deleted, Adopt, ShowWorkspaceView, platform,
        session, screen, work, picker,
        Change, Answer, ReadFails, LandFailure, LandUnchanged, LandProject, LandStage, LandRuns,
        RefreshTick, LateTag, LateNothing, PressRefresh, Back, Dismiss, SelectProject,
        SelectTarget, AskDelete, OpenSwitcher, CursorTo, UseWorkspace, SelectProfile,
        ChooseEnvironment, DeleteAnswered, OrphanAnswered, DeleteEnds, LandList, ListFails,
        TimerFires, LandEnvironments, EnvironmentsFail

(* Revisions are numbers.                                                       *)
LEMMA FrameType ==
    ASSUME ScreenOK, PlatformOK, NEW path
    PROVE  FrameRev(path) \in 0..rev
<1>1. overview # None => overview.rev \in 0..rev BY OverviewFacts
<1>2. targets # None => targets.rev \in 0..rev BY DEF ScreenOK, Details
<1> QED BY <1>1, <1>2 DEF FrameRev, PlatformOK

(* Frames go, or stay what they were, and so does the load.                     *)
LEMMA TagsKept ==
    ASSUME TagsTrue, UNCHANGED <<composite, tags, load>>, excused \subseteq excused',
           \A path \in Paths : FrameRev(path)' \in {0, FrameRev(path)}
    PROVE  TagsTrue'
<1> SUFFICES ASSUME composite, NEW path \in Paths \ excused', Behind(path, tags[path])'
             PROVE  Awaited(path, load)' /\ tags'[path] <= load'.rev
    BY DEF TagsTrue
<1>1. Behind(path, tags[path]) BY DEF Behind
<1>2. Awaited(path, load) /\ tags[path] <= load.rev BY <1>1 DEF TagsTrue
<1> QED BY <1>2 DEF Awaited, Tagged, PathOf

(* No answer is awaited: whatever the load does, the tags stand.                *)
LEMMA TagsQuiet ==
    ASSUME TagsTrue, UNCHANGED <<composite, tags>>, excused \subseteq excused',
           \A path \in Paths : FrameRev(path)' \in {0, FrameRev(path)},
           \A path \in Paths : ~Awaited(path, load)
    PROVE  TagsTrue'
BY DEF TagsTrue, Behind

(* An awaited answer that is cancelled is known to be left unpainted.           *)
LEMMA TagsStarts ==
    ASSUME TagsTrue, Parts, UNCHANGED <<composite, tags>>,
           excused \cup Unpainted(load) \subseteq excused',
           \A path \in Paths : FrameRev(path)' \in {0, FrameRev(path)}
    PROVE  TagsTrue'
<1> SUFFICES ASSUME composite, NEW path \in Paths \ excused', Behind(path, tags[path])'
             PROVE  FALSE
    BY DEF TagsTrue
<1>1. Behind(path, tags[path]) BY DEF Behind
<1>2. Awaited(path, load) /\ tags[path] <= load.rev BY <1>1 DEF TagsTrue
<1>3. load.rev \in Nat /\ tags[path] \in Nat /\ FrameRev(path) \in Nat
      BY <1>2, LoadFacts, FrameType DEF Parts, Awaited, SessionOK, PlatformOK
<1>4. Behind(path, load.rev) BY <1>1, <1>2, <1>3 DEF Behind
<1>5. path \in Unpainted(load) BY <1>2, <1>4 DEF Unpainted, Awaited
<1> QED BY <1>5

LEMMA TagsRefresh ==
    ASSUME TagsTrue, Parts, NEW repairs, Refresh(repairs), UNCHANGED <<platform, session, screen>>
    PROVE  TagsTrue'
<1>1. \A path \in Paths : FrameRev(path)' = FrameRev(path) BY DEF FrameRev, screen
<1>2. UNCHANGED <<composite, tags>> BY DEF platform, session
<1>3. CASE UNCHANGED load
      <2>1. excused \subseteq excused' BY DEF Refresh
      <2> QED BY <1>1, <1>2, <1>3, <2>1, TagsKept
<1>4. CASE load' = RefreshLoad(repairs) /\ Unpainted(load) \subseteq excused'
      <2>1. excused \subseteq excused' BY DEF Refresh
      <2> QED BY <1>1, <1>2, <1>4, <2>1, TagsStarts
<1> QED BY <1>3, <1>4 DEF Refresh

LEMMA TagsStep ==
    ASSUME Parts, TagsTrue, [Next]_vars
    PROVE  TagsTrue'
<1> USE DEF Parts
<1>1. CASE Answer
      <2>1. load \in Loads /\ load.state = "out" BY <1>1, LoadFacts DEF Answer
      <2>2. /\ load' = [load EXCEPT !.state = "answered", !.rev = rev, !.rows = rows,
                                    !.unchanged = Unchanged(load)]
            /\ tags' = IF Tagged(load) /\ ~Unchanged(load)
                         THEN [tags EXCEPT ![PathOf(load)] = rev] ELSE tags
            /\ UNCHANGED <<rev, composite, overview, targets, excused>>
            BY <1>1 DEF Answer, platform, screen
      <2>3. SUFFICES ASSUME composite, NEW path \in Paths \ excused, Behind(path, tags[path])'
                     PROVE  Awaited(path, load)' /\ tags'[path] <= load'.rev
            BY <2>2 DEF TagsTrue
      <2>4. ~Behind(path, tags[path]) BY <2>1, <2>3 DEF TagsTrue, Awaited
      <2>5. tags'[path] # tags[path] BY <2>2, <2>3, <2>4 DEF Behind, FrameRev
      <2>6. Tagged(load) /\ ~Unchanged(load) /\ path = PathOf(load) /\ tags'[path] = rev
            BY <2>2, <2>3, <2>5 DEF SessionOK
      <2>7. /\ load'.state = "answered" /\ load'.rev = rev /\ load'.unchanged = Unchanged(load)
            /\ UNCHANGED <<load.kind, load.of, load.stage>>
            BY <2>1, <2>2 DEF Loads
      <2>8. Awaited(path, load)' BY <2>2, <2>6, <2>7 DEF Awaited, Tagged, PathOf
      <2> QED BY <2>6, <2>7, <2>8 DEF PlatformOK
<1>2. CASE LandOverview
      <2>1. /\ UNCHANGED <<composite, tags>> /\ targets' = None /\ overview'.rev = load.rev
            /\ Painted(Overview)
            BY <1>2 DEF LandOverview, platform, session
      <2>2. ASSUME composite, NEW path \in Paths \ excused', Behind(path, tags[path])'
            PROVE  FALSE
            <3>1. path = Overview BY <2>1, <2>2 DEF Behind, FrameRev
            <3>2. load.rev < tags[Overview] BY <1>2, <2>1, <2>2, <3>1 DEF Behind, FrameRev, LandOverview
            <3> QED BY <2>1, <2>2, <3>1, <3>2 DEF Painted
      <2> QED BY <2>1, <2>2 DEF TagsTrue
<1>3. CASE LandProject
      <2>1. /\ UNCHANGED <<composite, tags, overview>> /\ targets' = Frame /\ Painted(load.of)
            /\ load.kind = "project" /\ load.of \in Projects
            BY <1>3 DEF LandProject, platform, session, LoadOK
      <2>2. load.of # Overview BY <2>1, PathsAssumption
      <2>3. ASSUME composite, NEW path \in Paths \ excused', Behind(path, tags[path])'
            PROVE  FALSE
            <3>1. CASE path = Overview
                  <4>1. path \notin excused /\ Behind(path, tags[path])
                        BY <2>1, <2>2, <2>3, <3>1 DEF Painted, Behind, FrameRev
                  <4>2. PathOf(load) = path BY <2>3, <4>1 DEF TagsTrue, Awaited
                  <4> QED BY <2>1, <2>2, <3>1, <4>2 DEF PathOf
            <3>2. CASE path # Overview
                  <4>1. path = load.of /\ load.rev < tags[path]
                        BY <2>1, <2>3, <3>2 DEF Behind, FrameRev, Frame
                  <4> QED BY <2>1, <2>3, <4>1 DEF Painted
            <3> QED BY <3>1, <3>2
      <2> QED BY <2>1, <2>3 DEF TagsTrue
<1>4. CASE LandStage BY <1>4 DEF LandStage, TagsTrue, platform
<1>5. ASSUME NEW path \in Paths, NEW tag \in 1..rev, LateTag(path, tag) PROVE TagsTrue'
      <2>1. /\ tags' = [tags EXCEPT ![path] = tag]
            /\ UNCHANGED <<composite, overview, targets, load>>
            /\ excused' = IF Behind(path, tag) THEN excused \cup {path} ELSE excused
            BY <1>5 DEF LateTag, platform, screen
      <2>2. ASSUME composite, NEW other \in Paths \ excused', Behind(other, tags[other])'
            PROVE  Awaited(other, load)' /\ tags'[other] <= load'.rev
            <3>1. other # path
                  <4> SUFFICES ASSUME other = path PROVE FALSE OBVIOUS
                  <4>1. tags'[path] = tag BY <2>1 DEF SessionOK
                  <4>2. Behind(path, tag) BY <2>1, <2>2, <4>1 DEF Behind, FrameRev
                  <4> QED BY <2>1, <2>2, <4>2
            <3>2. tags'[other] = tags[other] BY <2>1, <3>1 DEF SessionOK
            <3>3. Behind(other, tags[other]) /\ other \notin excused
                  BY <2>1, <2>2, <3>2 DEF Behind, FrameRev
            <3>4. Awaited(other, load) /\ tags[other] <= load.rev
                  BY <2>1, <2>2, <3>3 DEF TagsTrue
            <3> QED BY <2>1, <3>2, <3>4 DEF Awaited, Tagged, PathOf
      <2> QED BY <2>1, <2>2 DEF TagsTrue
<1>6. CASE Confirm
      <2>1. overview' = None \/ (overview # None /\ overview'.rev = overview.rev)
            BY <1>6, OverviewFacts DEF Confirm, Overviews
      <2>2. \A path \in Paths : FrameRev(path)' \in {0, FrameRev(path)}
            BY <1>6, <2>1 DEF Confirm, FrameRev
      <2> QED BY <1>6, <2>2, TagsKept DEF Confirm, platform, session
<1>7. CASE Adopt BY <1>7 DEF Adopt, TagsTrue, Behind, FrameRev
<1>8. CASE LandFailure \/ LandUnchanged \/ LandRuns
      <2>1. \A path \in Paths : ~Awaited(path, load)
            BY <1>8 DEF LandFailure, LandUnchanged, LandRuns, Awaited, Tagged
      <2>2. /\ UNCHANGED <<composite, tags, overview, targets>> /\ excused \subseteq excused'
            BY <1>8 DEF LandFailure, LandUnchanged, LandRuns, platform, session
      <2>3. \A path \in Paths : FrameRev(path)' = FrameRev(path) BY <2>2 DEF FrameRev
      <2> QED BY <2>1, <2>2, <2>3, TagsQuiet
<1>9. CASE ReadFails
      <2>1. \A path \in Paths : ~Awaited(path, load) BY <1>9 DEF ReadFails, Awaited
      <2>2. /\ UNCHANGED <<composite, tags, overview, targets, excused>>
            BY <1>9 DEF ReadFails, platform, session, screen
      <2>3. \A path \in Paths : FrameRev(path)' = FrameRev(path) BY <2>2 DEF FrameRev
      <2> QED BY <2>1, <2>2, <2>3, TagsQuiet
<1>10. CASE /\ UNCHANGED <<composite, tags, overview>> /\ targets' \in {None, targets}
            /\ StartLoad(load')
      <2>1. \A path \in Paths : FrameRev(path)' \in {0, FrameRev(path)} BY <1>10 DEF FrameRev
      <2>2. excused \cup Unpainted(load) \subseteq excused' BY <1>10 DEF StartLoad
      <2> QED BY <1>10, <2>1, <2>2, TagsStarts
<1>11. CASE PressRefresh \/ DeleteEnds
      <2>1. UNCHANGED <<platform, session, screen>> BY <1>11 DEF PressRefresh, DeleteEnds
      <2>2. CASE \E repairs : Refresh(repairs) BY <2>1, <2>2, TagsRefresh
      <2>3. CASE UNCHANGED <<load, excused>>
            <3>1. \A path \in Paths : FrameRev(path)' = FrameRev(path) BY <2>1 DEF FrameRev, screen
            <3> QED BY <2>1, <2>3, <3>1, TagsKept DEF platform, session
      <2> QED BY <1>11, <2>2, <2>3 DEF PressRefresh, DeleteEnds
<1>12. CASE /\ UNCHANGED <<composite, tags, overview, load>> /\ excused \subseteq excused'
            /\ targets' \in {None, targets}
      <2>1. \A path \in Paths : FrameRev(path)' \in {0, FrameRev(path)} BY <1>12 DEF FrameRev
      <2> QED BY <1>12, <2>1, TagsKept
<1>13. CASE RefreshTick \/ (\E p \in Projects : SelectProject(p))
            \/ (\E t \in Targets : SelectTarget(t))
      BY <1>10, <1>13 DEF RefreshTick, SelectProject, SelectTarget, StartLoad, platform, session,
         screen
<1> QED
    BY <1>1, <1>2, <1>3, <1>4, <1>5, <1>6, <1>7, <1>8, <1>9, <1>11, <1>12, <1>13
    DEF Next, Land, Reader, Deletion, Switcher, vars, Deleted, platform, session, screen, work,
        picker, ClearDetail, ShowWorkspaceView,
        Change, LateNothing, Back, Dismiss, AskDelete, OpenSwitcher, CursorTo, UseWorkspace,
        SelectProfile, ChooseEnvironment, DeleteAnswered, OrphanAnswered, LandList, ListFails,
        TimerFires, LandEnvironments, EnvironmentsFail

(* A load that starts, or none, has no answer; one that goes on keeps it.       *)
LEMMA AnswerNone ==
    ASSUME load' = Idle
    PROVE  AnswerTrue'
BY DEF Idle, AnswerTrue

LEMMA AnswerStarts ==
    ASSUME NEW c, NEW kind, NEW of, NEW quiet, NEW preserve, NEW conditional, NEW repairs,
           conditional => ~repairs,
           load' = LoadThrough(c, kind, of, quiet, preserve, conditional, repairs)
    PROVE  AnswerTrue'
BY DEF LoadThrough, AnswerTrue

LEMMA AnswerKept ==
    ASSUME AnswerTrue, LoadOK, PlatformOK, UNCHANGED load, excused \subseteq excused',
           UNCHANGED <<rev, rows>> \/ rev' = rev + 1,
           FrameRev(PathOf(load))' \in {0, FrameRev(PathOf(load))}
    PROVE  AnswerTrue'
<1>1. (load.kind # "none" => (load.unchanged => load.conditional)
                             /\ (load.conditional => ~load.repairs))'
      BY DEF AnswerTrue
<1>2. ASSUME load.state = "answered" PROVE load.rev > 0 /\ (rev' = load.rev => load.rows = rows')
      BY <1>2, LoadFacts DEF AnswerTrue, PlatformOK
<1>3. ASSUME load.state = "answered", load.unchanged, PathOf(load) \notin excused'
      PROVE  FrameRev(PathOf(load))' \in {0, load.rev}
      BY <1>3 DEF AnswerTrue
<1>4. PathOf(load)' = PathOf(load) BY DEF PathOf
<1> QED BY <1>1, <1>2, <1>3, <1>4 DEF AnswerTrue

LEMMA AnswerStays ==
    ASSUME AnswerTrue, LoadOK, PlatformOK, UNCHANGED load, excused \subseteq excused',
           UNCHANGED <<rev, rows>> \/ rev' = rev + 1,
           UNCHANGED overview, targets' \in {None, targets}
    PROVE  AnswerTrue'
<1>1. FrameRev(PathOf(load))' \in {0, FrameRev(PathOf(load))} BY DEF FrameRev, PathOf
<1> QED BY <1>1, AnswerKept

LEMMA AnswerEnds ==
    ASSUME Ended
    PROVE  AnswerTrue'
BY AnswerNone, AnswerStarts DEF Ended, LoadOf

LEMMA AnswerRefresh ==
    ASSUME AnswerTrue, LoadOK, PlatformOK, NEW repairs, Refresh(repairs),
           UNCHANGED <<platform, screen>>
    PROVE  AnswerTrue'
<1>1. CASE UNCHANGED load
      <2>1. excused \subseteq excused' BY DEF Refresh
      <2> QED BY <1>1, <2>1, AnswerStays DEF platform, screen
<1>2. CASE load' = RefreshLoad(repairs) BY <1>2, AnswerStarts DEF RefreshLoad, LoadOf
<1> QED BY <1>1, <1>2 DEF Refresh

LEMMA AnswerStep ==
    ASSUME Parts, Numbered, TagsTrue, AnswerTrue, [Next]_vars
    PROVE  AnswerTrue'
<1> USE DEF Parts
<1>1. CASE Answer
      <2>1. load \in Loads BY <1>1, LoadFacts DEF Answer
      <2>2. /\ load' = [load EXCEPT !.state = "answered", !.rev = rev, !.rows = rows,
                                    !.unchanged = Unchanged(load)]
            /\ UNCHANGED <<rev, rows, composite, overview, targets, excused>>
            BY <1>1 DEF Answer, platform, screen
      <2>3. /\ load'.rev = rev /\ load'.rows = rows /\ load'.unchanged = Unchanged(load)
            /\ UNCHANGED <<load.kind, load.of, load.conditional, load.repairs>>
            BY <2>1, <2>2 DEF Loads
      <2>4. load.kind # "none" BY <1>1 DEF Answer
      <2>5. load'.unchanged => load'.conditional BY <2>3 DEF Unchanged
      <2>6. load'.conditional => ~load'.repairs BY <2>3, <2>4 DEF AnswerTrue
      <2>7. PathOf(load)' = PathOf(load) BY <2>3 DEF PathOf
      <2>8. ASSUME load'.unchanged, PathOf(load) \notin excused
            PROVE  FrameRev(PathOf(load))' \in {0, rev}
            <3>1. Unchanged(load) BY <2>3, <2>8
            <3>2. composite /\ tags[PathOf(load)] = rev BY <3>1 DEF Unchanged
            <3>3. FrameRev(PathOf(load))' = FrameRev(PathOf(load)) BY <2>2, <2>7 DEF FrameRev
            <3>4. CASE PathOf(load) \in Paths
                  <4>1. load.state = "out" BY <1>1 DEF Answer
                  <4>2. ~Behind(PathOf(load), rev)
                        BY <2>8, <3>2, <3>4, <4>1 DEF TagsTrue, Awaited
                  <4>3. FrameRev(PathOf(load)) \in 0..rev BY FrameType
                  <4> QED BY <3>3, <4>2, <4>3 DEF Behind, PlatformOK
            <3>5. CASE PathOf(load) \notin Paths
                  <4>1. FrameRev(PathOf(load)) = 0
                        BY <3>5, OverviewFacts DEF FrameRev, Paths, ScreenOK, Details
                  <4> QED BY <3>3, <4>1
            <3> QED BY <3>4, <3>5
      <2> QED BY <2>2, <2>3, <2>5, <2>6, <2>7, <2>8 DEF AnswerTrue, Numbered
<1>2. CASE ReadFails
      <2>1. load \in Loads /\ load.kind # "none" BY <1>2, LoadFacts DEF ReadFails
      <2>2. /\ load'.state = "failed"
            /\ UNCHANGED <<load.conditional, load.repairs, load.unchanged>>
            BY <1>2, <2>1 DEF ReadFails, Loads
      <2> QED BY <2>1, <2>2 DEF AnswerTrue
<1>3. CASE LandStage
      <2>1. load \in Loads BY <1>3, LoadFacts DEF LandStage
      <2>2. CASE Ended BY <2>2, AnswerEnds
      <2>3. CASE ~Ended
            <3>1. /\ load'.state = "out" /\ load.kind # "none"
                  /\ UNCHANGED <<load.conditional, load.repairs, load.unchanged>>
                  BY <1>3, <2>1, <2>3 DEF LandStage, NextStage, Loads
            <3> QED BY <3>1 DEF AnswerTrue
      <2> QED BY <2>2, <2>3
<1>4. CASE Confirm
      <2>1. overview' = None \/ (overview # None /\ overview'.rev = overview.rev)
            BY <1>4, OverviewFacts DEF Confirm, Overviews
      <2>2. FrameRev(PathOf(load))' \in {0, FrameRev(PathOf(load))}
            BY <1>4, <2>1 DEF Confirm, FrameRev, PathOf
      <2> QED BY <1>4, <2>2, AnswerKept DEF Confirm, platform
<1>5. CASE Ended BY <1>5, AnswerEnds
<1>6. CASE load' = Idle BY <1>6, AnswerNone
<1>7. CASE RefreshTick
      <2>1. load' = TickLoad BY <1>7 DEF RefreshTick, StartLoad
      <2> QED BY <2>1, AnswerStarts DEF TickLoad, LoadOf
<1>8. CASE PressRefresh BY <1>8, AnswerRefresh DEF PressRefresh
<1>9. CASE DeleteEnds
      <2>1. CASE Refresh(deletion.client = client) BY <1>9, <2>1, AnswerRefresh DEF DeleteEnds
      <2>2. CASE UNCHANGED <<load, abandoned, picker, excused>>
            BY <1>9, <2>2, AnswerStays DEF DeleteEnds, platform, screen
      <2> QED BY <1>9, <2>1, <2>2 DEF DeleteEnds
<1>10. ASSUME NEW p \in Projects, SelectProject(p) PROVE AnswerTrue'
      BY <1>10, AnswerStarts DEF SelectProject, StartLoad, LoadOf
<1>11. ASSUME NEW t \in Targets, SelectTarget(t) PROVE AnswerTrue'
      BY <1>11, AnswerStarts DEF SelectTarget, StartLoad, LoadOf
<1>12. CASE Adopt BY <1>12, AnswerStarts DEF Adopt
<1>13. CASE /\ UNCHANGED <<load, overview>> /\ excused \subseteq excused'
            /\ targets' \in {None, targets}
            /\ UNCHANGED <<rev, rows>> \/ rev' = rev + 1
      BY <1>13, AnswerStays
<1> QED
    BY <1>1, <1>2, <1>3, <1>4, <1>5, <1>6, <1>7, <1>8, <1>9, <1>10, <1>11, <1>12, <1>13
    DEF Next, Land, Reader, Deletion, Switcher, vars, Deleted, platform, session, screen, work,
        picker, ClearDetail, ShowWorkspaceView,
        Change, LandFailure, LandUnchanged, LandOverview, LandProject, LandRuns, LateTag,
        LateNothing, Back, Dismiss, AskDelete, OpenSwitcher, CursorTo, UseWorkspace,
        SelectProfile, ChooseEnvironment, DeleteAnswered, OrphanAnswered, LandList, ListFails,
        TimerFires, LandEnvironments, EnvironmentsFail

(* Nobody has lost sight of the rows that are missing.                          *)
LEMMA RowsKept ==
    ASSUME RowsTrue, UNCHANGED <<rev, rows, overview>>, excused \subseteq excused',
           dialog' \in {dialog, None},
           Repairing \/ Recovering => Repairing' \/ Recovering' \/ Overview \in excused'
    PROVE  RowsTrue'
BY DEF RowsTrue, Overview

(* The overview is older than the platform.                                     *)
LEMMA RowsPast ==
    ASSUME ScreenOK, PlatformOK, UNCHANGED overview, rev' = rev + 1
    PROVE  RowsTrue'
BY OverviewFacts DEF RowsTrue, PlatformOK

(* A repair that is cut short is known to be.                                   *)
LEMMA RepairLeft ==
    ASSUME Repairing, StartLoad(load')
    PROVE  Overview \in excused'
BY DEF Repairing, StartLoad, Unrepaired

LEMMA Recovers ==
    ASSUME UNCHANGED <<deletion, client, rows>>, Recovering
    PROVE  Recovering'
BY DEF Recovering

LEMMA RowsRefresh ==
    ASSUME RowsTrue, NEW repairs, Refresh(repairs), UNCHANGED <<platform, screen>>,
           Recovering => repairs \/ Recovering'
    PROVE  RowsTrue'
<1>1. UNCHANGED <<rev, rows, overview, dialog>> BY DEF platform, screen
<1>2. excused \subseteq excused' BY DEF Refresh
<1>3. Repairing => Repairing' \/ Overview \in excused'
      BY DEF Refresh, Repairing, Unrepaired
<1>4. repairs => Repairing' \/ Overview \in excused'
      BY DEF Refresh, Repairing, RefreshLoad, LoadOf, LoadThrough
<1> QED BY <1>1, <1>2, <1>3, <1>4, RowsKept

LEMMA RowsStep ==
    ASSUME Parts, AnswerTrue, RowsTrue, [Next]_vars
    PROVE  RowsTrue'
<1> USE DEF Parts
<1>1. CASE Change BY <1>1, RowsPast DEF Change, screen
<1>2. CASE Answer \/ ReadFails
      <2>1. load \in Loads BY <1>2, LoadFacts DEF Answer, ReadFails
      <2>2. UNCHANGED <<load.kind, load.repairs>>
            BY <1>2, <2>1 DEF Answer, ReadFails, Loads
      <2>3. /\ UNCHANGED <<rev, rows, overview, dialog, excused, deletion, client>>
            BY <1>2 DEF Answer, ReadFails, platform, screen, session
      <2>4. Repairing => Repairing' BY <2>2 DEF Repairing
      <2> QED BY <2>3, <2>4, Recovers, RowsKept
<1>3. CASE LandFailure
      <2>1. UNCHANGED <<rev, rows, overview, dialog, deletion, client>>
            /\ excused' = excused \cup Unrepaired(load)
            BY <1>3 DEF LandFailure, platform, session
      <2>2. Repairing => Overview \in excused' BY <2>1 DEF Repairing, Unrepaired
      <2> QED BY <2>1, <2>2, Recovers, RowsKept
<1>4. CASE LandUnchanged
      <2>1. UNCHANGED <<rev, rows, overview, dialog, deletion, client, excused>>
            BY <1>4 DEF LandUnchanged, platform, session
      <2>2. ~Repairing BY <1>4 DEF LandUnchanged, Repairing, AnswerTrue
      <2> QED BY <2>1, <2>2, Recovers, RowsKept
<1>5. CASE LandOverview
      <2>1. overview' = [client |-> load.client, rev |-> load.rev, rows |-> load.rows]
            /\ UNCHANGED <<rev, rows>> /\ load.state = "answered"
            BY <1>5 DEF LandOverview, platform
      <2> QED BY <2>1 DEF RowsTrue, AnswerTrue
<1>6. CASE LandProject
      <2>1. /\ UNCHANGED <<rev, rows, overview, dialog, deletion, client>>
            /\ Painted(load.of) /\ load.kind = "project"
            BY <1>6 DEF LandProject, platform, session
      <2>2. Overview # load.of BY <2>1, PathsAssumption DEF LoadOK
      <2>3. ~Repairing BY <2>1 DEF Repairing
      <2> QED BY <2>1, <2>2, <2>3, Recovers DEF RowsTrue, Painted
<1>7. CASE LandStage \/ LandRuns
      <2>1. /\ UNCHANGED <<rev, rows, overview, dialog, deletion, client, excused>>
            /\ load.kind # "overview"
            BY <1>7 DEF LandStage, LandRuns, platform, session
      <2>2. ~Repairing BY <2>1 DEF Repairing
      <2> QED BY <2>1, <2>2, Recovers, RowsKept
<1>8. CASE RefreshTick
      <2>1. /\ UNCHANGED <<rev, rows, overview, dialog>> /\ StartLoad(load')
            /\ deletion.kind = "none"
            BY <1>8 DEF RefreshTick, platform, screen, StartLoad, Paused
      <2>2. ~Recovering BY <2>1 DEF Recovering
      <2>3. excused \subseteq excused' BY <2>1 DEF StartLoad
      <2> QED BY <2>1, <2>2, <2>3, RepairLeft, RowsKept
<1>9. CASE PressRefresh
      <2>1. UNCHANGED <<rows, deletion, client>> BY <1>9 DEF PressRefresh, platform, session
      <2> QED BY <1>9, <2>1, Recovers, RowsRefresh DEF PressRefresh
<1>10. ASSUME NEW p \in Projects, SelectProject(p) PROVE RowsTrue'
      <2>1. /\ UNCHANGED <<rev, rows, overview, dialog, deletion, client>> /\ StartLoad(load')
            BY <1>10 DEF SelectProject, platform, session, StartLoad
      <2>2. excused \subseteq excused' BY <2>1 DEF StartLoad
      <2> QED BY <2>1, <2>2, RepairLeft, Recovers, RowsKept
<1>11. ASSUME NEW t \in Targets, SelectTarget(t) PROVE RowsTrue'
      <2>1. /\ UNCHANGED <<rev, rows, overview, dialog, deletion, client>> /\ StartLoad(load')
            BY <1>11 DEF SelectTarget, platform, session, StartLoad
      <2>2. excused \subseteq excused' BY <2>1 DEF StartLoad
      <2> QED BY <2>1, <2>2, RepairLeft, Recovers, RowsKept
<1>12. ASSUME NEW items \in SUBSET Projects, AskDelete(items) PROVE RowsTrue'
      <2>1. /\ UNCHANGED <<rev, rows, overview, deletion, client, excused, load>>
            /\ dialog' = items /\ items # {} /\ items \subseteq overview.rows
            BY <1>12 DEF AskDelete, platform, session, work
      <2>2. Repairing => Repairing' BY <2>1 DEF Repairing
      <2> QED BY <2>1, <2>2, Recovers DEF RowsTrue
<1>13. CASE Confirm
      <2>1. SUFFICES ASSUME Overview \notin excused', overview' # None, overview'.rev = rev,
                            overview'.rows # rows
                     PROVE  RowsTrue'
            BY <1>13 DEF RowsTrue, Confirm, platform
      <2>2. /\ UNCHANGED <<rev, rows, client>> /\ dialog' = None
            /\ deletion' = [kind |-> "delete", items |-> dialog, client |-> client,
                            state |-> "out", failed |-> {}]
            BY <1>13 DEF Confirm, DeletionOf, platform, session
      <2>3. /\ Overview \notin excused /\ overview # None /\ overview.rev = rev
            /\ overview'.rows = overview.rows \ dialog
            BY <1>13, <2>1, OverviewFacts DEF Confirm, Overviews
      <2>4. overview'.rows \subseteq rows /\ dialog \cap rows # {}
            <3>1. CASE overview.rows = rows BY <2>1, <2>3, <3>1
            <3>2. CASE overview.rows # rows
                  <4>1. overview.rows \subseteq rows /\ dialog \subseteq overview.rows /\ dialog # {}
                        BY <1>13, <2>3, <3>2 DEF RowsTrue, Confirm
                  <4> QED BY <2>3, <4>1
            <3> QED BY <3>1, <3>2
      <2>5. Recovering' BY <2>2, <2>4 DEF Recovering
      <2> QED BY <2>2, <2>4, <2>5 DEF RowsTrue
<1>14. CASE DeleteAnswered
      <2>1. PICK failed \in SUBSET deletion.items :
                 /\ Deleted(deletion, failed)
                 /\ deletion' = [deletion EXCEPT !.state = "done", !.failed = failed]
            BY <1>14 DEF DeleteAnswered
      <2>2. UNCHANGED <<overview, dialog, excused, load, client>> /\ deletion.state = "out"
            BY <1>14, <2>1 DEF DeleteAnswered, Deleted, screen, session
      <2>3. CASE rev' = rev + 1 BY <2>2, <2>3, RowsPast
      <2>4. CASE UNCHANGED <<rows, rev>>
            <3>1. ASSUME Recovering PROVE Recovering'
                  <4>1. /\ deletion \in Deletions /\ deletion.client = client
                        /\ deletion.items \cap rows # {}
                        BY <2>2, <3>1 DEF Recovering, DeletionOK, Idle
                  <4>2. CASE rev' = rev + 1 /\ rev' = rev BY <4>2 DEF PlatformOK
                  <4>3. CASE (deletion.items \ failed) \cap rows = {}
                        <5>1. failed # {} BY <4>1, <4>3
                        <5>2. /\ deletion'.kind = "delete" /\ deletion'.client = client
                              /\ deletion'.state = "done" /\ deletion'.failed = failed
                              BY <2>1, <4>1 DEF Deletions
                        <5> QED BY <2>2, <5>1, <5>2 DEF Recovering
                  <4> QED BY <2>1, <2>4, <4>1, <4>2, <4>3 DEF Deleted
            <3>2. Repairing => Repairing' BY <2>2 DEF Repairing
            <3> QED BY <2>2, <2>4, <3>1, <3>2, RowsKept
      <2> QED BY <2>1, <2>3, <2>4 DEF Deleted
<1>15. CASE OrphanAnswered
      <2>1. PICK d \in orphans, failed \in SUBSET Projects :
                 /\ Deleted(d, failed)
                 /\ excused' = IF failed = {} \/ d.client # client THEN excused
                               ELSE excused \cup {Overview}
            BY <1>15 DEF OrphanAnswered
      <2>2. /\ UNCHANGED <<overview, dialog, load, client, deletion>>
            /\ excused \subseteq excused'
            BY <1>15, <2>1 DEF OrphanAnswered, Deleted, screen, session
      <2>3. CASE rev' = rev + 1 BY <2>2, <2>3, RowsPast
      <2>4. CASE UNCHANGED <<rows, rev>>
            <3>1. Repairing => Repairing' BY <2>2 DEF Repairing
            <3> QED BY <2>2, <2>4, <3>1, Recovers, RowsKept
      <2> QED BY <2>1, <2>3, <2>4 DEF Deleted
<1>16. CASE DeleteEnds
      <2>1. UNCHANGED <<rev, rows, overview, dialog, client>> /\ deletion.state = "done"
            BY <1>16 DEF DeleteEnds, platform, screen, session
      <2>2. CASE deletion.failed # {} /\ Refresh(deletion.client = client)
            <3>1. Recovering => deletion.client = client BY DEF Recovering
            <3> QED BY <1>16, <2>2, <3>1, RowsRefresh DEF DeleteEnds
      <2>3. CASE deletion.failed = {} /\ UNCHANGED <<load, excused>>
            <3>1. ~Recovering BY <2>1, <2>3 DEF Recovering
            <3>2. Repairing => Repairing' BY <2>3 DEF Repairing
            <3> QED BY <2>1, <2>3, <3>1, <3>2, RowsKept
      <2> QED BY <1>16, <2>2, <2>3 DEF DeleteEnds
<1>17. CASE Adopt BY <1>17 DEF Adopt, RowsTrue
<1>18. CASE /\ UNCHANGED <<rev, rows, overview, load, deletion, client>>
            /\ excused \subseteq excused' /\ dialog' \in {dialog, None}
      <2>1. Repairing => Repairing' BY <1>18 DEF Repairing
      <2> QED BY <1>18, <2>1, Recovers, RowsKept
<1> QED
    BY <1>1, <1>2, <1>3, <1>4, <1>5, <1>6, <1>7, <1>8, <1>9, <1>10, <1>11, <1>12, <1>13, <1>14,
       <1>15, <1>16, <1>17, <1>18
    DEF Next, Land, Reader, Deletion, Switcher, vars, platform, session, screen, work,
        picker,
        LateTag, LateNothing, Back, Dismiss, OpenSwitcher, CursorTo, UseWorkspace,
        ShowWorkspaceView, SelectTarget, SelectProfile, ChooseEnvironment, LandList, ListFails,
        TimerFires, LandEnvironments, EnvironmentsFail

--------------------------------------------------------------------------------
LEMMA FaithfulInit == Init => Faithful
<1> SUFFICES ASSUME Init PROVE Faithful OBVIOUS
<1>1. rev = 1 /\ rows = Projects /\ overview = None /\ targets = None BY DEF Init
<1>2. load.state = "out" /\ ~load.conditional /\ ~load.unchanged BY DEF Init, LoadThrough
<1> QED BY <1>1, <1>2 DEF Faithful, Numbered, TagsTrue, AnswerTrue, RowsTrue, Behind, FrameRev

LEMMA FaithfulStep == IInv /\ Faithful /\ [Next]_vars => Faithful'
<1> SUFFICES ASSUME IInv, Faithful, [Next]_vars PROVE Faithful' OBVIOUS
<1>1. Parts BY TypeParts DEF IInv
<1> QED BY <1>1, NumberedStep, TagsStep, AnswerStep, RowsStep DEF Faithful

LEMMA FaithfulMeans == IInv /\ Faithful => UnchangedMeansOnScreen
<1> SUFFICES ASSUME IInv, Faithful, load.state = "answered", load.unchanged,
                    PathOf(load) \notin excused
             PROVE  /\ FrameRev(PathOf(load)) \in {0, load.rev}
                    /\ load.kind = "overview" /\ overview # None /\ load.rev = rev
                         /\ deletion.kind = "none" => overview.rows = rows
    BY DEF UnchangedMeansOnScreen
<1>1. Parts BY TypeParts DEF IInv
<1>2. FrameRev(PathOf(load)) \in {0, load.rev} BY DEF Faithful, AnswerTrue
<1>3. ASSUME load.kind = "overview", overview # None, load.rev = rev, deletion.kind = "none"
      PROVE  overview.rows = rows
      <2>1. PathOf(load) = Overview BY <1>3 DEF PathOf
      <2>2. overview.rev = rev
            BY <1>2, <1>3, <2>1, <1>1, OverviewFacts DEF FrameRev, Faithful, Numbered, Parts
      <2>3. ~Repairing BY <1>3 DEF Repairing, Faithful, AnswerTrue
      <2>4. ~Recovering BY <1>3 DEF Recovering
      <2> QED BY <1>3, <2>1, <2>2, <2>3, <2>4 DEF Faithful, RowsTrue
<1> QED BY <1>2, <1>3

(* When the platform answers "unchanged", the frame on screen is the revision it *)
(* answers for and misses no row that a deletion took in vain - but for what a   *)
(* cancelled read or a cancelled deletion has left behind (client.py,            *)
(* _composite_read; tui.py, the refresh tick and _delete_items).                 *)
THEOREM UnchangedIsOnScreen == Spec => []UnchangedMeansOnScreen
<1>1. Init => Faithful BY FaithfulInit
<1>2. IInv /\ Faithful /\ [Next]_vars => Faithful' BY FaithfulStep
<1>3. IInv /\ Faithful => UnchangedMeansOnScreen BY FaithfulMeans
<1> QED BY <1>1, <1>2, <1>3, Invariance, PTL DEF Spec
================================================================================
