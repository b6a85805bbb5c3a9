------------------------------- MODULE LocalState -------------------------------
(* The two files the toolkit keeps on a laptop: the configuration (config.py) and *)
(* the sign-in session (auth.py). Any number of processes - commands in other     *)
(* terminals, terminal UIs - read and write them without a lock: each write puts  *)
(* the whole content in one temporary file, shared by all, and renames it into    *)
(* place. A process may be killed between any two steps.                          *)
(*                                                                                *)
(* A file's text is a pair of halves, so that one half may be written, or be of   *)
(* another writer. What a writer holds open is where its file has gone since:     *)
(* the temporary name, the real one, or neither.                                  *)
EXTENDS Naturals, FiniteSets

CONSTANTS
    Procs,       \* the processes
    Profiles, Workspaces, Environments, Paths,
    None,        \* no value, no file, nothing open
    MaxCommands, \* bound: commands that are given
    MaxIssued,   \* bound: sessions that are issued
    MaxFaults    \* bound: crashes, answers that are lost

Files    == {"config", "auth"}
Sessions == 1..MaxIssued

\* A configuration: the default profile, each profile's workspace (None: no such
\* profile), each workspace's chosen environment and its search paths.
Configs == [default : Profiles \cup {None}, workspace : [Profiles -> Workspaces \cup {None}],
            environment : [Workspaces -> Environments \cup {None}],
            paths : [Workspaces -> SUBSET Paths]]

EmptyConfig == [default |-> None, workspace |-> [p \in Profiles |-> None],
                environment |-> [w \in Workspaces |-> None], paths |-> [w \in Workspaces |-> {}]]

Commands ==
    [name : {"set_default_profile"}, profile : Profiles]
    \cup [name : {"write_profile", "set_profile_workspace"}, profile : Profiles, workspace : Workspaces]
    \cup [name : {"set_active_environment"}, workspace : Workspaces, environment : Environments]
    \cup [name : {"add_search_path", "remove_search_path"}, workspace : Workspaces, path : Paths]
    \cup [name : {"load_access_token", "save_session", "clear_session"}]

\* What a file may hold, and what each half of its text.
Contents(f) == IF f = "config" THEN Configs ELSE Sessions
Texts(f)    == (Contents(f) \cup {None}) \X (Contents(f) \cup {None})

ASSUME LocalStateAssumption ==
    /\ MaxCommands \in Nat /\ MaxIssued \in Nat \ {0} /\ MaxFaults \in Nat
    /\ None \notin Profiles \cup Workspaces \cup Environments
    /\ \A f \in Files : None \notin Contents(f) /\ None \notin Texts(f)
    /\ None \notin Commands
    /\ None \notin {"tmp", "real"}

VARIABLES
    real,        \* what is under each file's name: None, or the text's two halves
    tmp,         \* the same for its temporary file
    command,     \* what each process was asked, None between commands
    pc,          \* where it stands in it
    mine,        \* what it means to write; the session it means to refresh
    open,        \* where the file it has open is now: "tmp", "real" or None
    issued,      \* the newest session the identity service has issued
    heir,        \* the session each session's refresh token was spent on
    expired,     \* sessions up to this one have expired
    want,        \* ghost: what the commands that finished add up to, by file
    stale,       \* ghost: processes whose file was written since they read it
    overtaken,   \* ghost: files that such a process wrote all the same
    shared,      \* ghost: files whose temporary file two processes used at once
    lost,        \* ghost: sessions that were bought and did not reach the file
    aged,        \* ghost: sessions that had expired by the time they were saved
    commands, faults  \* what is left of the bounds

files   == <<real, tmp, open>>
service == <<issued, heir, expired>>
ghosts  == <<want, overtaken, shared, lost, aged>>
bounds  == <<commands, faults>>
vars    == <<files, command, pc, mine, service, stale, ghosts, bounds>>

Whole(content) == IF content = None THEN None ELSE <<content, content>>

Readable(text) == text # None => text[1] = text[2] /\ text[1] # None

Fault == faults > 0 /\ faults' = faults - 1

FileOf(c) == IF c.name \in {"load_access_token", "save_session", "clear_session"}
             THEN "auth" ELSE "config"

Busy(p, f) == command[p] # None /\ FileOf(command[p]) = f

\* What the first profile was written to.
FirstConfig(p, w) == [EmptyConfig EXCEPT !.default = p, !.workspace[p] = w]

Init ==
    /\ \E config \in {None} \cup {FirstConfig(p, w) : p \in Profiles, w \in Workspaces},
          session \in {None, 1} :
         want = [f \in Files |-> IF f = "config" THEN config ELSE session]
    /\ real = [f \in Files |-> Whole(want[f])]
    /\ tmp = [f \in Files |-> None]
    /\ command = [p \in Procs |-> None] /\ pc = [p \in Procs |-> "idle"]
    /\ mine = [p \in Procs |-> None] /\ open = [p \in Procs |-> None]
    /\ issued = 1 /\ heir = [s \in Sessions |-> None] /\ expired = 0
    /\ stale = {} /\ overtaken = {} /\ shared = {} /\ lost = {} /\ aged = {}
    /\ commands = MaxCommands /\ faults = MaxFaults

--------------------------------------------------------------------------------
(* The edits, each of a whole configuration: the set holds what is to be written, *)
(* and is empty when the command refuses or has nothing to change.                *)

SetDefaultProfile(c, p) ==
    {d \in {[c EXCEPT !.default = p]} : c.workspace[p] # None}

\* The whole entry is rewritten, and becomes the default.
WriteProfile(c, p, w) == {[c EXCEPT !.workspace[p] = w, !.default = p]}

SetProfileWorkspace(c, p, w) ==
    {d \in {[c EXCEPT !.workspace[p] = w]} : c.workspace[p] # None}

SetActiveEnvironment(c, w, e) == {[c EXCEPT !.environment[w] = e]}

AddSearchPath(c, w, path) ==
    {d \in {[c EXCEPT !.paths[w] = @ \cup {path}]} : path \notin c.paths[w]}

RemoveSearchPath(c, w, path) ==
    {d \in {[c EXCEPT !.paths[w] = @ \ {path}]} : path \in c.paths[w]}

Edits(c, asked) ==
    CASE asked.name = "set_default_profile"    -> SetDefaultProfile(c, asked.profile)
      [] asked.name = "write_profile"          -> WriteProfile(c, asked.profile, asked.workspace)
      [] asked.name = "set_profile_workspace"  -> SetProfileWorkspace(c, asked.profile, asked.workspace)
      [] asked.name = "set_active_environment" ->
            SetActiveEnvironment(c, asked.workspace, asked.environment)
      [] asked.name = "add_search_path"        -> AddSearchPath(c, asked.workspace, asked.path)
      [] asked.name = "remove_search_path"     -> RemoveSearchPath(c, asked.workspace, asked.path)

\* read_config: no file is an empty configuration.
ConfigIn(content) == IF content = None THEN EmptyConfig ELSE content

--------------------------------------------------------------------------------
(* A command: what it reads first, and what it decides on it.                     *)

Ends(p) ==
    /\ pc' = [pc EXCEPT ![p] = "idle"]
    /\ command' = [command EXCEPT ![p] = None]
    /\ mine' = [mine EXCEPT ![p] = None]

Leaves(p) == Ends(p) /\ stale' = stale \ {p}

Goes(p, l) == pc' = [pc EXCEPT ![p] = l] /\ UNCHANGED <<command, stale>>

\* A process that has a new content for a file, and one that has the file open, or
\* closed and not yet renamed.
Started(p, f) == Busy(p, f) /\ pc[p] \in {"open", "first half", "second half", "rename"}
Holds(p, f)   == Busy(p, f) /\ pc[p] \in {"first half", "second half", "rename"}

\* It has read the file, and is to write what it makes of that.
Edited(p, f) ==
    /\ Started(p, f) \/ (Busy(p, f) /\ pc[p] = "post")
    /\ command[p].name # "save_session"

\* A command begins.
Ask(p, asked) ==
    /\ command[p] = None
    /\ commands > 0 /\ commands' = commands - 1
    /\ command' = [command EXCEPT ![p] = asked]
    /\ pc' = [pc EXCEPT ![p] = "read"]
    /\ UNCHANGED <<files, mine, service, stale, ghosts, faults>>

Unreadable(p) ==
    /\ pc[p] = "read" /\ command[p].name \notin {"save_session", "clear_session"}
    /\ ~Readable(real[FileOf(command[p])])
    /\ Leaves(p)
    /\ UNCHANGED <<files, service, ghosts, bounds>>

\* What the file holds when it can be read.
Content(f) == IF real[f] = None THEN None ELSE real[f][1]

ReadConfig(p) ==
    /\ pc[p] = "read" /\ Busy(p, "config")
    /\ Readable(real["config"])
    /\ LET edits == Edits(ConfigIn(Content("config")), command[p]) IN
         IF edits = {} THEN Leaves(p)
         ELSE \E d \in edits : mine' = [mine EXCEPT ![p] = d] /\ Goes(p, "open")
    /\ UNCHANGED <<files, service, ghosts, bounds>>

\* load_access_token: an expired session is refreshed, with the refresh token read.
ReadSession(p) ==
    /\ pc[p] = "read" /\ Busy(p, "auth") /\ command[p].name = "load_access_token"
    /\ Readable(real["auth"])
    /\ IF real["auth"] # None /\ Content("auth") <= expired
         THEN mine' = [mine EXCEPT ![p] = Content("auth")] /\ Goes(p, "post")
         ELSE Leaves(p)
    /\ UNCHANGED <<files, service, ghosts, bounds>>

\* A sign-in reads nothing.
SignIn(p) ==
    /\ pc[p] = "read" /\ Busy(p, "auth") /\ command[p].name = "save_session"
    /\ Goes(p, "post")
    /\ UNCHANGED <<files, mine, service, ghosts, bounds>>

\* clear_session looks whether there is a file, whatever is in it.
LookForSession(p) ==
    /\ pc[p] = "read" /\ Busy(p, "auth") /\ command[p].name = "clear_session"
    /\ IF real["auth"] = None THEN Leaves(p) ELSE Goes(p, "unlink") /\ UNCHANGED mine
    /\ UNCHANGED <<files, service, ghosts, bounds>>

--------------------------------------------------------------------------------
(* The identity service: a sign-in, or an unspent refresh token, buys a new       *)
(* session. A token that is spent already is refused, or buys its heir once more, *)
(* as long as the heir's own is not spent.                                        *)

Refreshes(p) == command[p].name = "load_access_token"

MayBuy(p) == Refreshes(p) => heir[mine[p]] = None

\* The service issues a session: the heir of the one whose token bought it, if any.
Buys(p) ==
    /\ pc[p] = "post" /\ MayBuy(p)
    /\ issued < MaxIssued /\ issued' = issued + 1
    /\ heir' = IF Refreshes(p) THEN [heir EXCEPT ![mine[p]] = issued + 1] ELSE heir
    /\ UNCHANGED expired

\* A mutant: the refreshed session is returned and not saved.
GrantedUnsaved(p) == Buys(p) /\ Leaves(p) /\ UNCHANGED <<files, ghosts, bounds>>

Granted(p) ==
    /\ Buys(p)
    /\ mine' = [mine EXCEPT ![p] = issued + 1]
    /\ Goes(p, "open")
    /\ UNCHANGED <<files, ghosts, bounds>>

GrantedAgain(p) ==
    /\ pc[p] = "post" /\ ~MayBuy(p)
    /\ heir[heir[mine[p]]] = None
    /\ mine' = [mine EXCEPT ![p] = heir[mine[p]]]
    /\ Goes(p, "open")
    /\ UNCHANGED <<files, service, ghosts, bounds>>

Refused(p) ==
    /\ pc[p] = "post" /\ ~MayBuy(p)
    /\ Leaves(p)
    /\ UNCHANGED <<files, service, ghosts, bounds>>

\* The request, or its answer, is lost: the session may have been issued.
NoAnswer(p) ==
    /\ pc[p] = "post" /\ Fault
    /\ \/ UNCHANGED <<service, lost>>
       \/ Buys(p) /\ lost' = lost \cup {issued'}
    /\ Leaves(p)
    /\ UNCHANGED <<files, want, overtaken, shared, aged, commands>>

Expire ==
    /\ expired < issued
    /\ expired' = issued
    /\ UNCHANGED <<files, command, pc, mine, issued, heir, stale, ghosts, bounds>>

--------------------------------------------------------------------------------
(* _write_config and save_session: the same steps on each file.                   *)

Blank == <<None, None>>

\* A mutant: the file is written where it is.
OpenInPlace(p) ==
    /\ pc[p] = "open"
    /\ real' = [real EXCEPT ![FileOf(command[p])] = Blank]
    /\ open' = [open EXCEPT ![p] = "real"]
    /\ Goes(p, "first half")
    /\ UNCHANGED <<tmp, mine, service, ghosts, bounds>>

\* The temporary file is made, or, if somebody left or has it there, emptied.
OpenTmp(p) ==
    LET f == FileOf(command[p]) IN
    /\ pc[p] = "open"
    /\ tmp' = [tmp EXCEPT ![f] = Blank]
    /\ open' = [open EXCEPT ![p] = "tmp"]
    /\ Goes(p, "first half")
    /\ shared' = IF \E q \in Procs : Holds(q, f) THEN shared \cup {f} ELSE shared
    /\ UNCHANGED <<real, mine, service, want, overtaken, lost, aged, bounds>>

\* What is written goes to the file that was opened, whatever its name is by now.
Write(p, half, next) ==
    LET f == FileOf(command[p]) IN
    /\ tmp'  = IF open[p] = "tmp" THEN [tmp EXCEPT ![f][half] = mine[p]] ELSE tmp
    /\ real' = IF open[p] = "real" THEN [real EXCEPT ![f][half] = mine[p]] ELSE real
    /\ Goes(p, next)
    /\ UNCHANGED <<mine, service, ghosts, bounds>>

WriteFirstHalf(p) == pc[p] = "first half" /\ Write(p, 1, "second half") /\ UNCHANGED open

\* The second half, and the file is closed.
WriteSecondHalf(p) ==
    pc[p] = "second half" /\ Write(p, 2, "rename") /\ open' = [open EXCEPT ![p] = None]

\* A file another one takes the name of is nowhere, for those who have it open.
Moved(f) ==
    [q \in Procs |-> IF ~Busy(q, f) THEN open[q]
                     ELSE IF open[q] = "tmp" THEN "real" ELSE None]

\* What the command asks of the file, done to what the finished ones add up to: a
\* refresh replaces the session it spent, and no other.
Adds(p, f) ==
    CASE f = "config" -> LET edits == Edits(ConfigIn(want[f]), command[p])
                         IN  IF edits = {} THEN {want[f]} ELSE edits
      [] f = "auth" /\ Refreshes(p) ->
            {IF want[f] # None /\ heir[want[f]] = mine[p] THEN mine[p] ELSE want[f]}
      [] OTHER -> {mine[p]}

\* Those who read the file before this, and are to write it.
Overtake(p, f) == stale' = (stale \ {p}) \cup {q \in Procs \ {p} : Edited(q, f)}

Rename(p) ==
    LET f == FileOf(command[p]) IN
    /\ pc[p] = "rename"
    /\ tmp[f] # None
    /\ real' = [real EXCEPT ![f] = tmp[f]]
    /\ tmp' = [tmp EXCEPT ![f] = None]
    /\ open' = Moved(f)
    /\ \E d \in Adds(p, f) : want' = [want EXCEPT ![f] = d]
    /\ overtaken' = IF p \in stale THEN overtaken \cup {f} ELSE overtaken
    /\ aged' = IF f = "auth" /\ mine[p] <= expired THEN aged \cup {mine[p]} ELSE aged
    /\ Ends(p) /\ Overtake(p, f)
    /\ UNCHANGED <<service, shared, lost, bounds>>

\* A session that was bought and is not yet in the file goes with its process.
Lose(p) == lost' = IF Started(p, "auth") THEN lost \cup {mine[p]} ELSE lost

\* Somebody else has renamed it.
RenameFails(p) ==
    /\ pc[p] = "rename"
    /\ tmp[FileOf(command[p])] = None
    /\ Lose(p)
    /\ Leaves(p)
    /\ UNCHANGED <<files, service, want, overtaken, shared, aged, bounds>>

Unlink(p) ==
    /\ pc[p] = "unlink"
    /\ IF real["auth"] = None THEN UNCHANGED <<real, open, want>> /\ Leaves(p)
       ELSE /\ real' = [real EXCEPT !["auth"] = None]
            /\ open' = [q \in Procs |-> IF Busy(q, "auth") /\ open[q] = "real" THEN None ELSE open[q]]
            /\ want' = [want EXCEPT !["auth"] = None]
            /\ Ends(p) /\ Overtake(p, "auth")
    /\ UNCHANGED <<tmp, service, overtaken, shared, lost, aged, bounds>>

Crash(p) ==
    /\ command[p] # None
    /\ Fault
    /\ Lose(p)
    /\ Leaves(p)
    /\ open' = [open EXCEPT ![p] = None]
    /\ UNCHANGED <<real, tmp, service, want, overtaken, shared, aged, commands>>

Next ==
    \/ \E p \in Procs :
         \/ \E asked \in Commands : Ask(p, asked)
         \/ Unreadable(p) \/ ReadConfig(p) \/ ReadSession(p) \/ SignIn(p)
         \/ LookForSession(p)
         \/ Granted(p) \/ GrantedAgain(p) \/ Refused(p) \/ NoAnswer(p)
         \/ OpenTmp(p) \/ WriteFirstHalf(p) \/ WriteSecondHalf(p)
         \/ Rename(p) \/ RenameFails(p) \/ Unlink(p) \/ Crash(p)
    \/ Expire

Spec == Init /\ [][Next]_vars

--------------------------------------------------------------------------------
TypeOK ==
    /\ DOMAIN real = Files /\ DOMAIN tmp = Files /\ DOMAIN want = Files
    /\ DOMAIN mine = Procs
    /\ \A f \in Files : /\ {real[f], tmp[f]} \subseteq Texts(f) \cup {None}
                        /\ want[f] \in Contents(f) \cup {None}
    /\ command \in [Procs -> Commands \cup {None}]
    /\ pc \in [Procs -> {"idle", "read", "post", "open", "first half", "second half", "rename",
                         "unlink"}]
    /\ \A p \in Procs : mine[p] # None => \E f \in Files : Busy(p, f) /\ mine[p] \in Contents(f)
    /\ open \in [Procs -> {"tmp", "real", None}]
    /\ issued \in Sessions /\ expired \in 0..issued
    /\ heir \in [Sessions -> Sessions \cup {None}]
    /\ stale \subseteq Procs /\ overtaken \cup shared \subseteq Files
    /\ lost \cup aged \subseteq Sessions
    /\ commands \in Nat /\ faults \in Nat

\* A process killed in the middle of a write, and one that left its temporary file
\* behind, never cost the old file. Whatever commands overlap, a file can be read as
\* long as no two processes used its temporary file at once, which nothing prevents;
\* and it holds what the commands that finished add up to, none of them undone, until
\* one writes what it made of a file that another has written since.
KeptWhole == \A f \in Files \ shared :
    /\ Readable(real[f])
    /\ f \notin overtaken => real[f] = Whole(want[f])

\* The toolkit signs nobody out, however many processes refresh and sign in at once:
\* the refresh token on file is spent only while the process that spent it is about to
\* save the session it bought; or when that session was lost, with the answer or with
\* the process; or when the session on file had expired before it was saved. (Two
\* processes in the temporary file are excused here, too.)
SessionStaysUsable == "auth" \notin shared => \A s \in Sessions :
    real["auth"] = Whole(s) /\ heir[s] # None =>
        \/ \E p \in Procs : Started(p, "auth") /\ mine[p] = heir[s]
        \/ heir[s] \in lost
        \/ s \in aged
================================================================================
