--------------------------- MODULE LocalStateProofs ---------------------------
(* What LocalState's runs check of the two files, proved for any number of        *)
(* processes, commands, sessions and faults. On a file whose temporary file no    *)
(* two processes used at once, one process at most has it between opening and     *)
(* renaming (OneHolder) and it is as that process left it (TmpInv): a rename then *)
(* puts a whole text in place (RealInv). What a writer that nobody overtook has   *)
(* in hand is its command's edit of what the finished commands left (FreshInv).   *)
(* For the session: only expired sessions are spent (SpentInv), so that what a    *)
(* writer saves in time is unspent, and whoever spends the one on file carries    *)
(* its heir (SessionStaysUsable itself).                                          *)
EXTENDS LocalState, TLAPS

(* It has a content to write.                                                  *)
Prepared(p) == pc[p] \in {"open", "first half", "second half", "rename"}

(* Where a process stands, and what it has in hand there.                      *)
Placed(p) ==
    /\ command[p] = None <=> pc[p] = "idle"
    /\ open[p] # None => pc[p] \in {"first half", "second half"}
    /\ pc[p] \in {"post", "unlink"} => FileOf(command[p]) = "auth"
    /\ Prepared(p) => mine[p] # None
    /\ pc[p] = "post" /\ Refreshes(p) => mine[p] # None
    /\ pc[p] \in {"read", "unlink", "idle"} => mine[p] = None
    /\ open[p] = "tmp"  => tmp[FileOf(command[p])] # None
    /\ open[p] = "real" => real[FileOf(command[p])] # None

PlaceInv == \A p \in Procs : Placed(p)

(* No two processes are in a temporary file at once.                           *)
OneHolder == \A f \in Files \ shared : \A p, q \in Procs : Holds(p, f) /\ Holds(q, f) => p = q

(* How far the temporary file of its one holder is.                            *)
HalfWritten(p, f) ==
    /\ pc[p] = "first half"  => open[p] = "tmp" /\ tmp[f] = Blank
    /\ pc[p] = "second half" => open[p] = "tmp" /\ tmp[f] = <<mine[p], None>>
    /\ pc[p] = "rename"      => tmp[f] = Whole(mine[p])

TmpInv == \A f \in Files \ shared : \A p \in Procs : Busy(p, f) => HalfWritten(p, f)

(* So that what is renamed is whole.                                           *)
RealInv == \A f \in Files \ shared : \E c \in Contents(f) \cup {None} : real[f] = Whole(c)

(* What a writer has in hand, when its file was not written since it was read. *)
UpToDate(p, f) ==
    /\ f = "config" /\ Prepared(p) => mine[p] \in Edits(ConfigIn(want[f]), command[p])
    /\ f = "auth" /\ Refreshes(p) =>
         /\ pc[p] = "post" => want[f] = mine[p]
         /\ Prepared(p)    => want[f] # None /\ heir[want[f]] = mine[p]

FreshInv == \A f \in Files \ (shared \cup overtaken) :
    /\ real[f] = Whole(want[f])
    /\ \A p \in Procs \ stale : Busy(p, f) => UpToDate(p, f)

(* Only what has expired is spent.                                             *)
SpentInv ==
    /\ \A s \in Sessions : heir[s] # None => s <= expired
    /\ \A p \in Procs : Busy(p, "auth") /\ Refreshes(p) /\ pc[p] = "post" => mine[p] <= expired

(* The inductive invariant.                                                    *)
IInv == /\ TypeOK /\ PlaceInv /\ OneHolder /\ TmpInv /\ RealInv /\ FreshInv
        /\ SpentInv /\ SessionStaysUsable

USE LocalStateAssumption DEF files, service, ghosts, bounds

--------------------------------------------------------------------------------
(* Each command's edits, one by one.                                           *)
LEMMA EditsByName ==
    ASSUME NEW c, NEW asked
    PROVE  /\ asked.name = "set_default_profile" =>
                Edits(c, asked) = SetDefaultProfile(c, asked.profile)
           /\ asked.name = "write_profile" =>
                Edits(c, asked) = WriteProfile(c, asked.profile, asked.workspace)
           /\ asked.name = "set_profile_workspace" =>
                Edits(c, asked) = SetProfileWorkspace(c, asked.profile, asked.workspace)
           /\ asked.name = "set_active_environment" =>
                Edits(c, asked) = SetActiveEnvironment(c, asked.workspace, asked.environment)
           /\ asked.name = "add_search_path" =>
                Edits(c, asked) = AddSearchPath(c, asked.workspace, asked.path)
           /\ asked.name = "remove_search_path" =>
                Edits(c, asked) = RemoveSearchPath(c, asked.workspace, asked.path)
BY ZenonT(60) DEF Edits

EditNames == {"set_default_profile", "write_profile", "set_profile_workspace",
              "set_active_environment", "add_search_path", "remove_search_path"}

LEMMA NamesOfEdits ==
    ASSUME NEW asked \in Commands, FileOf(asked) = "config"
    PROVE  asked.name \in EditNames
BY DEF Commands, FileOf, EditNames

(* A command has at most one edit, and it keeps the type.                      *)
LEMMA OneEdit ==
    ASSUME NEW c \in Configs, NEW asked \in Commands, FileOf(asked) = "config"
    PROVE  \E x \in Configs : Edits(c, asked) \subseteq {x}
<1>1. CASE asked.name = "set_default_profile"
      <2> DEFINE x == [c EXCEPT !.default = asked.profile]
      <2>1. asked.profile \in Profiles BY <1>1 DEF Commands
      <2>2. x \in Configs BY <2>1 DEF Configs
      <2>3. SetDefaultProfile(c, asked.profile)
             = {y \in {x} : c.workspace[asked.profile] # None}
            BY DEF SetDefaultProfile
      <2>4. Edits(c, asked) = SetDefaultProfile(c, asked.profile) BY <1>1, EditsByName
      <2> HIDE DEF x
      <2>5. Edits(c, asked) \subseteq {x} BY <2>3, <2>4
      <2> QED BY <2>2, <2>5
<1>2. CASE asked.name = "write_profile"
      <2> DEFINE x == [c EXCEPT !.workspace[asked.profile] = asked.workspace, !.default = asked.profile]
      <2>1. asked.profile \in Profiles /\ asked.workspace \in Workspaces BY <1>2 DEF Commands
      <2>2. x \in Configs
            <3> DEFINE y == [c EXCEPT !.workspace[asked.profile] = asked.workspace]
            <3>1. y \in Configs BY <2>1 DEF Configs
            <3>2. [y EXCEPT !.default = asked.profile] \in Configs BY <2>1, <3>1 DEF Configs
            <3> QED BY <3>2
      <2>3. WriteProfile(c, asked.profile, asked.workspace)
             = {x}
            BY DEF WriteProfile
      <2>4. Edits(c, asked) = WriteProfile(c, asked.profile, asked.workspace) BY <1>2, EditsByName
      <2> HIDE DEF x
      <2>5. Edits(c, asked) \subseteq {x} BY <2>3, <2>4
      <2> QED BY <2>2, <2>5
<1>3. CASE asked.name = "set_profile_workspace"
      <2> DEFINE x == [c EXCEPT !.workspace[asked.profile] = asked.workspace]
      <2>1. asked.profile \in Profiles /\ asked.workspace \in Workspaces BY <1>3 DEF Commands
      <2>2. x \in Configs BY <2>1 DEF Configs
      <2>3. SetProfileWorkspace(c, asked.profile, asked.workspace)
             = {y \in {x} : c.workspace[asked.profile] # None}
            BY DEF SetProfileWorkspace
      <2>4. Edits(c, asked) = SetProfileWorkspace(c, asked.profile, asked.workspace)
            BY <1>3, EditsByName
      <2> HIDE DEF x
      <2>5. Edits(c, asked) \subseteq {x} BY <2>3, <2>4
      <2> QED BY <2>2, <2>5
<1>4. CASE asked.name = "set_active_environment"
      <2> DEFINE x == [c EXCEPT !.environment[asked.workspace] = asked.environment]
      <2>1. asked.workspace \in Workspaces /\ asked.environment \in Environments
            BY <1>4 DEF Commands
      <2>2. x \in Configs BY <2>1 DEF Configs
      <2>3. SetActiveEnvironment(c, asked.workspace, asked.environment)
             = {x}
            BY DEF SetActiveEnvironment
      <2>4. Edits(c, asked) = SetActiveEnvironment(c, asked.workspace, asked.environment)
            BY <1>4, EditsByName
      <2> HIDE DEF x
      <2>5. Edits(c, asked) \subseteq {x} BY <2>3, <2>4
      <2> QED BY <2>2, <2>5
<1>5. CASE asked.name = "add_search_path"
      <2> DEFINE x == [c EXCEPT !.paths[asked.workspace] = @ \cup {asked.path}]
      <2>1. asked.workspace \in Workspaces /\ asked.path \in Paths BY <1>5 DEF Commands
      <2>2. x \in Configs BY <2>1 DEF Configs
      <2>3. AddSearchPath(c, asked.workspace, asked.path)
             = {y \in {x} : asked.path \notin c.paths[asked.workspace]}
            BY DEF AddSearchPath
      <2>4. Edits(c, asked) = AddSearchPath(c, asked.workspace, asked.path) BY <1>5, EditsByName
      <2> HIDE DEF x
      <2>5. Edits(c, asked) \subseteq {x} BY <2>3, <2>4
      <2> QED BY <2>2, <2>5
<1>6. CASE asked.name = "remove_search_path"
      <2> DEFINE x == [c EXCEPT !.paths[asked.workspace] = @ \ {asked.path}]
      <2>1. asked.workspace \in Workspaces /\ asked.path \in Paths BY <1>6 DEF Commands
      <2>2. x \in Configs BY <2>1 DEF Configs
      <2>3. RemoveSearchPath(c, asked.workspace, asked.path)
             = {y \in {x} : asked.path \in c.paths[asked.workspace]}
            BY DEF RemoveSearchPath
      <2>4. Edits(c, asked) = RemoveSearchPath(c, asked.workspace, asked.path) BY <1>6, EditsByName
      <2> HIDE DEF x
      <2>5. Edits(c, asked) \subseteq {x} BY <2>3, <2>4
      <2> QED BY <2>2, <2>5
<1> QED BY <1>1, <1>2, <1>3, <1>4, <1>5, <1>6, NamesOfEdits DEF EditNames

LEMMA EmptyType == EmptyConfig \in Configs
BY DEF EmptyConfig, Configs

LEMMA FileOfType == \A c : FileOf(c) \in Files
BY DEF FileOf, Files

--------------------------------------------------------------------------------
(* The parts of TypeOK.                                                        *)
FilesOK ==
    /\ DOMAIN real = Files /\ DOMAIN tmp = Files /\ DOMAIN want = Files
    /\ \A f \in Files : /\ real[f] \in Texts(f) \cup {None}
                        /\ tmp[f] \in Texts(f) \cup {None}
                        /\ want[f] \in Contents(f) \cup {None}

Stages == {"idle", "read", "post", "open", "first half", "second half", "rename", "unlink"}

ProcsOK ==
    /\ command \in [Procs -> Commands \cup {None}]
    /\ pc \in [Procs -> Stages]
    /\ open \in [Procs -> {"tmp", "real", None}]
    /\ DOMAIN mine = Procs

MineOK == \A p \in Procs : mine[p] # None =>
              command[p] # None /\ mine[p] \in Contents(FileOf(command[p]))

CountersOK ==
    /\ issued \in 1..MaxIssued /\ expired \in 0..issued
    /\ heir \in [Sessions -> Sessions \cup {None}]
    /\ lost \subseteq Sessions /\ aged \subseteq Sessions
    /\ stale \subseteq Procs /\ overtaken \subseteq Files /\ shared \subseteq Files
    /\ commands \in Nat /\ faults \in Nat

LEMMA TypeParts == TypeOK <=> FilesOK /\ ProcsOK /\ MineOK /\ CountersOK
<1>1. MineOK <=> \A p \in Procs : mine[p] # None => \E f \in Files : Busy(p, f) /\ mine[p] \in Contents(f)
      BY FileOfType DEF MineOK, Busy
<1> QED BY <1>1 DEF TypeOK, FilesOK, ProcsOK, CountersOK, Stages, Sessions

(* The file a command writes is one, and it knows what.                        *)
LEMMA WriterFacts ==
    ASSUME ProcsOK, MineOK, PlaceInv, NEW p \in Procs, pc[p] # "idle"
    PROVE  /\ command[p] \in Commands /\ FileOf(command[p]) \in Files
           /\ Busy(p, FileOf(command[p]))
           /\ Prepared(p) => mine[p] \in Contents(FileOf(command[p])) /\ mine[p] # None
           /\ pc[p] = "post" /\ Refreshes(p) => mine[p] \in Sessions
           /\ Started(p, "auth") => mine[p] \in Sessions
<1>1. command[p] \in Commands /\ FileOf(command[p]) \in Files /\ Busy(p, FileOf(command[p]))
      BY FileOfType DEF ProcsOK, PlaceInv, Placed, Busy
<1>2. Prepared(p) => mine[p] \in Contents(FileOf(command[p])) /\ mine[p] # None
      BY DEF MineOK, PlaceInv, Placed
<1>3. pc[p] = "post" /\ Refreshes(p) => mine[p] \in Contents("auth")
      BY DEF MineOK, PlaceInv, Placed
<1>4. Started(p, "auth") => mine[p] \in Contents("auth") BY <1>2 DEF Started, Prepared, Busy
<1>5. Contents("auth") = Sessions BY DEF Contents
<1> QED BY <1>1, <1>2, <1>3, <1>4, <1>5

(* A session that is bought is new, and the heir of one at most.               *)
LEMMA Bought ==
    ASSUME ProcsOK, MineOK, CountersOK, PlaceInv, NEW p \in Procs, Buys(p)
    PROVE  /\ issued' = issued + 1 /\ issued' \in Sessions
           /\ expired' = expired /\ expired' \in 0..issued'
           /\ heir' \in [Sessions -> Sessions \cup {None}]
           /\ \A s \in Sessions : heir'[s] # heir[s] =>
                 heir[s] = None /\ heir'[s] = issued' /\ s = mine[p] /\ Refreshes(p)
           /\ Refreshes(p) => mine[p] \in Sessions /\ heir[mine[p]] = None /\ heir'[mine[p]] = issued'
<1>1. issued' = issued + 1 /\ issued' \in Sessions /\ expired' = expired /\ expired' \in 0..issued'
      BY DEF Buys, CountersOK, Sessions
<1>2. pc[p] = "post" BY DEF Buys
<1>3. Refreshes(p) => mine[p] \in Sessions BY <1>2, WriterFacts
<1>4. /\ heir' = IF Refreshes(p) THEN [heir EXCEPT ![mine[p]] = issued'] ELSE heir
      /\ Refreshes(p) => heir[mine[p]] = None
      BY <1>1 DEF Buys, MayBuy
<1> QED BY <1>1, <1>3, <1>4 DEF CountersOK

LEMMA LostType ==
    ASSUME ProcsOK, MineOK, CountersOK, PlaceInv, NEW p \in Procs, command[p] # None, Lose(p)
    PROVE  lost' \subseteq Sessions
<1>1. pc[p] # "idle" BY DEF PlaceInv, Placed
<1>2. Started(p, "auth") => mine[p] \in Sessions BY <1>1, WriterFacts
<1> QED BY <1>2 DEF Lose, CountersOK

LEMMA CountersStep ==
    ASSUME ProcsOK, MineOK, CountersOK, PlaceInv, [Next]_vars
    PROVE  CountersOK'
<1> USE FileOfType DEF CountersOK
<1>1. ASSUME NEW p \in Procs, NEW asked \in Commands, Ask(p, asked) PROVE CountersOK'
      BY <1>1 DEF Ask
<1>2. ASSUME NEW p \in Procs, Unreadable(p) PROVE CountersOK'
      BY <1>2 DEF Unreadable, Leaves, Ends, Goes
<1>3. ASSUME NEW p \in Procs, ReadConfig(p) PROVE CountersOK'
      BY <1>3 DEF ReadConfig, Leaves, Ends, Goes
<1>4. ASSUME NEW p \in Procs, ReadSession(p) PROVE CountersOK'
      BY <1>4 DEF ReadSession, Leaves, Ends, Goes
<1>5. ASSUME NEW p \in Procs, SignIn(p) PROVE CountersOK'
      BY <1>5 DEF SignIn, Leaves, Ends, Goes
<1>6. ASSUME NEW p \in Procs, LookForSession(p) PROVE CountersOK'
      BY <1>6 DEF LookForSession, Leaves, Ends, Goes
<1>7. ASSUME NEW p \in Procs, Granted(p) PROVE CountersOK'
      <2>1. Buys(p) /\ UNCHANGED <<stale, ghosts, bounds>> BY <1>7 DEF Granted, Goes
      <2> QED BY <2>1, Bought DEF Sessions
<1>8. ASSUME NEW p \in Procs, GrantedAgain(p) PROVE CountersOK'
      BY <1>8 DEF GrantedAgain, Leaves, Ends, Goes
<1>9. ASSUME NEW p \in Procs, Refused(p) PROVE CountersOK'
      BY <1>9 DEF Refused, Leaves, Ends, Goes
<1>10. ASSUME NEW p \in Procs, NoAnswer(p) PROVE CountersOK'
      <2>1. /\ stale' \subseteq Procs /\ faults' \in Nat
            /\ UNCHANGED <<overtaken, shared, aged, commands>>
            BY <1>10 DEF NoAnswer, Leaves, Fault
      <2>2. CASE UNCHANGED <<service, lost>> BY <2>1, <2>2
      <2>3. CASE Buys(p) /\ lost' = lost \cup {issued'} BY <2>1, <2>3, Bought DEF Sessions
      <2> QED BY <1>10, <2>2, <2>3 DEF NoAnswer
<1>11. ASSUME NEW p \in Procs, OpenTmp(p) PROVE CountersOK'
      BY <1>11 DEF OpenTmp, Leaves, Ends, Goes
<1>12. ASSUME NEW p \in Procs, WriteFirstHalf(p) PROVE CountersOK'
      BY <1>12 DEF WriteFirstHalf, Write, Leaves, Ends, Goes
<1>13. ASSUME NEW p \in Procs, WriteSecondHalf(p) PROVE CountersOK'
      BY <1>13 DEF WriteSecondHalf, Write, Leaves, Ends, Goes
<1>14. ASSUME NEW p \in Procs, Rename(p) PROVE CountersOK'
      <2>1. pc[p] = "rename" /\ FileOf(command[p]) \in Files BY <1>14 DEF Rename
      <2>2. aged' \subseteq Sessions
            <3>1. FileOf(command[p]) = "auth" => mine[p] \in Sessions
                  BY <2>1, WriterFacts DEF Prepared, Contents
            <3> QED BY <1>14, <3>1 DEF Rename
      <2>3. stale' \subseteq Procs BY <1>14 DEF Rename, Overtake
      <2>4. overtaken' \subseteq Files BY <1>14, <2>1 DEF Rename
      <2> QED BY <1>14, <2>2, <2>3, <2>4 DEF Rename
<1>15. ASSUME NEW p \in Procs, RenameFails(p) PROVE CountersOK'
      <2>1. lost' \subseteq Sessions BY <1>15, LostType DEF RenameFails, PlaceInv, Placed
      <2> QED BY <1>15, <2>1 DEF RenameFails, Leaves
<1>16. ASSUME NEW p \in Procs, Unlink(p) PROVE CountersOK'
      <2>1. stale' \subseteq Procs BY <1>16 DEF Unlink, Leaves, Overtake
      <2> QED BY <1>16, <2>1 DEF Unlink
<1>17. ASSUME NEW p \in Procs, Crash(p) PROVE CountersOK'
      <2>1. lost' \subseteq Sessions BY <1>17, LostType DEF Crash
      <2> QED BY <1>17, <2>1 DEF Crash, Leaves, Fault
<1>18. CASE Expire BY <1>18 DEF Expire
<1>19. CASE UNCHANGED vars BY <1>19 DEF vars
<1> QED
      BY <1>1, <1>2, <1>3, <1>4, <1>5, <1>6, <1>7, <1>8, <1>9, <1>10, <1>11, <1>12, <1>13,
         <1>14, <1>15, <1>16, <1>17, <1>18, <1>19 DEF Next

LEMMA ProcsStep ==
    ASSUME ProcsOK, [Next]_vars
    PROVE  ProcsOK'
<1> USE FileOfType DEF ProcsOK, Stages
<1>1. ASSUME NEW p \in Procs, NEW asked \in Commands, Ask(p, asked) PROVE ProcsOK'
      BY <1>1 DEF Ask
<1>2. ASSUME NEW p \in Procs, Unreadable(p) PROVE ProcsOK'
      BY <1>2 DEF Unreadable, Leaves, Ends, Goes, Moved
<1>3. ASSUME NEW p \in Procs, ReadConfig(p) PROVE ProcsOK'
      BY <1>3 DEF ReadConfig, Leaves, Ends, Goes, Moved
<1>4. ASSUME NEW p \in Procs, ReadSession(p) PROVE ProcsOK'
      BY <1>4 DEF ReadSession, Leaves, Ends, Goes, Moved
<1>5. ASSUME NEW p \in Procs, SignIn(p) PROVE ProcsOK'
      BY <1>5 DEF SignIn, Leaves, Ends, Goes, Moved
<1>6. ASSUME NEW p \in Procs, LookForSession(p) PROVE ProcsOK'
      BY <1>6 DEF LookForSession, Leaves, Ends, Goes, Moved
<1>7. ASSUME NEW p \in Procs, Granted(p) PROVE ProcsOK'
      BY <1>7 DEF Granted, Buys, Leaves, Ends, Goes, Moved
<1>8. ASSUME NEW p \in Procs, GrantedAgain(p) PROVE ProcsOK'
      BY <1>8 DEF GrantedAgain, Leaves, Ends, Goes, Moved
<1>9. ASSUME NEW p \in Procs, Refused(p) PROVE ProcsOK'
      BY <1>9 DEF Refused, Leaves, Ends, Goes, Moved
<1>10. ASSUME NEW p \in Procs, NoAnswer(p) PROVE ProcsOK'
      BY <1>10 DEF NoAnswer, Leaves, Ends, Goes, Moved
<1>11. ASSUME NEW p \in Procs, OpenTmp(p) PROVE ProcsOK'
      BY <1>11 DEF OpenTmp, Leaves, Ends, Goes, Moved
<1>12. ASSUME NEW p \in Procs, WriteFirstHalf(p) PROVE ProcsOK'
      BY <1>12 DEF WriteFirstHalf, Write, Leaves, Ends, Goes, Moved
<1>13. ASSUME NEW p \in Procs, WriteSecondHalf(p) PROVE ProcsOK'
      BY <1>13 DEF WriteSecondHalf, Write, Leaves, Ends, Goes, Moved
<1>14. ASSUME NEW p \in Procs, Rename(p) PROVE ProcsOK'
      BY <1>14 DEF Rename, Leaves, Ends, Goes, Moved
<1>15. ASSUME NEW p \in Procs, RenameFails(p) PROVE ProcsOK'
      BY <1>15 DEF RenameFails, Leaves, Ends, Goes, Moved
<1>16. ASSUME NEW p \in Procs, Unlink(p) PROVE ProcsOK'
      <2>1. Ends(p) BY <1>16 DEF Unlink, Leaves
      <2>2. open' \in [Procs -> {"tmp", "real", None}]
            <3>1. CASE UNCHANGED open BY <3>1
            <3>2. CASE open' = [q \in Procs |-> IF Busy(q, "auth") /\ open[q] = "real" THEN None
                                                ELSE open[q]]
                  BY <3>2
            <3> QED BY <1>16, <3>1, <3>2 DEF Unlink
      <2> QED BY <2>1, <2>2 DEF Ends
<1>17. ASSUME NEW p \in Procs, Crash(p) PROVE ProcsOK'
      BY <1>17 DEF Crash, Leaves, Ends, Goes, Moved
<1>18. CASE Expire BY <1>18 DEF Expire
<1>19. CASE UNCHANGED vars BY <1>19 DEF vars
<1> QED
      BY <1>1, <1>2, <1>3, <1>4, <1>5, <1>6, <1>7, <1>8, <1>9, <1>10, <1>11, <1>12, <1>13,
         <1>14, <1>15, <1>16, <1>17, <1>18, <1>19 DEF Next

LEMMA ContentType ==
    ASSUME FilesOK, NEW f \in Files, Readable(real[f])
    PROVE  /\ Content(f) \in Contents(f) \cup {None}
           /\ real[f] = Whole(Content(f))
           /\ real[f] # None => Content(f) # None
<1>1. CASE real[f] = None BY <1>1 DEF Content, Whole
<1>2. CASE real[f] # None
      <2>1. real[f] \in Texts(f) BY <1>2 DEF FilesOK
      <2>2. real[f][1] = real[f][2] /\ real[f][1] # None BY <1>2 DEF Readable
      <2>3. real[f] = <<real[f][1], real[f][2]>> /\ real[f][1] \in Contents(f) \cup {None}
            BY <2>1 DEF Texts
      <2> QED BY <1>2, <2>2, <2>3 DEF Content, Whole
<1> QED BY <1>1, <1>2

LEMMA ConfigInType ==
    ASSUME NEW c \in Configs \cup {None}
    PROVE  ConfigIn(c) \in Configs
BY EmptyType DEF ConfigIn

(* Who is asked about the configuration has one edit to make, or none.         *)
LEMMA ReadConfigEdit ==
    ASSUME FilesOK, ProcsOK, NEW p \in Procs, ReadConfig(p)
    PROVE  /\ command[p] \in Commands /\ FileOf(command[p]) = "config"
           /\ ConfigIn(Content("config")) \in Configs
           /\ \/ Leaves(p)
              \/ \E d \in Configs :
                    /\ Edits(ConfigIn(Content("config")), command[p]) = {d}
                    /\ mine' = [mine EXCEPT ![p] = d]
                    /\ Goes(p, "open")
<1>1. "config" \in Files BY DEF Files
<1>2. command[p] \in Commands /\ FileOf(command[p]) = "config" BY DEF ReadConfig, Busy, ProcsOK
<1>3. ConfigIn(Content("config")) \in Configs
      BY <1>1, ContentType, ConfigInType DEF ReadConfig, Contents
<1>4. PICK x \in Configs : Edits(ConfigIn(Content("config")), command[p]) \subseteq {x}
      BY <1>2, <1>3, OneEdit
<1>5. CASE Edits(ConfigIn(Content("config")), command[p]) = {}
      BY <1>2, <1>3, <1>5 DEF ReadConfig
<1>6. CASE Edits(ConfigIn(Content("config")), command[p]) # {}
      <2>1. Edits(ConfigIn(Content("config")), command[p]) = {x} BY <1>4, <1>6
      <2>2. mine' = [mine EXCEPT ![p] = x] /\ Goes(p, "open") BY <1>6, <2>1 DEF ReadConfig
      <2> QED BY <1>2, <1>3, <2>1, <2>2
<1> QED BY <1>5, <1>6

LEMMA NextSession ==
    ASSUME CountersOK, issued < MaxIssued
    PROVE  issued + 1 \in Contents("auth")
<1>1. MaxIssued \in Nat OBVIOUS
<1>2. issued \in 1..MaxIssued BY DEF CountersOK
<1>3. issued + 1 \in 1..MaxIssued BY <1>1, <1>2
<1> QED BY <1>3 DEF Contents, Sessions

LEMMA HeirType ==
    ASSUME ProcsOK, MineOK, CountersOK, PlaceInv, NEW p \in Procs, GrantedAgain(p)
    PROVE  /\ Refreshes(p) /\ mine[p] \in Sessions
           /\ heir[mine[p]] # None /\ heir[mine[p]] \in Sessions
<1>1. pc[p] = "post" /\ Refreshes(p) /\ heir[mine[p]] # None BY DEF GrantedAgain, MayBuy
<1>2. mine[p] \in Sessions BY <1>1, WriterFacts
<1> QED BY <1>1, <1>2 DEF CountersOK

LEMMA MineStep ==
    ASSUME FilesOK, ProcsOK, MineOK, CountersOK, PlaceInv, [Next]_vars
    PROVE  MineOK'
<1> USE FileOfType DEF ProcsOK, MineOK, PlaceInv, Placed, Busy
<1>1. ASSUME NEW p \in Procs, NEW asked \in Commands, Ask(p, asked) PROVE MineOK'
      BY <1>1 DEF Ask
<1>2. ASSUME NEW p \in Procs, Unreadable(p) PROVE MineOK'
      BY <1>2 DEF Unreadable, Leaves, Ends, Goes
<1>3. ASSUME NEW p \in Procs, ReadConfig(p) PROVE MineOK'
      <2>1. command[p] \in Commands /\ FileOf(command[p]) = "config" BY <1>3, ReadConfigEdit
      <2>2. CASE Leaves(p) BY <2>2 DEF Leaves, Ends
      <2>3. ASSUME NEW d \in Configs, mine' = [mine EXCEPT ![p] = d], Goes(p, "open")
            PROVE MineOK'
            <3>1. d \in Contents("config") BY DEF Contents
            <3>2. UNCHANGED command BY <2>3 DEF Goes
            <3> QED BY <2>1, <2>3, <3>1, <3>2
      <2> QED BY <1>3, <2>2, <2>3, ReadConfigEdit
<1>4. ASSUME NEW p \in Procs, ReadSession(p) PROVE MineOK'
      <2>1. FileOf(command[p]) = "auth" /\ "auth" \in Files BY <1>4 DEF ReadSession, Files
      <2>2. Content("auth") \in Contents("auth") \cup {None}
            BY <1>4, <2>1, ContentType DEF ReadSession
      <2>3. CASE Leaves(p)
            <3>1. /\ mine' = [mine EXCEPT ![p] = None]
                  /\ command' = [command EXCEPT ![p] = None]
                  BY <2>3 DEF Leaves, Ends
            <3> QED BY <3>1
      <2>4. CASE mine' = [mine EXCEPT ![p] = Content("auth")] /\ Goes(p, "post")
            <3>1. UNCHANGED command BY <2>4 DEF Goes
            <3>2. command[p] # None BY <1>4 DEF ReadSession
            <3> QED BY <2>1, <2>2, <2>4, <3>1, <3>2
      <2> QED BY <1>4, <2>3, <2>4 DEF ReadSession
<1>5. ASSUME NEW p \in Procs, SignIn(p) PROVE MineOK'
      BY <1>5 DEF SignIn, Goes
<1>6. ASSUME NEW p \in Procs, LookForSession(p) PROVE MineOK'
      <2>1. CASE Leaves(p)
            <3>1. /\ mine' = [mine EXCEPT ![p] = None]
                  /\ command' = [command EXCEPT ![p] = None]
                  BY <2>1 DEF Leaves, Ends
            <3> QED BY <3>1
      <2>2. CASE UNCHANGED <<mine, command>> BY <2>2
      <2> QED BY <1>6, <2>1, <2>2 DEF LookForSession, Goes
<1>7. ASSUME NEW p \in Procs, Granted(p) PROVE MineOK'
      <2>1. issued + 1 \in Contents("auth") BY <1>7, NextSession DEF Granted, Buys
      <2> QED BY <1>7, <2>1 DEF Granted, Buys, Goes
<1>8. ASSUME NEW p \in Procs, GrantedAgain(p) PROVE MineOK'
      <2>1. heir[mine[p]] \in Contents("auth") BY <1>8, HeirType DEF Contents
      <2> QED BY <1>8, <2>1 DEF GrantedAgain, Goes
<1>9. ASSUME NEW p \in Procs, Refused(p) PROVE MineOK'
      BY <1>9 DEF Refused, Leaves, Ends, Goes
<1>10. ASSUME NEW p \in Procs, NoAnswer(p) PROVE MineOK'
      BY <1>10 DEF NoAnswer, Leaves, Ends, Goes
<1>11. ASSUME NEW p \in Procs, OpenTmp(p) PROVE MineOK'
      BY <1>11 DEF OpenTmp, Leaves, Ends, Goes
<1>12. ASSUME NEW p \in Procs, WriteFirstHalf(p) PROVE MineOK'
      BY <1>12 DEF WriteFirstHalf, Write, Leaves, Ends, Goes
<1>13. ASSUME NEW p \in Procs, WriteSecondHalf(p) PROVE MineOK'
      BY <1>13 DEF WriteSecondHalf, Write, Leaves, Ends, Goes
<1>14. ASSUME NEW p \in Procs, Rename(p) PROVE MineOK'
      BY <1>14 DEF Rename, Leaves, Ends, Goes
<1>15. ASSUME NEW p \in Procs, RenameFails(p) PROVE MineOK'
      BY <1>15 DEF RenameFails, Leaves, Ends, Goes
<1>16. ASSUME NEW p \in Procs, Unlink(p) PROVE MineOK'
      BY <1>16 DEF Unlink, Leaves, Ends, Goes
<1>17. ASSUME NEW p \in Procs, Crash(p) PROVE MineOK'
      BY <1>17 DEF Crash, Leaves, Ends, Goes
<1>18. CASE Expire BY <1>18 DEF Expire
<1>19. CASE UNCHANGED vars BY <1>19 DEF vars
<1> QED
      BY <1>1, <1>2, <1>3, <1>4, <1>5, <1>6, <1>7, <1>8, <1>9, <1>10, <1>11, <1>12, <1>13,
         <1>14, <1>15, <1>16, <1>17, <1>18, <1>19 DEF Next

(* What is written to a half of the file that is open.                         *)
LEMMA HalfType ==
    ASSUME NEW f \in Files, NEW t \in Texts(f), NEW c \in Contents(f), NEW half \in {1, 2}
    PROVE  [t EXCEPT ![half] = c] \in Texts(f)
<1>1. CASE half = 1 BY <1>1 DEF Texts
<1>2. CASE half = 2 BY <1>2 DEF Texts
<1> QED BY <1>1, <1>2

LEMMA WholeType ==
    ASSUME NEW f \in Files, NEW c \in Contents(f) \cup {None}
    PROVE  Whole(c) \in Texts(f) \cup {None} /\ Blank \in Texts(f)
BY DEF Whole, Texts, Blank

(* What the command adds, file by file.                                        *)
LEMMA AddsConfig ==
    ASSUME NEW p \in Procs
    PROVE  Adds(p, "config") = IF Edits(ConfigIn(want["config"]), command[p]) = {} THEN {want["config"]}
                               ELSE Edits(ConfigIn(want["config"]), command[p])
BY ZenonT(30) DEF Adds

LEMMA AddsSession ==
    ASSUME NEW p \in Procs
    PROVE  Adds(p, "auth") =
             IF Refreshes(p) THEN {IF want["auth"] # None /\ heir[want["auth"]] = mine[p] THEN mine[p]
                                   ELSE want["auth"]}
             ELSE {mine[p]}
BY DEF Adds

LEMMA FilesStep ==
    ASSUME FilesOK, ProcsOK, MineOK, PlaceInv, [Next]_vars
    PROVE  FilesOK'
<1> USE FileOfType DEF FilesOK
<1>1. ASSUME NEW p \in Procs, NEW asked \in Commands, Ask(p, asked) PROVE FilesOK'
      BY <1>1 DEF Ask
<1>2. ASSUME NEW p \in Procs, Unreadable(p) PROVE FilesOK'
      BY <1>2 DEF Unreadable, Leaves, Ends, Goes
<1>3. ASSUME NEW p \in Procs, ReadConfig(p) PROVE FilesOK'
      BY <1>3 DEF ReadConfig, Leaves, Ends, Goes
<1>4. ASSUME NEW p \in Procs, ReadSession(p) PROVE FilesOK'
      BY <1>4 DEF ReadSession, Leaves, Ends, Goes
<1>5. ASSUME NEW p \in Procs, SignIn(p) PROVE FilesOK'
      BY <1>5 DEF SignIn, Leaves, Ends, Goes
<1>6. ASSUME NEW p \in Procs, LookForSession(p) PROVE FilesOK'
      BY <1>6 DEF LookForSession, Leaves, Ends, Goes
<1>7. ASSUME NEW p \in Procs, Granted(p) PROVE FilesOK'
      BY <1>7 DEF Granted, Buys, Leaves, Ends, Goes
<1>8. ASSUME NEW p \in Procs, GrantedAgain(p) PROVE FilesOK'
      BY <1>8 DEF GrantedAgain, Leaves, Ends, Goes
<1>9. ASSUME NEW p \in Procs, Refused(p) PROVE FilesOK'
      BY <1>9 DEF Refused, Leaves, Ends, Goes
<1>10. ASSUME NEW p \in Procs, NoAnswer(p) PROVE FilesOK'
      BY <1>10 DEF NoAnswer, Leaves, Ends, Goes
<1>11. ASSUME NEW p \in Procs, OpenTmp(p) PROVE FilesOK'
      <2>1. Blank \in Texts(FileOf(command[p]))
            BY <1>11, WriterFacts, WholeType DEF OpenTmp, Prepared
      <2> QED BY <1>11, <2>1 DEF OpenTmp
<1>12. ASSUME NEW p \in Procs, WriteFirstHalf(p) PROVE FilesOK'
      <2> DEFINE f == FileOf(command[p])
      <2>1. f \in Files /\ mine[p] \in Contents(f) BY <1>12, WriterFacts DEF WriteFirstHalf, Prepared
      <2>2. open[p] = "tmp" => tmp[f] \in Texts(f)
            BY <2>1, <1>12, WriterFacts DEF WriteFirstHalf, PlaceInv, Placed, FilesOK
      <2>3. open[p] = "real" => real[f] \in Texts(f)
            BY <2>1, <1>12, WriterFacts DEF WriteFirstHalf, PlaceInv, Placed, FilesOK
      <2>4. open[p] = "tmp" => [tmp[f] EXCEPT ![1] = mine[p]] \in Texts(f) BY <2>1, <2>2, HalfType
      <2>5. open[p] = "real" => [real[f] EXCEPT ![1] = mine[p]] \in Texts(f) BY <2>1, <2>3, HalfType
      <2>6. /\ tmp' = IF open[p] = "tmp" THEN [tmp EXCEPT ![f] = [tmp[f] EXCEPT ![1] = mine[p]]]
                      ELSE tmp
            /\ real' = IF open[p] = "real" THEN [real EXCEPT ![f] = [real[f] EXCEPT ![1] = mine[p]]]
                       ELSE real
            /\ want' = want
            BY <1>12 DEF WriteFirstHalf, Write
      <2> HIDE DEF f
      <2> QED BY <2>1, <2>4, <2>5, <2>6
<1>13. ASSUME NEW p \in Procs, WriteSecondHalf(p) PROVE FilesOK'
      <2> DEFINE f == FileOf(command[p])
      <2>1. f \in Files /\ mine[p] \in Contents(f)
            BY <1>13, WriterFacts DEF WriteSecondHalf, Prepared
      <2>2. open[p] = "tmp" => tmp[f] \in Texts(f)
            BY <2>1, <1>13, WriterFacts DEF WriteSecondHalf, PlaceInv, Placed, FilesOK
      <2>3. open[p] = "real" => real[f] \in Texts(f)
            BY <2>1, <1>13, WriterFacts DEF WriteSecondHalf, PlaceInv, Placed, FilesOK
      <2>4. open[p] = "tmp" => [tmp[f] EXCEPT ![2] = mine[p]] \in Texts(f) BY <2>1, <2>2, HalfType
      <2>5. open[p] = "real" => [real[f] EXCEPT ![2] = mine[p]] \in Texts(f) BY <2>1, <2>3, HalfType
      <2>6. /\ tmp' = IF open[p] = "tmp" THEN [tmp EXCEPT ![f] = [tmp[f] EXCEPT ![2] = mine[p]]]
                      ELSE tmp
            /\ real' = IF open[p] = "real" THEN [real EXCEPT ![f] = [real[f] EXCEPT ![2] = mine[p]]]
                       ELSE real
            /\ want' = want
            BY <1>13 DEF WriteSecondHalf, Write
      <2> HIDE DEF f
      <2> QED BY <2>1, <2>4, <2>5, <2>6
<1>14. ASSUME NEW p \in Procs, Rename(p) PROVE FilesOK'
      <2> DEFINE f == FileOf(command[p])
      <2>1. f \in Files /\ command[p] \in Commands /\ mine[p] \in Contents(f)
            BY <1>14, WriterFacts DEF Rename, Prepared
      <2>2. real' = [real EXCEPT ![f] = tmp[f]] /\ tmp' = [tmp EXCEPT ![f] = None]
            BY <1>14 DEF Rename
      <2>3. PICK d \in Adds(p, f) : want' = [want EXCEPT ![f] = d] BY <1>14 DEF Rename
      <2>4. d \in Contents(f) \cup {None}
            <3>1. CASE f = "auth" BY <2>1, <2>3, <3>1, AddsSession
            <3>2. CASE f # "auth"
                  <4>1. f = "config" /\ Contents(f) = Configs BY <2>1, <3>2 DEF Files, Contents
                  <4>2. want[f] \in Configs \cup {None} BY <2>1, <4>1
                  <4>3. ConfigIn(want[f]) \in Configs BY <4>2, ConfigInType
                  <4>4. PICK x \in Configs : Edits(ConfigIn(want[f]), command[p]) \subseteq {x}
                        BY <2>1, <4>1, <4>3, OneEdit
                  <4>5. Adds(p, f) = IF Edits(ConfigIn(want[f]), command[p]) = {} THEN {want[f]}
                                     ELSE Edits(ConfigIn(want[f]), command[p])
                        BY <4>1, AddsConfig
                  <4> HIDE DEF f
                  <4> QED BY <2>3, <3>2, <4>1, <4>2, <4>4, <4>5
            <3> QED BY <3>1, <3>2
      <2> HIDE DEF f
      <2> QED BY <2>1, <2>2, <2>3, <2>4
<1>15. ASSUME NEW p \in Procs, RenameFails(p) PROVE FilesOK'
      BY <1>15 DEF RenameFails, Leaves, Ends, Goes
<1>16. ASSUME NEW p \in Procs, Unlink(p) PROVE FilesOK'
      BY <1>16 DEF Unlink, Leaves, Ends, Goes
<1>17. ASSUME NEW p \in Procs, Crash(p) PROVE FilesOK'
      BY <1>17 DEF Crash, Leaves, Ends, Goes
<1>18. CASE Expire BY <1>18 DEF Expire
<1>19. CASE UNCHANGED vars BY <1>19 DEF vars
<1> QED
      BY <1>1, <1>2, <1>3, <1>4, <1>5, <1>6, <1>7, <1>8, <1>9, <1>10, <1>11, <1>12, <1>13,
         <1>14, <1>15, <1>16, <1>17, <1>18, <1>19 DEF Next

LEMMA NoneIsNothing ==
    ASSUME NEW f \in Files
    PROVE  None \notin Contents(f) /\ None \notin Texts(f)
OBVIOUS

LEMMA Untouched ==
    ASSUME NEW q \in Procs, Placed(q), UNCHANGED <<tmp, real>>,
           UNCHANGED <<command[q], pc[q], mine[q], open[q]>>
    PROVE  Placed(q)'
BY DEF Placed, Prepared, Refreshes

(* No file goes because one is written.                                        *)
LEMMA WriteKeeps ==
    ASSUME FilesOK, ProcsOK, MineOK, PlaceInv, NEW p \in Procs, Prepared(p),
           NEW half \in {1, 2}, NEW next, Write(p, half, next)
    PROVE  \A g \in Files : /\ tmp[g] # None => tmp'[g] # None
                            /\ real[g] # None => real'[g] # None
<1> DEFINE f == FileOf(command[p])
<1>1. pc[p] # "idle" BY DEF Prepared
<1>2. f \in Files /\ mine[p] \in Contents(f) BY <1>1, WriterFacts
<1>3. tmp[f] # None => [tmp[f] EXCEPT ![half] = mine[p]] # None
      <2>1. tmp[f] # None => tmp[f] \in Texts(f) BY <1>2 DEF FilesOK
      <2>2. tmp[f] # None => [tmp[f] EXCEPT ![half] = mine[p]] \in Texts(f) BY <1>2, <2>1, HalfType
      <2> QED BY <1>2, <2>2, NoneIsNothing
<1>4. real[f] # None => [real[f] EXCEPT ![half] = mine[p]] # None
      <2>1. real[f] # None => real[f] \in Texts(f) BY <1>2 DEF FilesOK
      <2>2. real[f] # None => [real[f] EXCEPT ![half] = mine[p]] \in Texts(f)
            BY <1>2, <2>1, HalfType
      <2> QED BY <1>2, <2>2, NoneIsNothing
<1>5. /\ tmp' = IF open[p] = "tmp" THEN [tmp EXCEPT ![f] = [tmp[f] EXCEPT ![half] = mine[p]]]
                ELSE tmp
      /\ real' = IF open[p] = "real" THEN [real EXCEPT ![f] = [real[f] EXCEPT ![half] = mine[p]]]
                 ELSE real
      BY DEF Write
<1> HIDE DEF f
<1> QED BY <1>2, <1>3, <1>4, <1>5 DEF FilesOK

LEMMA PlaceStep ==
    ASSUME TypeOK, FilesOK, ProcsOK, MineOK, CountersOK, PlaceInv, [Next]_vars
    PROVE  PlaceInv'
<1> USE FileOfType DEF ProcsOK, PlaceInv
<1>1. ASSUME NEW p \in Procs, NEW asked \in Commands, Ask(p, asked) PROVE PlaceInv'
      BY <1>1 DEF Ask, Placed, Prepared, Refreshes
<1>2. ASSUME NEW p \in Procs, Unreadable(p) PROVE PlaceInv'
      <2>1. Placed(p)'
            <3>1. pc'[p] = "idle" /\ command'[p] = None /\ mine'[p] = None
                  BY <1>2 DEF Unreadable, Leaves, Ends
            <3>2. open'[p] = None BY <1>2 DEF Unreadable, Placed
            <3> QED BY <3>1, <3>2 DEF Placed, Prepared, Refreshes
      <2>2. ASSUME NEW q \in Procs, q # p PROVE Placed(q)'
            BY <1>2, <2>2, Untouched DEF Unreadable, Leaves, Ends, Goes
      <2> QED BY <2>1, <2>2
<1>3. ASSUME NEW p \in Procs, ReadConfig(p) PROVE PlaceInv'
      <2>1. CASE Leaves(p)
            <3>1. UNCHANGED <<tmp, real, open>> /\ open[p] = None
                  BY <1>3 DEF ReadConfig, Placed
            <3>2. pc'[p] = "idle" /\ command'[p] = None /\ mine'[p] = None
                  BY <2>1 DEF Leaves, Ends
            <3>3. Placed(p)' BY <3>1, <3>2 DEF Placed, Prepared, Refreshes
            <3>4. ASSUME NEW q \in Procs, q # p PROVE Placed(q)'
                  BY <2>1, <3>1, <3>4, Untouched DEF Leaves, Ends
            <3> QED BY <3>3, <3>4
      <2>2. ASSUME NEW d \in Configs, mine' = [mine EXCEPT ![p] = d], Goes(p, "open")
            PROVE  PlaceInv'
            <3>1. d # None BY NoneIsNothing DEF Contents, Files
            <3>2. pc' = [pc EXCEPT ![p] = "open"] /\ UNCHANGED command BY <2>2 DEF Goes
            <3>3. UNCHANGED <<tmp, real, open>> /\ pc[p] = "read" BY <1>3 DEF ReadConfig
            <3>4. Placed(p)' BY <2>2, <3>1, <3>2, <3>3 DEF Placed, Prepared, Refreshes
            <3>5. ASSUME NEW q \in Procs, q # p PROVE Placed(q)'
                  BY <2>2, <3>2, <3>3, <3>5, Untouched
            <3> QED BY <3>4, <3>5
      <2> QED BY <1>3, <2>1, <2>2, ReadConfigEdit
<1>4. ASSUME NEW p \in Procs, ReadSession(p) PROVE PlaceInv'
      <2>0. /\ FileOf(command[p]) = "auth" /\ open[p] = None /\ command[p] # None
            /\ real["auth"] # None => Content("auth") # None
            BY <1>4, ContentType DEF ReadSession, Busy, Placed, Files
      <2>1. Placed(p)'
            <3>1. CASE Leaves(p)
                  BY <1>4, <2>0, <3>1 DEF ReadSession, Leaves, Ends, Placed, Prepared, Refreshes
            <3>2. CASE /\ real["auth"] # None
                       /\ mine' = [mine EXCEPT ![p] = Content("auth")] /\ Goes(p, "post")
                  BY <1>4, <2>0, <3>2 DEF ReadSession, Goes, Placed, Prepared, Refreshes
            <3> QED BY <1>4, <3>1, <3>2 DEF ReadSession
      <2>2. ASSUME NEW q \in Procs, q # p PROVE Placed(q)'
            BY <1>4, <2>2, Untouched DEF ReadSession, Leaves, Ends, Goes
      <2> QED BY <2>1, <2>2
<1>5. ASSUME NEW p \in Procs, SignIn(p) PROVE PlaceInv'
      <2>1. Placed(p)'
            BY <1>5 DEF SignIn, Leaves, Ends, Goes, Busy, Placed, Prepared, Refreshes
      <2>2. ASSUME NEW q \in Procs, q # p PROVE Placed(q)'
            BY <1>5, <2>2, Untouched DEF SignIn, Leaves, Ends, Goes
      <2> QED BY <2>1, <2>2
<1>6. ASSUME NEW p \in Procs, LookForSession(p) PROVE PlaceInv'
      <2>1. Placed(p)'
            BY <1>6 DEF LookForSession, Leaves, Ends, Goes, Busy, Placed, Prepared, Refreshes
      <2>2. ASSUME NEW q \in Procs, q # p PROVE Placed(q)'
            BY <1>6, <2>2, Untouched DEF LookForSession, Leaves, Ends, Goes
      <2> QED BY <2>1, <2>2
<1>7. ASSUME NEW p \in Procs, Granted(p) PROVE PlaceInv'
      <2>0. issued + 1 # None BY <1>7, NextSession, NoneIsNothing DEF Granted, Buys, Files
      <2>1. Placed(p)'
            BY <1>7, <2>0 DEF Granted, Buys, Leaves, Ends, Goes, Busy, Placed, Prepared, Refreshes
      <2>2. ASSUME NEW q \in Procs, q # p PROVE Placed(q)'
            BY <1>7, <2>2, Untouched DEF Granted, Buys, Leaves, Ends, Goes
      <2> QED BY <2>1, <2>2
<1>8. ASSUME NEW p \in Procs, GrantedAgain(p) PROVE PlaceInv'
      <2>0. heir[mine[p]] # None BY <1>8, HeirType
      <2>1. Placed(p)'
            BY <1>8, <2>0 DEF GrantedAgain, Leaves, Ends, Goes, Busy, Placed, Prepared, Refreshes
      <2>2. ASSUME NEW q \in Procs, q # p PROVE Placed(q)'
            BY <1>8, <2>2, Untouched DEF GrantedAgain, Leaves, Ends, Goes
      <2> QED BY <2>1, <2>2
<1>9. ASSUME NEW p \in Procs, Refused(p) PROVE PlaceInv'
      <2>1. Placed(p)'
            BY <1>9 DEF Refused, Leaves, Ends, Goes, Busy, Placed, Prepared, Refreshes
      <2>2. ASSUME NEW q \in Procs, q # p PROVE Placed(q)'
            BY <1>9, <2>2, Untouched DEF Refused, Leaves, Ends, Goes
      <2> QED BY <2>1, <2>2
<1>10. ASSUME NEW p \in Procs, NoAnswer(p) PROVE PlaceInv'
      <2>1. Placed(p)'
            BY <1>10 DEF NoAnswer, Leaves, Ends, Goes, Busy, Placed, Prepared, Refreshes
      <2>2. ASSUME NEW q \in Procs, q # p PROVE Placed(q)'
            BY <1>10, <2>2, Untouched DEF NoAnswer, Leaves, Ends, Goes
      <2> QED BY <2>1, <2>2
<1>11. ASSUME NEW p \in Procs, OpenTmp(p) PROVE PlaceInv'
      <2>0. /\ FileOf(command[p]) \in Files /\ Blank # None
            /\ \A g \in Files : tmp'[g] \in {tmp[g], Blank}
            BY <1>11, WriterFacts, WholeType, NoneIsNothing DEF OpenTmp, FilesOK
      <2>1. Placed(p)'
            <3>1. /\ UNCHANGED <<command[p], mine[p], real>> /\ pc[p] = "open"
                  /\ pc'[p] = "first half" /\ open'[p] = "tmp"
                  BY <1>11 DEF OpenTmp, Goes
            <3>2. tmp'[FileOf(command[p])] = Blank BY <1>11, <2>0 DEF OpenTmp, FilesOK
            <3> QED BY <2>0, <3>1, <3>2 DEF Placed, Prepared, Refreshes
      <2>2. ASSUME NEW q \in Procs, q # p PROVE Placed(q)'
            <3>1. UNCHANGED <<command[q], pc[q], mine[q], open[q], real>>
                  BY <1>11, <2>2 DEF OpenTmp, Goes
            <3>2. ASSUME command[q] # None, tmp[FileOf(command[q])] # None
                  PROVE  tmp'[FileOf(command[q])] # None
                  BY <2>0, <3>2
            <3>3. open[q] # None => command[q] # None BY DEF Placed
            <3> QED BY <3>1, <3>2, <3>3 DEF Placed, Prepared, Refreshes
      <2> QED BY <2>1, <2>2
<1>12. ASSUME NEW p \in Procs, WriteFirstHalf(p) PROVE PlaceInv'
      <2>0. \A g \in Files : (tmp[g] # None => tmp'[g] # None) /\ (real[g] # None => real'[g] # None)
            <3>1. Prepared(p) /\ Write(p, 1, "second half") BY <1>12 DEF WriteFirstHalf, Prepared
            <3> QED BY <3>1, WriteKeeps
      <2>1. Placed(p)'
            BY <1>12, <2>0 DEF WriteFirstHalf, Write, Goes, Placed, Prepared, Refreshes
      <2>2. ASSUME NEW q \in Procs, q # p PROVE Placed(q)'
            BY <1>12, <2>0, <2>2 DEF WriteFirstHalf, Write, Goes, Placed, Prepared, Refreshes
      <2> QED BY <2>1, <2>2
<1>13. ASSUME NEW p \in Procs, WriteSecondHalf(p) PROVE PlaceInv'
      <2>0. \A g \in Files : (tmp[g] # None => tmp'[g] # None) /\ (real[g] # None => real'[g] # None)
            <3>1. Prepared(p) /\ Write(p, 2, "rename") BY <1>13 DEF WriteSecondHalf, Prepared
            <3> QED BY <3>1, WriteKeeps
      <2>1. Placed(p)'
            BY <1>13, <2>0 DEF WriteSecondHalf, Write, Goes, Placed, Prepared, Refreshes
      <2>2. ASSUME NEW q \in Procs, q # p PROVE Placed(q)'
            BY <1>13, <2>0, <2>2 DEF WriteSecondHalf, Write, Goes, Placed, Prepared, Refreshes
      <2> QED BY <2>1, <2>2
<1>14. ASSUME NEW p \in Procs, Rename(p) PROVE PlaceInv'
      <2> DEFINE f == FileOf(command[p])
      <2>0. /\ command[p] # None /\ open[p] = None /\ tmp[f] # None
            /\ real' = [real EXCEPT ![f] = tmp[f]] /\ tmp' = [tmp EXCEPT ![f] = None]
            /\ open' = Moved(f) /\ Ends(p)
            BY <1>14 DEF Rename, Placed
      <2> HIDE DEF f
      <2>1. Placed(p)' BY <2>0 DEF Moved, Ends, Placed, Prepared, Refreshes
      <2>2. ASSUME NEW q \in Procs, q # p PROVE Placed(q)'
            <3>1. Placed(q) /\ UNCHANGED <<command[q], pc[q], mine[q]>> BY <2>0, <2>2 DEF Leaves, Ends
            <3>2. CASE Busy(q, f)
                  <4>1. /\ open'[q] = IF open[q] = "tmp" THEN "real" ELSE None
                        /\ FileOf(command[q]) = f /\ real'[f] = tmp[f]
                        BY <2>0, <3>2 DEF Moved, Busy, FilesOK
                  <4> QED BY <2>0, <3>1, <4>1 DEF Placed, Prepared, Refreshes
            <3>3. CASE ~Busy(q, f)
                  <4>1. open'[q] = open[q] BY <2>0, <3>3 DEF Moved
                  <4>2. CASE open[q] = None BY <3>1, <4>1, <4>2 DEF Placed, Prepared, Refreshes
                  <4>3. CASE open[q] # None
                        <5>1. FileOf(command[q]) # f BY <3>1, <3>3, <4>3 DEF Placed, Busy
                        <5> QED BY <2>0, <3>1, <4>1, <5>1 DEF Placed, Prepared, Refreshes, FilesOK
                  <4> QED BY <4>2, <4>3
            <3> QED BY <3>2, <3>3
      <2> QED BY <2>1, <2>2
<1>15. ASSUME NEW p \in Procs, RenameFails(p) PROVE PlaceInv'
      <2>1. Placed(p)'
            BY <1>15 DEF RenameFails, Leaves, Ends, Goes, Busy, Placed, Prepared, Refreshes
      <2>2. ASSUME NEW q \in Procs, q # p PROVE Placed(q)'
            BY <1>15, <2>2, Untouched DEF RenameFails, Leaves, Ends, Goes
      <2> QED BY <2>1, <2>2
<1>16. ASSUME NEW p \in Procs, Unlink(p) PROVE PlaceInv'
      <2>0. open[p] = None /\ Ends(p) /\ UNCHANGED tmp BY <1>16 DEF Unlink, Leaves, Placed
      <2>1. /\ \A q \in Procs : open'[q] \in {open[q], None}
            /\ \A q \in Procs : open'[q] = "real" => real'[FileOf(command[q])] # None
            <3>1. CASE real["auth"] = None BY <1>16, <3>1 DEF Unlink, Placed
            <3>2. CASE real["auth"] # None
                  <4>1. /\ real' = [real EXCEPT !["auth"] = None]
                        /\ open' = [q \in Procs |-> IF Busy(q, "auth") /\ open[q] = "real"
                                                     THEN None ELSE open[q]]
                        BY <1>16, <3>2 DEF Unlink
                  <4>2. ASSUME NEW q \in Procs, open'[q] = "real"
                        PROVE  real'[FileOf(command[q])] # None
                        <5>1. open[q] = "real" /\ ~Busy(q, "auth") BY <4>1, <4>2
                        <5>2. FileOf(command[q]) # "auth" BY <5>1 DEF Busy, Placed
                        <5> QED BY <4>1, <5>1, <5>2 DEF Placed, FilesOK
                  <4> QED BY <4>1, <4>2
            <3> QED BY <3>1, <3>2
      <2>2. Placed(p)' BY <2>0, <2>1 DEF Leaves, Ends, Placed, Prepared, Refreshes
      <2>3. ASSUME NEW q \in Procs, q # p PROVE Placed(q)'
            <3>1. Placed(q) /\ UNCHANGED <<command[q], pc[q], mine[q]>> BY <2>0, <2>3 DEF Leaves, Ends
            <3> QED BY <2>0, <2>1, <3>1 DEF Placed, Prepared, Refreshes
      <2> QED BY <2>2, <2>3
<1>17. ASSUME NEW p \in Procs, Crash(p) PROVE PlaceInv'
      <2>1. Placed(p)'
            BY <1>17 DEF Crash, Leaves, Ends, Goes, Busy, Placed, Prepared, Refreshes
      <2>2. ASSUME NEW q \in Procs, q # p PROVE Placed(q)'
            BY <1>17, <2>2, Untouched DEF Crash, Leaves, Ends, Goes
      <2> QED BY <2>1, <2>2
<1>18. CASE Expire BY <1>18 DEF Expire, Placed, Prepared, Refreshes
<1>19. CASE UNCHANGED vars BY <1>19 DEF vars, Placed, Prepared, Refreshes
<1> QED
      BY <1>1, <1>2, <1>3, <1>4, <1>5, <1>6, <1>7, <1>8, <1>9, <1>10, <1>11, <1>12, <1>13,
         <1>14, <1>15, <1>16, <1>17, <1>18, <1>19 DEF Next

--------------------------------------------------------------------------------
(* What a step of one process does to the others, and to each file.            *)

(* The file of the process that steps.                                         *)
Its(p) == FileOf(command[p])

PAct(p) ==
    \/ \E asked \in Commands : Ask(p, asked)
    \/ Unreadable(p) \/ ReadConfig(p) \/ ReadSession(p) \/ SignIn(p)
    \/ LookForSession(p)
    \/ Granted(p) \/ GrantedAgain(p) \/ Refused(p) \/ NoAnswer(p)
    \/ OpenTmp(p) \/ WriteFirstHalf(p) \/ WriteSecondHalf(p)
    \/ Rename(p) \/ RenameFails(p) \/ Unlink(p) \/ Crash(p)

(* The steps that leave every file and temporary file alone.                   *)
Quiet(p) ==
    \/ \E asked \in Commands : Ask(p, asked)
    \/ Unreadable(p) \/ ReadConfig(p) \/ ReadSession(p) \/ SignIn(p)
    \/ LookForSession(p)
    \/ Granted(p) \/ GrantedAgain(p) \/ Refused(p) \/ NoAnswer(p)
    \/ RenameFails(p)

(* A step of a process leaves the files alone, or is one of six.               *)
LEMMA StepKinds ==
    ASSUME NEW p \in Procs, PAct(p)
    PROVE  \/ Quiet(p)
           \/ OpenTmp(p) \/ WriteFirstHalf(p) \/ WriteSecondHalf(p)
           \/ Rename(p) \/ Unlink(p) \/ Crash(p)
BY DEF PAct, Quiet

LEMMA QuietStep ==
    ASSUME ProcsOK, FilesOK, NEW p \in Procs, Quiet(p)
    PROVE  /\ UNCHANGED <<real, tmp, open, want, shared, overtaken, aged>>
           /\ \A q \in Procs : q # p => UNCHANGED <<command[q], pc[q], mine[q]>>
           /\ stale \subseteq stale' \cup {p} /\ stale' \subseteq stale
           /\ pc'[p] \notin {"first half", "second half", "rename"}
<1> USE DEF ProcsOK
<1> DEFINE Goal == /\ UNCHANGED <<real, tmp, open, want, shared, overtaken, aged>>
                   /\ \A q \in Procs : q # p => UNCHANGED <<command[q], pc[q], mine[q]>>
                   /\ stale \subseteq stale' \cup {p} /\ stale' \subseteq stale
                   /\ pc'[p] \notin {"first half", "second half", "rename"}
<1>1. ASSUME NEW asked \in Commands, Ask(p, asked) PROVE Goal BY <1>1 DEF Ask
<1>2. CASE Unreadable(p) BY <1>2 DEF Unreadable, Leaves, Ends
<1>3. CASE ReadConfig(p)
      <2>1. Leaves(p) \/ \E d : mine' = [mine EXCEPT ![p] = d] /\ Goes(p, "open")
            BY <1>3, ReadConfigEdit
      <2>2. UNCHANGED <<files, service, ghosts, bounds>> BY <1>3 DEF ReadConfig
      <2>3. CASE Leaves(p) BY <2>2, <2>3 DEF Leaves, Ends
      <2>4. CASE \E d : mine' = [mine EXCEPT ![p] = d] /\ Goes(p, "open") BY <2>2, <2>4 DEF Goes
      <2> QED BY <2>1, <2>3, <2>4
<1>4. CASE ReadSession(p) BY <1>4 DEF ReadSession, Leaves, Ends, Goes
<1>5. CASE SignIn(p) BY <1>5 DEF SignIn, Goes
<1>6. CASE LookForSession(p) BY <1>6 DEF LookForSession, Leaves, Ends, Goes
<1>7. CASE Granted(p) BY <1>7 DEF Granted, Goes
<1>8. CASE GrantedAgain(p) BY <1>8 DEF GrantedAgain, Goes
<1>9. CASE Refused(p) BY <1>9 DEF Refused, Leaves, Ends
<1>10. CASE NoAnswer(p) BY <1>10 DEF NoAnswer, Leaves, Ends
<1>11. CASE RenameFails(p) BY <1>11 DEF RenameFails, Leaves, Ends
<1> QED BY <1>1, <1>2, <1>3, <1>4, <1>5, <1>6, <1>7, <1>8, <1>9, <1>10, <1>11 DEF Quiet

LEMMA CrashStep ==
    ASSUME NEW p \in Procs, Crash(p)
    PROVE  /\ Leaves(p) /\ command[p] # None /\ Lose(p) /\ open' = [open EXCEPT ![p] = None]
           /\ UNCHANGED <<real, tmp, service, want, overtaken, shared, aged>>
BY Zenon DEF Crash

(* Of the others nothing changes but where the files are that they have open.  *)
LEMMA OthersKeep ==
    ASSUME FilesOK, ProcsOK, NEW p \in Procs, PAct(p), NEW q \in Procs, q # p
    PROVE  UNCHANGED <<command[q], pc[q], mine[q]>>
<1> USE DEF ProcsOK
<1>1. CASE Quiet(p) BY <1>1, QuietStep
<1>2. CASE OpenTmp(p) BY <1>2 DEF OpenTmp, Goes
<1>3. CASE WriteFirstHalf(p) BY <1>3 DEF WriteFirstHalf, Write, Goes
<1>4. CASE WriteSecondHalf(p) BY <1>4 DEF WriteSecondHalf, Write, Goes
<1>5. CASE Rename(p) BY <1>5 DEF Rename, Ends
<1>6. CASE Unlink(p) BY <1>6 DEF Unlink, Leaves, Ends
<1>7. CASE Crash(p) BY <1>7, CrashStep DEF Leaves, Ends
<1> QED BY <1>1, <1>2, <1>3, <1>4, <1>5, <1>6, <1>7, StepKinds

LEMMA GhostsGrow ==
    ASSUME FilesOK, ProcsOK, NEW p \in Procs, PAct(p)
    PROVE  shared \subseteq shared' /\ overtaken \subseteq overtaken' /\ aged \subseteq aged'
<1>1. CASE Quiet(p) BY <1>1, QuietStep
<1>2. CASE OpenTmp(p) BY <1>2 DEF OpenTmp
<1>3. CASE WriteFirstHalf(p) BY <1>3 DEF WriteFirstHalf, Write
<1>4. CASE WriteSecondHalf(p) BY <1>4 DEF WriteSecondHalf, Write
<1>5. CASE Rename(p) BY <1>5 DEF Rename
<1>6. CASE Unlink(p) BY <1>6 DEF Unlink
<1>7. CASE Crash(p) BY <1>7, CrashStep
<1> QED BY <1>1, <1>2, <1>3, <1>4, <1>5, <1>6, <1>7, StepKinds

(* Who holds the temporary file after a step held it before, or has opened it. *)
LEMMA NewHolder ==
    ASSUME FilesOK, ProcsOK, NEW p \in Procs, PAct(p), NEW f \in Files, Holds(p, f)'
    PROVE  \/ Holds(p, f)
           \/ OpenTmp(p) /\ f = Its(p)
<1> USE DEF ProcsOK
<1>1. CASE Quiet(p) BY <1>1, QuietStep DEF Holds
<1>2. CASE OpenTmp(p)
      <2>1. command' = command BY <1>2 DEF OpenTmp, Goes
      <2> QED BY <1>2, <2>1 DEF Holds, Busy, Its
<1>3. CASE WriteFirstHalf(p) BY <1>3 DEF WriteFirstHalf, Write, Goes, Holds, Busy
<1>4. CASE WriteSecondHalf(p) BY <1>4 DEF WriteSecondHalf, Write, Goes, Holds, Busy
<1>5. CASE Rename(p) BY <1>5 DEF Rename, Ends, Holds
<1>6. CASE Unlink(p)
      <2>1. pc'[p] = "idle" BY <1>6 DEF Unlink, Leaves, Ends
      <2> QED BY <2>1 DEF Holds
<1>7. CASE Crash(p)
      <2>1. pc'[p] = "idle" BY <1>7, CrashStep DEF Leaves, Ends
      <2> QED BY <2>1 DEF Holds
<1> QED BY <1>1, <1>2, <1>3, <1>4, <1>5, <1>6, <1>7, StepKinds

LEMMA OpensAlone ==
    ASSUME NEW p \in Procs, OpenTmp(p), Its(p) \notin shared', NEW q \in Procs
    PROVE  ~Holds(q, Its(p))
BY DEF OpenTmp, Its

LEMMA OneHolderStep ==
    ASSUME FilesOK, ProcsOK, OneHolder, NEW p \in Procs, PAct(p)
    PROVE  OneHolder'
<1>1. shared \subseteq shared' BY GhostsGrow
<1>2. \A q \in Procs, f \in Files : q # p => (Holds(q, f)' <=> Holds(q, f))
      BY OthersKeep DEF Holds, Busy
<1>3. ASSUME NEW f \in Files \ shared', NEW q \in Procs, q # p, Holds(p, f)', Holds(q, f)'
      PROVE  FALSE
      <2>1. Holds(q, f) BY <1>2, <1>3
      <2>2. CASE Holds(p, f) BY <1>1, <1>3, <2>1, <2>2 DEF OneHolder
      <2>3. CASE OpenTmp(p) /\ f = Its(p) BY <1>3, <2>1, <2>3, OpensAlone
      <2> QED BY <1>3, <2>2, <2>3, NewHolder
<1> QED BY <1>1, <1>2, <1>3 DEF OneHolder

--------------------------------------------------------------------------------
(* The temporary file is as its holder left it.                                *)

LEMMA TmpIsNotReal == "tmp" # "real"
OBVIOUS

LEMMA Halves ==
    ASSUME NEW c
    PROVE  /\ [Blank EXCEPT ![1] = c] = <<c, None>>
           /\ [<<c, None>> EXCEPT ![2] = c] = <<c, c>>
BY DEF Blank

(* What a process leaves of a temporary file it does not hold or open.         *)
LEMMA TmpKept ==
    ASSUME FilesOK, ProcsOK, MineOK, PlaceInv, NEW p \in Procs, PAct(p), NEW f \in Files,
           ~Holds(p, f), ~(OpenTmp(p) /\ f = Its(p))
    PROVE  /\ UNCHANGED tmp[f]
           /\ \A q \in Procs : q # p /\ open[q] = "tmp" /\ Busy(q, f) => UNCHANGED open[q]
<1> USE DEF ProcsOK, FilesOK
<1>1. CASE Quiet(p) BY <1>1, QuietStep
<1>2. CASE OpenTmp(p) BY <1>2 DEF OpenTmp, Its
<1>3. CASE WriteFirstHalf(p)
      <2>1. f # FileOf(command[p]) BY <1>3 DEF WriteFirstHalf, Holds, Busy, PlaceInv, Placed
      <2> QED BY <1>3, <2>1 DEF WriteFirstHalf, Write
<1>4. CASE WriteSecondHalf(p)
      <2>1. f # FileOf(command[p]) BY <1>4 DEF WriteSecondHalf, Holds, Busy, PlaceInv, Placed
      <2> QED BY <1>4, <2>1 DEF WriteSecondHalf, Write
<1>5. CASE Rename(p)
      <2>1. f # FileOf(command[p]) BY <1>5 DEF Rename, Holds, Busy, PlaceInv, Placed
      <2> QED BY <1>5, <2>1 DEF Rename, Moved, Busy
<1>6. CASE Unlink(p) BY <1>6 DEF Unlink
<1>7. CASE Crash(p) BY <1>7, CrashStep
<1> QED BY <1>1, <1>2, <1>3, <1>4, <1>5, <1>6, <1>7, StepKinds

LEMMA HolderKeeps ==
    ASSUME FilesOK, ProcsOK, MineOK, PlaceInv, OneHolder, TmpInv, NEW p \in Procs, PAct(p),
           NEW f \in Files, f \notin shared', NEW q \in Procs, q # p, Busy(q, f)'
    PROVE  HalfWritten(q, f)'
<1>0. f \notin shared BY GhostsGrow
<1>1. UNCHANGED <<command[q], pc[q], mine[q]>> BY OthersKeep
<1>2. Busy(q, f) /\ HalfWritten(q, f) BY <1>0, <1>1 DEF Busy, TmpInv
<1>3. CASE ~Holds(q, f) BY <1>1, <1>2, <1>3 DEF Holds, HalfWritten
<1>4. CASE Holds(q, f)
      <2>1. ~Holds(p, f) BY <1>0, <1>4 DEF OneHolder
      <2>2. ~(OpenTmp(p) /\ f = Its(p)) BY <1>4, OpensAlone
      <2>3. UNCHANGED tmp[f] /\ (open[q] = "tmp" => UNCHANGED open[q]) BY <1>2, <2>1, <2>2, TmpKept
      <2> QED BY <1>1, <1>2, <2>3 DEF HalfWritten
<1> QED BY <1>3, <1>4

LEMMA HolderSteps ==
    ASSUME FilesOK, ProcsOK, MineOK, PlaceInv, TmpInv, NEW p \in Procs, PAct(p),
           NEW f \in Files, f \notin shared', Busy(p, f)'
    PROVE  HalfWritten(p, f)'
<1> USE DEF ProcsOK, FilesOK
<1>0. f \notin shared BY GhostsGrow
<1>1. CASE Quiet(p) BY <1>1, QuietStep DEF HalfWritten
<1>2. CASE OpenTmp(p)
      <2>1. f = FileOf(command[p]) BY <1>2 DEF OpenTmp, Goes, Busy
      <2> QED BY <1>2, <2>1 DEF OpenTmp, Goes, HalfWritten
<1>3. CASE WriteFirstHalf(p)
      <2>1. f = FileOf(command[p]) /\ Busy(p, f) /\ pc[p] = "first half"
            BY <1>3 DEF WriteFirstHalf, Write, Goes, Busy
      <2>2. open[p] = "tmp" /\ tmp[f] = Blank BY <1>0, <2>1 DEF TmpInv, HalfWritten
      <2>3. tmp'[f] = [Blank EXCEPT ![1] = mine[p]] BY <1>3, <2>1, <2>2 DEF WriteFirstHalf, Write
      <2>4. pc'[p] = "second half" /\ open'[p] = "tmp" /\ UNCHANGED mine
            BY <1>3, <2>2 DEF WriteFirstHalf, Write, Goes
      <2> QED BY <2>3, <2>4, Halves DEF HalfWritten
<1>4. CASE WriteSecondHalf(p)
      <2>1. f = FileOf(command[p]) /\ Busy(p, f) /\ pc[p] = "second half"
            BY <1>4 DEF WriteSecondHalf, Write, Goes, Busy
      <2>2. open[p] = "tmp" /\ tmp[f] = <<mine[p], None>> BY <1>0, <2>1 DEF TmpInv, HalfWritten
      <2>3. tmp'[f] = [<<mine[p], None>> EXCEPT ![2] = mine[p]]
            BY <1>4, <2>1, <2>2 DEF WriteSecondHalf, Write
      <2>4. pc'[p] = "rename" /\ UNCHANGED mine BY <1>4 DEF WriteSecondHalf, Write, Goes
      <2>5. mine[p] # None BY <2>1 DEF PlaceInv, Placed, Prepared
      <2>6. tmp'[f] = Whole(mine[p]) BY <2>3, <2>5, Halves DEF Whole
      <2> QED BY <2>4, <2>6 DEF HalfWritten
<1>5. CASE Rename(p) BY <1>5 DEF Rename, Ends, Busy
<1>6. CASE Unlink(p) BY <1>6 DEF Unlink, Leaves, Ends, Busy
<1>7. CASE Crash(p) BY <1>7, CrashStep DEF Leaves, Ends, Busy
<1> QED BY <1>1, <1>2, <1>3, <1>4, <1>5, <1>6, <1>7, StepKinds

LEMMA TmpStep ==
    ASSUME FilesOK, ProcsOK, MineOK, PlaceInv, OneHolder, TmpInv, NEW p \in Procs, PAct(p)
    PROVE  TmpInv'
<1>1. ASSUME NEW f \in Files, f \notin shared', NEW q \in Procs, Busy(q, f)' PROVE HalfWritten(q, f)'
      BY <1>1, HolderKeeps, HolderSteps
<1> QED BY <1>1 DEF TmpInv

--------------------------------------------------------------------------------
(* What is in place.                                                           *)

(* A process puts its whole content in place, or takes the session away, or    *)
(* leaves the file and what the finished commands add up to as they are.       *)
LEMMA RealMoves ==
    ASSUME FilesOK, ProcsOK, MineOK, PlaceInv, TmpInv, NEW p \in Procs, PAct(p),
           NEW f \in Files, f \notin shared'
    PROVE  \/ Rename(p) /\ f = Its(p) /\ real'[f] = Whole(mine[p]) /\ Started(p, f)
           \/ Unlink(p) /\ f = "auth" /\ real'[f] = None /\ real[f] # None
           \/ /\ UNCHANGED <<real[f], want[f]>>
              /\ ~(Rename(p) /\ f = Its(p)) /\ ~(Unlink(p) /\ f = "auth" /\ real[f] # None)
<1> DEFINE Goal ==
           \/ Rename(p) /\ f = Its(p) /\ real'[f] = Whole(mine[p]) /\ Started(p, f)
           \/ Unlink(p) /\ f = "auth" /\ real'[f] = None /\ real[f] # None
           \/ /\ UNCHANGED <<real[f], want[f]>>
              /\ ~(Rename(p) /\ f = Its(p)) /\ ~(Unlink(p) /\ f = "auth" /\ real[f] # None)
<1> USE DEF FilesOK
<1>0. f \notin shared BY GhostsGrow
<1>a. CASE Rename(p)
      <2>1. pc[p] = "rename" /\ command[p] # None BY <1>a DEF Rename, PlaceInv, Placed
      <2>2. CASE f = Its(p)
            <3>1. Busy(p, f) BY <2>1, <2>2 DEF Busy, Its
            <3>2. tmp[f] = Whole(mine[p]) BY <1>0, <2>1, <3>1 DEF TmpInv, HalfWritten
            <3>3. real'[f] = tmp[f] BY <1>a, <2>2 DEF Rename, Its
            <3> QED BY <1>a, <2>1, <2>2, <3>1, <3>2, <3>3 DEF Started
      <2>3. CASE f # Its(p)
            <3>1. UNCHANGED <<real[f], want[f]>> BY <1>a, <2>3 DEF Rename, Its
            <3>2. ~Unlink(p) BY <2>1 DEF Unlink
            <3> QED BY <2>3, <3>1, <3>2
      <2> QED BY <2>2, <2>3
<1>b. CASE Unlink(p)
      <2>0. ~Rename(p) BY <1>b DEF Unlink, Rename
      <2>1. CASE f = "auth" /\ real[f] # None BY <1>b, <2>1 DEF Unlink
      <2>2. CASE ~(f = "auth" /\ real[f] # None) BY <1>b, <2>0, <2>2 DEF Unlink
      <2> QED BY <2>1, <2>2
<1>c. CASE ~Rename(p) /\ ~Unlink(p)
      <2>1. UNCHANGED real[f] /\ UNCHANGED want[f]
            <3>1. CASE Quiet(p) BY <3>1, QuietStep
            <3>2. CASE OpenTmp(p) BY <3>2 DEF OpenTmp
            <3>3. CASE WriteFirstHalf(p)
                  <4>1. CASE f = FileOf(command[p])
                        <5>1. Busy(p, f) /\ pc[p] = "first half"
                              BY <3>3, <4>1 DEF WriteFirstHalf, Busy, PlaceInv, Placed
                        <5>2. open[p] = "tmp" BY <1>0, <5>1 DEF TmpInv, HalfWritten
                        <5> QED BY <3>3, <5>2, TmpIsNotReal DEF WriteFirstHalf, Write
                  <4>2. CASE f # FileOf(command[p]) BY <3>3, <4>2 DEF WriteFirstHalf, Write
                  <4> QED BY <4>1, <4>2
            <3>4. CASE WriteSecondHalf(p)
                  <4>1. CASE f = FileOf(command[p])
                        <5>1. Busy(p, f) /\ pc[p] = "second half"
                              BY <3>4, <4>1 DEF WriteSecondHalf, Busy, PlaceInv, Placed
                        <5>2. open[p] = "tmp" BY <1>0, <5>1 DEF TmpInv, HalfWritten
                        <5> QED BY <3>4, <5>2, TmpIsNotReal DEF WriteSecondHalf, Write
                  <4>2. CASE f # FileOf(command[p]) BY <3>4, <4>2 DEF WriteSecondHalf, Write
                  <4> QED BY <4>1, <4>2
            <3>5. CASE Crash(p) BY <3>5, CrashStep
            <3> QED BY <1>c, <3>1, <3>2, <3>3, <3>4, <3>5 DEF PAct, Quiet
      <2> QED BY <1>c, <2>1
<1> QED BY <1>a, <1>b, <1>c

LEMMA RealStep ==
    ASSUME FilesOK, ProcsOK, MineOK, PlaceInv, TmpInv, RealInv, NEW p \in Procs, PAct(p)
    PROVE  RealInv'
<1>1. ASSUME NEW f \in Files, f \notin shared'
      PROVE  \E c \in Contents(f) \cup {None} : real'[f] = Whole(c)
      <2>0. f \notin shared BY <1>1, GhostsGrow
      <2>1. CASE Rename(p) /\ f = Its(p) /\ real'[f] = Whole(mine[p])
            <3>1. pc[p] = "rename" BY <2>1 DEF Rename
            <3>2. mine[p] \in Contents(f) BY <2>1, <3>1, WriterFacts DEF Prepared, Its
            <3> QED BY <2>1, <3>2
      <2>2. CASE real'[f] = None
            <3>1. real'[f] = Whole(None) BY <2>2 DEF Whole
            <3> QED BY <3>1
      <2>3. CASE UNCHANGED real[f] BY <1>1, <2>0, <2>3 DEF RealInv
      <2> QED BY <1>1, <2>1, <2>2, <2>3, RealMoves
<1> QED BY <1>1 DEF RealInv, Contents

LEMMA WholeIsOne ==
    ASSUME NEW f \in Files, NEW c \in Contents(f) \cup {None}, NEW d \in Contents(f) \cup {None},
           Whole(c) = Whole(d)
    PROVE  c = d
<1>1. \A x \in Contents(f) : <<x, x>> \in Texts(f) BY DEF Texts
<1>2. \A x \in Contents(f) : x # None /\ <<x, x>> # None BY <1>1
<1> QED BY <1>2 DEF Whole

--------------------------------------------------------------------------------
(* What the finished commands add up to.                                       *)

(* A refresh that was started keeps its place in the chain of sessions.        *)
LEMMA HeirsStay ==
    ASSUME FilesOK, ProcsOK, MineOK, CountersOK, PlaceInv, NEW p \in Procs, PAct(p)
    PROVE  /\ \A s \in Sessions : heir[s] # None => heir'[s] = heir[s]
           /\ expired' = expired
<1>1. CASE Granted(p) BY <1>1, Bought DEF Granted
<1>2. CASE NoAnswer(p)
      <2>1. CASE UNCHANGED <<service, lost>> BY <2>1
      <2>2. CASE Buys(p) BY <2>2, Bought
      <2> QED BY <1>2, <2>1, <2>2 DEF NoAnswer
<1>3. CASE Crash(p) BY <1>3, CrashStep
<1>4. CASE ~Granted(p) /\ ~NoAnswer(p) /\ ~Crash(p)
      <2>1. UNCHANGED service
            BY <1>4 DEF PAct, Ask, Unreadable, ReadConfig, ReadSession, SignIn, LookForSession,
                        GrantedAgain, Refused, OpenTmp, WriteFirstHalf, WriteSecondHalf, Write,
                        Rename, RenameFails, Unlink
      <2> QED BY <2>1
<1> QED BY <1>1, <1>2, <1>3, <1>4

(* Who is not overtaken by a step.                                             *)
LEMMA NotOvertaken ==
    ASSUME FilesOK, ProcsOK, NEW p \in Procs, PAct(p), NEW q \in Procs, q # p, q \notin stale'
    PROVE  /\ q \notin stale
           /\ Rename(p) => ~Edited(q, Its(p))
           /\ Unlink(p) /\ real["auth"] # None => ~Edited(q, "auth")
<1>1. q \notin stale
      <2>1. CASE Quiet(p) BY <2>1, QuietStep
      <2>2. CASE OpenTmp(p) BY <2>2 DEF OpenTmp, Goes
      <2>3. CASE WriteFirstHalf(p) BY <2>3 DEF WriteFirstHalf, Write, Goes
      <2>4. CASE WriteSecondHalf(p) BY <2>4 DEF WriteSecondHalf, Write, Goes
      <2>5. CASE Rename(p) BY <2>5 DEF Rename, Overtake
      <2>6. CASE Unlink(p) BY <2>6 DEF Unlink, Leaves, Overtake
      <2>7. CASE Crash(p) BY <2>7, CrashStep DEF Leaves
      <2> QED BY <2>1, <2>2, <2>3, <2>4, <2>5, <2>6, <2>7 DEF PAct, Quiet
<1>2. Rename(p) => Overtake(p, Its(p)) BY DEF Rename, Its
<1>3. Unlink(p) /\ real["auth"] # None => Overtake(p, "auth") BY DEF Unlink
<1> QED BY <1>1, <1>2, <1>3 DEF Overtake

LEMMA OthersUpToDate ==
    ASSUME FilesOK, ProcsOK, MineOK, CountersOK, PlaceInv, TmpInv, FreshInv,
           NEW p \in Procs, PAct(p), NEW f \in Files, f \notin shared', f \notin overtaken',
           NEW q \in Procs, q # p, q \notin stale', Busy(q, f)'
    PROVE  UpToDate(q, f)'
<1>0. f \notin shared /\ f \notin overtaken BY GhostsGrow
<1>1. UNCHANGED <<command[q], pc[q], mine[q]>> /\ Busy(q, f) BY OthersKeep DEF Busy
<1>2. UpToDate(q, f) BY <1>0, <1>1, NotOvertaken DEF FreshInv
<1>3. CASE UNCHANGED want[f]
      <2>1. f = "auth" => want[f] \in Sessions \cup {None} BY DEF FilesOK, Contents
      <2>2. pc[q] # "idle" BY <1>1 DEF Busy, PlaceInv, Placed
      <2>3. Prepared(q) => mine[q] # None BY <2>2, WriterFacts
      <2> QED BY <1>1, <1>2, <1>3, <2>1, <2>3, HeirsStay DEF UpToDate, Prepared, Refreshes
<1>4. CASE ~UNCHANGED want[f]
      <2>1. ~Edited(q, f) BY <1>4, RealMoves, NotOvertaken
      <2>2. ~Edited(q, f)' BY <1>1, <2>1 DEF Edited, Started, Busy
      <2>3. CASE f = "config"
            <3>1. command'[q].name # "save_session" BY <1>1, <2>3 DEF Busy, FileOf
            <3> QED BY <2>2, <2>3, <3>1 DEF Edited, Started, UpToDate, Prepared
      <2>4. CASE f = "auth" BY <2>2, <2>4 DEF Edited, Started, UpToDate, Prepared, Refreshes
      <2> QED BY <2>3, <2>4 DEF Files
<1> QED BY <1>3, <1>4

(* What a process reads of a file that nobody wrote amiss.                     *)
LEMMA ReadsWanted ==
    ASSUME FilesOK, FreshInv, NEW f \in Files, f \notin shared, f \notin overtaken, Readable(real[f])
    PROVE  Content(f) = want[f]
<1>1. Whole(Content(f)) = Whole(want[f]) /\ Content(f) \in Contents(f) \cup {None}
      BY ContentType DEF FreshInv
<1> QED BY <1>1, WholeIsOne DEF FilesOK

LEMMA OwnUpToDate ==
    ASSUME FilesOK, ProcsOK, MineOK, CountersOK, PlaceInv, TmpInv, FreshInv,
           NEW p \in Procs, PAct(p), NEW f \in Files, f \notin shared', f \notin overtaken',
           p \notin stale', Busy(p, f)'
    PROVE  UpToDate(p, f)'
<1> USE DEF ProcsOK
<1>0. f \notin shared /\ f \notin overtaken BY GhostsGrow
<1>n. ~Ends(p) /\ ~Leaves(p) BY DEF Leaves, Ends, Busy
<1>1. ASSUME NEW asked \in Commands, Ask(p, asked) PROVE UpToDate(p, f)'
      BY <1>1 DEF Ask, UpToDate, Prepared
<1>2. CASE ReadConfig(p)
      <2>1. PICK d \in Configs : /\ Edits(ConfigIn(Content("config")), command[p]) = {d}
                                 /\ mine' = [mine EXCEPT ![p] = d]
                                 /\ Goes(p, "open")
            BY <1>2, <1>n, ReadConfigEdit
      <2>2. Readable(real["config"]) /\ FileOf(command[p]) = "config" /\ UNCHANGED want
            BY <1>2 DEF ReadConfig, Busy
      <2>3. f = "config" /\ UNCHANGED command BY <2>1, <2>2 DEF Goes, Busy
      <2>4. Content(f) = want[f] BY <1>0, <2>2, <2>3, ReadsWanted
      <2>5. mine'[p] \in Edits(ConfigIn(want'[f]), command'[p]) BY <2>1, <2>2, <2>3, <2>4
      <2> QED BY <2>3, <2>5 DEF UpToDate
<1>3. CASE ReadSession(p)
      <2>1. mine' = [mine EXCEPT ![p] = Content("auth")] /\ Goes(p, "post")
            BY <1>3, <1>n DEF ReadSession
      <2>2. Readable(real["auth"]) /\ FileOf(command[p]) = "auth" /\ UNCHANGED want
            BY <1>3 DEF ReadSession, Busy
      <2>3. f = "auth" /\ pc'[p] = "post" BY <2>1, <2>2 DEF Goes, Busy
      <2>4. Content(f) = want[f] BY <1>0, <2>2, <2>3, ReadsWanted
      <2> QED BY <2>1, <2>2, <2>3, <2>4 DEF UpToDate, Prepared
<1>4. CASE SignIn(p)
      <2>1. command'[p].name = "save_session" /\ FileOf(command'[p]) = "auth"
            BY <1>4 DEF SignIn, Goes, Busy
      <2> QED BY <2>1 DEF UpToDate, Refreshes, Busy
<1>5. CASE LookForSession(p)
      <2>1. pc'[p] = "unlink" BY <1>5, <1>n DEF LookForSession, Goes
      <2> QED BY <2>1 DEF UpToDate, Prepared
<1>6. CASE Granted(p) \/ GrantedAgain(p)
      <2>1. Goes(p, "open") /\ pc[p] = "post" /\ UNCHANGED <<want, command>>
            BY <1>6 DEF Granted, GrantedAgain, Buys, Goes
      <2>2. p \notin stale /\ Busy(p, f) /\ FileOf(command[p]) = "auth"
            BY <2>1 DEF Goes, Busy, PlaceInv, Placed
      <2>3. f = "auth" /\ pc'[p] = "open" BY <2>1, <2>2 DEF Goes, Busy
      <2>4. Refreshes(p) => want[f] = mine[p] /\ mine[p] \in Sessions
            BY <1>0, <2>1, <2>2, <2>3, WriterFacts DEF FreshInv, UpToDate
      <2>5. Refreshes(p) => heir'[mine[p]] = mine'[p]
            <3>1. CASE Granted(p) BY <3>1, Bought DEF Granted
            <3>2. CASE GrantedAgain(p) BY <3>2 DEF GrantedAgain
            <3> QED BY <1>6, <3>1, <3>2
      <2>6. None \notin Sessions BY NoneIsNothing DEF Files, Contents
      <2> QED BY <2>1, <2>3, <2>4, <2>5, <2>6 DEF UpToDate, Refreshes
<1>7. CASE OpenTmp(p) \/ WriteFirstHalf(p) \/ WriteSecondHalf(p)
      <2>1. UNCHANGED <<command, mine, want, heir, stale>> /\ Prepared(p) /\ pc'[p] # "post"
            BY <1>7 DEF OpenTmp, WriteFirstHalf, WriteSecondHalf, Write, Goes, Prepared
      <2>2. UpToDate(p, f) BY <1>0, <2>1 DEF FreshInv, Busy
      <2> QED BY <2>1, <2>2 DEF UpToDate, Refreshes
<1>8. CASE Crash(p) BY <1>8, <1>n, CrashStep
<1>9. CASE Unlink(p) BY <1>9, <1>n DEF Unlink
<1> QED
    BY <1>n, <1>1, <1>2, <1>3, <1>4, <1>5, <1>6, <1>7, <1>8, <1>9
    DEF PAct, Unreadable, Refused, NoAnswer, Rename, RenameFails

(* A writer that was not overtaken puts in place what is wanted.               *)
LEMMA PutsWanted ==
    ASSUME FilesOK, ProcsOK, MineOK, PlaceInv, FreshInv, NEW p \in Procs, Rename(p),
           Its(p) \notin shared, Its(p) \notin overtaken'
    PROVE  want'[Its(p)] = mine[p]
<1> DEFINE f == Its(p)
<1>1. /\ pc[p] = "rename" /\ p \notin stale /\ f \notin overtaken /\ f \in Files
      BY FileOfType DEF Rename, Its
<1>2. Busy(p, f) /\ Prepared(p) /\ mine[p] \in Contents(f) /\ mine[p] # None
      BY <1>1, WriterFacts DEF Its, Prepared
<1>3. UpToDate(p, f) BY <1>1, <1>2 DEF FreshInv
<1>4. PICK d \in Adds(p, f) : want' = [want EXCEPT ![f] = d] BY DEF Rename, Its
<1>5. want'[f] = d BY <1>1, <1>4 DEF FilesOK
<1>6. CASE f = "config"
      <2>1. command[p] \in Commands /\ FileOf(command[p]) = "config"
            BY <1>1, <1>6, WriterFacts DEF Its
      <2>2. ConfigIn(want[f]) \in Configs BY <1>1, <1>6, ConfigInType DEF FilesOK, Contents
      <2>3. PICK x \in Configs : Edits(ConfigIn(want[f]), command[p]) \subseteq {x}
            BY <2>1, <2>2, OneEdit
      <2>4. mine[p] \in Edits(ConfigIn(want[f]), command[p]) BY <1>2, <1>3, <1>6 DEF UpToDate
      <2>5. d \in Edits(ConfigIn(want[f]), command[p]) BY <1>4, <1>6, <2>4, AddsConfig
      <2> QED BY <1>5, <2>3, <2>4, <2>5
<1>7. CASE f = "auth" BY <1>2, <1>3, <1>4, <1>5, <1>7, AddsSession DEF UpToDate
<1> QED BY <1>1, <1>6, <1>7 DEF Files

LEMMA FreshStep ==
    ASSUME FilesOK, ProcsOK, MineOK, CountersOK, PlaceInv, TmpInv, FreshInv, NEW p \in Procs, PAct(p)
    PROVE  FreshInv'
<1>1. ASSUME NEW f \in Files, f \notin shared', f \notin overtaken', NEW q \in Procs, q \notin stale',
             Busy(q, f)'
      PROVE  UpToDate(q, f)'
      BY <1>1, OthersUpToDate, OwnUpToDate
<1>2. ASSUME NEW f \in Files, f \notin shared', f \notin overtaken' PROVE real'[f] = Whole(want'[f])
      <2>0. f \notin shared /\ f \notin overtaken BY <1>2, GhostsGrow
      <2>1. CASE Rename(p) /\ f = Its(p) /\ real'[f] = Whole(mine[p])
            BY <1>2, <2>0, <2>1, PutsWanted
      <2>2. CASE Unlink(p) /\ f = "auth" /\ real'[f] = None /\ real[f] # None
            <3>1. want'[f] = None BY <2>2 DEF Unlink, FilesOK
            <3> QED BY <2>2, <3>1 DEF Whole
      <2>3. CASE UNCHANGED <<real[f], want[f]>> BY <2>0, <2>3 DEF FreshInv
      <2> QED BY <1>2, <2>1, <2>2, <2>3, RealMoves
<1> QED BY <1>1, <1>2 DEF FreshInv

--------------------------------------------------------------------------------
(* Sessions.                                                                   *)

LEMMA SpentStep ==
    ASSUME FilesOK, ProcsOK, MineOK, CountersOK, PlaceInv, SpentInv, NEW p \in Procs, PAct(p)
    PROVE  SpentInv'
<1> USE DEF ProcsOK
<1>1. expired' = expired BY HeirsStay
<1>2. ASSUME NEW s \in Sessions, heir'[s] # None PROVE s <= expired'
      <2>1. CASE heir[s] # None BY <1>1, <2>1 DEF SpentInv
      <2>2. CASE heir[s] = None
            <3>1. Buys(p) /\ s = mine[p] /\ Refreshes(p)
                  <4>1. CASE Granted(p) BY <1>2, <2>2, <4>1, Bought DEF Granted
                  <4>2. CASE NoAnswer(p)
                        <5>1. ~UNCHANGED heir BY <1>2, <2>2
                        <5>2. Buys(p) BY <4>2, <5>1 DEF NoAnswer
                        <5> QED BY <1>2, <2>2, <5>2, Bought
                  <4>3. CASE ~Granted(p) /\ ~NoAnswer(p)
                        <5>1. UNCHANGED heir
                              <6>1. CASE Crash(p) BY <6>1, CrashStep
                              <6>2. CASE ~Crash(p)
                                BY <4>3, <6>2 DEF PAct, Ask, Unreadable, ReadConfig, ReadSession, SignIn,
                                   LookForSession, GrantedAgain, Refused, OpenTmp, WriteFirstHalf,
                                   WriteSecondHalf, Write, Rename, RenameFails, Unlink
                              <6> QED BY <6>1, <6>2
                        <5> QED BY <1>2, <2>2, <5>1
                  <4> QED BY <4>1, <4>2, <4>3
            <3>2. Busy(p, "auth") /\ pc[p] = "post" BY <3>1 DEF Buys, Busy, PlaceInv, Placed
            <3> QED BY <1>1, <3>1, <3>2 DEF SpentInv
      <2> QED BY <2>1, <2>2
<1>3. ASSUME NEW q \in Procs, Busy(q, "auth")', Refreshes(q)', pc'[q] = "post"
      PROVE  mine'[q] <= expired'
      <2>1. CASE q # p
            <3>1. UNCHANGED <<command[q], pc[q], mine[q]>> BY <2>1, OthersKeep
            <3> QED BY <1>1, <1>3, <3>1 DEF SpentInv, Busy, Refreshes
      <2>2. CASE q = p
            <3>n. ~Leaves(p) /\ ~Ends(p) BY <1>3, <2>2 DEF Leaves, Ends, Busy
            <3>1. CASE ReadSession(p) BY <1>1, <2>2, <3>1, <3>n DEF ReadSession
            <3>2. CASE SignIn(p) BY <1>3, <2>2, <3>2 DEF SignIn, Goes, Refreshes
            <3>3. CASE Crash(p) BY <3>3, <3>n, CrashStep
            <3>4. ASSUME NEW asked \in Commands, Ask(p, asked) PROVE FALSE
                  BY <1>3, <2>2, <3>4 DEF Ask
            <3>5. CASE ReadConfig(p) BY <1>3, <2>2, <3>5, <3>n, ReadConfigEdit DEF Goes
            <3>6. CASE Unlink(p) BY <3>6, <3>n DEF Unlink
            <3> QED BY <1>3, <2>2, <3>n, <3>1, <3>2, <3>3, <3>4, <3>5, <3>6
                    DEF PAct, Unreadable, LookForSession, Granted, GrantedAgain, Refused, NoAnswer,
                        OpenTmp, WriteFirstHalf, WriteSecondHalf, Write, Rename, RenameFails, Goes
      <2> QED BY <2>1, <2>2
<1> QED BY <1>2, <1>3 DEF SpentInv

(* Who carries the heir of the session on file goes on, puts it in place, or   *)
(* loses it.                                                                   *)
LEMMA CarrierSteps ==
    ASSUME FilesOK, ProcsOK, MineOK, CountersOK, PlaceInv, NEW p \in Procs, PAct(p),
           Started(p, "auth"), ~(Rename(p) /\ Its(p) = "auth")
    PROVE  \/ Started(p, "auth")' /\ mine'[p] = mine[p]
           \/ mine[p] \in lost'
<1> USE DEF ProcsOK
<1>1. Its(p) = "auth" /\ Prepared(p) BY DEF Started, Busy, Its, Prepared
<1>2. CASE OpenTmp(p) \/ WriteFirstHalf(p) \/ WriteSecondHalf(p)
      BY <1>2 DEF OpenTmp, WriteFirstHalf, WriteSecondHalf, Write, Goes, Started, Busy
<1>3. CASE Crash(p) BY <1>3, CrashStep DEF Lose
<1>4. CASE RenameFails(p) BY <1>4 DEF RenameFails, Lose
<1> QED BY <1>1, <1>2, <1>3, <1>4
        DEF PAct, Ask, Unreadable, ReadConfig, ReadSession, SignIn, LookForSession, Granted,
            GrantedAgain, Refused, NoAnswer, Buys, Unlink, Prepared, PlaceInv, Placed

LEMMA LostStays ==
    ASSUME FilesOK, ProcsOK, NEW p \in Procs, PAct(p)
    PROVE  lost \subseteq lost'
<1>1. CASE Crash(p) BY <1>1, CrashStep DEF Lose
<1>2. CASE RenameFails(p) BY <1>2 DEF RenameFails, Lose
<1>3. CASE NoAnswer(p) BY <1>3 DEF NoAnswer
<1> QED BY <1>1, <1>2, <1>3
        DEF PAct, Ask, Unreadable, ReadConfig, ReadSession, SignIn, LookForSession, Granted,
            GrantedAgain, Refused, OpenTmp, WriteFirstHalf, WriteSecondHalf, Write, Rename, Unlink

Usable(s) == heir[s] # None =>
    \/ \E q \in Procs : Started(q, "auth") /\ mine[q] = heir[s]
    \/ heir[s] \in lost
    \/ s \in aged

(* A session that stays on file.                                               *)
LEMMA StaysUsable ==
    ASSUME FilesOK, ProcsOK, MineOK, CountersOK, PlaceInv, NEW p \in Procs, PAct(p),
           ~(Rename(p) /\ Its(p) = "auth"), NEW s \in Sessions, Usable(s)
    PROVE  Usable(s)'
<1> SUFFICES ASSUME heir'[s] # None
             PROVE  \/ \E q \in Procs : Started(q, "auth")' /\ mine'[q] = heir'[s]
                    \/ heir'[s] \in lost'
                    \/ s \in aged'
    BY DEF Usable
<1>1. CASE heir[s] # None
      <2>1. heir'[s] = heir[s] BY <1>1, HeirsStay
      <2>2. CASE heir[s] \in lost \/ s \in aged BY <2>1, <2>2, LostStays, GhostsGrow
      <2>3. ASSUME NEW q \in Procs, Started(q, "auth"), mine[q] = heir[s]
            PROVE  (Started(q, "auth")' /\ mine'[q] = heir'[s]) \/ heir'[s] \in lost'
            <3>1. CASE q = p BY <2>1, <2>3, <3>1, CarrierSteps
            <3>2. CASE q # p BY <2>1, <2>3, <3>2, OthersKeep DEF Started, Busy
            <3> QED BY <3>1, <3>2
      <2> QED BY <1>1, <2>2, <2>3 DEF Usable
<1>2. CASE heir[s] = None
      <2>1. CASE Granted(p)
            <3>1. heir'[s] = issued' /\ issued' = issued + 1 BY <1>2, <2>1, Bought DEF Granted
            <3>2. mine'[p] = issued + 1 /\ Goes(p, "open") BY <2>1 DEF Granted, ProcsOK
            <3>3. Busy(p, "auth") BY <2>1 DEF Granted, Buys, PlaceInv, Placed, Busy
            <3>4. Started(p, "auth")' BY <3>2, <3>3 DEF Goes, Started, Busy, ProcsOK
            <3> QED BY <3>1, <3>2, <3>4
      <2>2. CASE NoAnswer(p)
            <3>1. Buys(p) /\ lost' = lost \cup {issued'} BY <1>2, <2>2 DEF NoAnswer
            <3>2. heir'[s] = issued' BY <1>2, <3>1, Bought
            <3> QED BY <3>1, <3>2
      <2>3. CASE Crash(p) BY <1>2, <2>3, CrashStep
      <2> QED BY <1>2, <2>1, <2>2, <2>3
              DEF PAct, Ask, Unreadable, ReadConfig, ReadSession, SignIn, LookForSession,
                  GrantedAgain, Refused, OpenTmp, WriteFirstHalf, WriteSecondHalf, Write, Rename,
                  RenameFails, Unlink
<1> QED BY <1>1, <1>2

(* A session that is put on file in time is not spent.                         *)
LEMMA SavedUsable ==
    ASSUME FilesOK, ProcsOK, MineOK, CountersOK, PlaceInv, SpentInv, NEW p \in Procs,
           Rename(p), Its(p) = "auth", NEW s \in Sessions, s = mine[p]
    PROVE  Usable(s)'
<1>1. UNCHANGED service /\ (s <= expired => s \in aged') BY DEF Rename, Its
<1>2. heir[s] # None => s <= expired BY DEF SpentInv
<1> QED BY <1>1, <1>2 DEF Usable

LEMMA UsableStep ==
    ASSUME FilesOK, ProcsOK, MineOK, CountersOK, PlaceInv, TmpInv, SpentInv, SessionStaysUsable,
           NEW p \in Procs, PAct(p)
    PROVE  SessionStaysUsable'
<1> SUFFICES ASSUME "auth" \notin shared', NEW s \in Sessions, real'["auth"] = Whole(s)
             PROVE  Usable(s)'
    BY DEF SessionStaysUsable, Usable
<1>0. "auth" \in Files /\ Contents("auth") = Sessions BY DEF Files, Contents
<1>1. CASE Rename(p) /\ Its(p) = "auth"
      <2>0. ~Unlink(p) BY <1>1 DEF Rename, Unlink
      <2>1. real'["auth"] = Whole(mine[p]) BY <1>0, <1>1, <2>0, RealMoves
      <2>2. mine[p] \in Sessions BY <1>0, <1>1, WriterFacts DEF Rename, Prepared, Its
      <2>3. s = mine[p] BY <1>0, <2>1, <2>2, WholeIsOne
      <2> QED BY <1>1, <2>3, SavedUsable
<1>2. CASE ~(Rename(p) /\ Its(p) = "auth")
      <2>1. Whole(s) # None BY <1>0, NoneIsNothing DEF Whole, Texts
      <2>2. UNCHANGED real["auth"] BY <1>0, <1>2, <2>1, RealMoves
      <2>3. "auth" \notin shared BY GhostsGrow
      <2>4. Usable(s) BY <2>2, <2>3 DEF SessionStaysUsable, Usable
      <2> QED BY <1>2, <2>4, StaysUsable
<1> QED BY <1>1, <1>2

--------------------------------------------------------------------------------
LEMMA InitInv == Init => IInv
<1> SUFFICES ASSUME Init PROVE IInv OBVIOUS
<1>0. \E config \in {None} \cup {FirstConfig(p, w) : p \in Profiles, w \in Workspaces},
            session \in {None, 1} :
           want = [f \in Files |-> IF f = "config" THEN config ELSE session]
      BY DEF Init
<1>1. \A f \in Files : want[f] \in Contents(f) \cup {None}
      <2>2. ASSUME NEW p \in Profiles, NEW w \in Workspaces PROVE FirstConfig(p, w) \in Configs
            <3>1. [EmptyConfig EXCEPT !.default = p] \in Configs BY EmptyType DEF Configs
            <3>2. [[EmptyConfig EXCEPT !.default = p] EXCEPT !.workspace[p] = w] \in Configs
                  BY <3>1 DEF Configs
            <3> QED BY <3>2 DEF FirstConfig
      <2>3. 1 \in Sessions BY DEF Sessions
      <2> QED BY <1>0, <2>2, <2>3 DEF Contents, Files
<1>2. DOMAIN want = Files BY <1>0
<1>3. FilesOK
      <2>1. \A f \in Files : Whole(want[f]) \in Texts(f) \cup {None} BY <1>1 DEF Whole, Texts
      <2> QED BY <1>1, <1>2, <2>1 DEF Init, FilesOK
<1>4. ProcsOK BY DEF Init, ProcsOK, Stages
<1>5. MineOK BY DEF Init, MineOK
<1>6. CountersOK BY DEF Init, CountersOK
<1>7. PlaceInv BY DEF Init, PlaceInv, Placed, Prepared
<1>8. OneHolder /\ TmpInv BY DEF Init, OneHolder, TmpInv, Holds, Busy
<1>9. RealInv BY <1>1 DEF Init, RealInv
<1>10. FreshInv BY DEF Init, FreshInv, Busy
<1>11. SpentInv /\ SessionStaysUsable BY DEF Init, SpentInv, SessionStaysUsable, Busy
<1> QED BY <1>3, <1>4, <1>5, <1>6, <1>7, <1>8, <1>9, <1>10, <1>11, TypeParts DEF IInv

(* Sessions expire, and what is spent has expired before.                      *)
LEMMA ExpireInv ==
    ASSUME IInv, CountersOK, Expire
    PROVE  /\ PlaceInv' /\ OneHolder' /\ TmpInv' /\ RealInv' /\ FreshInv'
           /\ SpentInv' /\ SessionStaysUsable'
<1> USE DEF IInv
<1>1. UNCHANGED <<files, command, pc, mine, issued, heir, stale, ghosts>> BY DEF Expire
<1>2. PlaceInv' BY <1>1 DEF PlaceInv, Placed, Prepared, Refreshes
<1>3. OneHolder' /\ TmpInv' /\ RealInv'
      <2>1. OneHolder'
            <3>1. \A p \in Procs, f \in Files : Holds(p, f)' <=> Holds(p, f) BY <1>1 DEF Holds, Busy
            <3> QED BY <3>1, <1>1 DEF OneHolder
      <2>2. TmpInv' BY <1>1 DEF TmpInv, HalfWritten, Busy
      <2>3. RealInv' BY <1>1 DEF RealInv, Contents
      <2> QED BY <2>1, <2>2, <2>3
<1>4. FreshInv'
      <2>1. \A p \in Procs, f \in Files : Busy(p, f) /\ UpToDate(p, f) => UpToDate(p, f)'
            BY <1>1 DEF UpToDate, Prepared, Refreshes
      <2>2. \A p \in Procs, f \in Files : Busy(p, f)' <=> Busy(p, f) BY <1>1 DEF Busy
      <2> QED BY <1>1, <2>1, <2>2 DEF FreshInv
<1>5. SpentInv'
      <2>1. issued \in Nat /\ expired \in Nat /\ expired' = issued /\ expired < issued
            BY DEF CountersOK, Expire
      <2>2. ASSUME NEW x \in Sessions, x <= expired PROVE x <= expired'
            BY <2>1, <2>2 DEF Sessions
      <2>3. ASSUME NEW p \in Procs, Busy(p, "auth"), Refreshes(p), pc[p] = "post"
            PROVE  mine[p] \in Sessions
            BY <2>3, TypeParts, WriterFacts
      <2> QED BY <1>1, <2>2, <2>3 DEF SpentInv, Busy, Refreshes
<1>6. SessionStaysUsable' BY <1>1 DEF SessionStaysUsable, Started, Busy
<1> QED BY <1>2, <1>3, <1>4, <1>5, <1>6

LEMMA StutterInv ==
    ASSUME IInv, UNCHANGED vars
    PROVE  /\ PlaceInv' /\ OneHolder' /\ TmpInv' /\ RealInv' /\ FreshInv'
           /\ SpentInv' /\ SessionStaysUsable'
<1> USE DEF IInv, vars
<1>1. PlaceInv' BY DEF PlaceInv, Placed, Prepared, Refreshes
<1>2. OneHolder' /\ TmpInv' /\ RealInv'
      <2>1. OneHolder'
            <3>1. \A p \in Procs, f \in Files : Holds(p, f)' <=> Holds(p, f) BY DEF Holds, Busy
            <3> QED BY <3>1 DEF OneHolder
      <2>2. TmpInv' BY DEF TmpInv, HalfWritten, Busy
      <2>3. RealInv' BY DEF RealInv, Contents
      <2> QED BY <2>1, <2>2, <2>3
<1>3. FreshInv'
      <2>1. \A p \in Procs, f \in Files : Busy(p, f) /\ UpToDate(p, f) => UpToDate(p, f)'
            BY DEF UpToDate, Prepared, Refreshes
      <2>2. \A p \in Procs, f \in Files : Busy(p, f)' <=> Busy(p, f) BY DEF Busy
      <2> QED BY <2>1, <2>2 DEF FreshInv
<1>4. SpentInv' BY DEF SpentInv, Busy, Refreshes
<1>5. SessionStaysUsable' BY DEF SessionStaysUsable, Started, Busy
<1> QED BY <1>1, <1>2, <1>3, <1>4, <1>5

LEMMA StepInv == IInv /\ [Next]_vars => IInv'
<1> SUFFICES ASSUME IInv, [Next]_vars PROVE IInv' OBVIOUS
<1> USE DEF IInv
<1>1. FilesOK /\ ProcsOK /\ MineOK /\ CountersOK BY TypeParts
<1>2. FilesOK' /\ ProcsOK' /\ MineOK' /\ CountersOK'
      BY <1>1, FilesStep, ProcsStep, MineStep, CountersStep
<1>3. TypeOK' BY <1>2, TypeParts, PTL
<1>4. PlaceInv' BY <1>1, PlaceStep
<1>5. ASSUME NEW p \in Procs, PAct(p)
      PROVE  OneHolder' /\ TmpInv' /\ RealInv' /\ FreshInv' /\ SpentInv' /\ SessionStaysUsable'
      BY <1>1, <1>5, OneHolderStep, TmpStep, RealStep, FreshStep, SpentStep, UsableStep
<1>6. CASE Expire BY <1>1, <1>3, <1>6, ExpireInv
<1>7. CASE UNCHANGED vars BY <1>3, <1>7, StutterInv
<1> QED BY <1>3, <1>4, <1>5, <1>6, <1>7 DEF Next, PAct

LEMMA Invariance == Spec => []IInv
BY InitInv, StepInv, PTL DEF Spec

(* Every variable keeps its type.                                              *)
THEOREM TypeCorrect == Spec => []TypeOK
<1>1. IInv => TypeOK BY DEF IInv
<1> QED BY <1>1, Invariance, PTL

(* Whatever overlaps and whatever is killed, a file can be read unless two     *)
(* processes were in its temporary file at once (config.py, auth.py), and      *)
(* nothing a finished command wrote is lost unless one wrote what it made of   *)
(* an older file.                                                              *)
THEOREM FilesKeptWhole == Spec => []KeptWhole
<1>1. IInv => KeptWhole
      <2> SUFFICES ASSUME IInv, NEW f \in Files \ shared
                   PROVE  Readable(real[f]) /\ (f \notin overtaken => real[f] = Whole(want[f]))
          BY DEF KeptWhole
      <2>1. PICK c \in Contents(f) \cup {None} : real[f] = Whole(c) BY DEF IInv, RealInv
      <2>2. Readable(real[f]) BY <2>1 DEF Readable, Whole
      <2> QED BY <2>2 DEF IInv, FreshInv
<1> QED BY <1>1, Invariance, PTL

(* However many processes refresh and sign in at once: the refresh token that  *)
(* is on file is spent only while its heir is on the way there, or when the    *)
(* heir was lost or came too late (auth.py).                                   *)
THEOREM SessionUsable == Spec => []SessionStaysUsable
<1>1. IInv => SessionStaysUsable BY DEF IInv
<1> QED BY <1>1, Invariance, PTL
================================================================================
