---------------------------- MODULE DefinitionWrite ----------------------------
(***************************************************************************)
(* One definition write of a deployment: Client._write_definition, from    *)
(* the comparison that may skip it, through the HTTP request layer         *)
(* (Client._request_response), to the probes that reconcile a write whose  *)
(* answer was lost (_write_definition_uncached, _confirmed_definition) and *)
(* the status the deploy wrapper (_environment_scoped_deploy) reports.     *)
(*                                                                         *)
(* Beside the client the module has the platform, which keeps versions of  *)
(* resources, and rival deployers that write the same resource.  The       *)
(* platform is modelled from the answers the client distinguishes.         *)
(***************************************************************************)
EXTENDS Integers, Sequences, FiniteSets

CONSTANTS
    Values,         \* contents of one group of definition fields
    Ours,           \* the definition this call submits
    Ids,            \* resource ids the platform may hand out
    PatchId,        \* the resource a PATCH addresses
    Attempts,       \* DEPLOY_REQUEST_ATTEMPTS
    RateLimit,      \* RATE_LIMIT_ATTEMPTS
    MaxRivals,      \* bound: writes of rival deployers
    MaxInterrupts   \* bound: Ctrl-C pressed during the call

(* A definition has fields the resource response shows and fields only the *)
(* pinned version shows (step_graph, source, ...).                         *)
Definitions == [resource : Values, version : Values]

ASSUME OursAssumption == Ours \in Definitions
ASSUME IdsAssumption == Ids \subseteq Nat /\ PatchId \in Ids
ASSUME AttemptsAssumption == Attempts \in Nat \ {0}
ASSUME BoundsAssumption ==
    RateLimit \in Nat /\ MaxRivals \in Nat /\ MaxInterrupts \in Nat

VARIABLES
    job,        \* the write: method, whether it compares, has a build, needs a version
    stage,      \* which request of the call is being made
    req,        \* the request layer's state for that request
    probe,      \* read-back attempts already used
    found,      \* the resource the call is about to adopt
    pin,        \* the version a probe reads: its number and its own fields
    status,     \* the target's status, as the report shows it
    store,      \* platform: the versions of each resource, oldest first
    delayed,    \* own writes the client gave up on and the platform may still take
    commits,    \* own writes the platform has applied
    held,       \* resources that held Ours at some instant of this call
    lapse,      \* why a committed write was not recognised as one
    rivals,     \* writes of rival deployers so far
    interrupts  \* Ctrl-C pressed so far

client   == <<job, stage, req, probe, found, pin, status, lapse, interrupts>>
platform == <<store, delayed, commits, held, rivals>>
vars     == <<client, platform>>

Statuses  == {"unattempted", "unchanged", "succeeded", "failed", "uncertain"}
Probing   == {"list", "get", "version", "reread"}
Requests  == {"compare", "write"} \cup Probing
Stages    == Requests \cup {"acknowledged", "done"}
Wires     == {"idle", "sent", "answered", "waiting"}
Classes   == {"ok", "mangled", "refused", "absent", "unauthorized", "throttled", "held_off", "broken"}
NoVersion == 0

NoReply == [class |-> "ok", ids |-> {}, current |-> NoVersion, body |-> Ours]
Replies == [class : Classes, ids : SUBSET Ids, current : Nat, body : Definitions]
Fresh   == [wire |-> "idle", attempt |-> 0, throttled |-> 0, refreshed |-> FALSE, reply |-> NoReply]
NoPin   == [version |-> NoVersion, body |-> Ours.version]

ReadOnly(s) == s \in Probing
Last(i)     == store[i][Len(store[i])]
Existing    == {i \in Ids : store[i] # <<>>}
FirstProbe  == IF job.method = "PATCH" THEN "get" ELSE "list"

TypeOK ==
    /\ job \in [method : {"POST", "PATCH"}, compares : BOOLEAN, build : BOOLEAN, pinned : BOOLEAN]
    /\ stage \in Stages
    /\ req \in [wire : Wires, attempt : 0..(Attempts - 1), throttled : 0..RateLimit,
                refreshed : BOOLEAN, reply : Replies]
    /\ probe \in 0..(Attempts - 1)
    /\ found \in Ids
    /\ pin \in [version : Nat, body : Values]
    /\ status \in Statuses
    /\ store \in [Ids -> Seq(Definitions)]
    /\ delayed \in Nat /\ commits \in Nat
    /\ held \subseteq Ids
    /\ lapse \in {"none", "mangled", "interrupted"}
    /\ rivals \in 0..MaxRivals
    /\ interrupts \in 0..MaxInterrupts

(* A POST follows a lookup that found no resource, a PATCH one that did.   *)
Init ==
    /\ \E method \in {"POST", "PATCH"}, compares, build, pinned \in BOOLEAN :
          /\ compares => method = "PATCH"
          /\ job = [method |-> method, compares |-> compares, build |-> build, pinned |-> pinned]
          /\ stage = IF compares THEN "compare" ELSE "write"
    /\ \E old \in Definitions :
          store = [i \in Ids |-> IF job.method = "PATCH" /\ i = PatchId THEN <<old>> ELSE <<>>]
    /\ held = {i \in Existing : Last(i) = Ours}
    /\ req = Fresh /\ probe = 0 /\ found = PatchId /\ pin = NoPin
    /\ status = "unattempted" /\ lapse = "none"
    /\ delayed = 0 /\ commits = 0 /\ rivals = 0 /\ interrupts = 0

--------------------------------------------------------------------------------
(* The platform.                                                           *)

(* The new version of a definition d: on the addressed resource, or on a   *)
(* new one.                                                                *)
PutAt(i, d) ==
    /\ store' = [store EXCEPT ![i] = Append(@, d)]
    /\ held' = IF d = Ours THEN held \cup {i} ELSE held

WriteSlot(i) ==
    IF job.method = "PATCH" THEN i = PatchId
    ELSE i \in Ids \ Existing /\ \A j \in Ids \ Existing : i <= j

Commit(i) == WriteSlot(i) /\ PutAt(i, Ours) /\ commits' = commits + 1

Answer(class, ids, current, body) ==
    req' = [req EXCEPT !.wire = "answered",
                       !.reply = [class |-> class, ids |-> ids, current |-> current, body |-> body]]

(* The platform refuses without doing anything: a definite 4xx, an expired *)
(* token, the workspace's request budget; or breaks before doing anything. *)
Refuse ==
    /\ req.wire = "sent"
    /\ \E class \in {"refused", "absent", "unauthorized", "throttled", "held_off", "broken"} :
          Answer(class, {}, NoVersion, Ours)
    /\ UNCHANGED <<job, stage, probe, found, pin, status, lapse, interrupts, platform>>

(* The write is applied; its answer is a 2xx, a 2xx whose body is cut or   *)
(* is no JSON object, or an error raised after the commit.                 *)
AcceptWrite ==
    /\ req.wire = "sent" /\ stage = "write"
    /\ \E i \in Ids, class \in {"ok", "mangled", "broken"} :
          Commit(i) /\ Answer(class, {i}, NoVersion, Ours)
    /\ UNCHANGED <<job, stage, probe, found, pin, status, lapse, interrupts, delayed, rivals>>

(* What a request that changes nothing reads: the comparison's verdict (ids*)
(* is not empty on a match), the resources of this name, a resource with   *)
(* its current version, the fields of one version.                         *)
AnswerRead ==
    /\ req.wire = "sent" /\ stage # "write"
    /\ \E class \in {"ok", "mangled"} :
         \/ /\ stage = "compare"
            /\ Answer(class, {i \in {PatchId} : Last(i) = Ours}, NoVersion, Ours)
         \/ /\ stage = "list"
            /\ Answer(class, Existing, NoVersion, Ours)
         \/ /\ stage \in {"get", "reread"}
            /\ Answer(class, {found}, Len(store[found]), Last(found))
         \/ /\ stage = "version"
            /\ Answer(class, {found}, pin.version, store[found][pin.version])
    /\ UNCHANGED <<job, stage, probe, found, pin, status, lapse, interrupts, platform>>

(* A write the client no longer waits for is applied after all, or is lost.*)
LateCommit ==
    /\ delayed > 0 /\ delayed' = delayed - 1
    /\ \E i \in Ids : Commit(i)
    /\ UNCHANGED <<client, rivals>>

LateLoss ==
    /\ delayed > 0 /\ delayed' = delayed - 1
    /\ UNCHANGED <<client, store, commits, held, rivals>>

(* While the call lasts, another deployer writes the resource, or creates  *)
(* one of the same name.                                                   *)
RivalWrite ==
    /\ stage # "done" /\ rivals < MaxRivals /\ rivals' = rivals + 1
    /\ \E i \in Ids, d \in Definitions :
          /\ i \in Existing \/ (job.method = "POST" /\ WriteSlot(i))
          /\ PutAt(i, d)
    /\ UNCHANGED <<client, delayed, commits>>

--------------------------------------------------------------------------------
(* The deploy wrapper and the callers of the request layer.                *)

(* An exception reaches the wrapper: the target is uncertain if it was     *)
(* marked so, failed otherwise.                                            *)
RaiseForgetsTheMark(st) ==
    /\ stage' = "done" /\ req' = Fresh /\ status' = "failed"
    /\ UNCHANGED <<probe, found, pin>>
Raise(st) ==
    /\ stage' = "done" /\ req' = Fresh
    /\ status' = IF st = "uncertain" THEN "uncertain" ELSE "failed"
    /\ UNCHANGED <<probe, found, pin>>

Goto(s) == stage' = s /\ req' = Fresh

(* One more read-back, or the original error again.                        *)
NextProbeForEver ==
    Goto(FirstProbe) /\ UNCHANGED <<probe, found, pin, status>>
NextProbe ==
    IF probe + 1 < Attempts
    THEN /\ Goto(FirstProbe) /\ probe' = probe + 1
         /\ UNCHANGED <<found, pin, status>>
    ELSE Raise(status)

(* The request ended with an error that says nothing was done.             *)
DefiniteError == IF stage \in Probing THEN NextProbe ELSE Raise(status)

(* The request was not read-only and may have been applied.  Only the      *)
(* write itself is read back; a comparison just raises.                    *)
AmbiguousError ==
    IF stage = "write"
    THEN Goto(FirstProbe) /\ probe' = 0 /\ status' = "uncertain" /\ UNCHANGED <<found, pin>>
    ELSE Raise("uncertain")

(* The next attempt of the same request.                                   *)
Retry ==
    /\ req' = [req EXCEPT !.wire = "idle", !.attempt = @ + 1, !.throttled = 0, !.reply = NoReply]
    /\ UNCHANGED <<stage, probe, found, pin, status>>

MoreAttemptsOneTooMany == req.attempt < Attempts
MoreAttempts == req.attempt + 1 < Attempts

(* The body of a 2xx the probe reads and what it concludes from it.        *)
Confirm ==
    /\ stage' = "acknowledged" /\ req' = Fresh /\ status' = "unattempted"
    /\ UNCHANGED <<probe, found, pin>>

(* Which failures are retried, and which leave the outcome open: a read is *)
(* repeated; a write that may have been applied is not.                    *)
SafeToRetryAnything == TRUE
SafeToRetry == ReadOnly(stage)

RetriedAnyTransient == req.reply.class \in {"throttled", "held_off", "broken"}
RetriedStatus == ReadOnly(stage) /\ req.reply.class \in {"throttled", "held_off", "broken"}

AmbiguousNever == FALSE
AmbiguousStatus == ~ReadOnly(stage) /\ req.reply.class = "broken"

--------------------------------------------------------------------------------
(* The request layer: Client._request_response.                            *)

Send ==
    /\ stage \in Requests /\ req.wire \in {"idle", "waiting"}
    /\ req' = [req EXCEPT !.wire = "sent"]
    /\ UNCHANGED <<job, stage, probe, found, pin, status, lapse, interrupts, platform>>

(* No connection was established: the one failure after which even a write *)
(* is sent again.                                                          *)
ConnectTimeout ==
    /\ req.wire = "sent"
    /\ IF MoreAttempts THEN Retry ELSE DefiniteError
    /\ UNCHANGED <<job, lapse, interrupts, platform>>

(* No answer in time, or the connection broke, whether or not the platform *)
(* has handled the request.                                                *)
LostAnswer ==
    /\ req.wire \in {"sent", "answered"}
    /\ delayed' = IF stage = "write" /\ req.wire = "sent" THEN delayed + 1 ELSE delayed
    /\ CASE SafeToRetry /\ MoreAttempts -> Retry
         [] SafeToRetry /\ ~MoreAttempts -> DefiniteError
         [] OTHER -> AmbiguousError
    /\ UNCHANGED <<job, lapse, interrupts, store, commits, held, rivals>>

(* 401 with a token read from disk, before any wait of this attempt: the   *)
(* token is dropped and the request sent again, once per request.          *)
RefreshToken ==
    /\ req.wire = "answered" /\ req.reply.class = "unauthorized"
    /\ ~req.refreshed /\ req.throttled = 0
    /\ req' = [req EXCEPT !.wire = "waiting", !.refreshed = TRUE, !.reply = NoReply]
    /\ UNCHANGED <<job, stage, probe, found, pin, status, lapse, interrupts, platform>>

(* 429 with a wait worth waiting: any request is sent again.               *)
Throttle ==
    /\ req.wire = "answered" /\ req.reply.class = "throttled" /\ req.throttled < RateLimit
    /\ req' = [req EXCEPT !.wire = "waiting", !.throttled = @ + 1, !.reply = NoReply]
    /\ UNCHANGED <<job, stage, probe, found, pin, status, lapse, interrupts, platform>>

(* An error response the layer hands on, after the attempts of a read.     *)
ErrorResponse ==
    /\ req.wire = "answered"
    /\ \/ req.reply.class \in {"refused", "unauthorized", "held_off", "broken"}
       \/ req.reply.class = "absent" /\ stage # "compare"
       \/ req.reply.class = "throttled" /\ req.throttled = RateLimit
    /\ CASE RetriedStatus /\ MoreAttempts -> Retry
         [] AmbiguousStatus -> AmbiguousError
         [] OTHER -> DefiniteError
    /\ UNCHANGED <<job, lapse, interrupts, platform>>

(* A 2xx whose body cannot be read or has the wrong shape: an error like   *)
(* any other to the caller, whatever the request did.                      *)
UnreadableBody ==
    /\ req.wire = "answered" /\ req.reply.class = "mangled"
    /\ lapse' = IF stage = "write" THEN "mangled" ELSE lapse
    /\ DefiniteError
    /\ UNCHANGED <<job, interrupts, platform>>

--------------------------------------------------------------------------------
(* The answers to the five kinds of request.                               *)

Answered(s) == stage = s /\ req.wire = "answered" /\ req.reply.class = "ok"

(* A match is the outcome; otherwise, and on a backend without the route,  *)
(* the definition is written.                                              *)
MatchedUnlessRefuted == req.reply.class = "absent" \/ req.reply.ids # {}
Matched == req.reply.ids # {}

Compared ==
    /\ \/ Answered("compare")
       \/ stage = "compare" /\ req.wire = "answered" /\ req.reply.class = "absent"
    /\ IF Matched
       THEN stage' = "acknowledged" /\ status' = "unchanged"
       ELSE stage' = "write" /\ status' = status
    /\ req' = Fresh
    /\ UNCHANGED <<job, probe, found, pin, lapse, interrupts, platform>>

Written ==
    /\ Answered("write")
    /\ Goto("acknowledged")
    /\ found' \in req.reply.ids
    /\ UNCHANGED <<job, probe, pin, status, lapse, interrupts, platform>>

(* A created resource is looked for by name; none or several prove nothing.*)
Listed ==
    /\ Answered("list")
    /\ IF Cardinality(req.reply.ids) = 1
       THEN Goto("get") /\ found' \in req.reply.ids /\ UNCHANGED <<probe, pin, status>>
       ELSE NextProbe
    /\ UNCHANGED <<job, lapse, interrupts, platform>>

(* A build cannot be confirmed from the definition.  Fields the resource   *)
(* does not show are read from the version it pins.                        *)
GotResource ==
    /\ Answered("get")
    /\ CASE job.build -> NextProbe
         [] ~job.build /\ job.pinned ->
              /\ Goto("version")
              /\ pin' = [pin EXCEPT !.version = req.reply.current]
              /\ UNCHANGED <<probe, found, status>>
         [] OTHER -> IF req.reply.body = Ours THEN Confirm ELSE NextProbe
    /\ UNCHANGED <<job, lapse, interrupts, platform>>

GotVersion ==
    /\ Answered("version")
    /\ Goto("reread")
    /\ pin' = [pin EXCEPT !.body = req.reply.body.version]
    /\ UNCHANGED <<job, probe, found, status, lapse, interrupts, platform>>

(* The resource again: only if it still pins that version may the fields   *)
(* of the two be put together.                                             *)
SamePinUnchecked == TRUE
SamePin == req.reply.current = pin.version

Reread ==
    /\ Answered("reread")
    /\ IF SamePin /\ req.reply.body.resource = Ours.resource /\ pin.body = Ours.version
       THEN Confirm ELSE NextProbe
    /\ UNCHANGED <<job, lapse, interrupts, platform>>

(* The wrapper records the outcome of a deploy that returned.              *)
Report ==
    /\ stage = "acknowledged"
    /\ stage' = "done"
    /\ status' = IF status = "unchanged" THEN "unchanged" ELSE "succeeded"
    /\ UNCHANGED <<job, req, probe, found, pin, lapse, interrupts, platform>>

(* Ctrl-C.  While a request that is not read-only is under way the target  *)
(* is marked uncertain; anywhere else the wrapper sees only the exception. *)
Interrupt ==
    /\ stage # "done" /\ interrupts < MaxInterrupts
    /\ interrupts' = interrupts + 1
    /\ LET awaiting == req.wire # "idle" /\ ~ReadOnly(stage)
       IN Raise(IF awaiting THEN "uncertain" ELSE status)
    /\ lapse' = IF stage = "acknowledged" THEN "interrupted" ELSE lapse
    /\ delayed' = IF stage = "write" /\ req.wire = "sent" THEN delayed + 1 ELSE delayed
    /\ UNCHANGED <<job, store, commits, held, rivals>>

Finished == stage = "done" /\ UNCHANGED vars

--------------------------------------------------------------------------------
ClientStep ==
    \/ Send \/ ConnectTimeout \/ LostAnswer \/ RefreshToken \/ Throttle
    \/ ErrorResponse \/ UnreadableBody \/ Compared \/ Written \/ Listed
    \/ GotResource \/ GotVersion \/ Reread \/ Report

PlatformStep == Refuse \/ AcceptWrite \/ AnswerRead \/ LateCommit \/ LateLoss \/ RivalWrite

Next == ClientStep \/ PlatformStep \/ Interrupt \/ Finished

(* Every request has a timeout, so the client never waits for ever for the *)
(* platform: fairness of its own steps is all that is assumed.             *)
Spec == Init /\ [][Next]_vars /\ WF_vars(ClientStep)

--------------------------------------------------------------------------------
(* Properties.                                                             *)

(* However the write is retried, throttled, re-authorised, lost or probed, *)
(* the platform applies it at most once per call.                          *)
AtMostOneCommit == commits + delayed <= 1

(* The write is sent again only when every earlier sending of it is known  *)
(* to have done nothing: none was applied and none may still be.           *)
NoReplay ==
    [][stage = "write" /\ req.wire # "sent" /\ req'.wire = "sent"
         => commits = 0 /\ delayed = 0]_vars

(* A target reported succeeded or unchanged has a resource behind it that  *)
(* held exactly the submitted definition at some instant of the call; two  *)
(* versions of a rival never pass for it together.                         *)
AdoptedWasHeld ==
    stage \in {"acknowledged", "done"} /\ status \in {"unattempted", "succeeded", "unchanged"}
      => found \in held

(* Failed is a promise: the platform did not take the write and never will,*)
(* except when a readable answer was not to be had or Ctrl-C fell between  *)
(* the answer and the report.                                              *)
FailedMeansRefused ==
    stage = "done" /\ status = "failed" /\ lapse = "none" => commits = 0 /\ delayed = 0

(* What README.md promises of an ambiguous write: it is confirmed by       *)
(* reading back, or the outcome stays uncertain - it is never just failed. *)
AmbiguousNeverFailed ==
    stage = "done" /\ status = "failed" => commits = 0 /\ delayed = 0

(* A write that was marked uncertain and is not confirmed stays uncertain: *)
(* no probe, error or Ctrl-C after it turns the mark into failed.          *)
UncertainUntilConfirmed ==
    [][status = "uncertain" /\ stage # "done" =>
         status' = "uncertain" \/ (status' = "unattempted" /\ found \in held)]_vars

(* Every call ends with a report.                                          *)
Termination == <>(stage = "done")

(* The write call implements what a deployment promises of it: the answer, *)
(* the probes and the retries never report more than is known.             *)
Outcome == INSTANCE WriteOutcome WITH
    outcome <- IF stage = "done" THEN status ELSE "open",
    effect  <- CASE commits > 0 -> "applied"
                 [] commits = 0 /\ (delayed > 0 \/ (stage = "write" /\ req.wire = "sent")) -> "possible"
                 [] OTHER -> "none",
    backed  <- held # {},
    excused <- stage = "done" /\ lapse # "none"

ImplementsOutcome == Outcome!Spec
================================================================================
