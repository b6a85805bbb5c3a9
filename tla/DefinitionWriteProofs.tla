------------------------- MODULE DefinitionWriteProofs -------------------------
(***************************************************************************)
(* Proofs about one definition write: for every definition, every set of   *)
(* resource ids and every bound on attempts, waits, rivals and Ctrl-C.     *)
(*                                                                         *)
(* One inductive invariant, Inv, carries all the theorems.  Its parts say  *)
(* what the client may rely on when it acts on an answer: Reads (what an   *)
(* answer shows is a version the platform kept), Effects (which stages     *)
(* exclude that the write was applied) and Backing (what the client has    *)
(* concluded from its reads).                                              *)
(***************************************************************************)
EXTENDS DefinitionWrite, TLAPS

Versions(i) == DOMAIN store[i]
Reading(s)  == stage = s /\ req.wire = "answered" /\ req.reply.class = "ok"

Reads ==
    /\ job.method = "PATCH" => PatchId \in Existing /\ found \in Existing
    /\ stage = "compare" => job.method = "PATCH" /\ found = PatchId
    /\ req.reply.ids \subseteq Existing
    /\ stage \in {"get", "version", "reread"} => found \in Existing
    /\ stage \in {"version", "reread"} => pin.version \in Versions(found)
    /\ stage = "reread" => pin.body = store[found][pin.version].version
    /\ Reading("version") => req.reply.body = store[found][pin.version]
    /\ Reading("get") \/ Reading("reread") =>
         /\ req.reply.current \in Versions(found)
         /\ req.reply.body = store[found][req.reply.current]

NothingDone == commits = 0 /\ delayed = 0

Effects ==
    /\ commits + delayed <= 1
    /\ stage \in {"acknowledged", "done"} => req.wire = "idle"
    /\ stage = "compare" => NothingDone
    /\ stage = "write" => delayed = 0
    /\ stage = "write" /\ req.wire # "answered" => commits = 0
    /\ stage = "write" /\ req.wire = "answered" =>
         req.reply.class \in {"ok", "mangled", "broken"} \/ commits = 0
    /\ stage \in {"compare", "write"} => status = "unattempted"
    /\ stage \in Probing => status = "uncertain"
    /\ stage = "acknowledged" => status \in {"unattempted", "unchanged"}
    /\ stage = "done" => status # "unattempted"
    /\ status = "unchanged" => NothingDone
    /\ lapse # "none" => stage = "done"
    /\ FailedMeansRefused

Kept == \A i \in Ids : \A k \in Versions(i) : store[i][k] = Ours => i \in held

Backing ==
    /\ Kept
    /\ stage = "compare" => req.reply.ids \subseteq held \cap {PatchId}
    /\ Reading("write") => req.reply.ids \subseteq held
    /\ AdoptedWasHeld

Inv == TypeOK /\ Reads /\ Effects /\ Backing

--------------------------------------------------------------------------------
(* What the platform's own step does: nothing kept is lost.                *)

(* Appending a version keeps every earlier version where it was, and the   *)
(* record of which resources held Ours stays complete.                     *)
LEMMA PutAtKeeps ==
    ASSUME TypeOK, Kept, NEW i \in Ids, NEW d \in Definitions, PutAt(i, d)
    PROVE  /\ store' \in [Ids -> Seq(Definitions)]
           /\ held' \subseteq Ids /\ held \subseteq held'
           /\ d = Ours => i \in held'
           /\ Existing' = Existing \cup {i}
           /\ \A j \in Ids : \A k \in Versions(j) :
                 k \in Versions(j)' /\ store'[j][k] = store[j][k]
           /\ Kept'
  <1>1. store \in [Ids -> Seq(Definitions)] /\ held \subseteq Ids
    BY DEF TypeOK
  <1>2. store' = [store EXCEPT ![i] = Append(store[i], d)]
    BY DEF PutAt
  <1>3. \A j \in Ids : store[j] \in Seq(Definitions)
    BY <1>1
  <1>4. \A j \in Ids : j # i => store'[j] = store[j]
    BY <1>1, <1>2
  <1>5. store'[i] = Append(store[i], d)
    BY <1>1, <1>2
  <1>6. store' \in [Ids -> Seq(Definitions)]
    BY <1>1, <1>2, <1>3
  <1>7. /\ DOMAIN store[i] = 1..Len(store[i]) /\ Len(store[i]) \in Nat
        /\ DOMAIN store'[i] = 1..(Len(store[i]) + 1)
        /\ \A k \in 1..Len(store[i]) : store'[i][k] = store[i][k]
        /\ store'[i][Len(store[i]) + 1] = d
    BY <1>3, <1>5
  <1>8. held' \subseteq Ids /\ held \subseteq held' /\ (d = Ours => i \in held')
    BY <1>1 DEF PutAt
  <1>9. store'[i] # <<>>
    BY <1>7
  <1>10. Existing' = Existing \cup {i}
    BY <1>4, <1>9 DEF Existing
  <1>11. \A j \in Ids : \A k \in Versions(j) :
            k \in Versions(j)' /\ store'[j][k] = store[j][k]
    BY <1>4, <1>7 DEF Versions
  <1>12. Kept'
    <2> SUFFICES ASSUME NEW j \in Ids, NEW k \in DOMAIN store'[j], store'[j][k] = Ours
                 PROVE  j \in held'
      BY DEF Kept, Versions
    <2>1. CASE j # i
      BY <2>1, <1>4, <1>8 DEF Kept, Versions
    <2>2. CASE j = i /\ k \in 1..Len(store[i])
      BY <2>2, <1>7, <1>8 DEF Kept, Versions
    <2>3. CASE j = i /\ k = Len(store[i]) + 1
      BY <2>3, <1>7, <1>8
    <2> QED
      BY <2>1, <2>2, <2>3, <1>7
  <1> QED
    BY <1>6, <1>8, <1>10, <1>11, <1>12

(* The latest version of an existing resource is one of its versions.      *)
LEMMA LastIsAVersion ==
    ASSUME TypeOK, NEW i \in Existing
    PROVE  /\ Len(store[i]) \in Versions(i)
           /\ Last(i) = store[i][Len(store[i])] /\ Last(i) \in Definitions
           /\ \A k \in Versions(i) : k \in Nat /\ store[i][k] \in Definitions
  <1>1. store[i] \in Seq(Definitions) /\ store[i] # <<>>
    BY DEF TypeOK, Existing
  <1>2. Len(store[i]) \in Nat /\ Len(store[i]) > 0
    BY <1>1
  <1> QED
    BY <1>1, <1>2 DEF Versions, Last

--------------------------------------------------------------------------------
(* Type correctness.                                                       *)

RequestStates ==
    [wire : Wires, attempt : 0..(Attempts - 1), throttled : 0..RateLimit,
     refreshed : BOOLEAN, reply : Replies]

(* What the client's own variables may be after a step.                    *)
ClientTyped ==
    /\ stage \in Stages
    /\ req \in RequestStates
    /\ probe \in 0..(Attempts - 1)
    /\ found \in Ids
    /\ pin \in [version : Nat, body : Values]
    /\ status \in Statuses

(* A request that was never sent is a legal request state.                 *)
LEMMA FreshIsARequestState ==
    Fresh \in RequestStates /\ NoReply \in Replies /\ NoPin \in [version : Nat, body : Values]
  BY OursAssumption, AttemptsAssumption, BoundsAssumption
  DEF Fresh, RequestStates, NoReply, Replies, NoPin, NoVersion, Definitions, Wires, Classes

(* However a request ends, the client's variables keep their types.        *)
LEMMA RequestEnds ==
    ASSUME TypeOK,
           \/ DefiniteError \/ AmbiguousError \/ NextProbe \/ Confirm
           \/ (MoreAttempts /\ Retry)
           \/ \E st \in {"uncertain", status} : Raise(st)
    PROVE  ClientTyped'
  <1>1. ClientTyped
    BY DEF TypeOK, ClientTyped, RequestStates
  <1>2. ASSUME \E st \in {"uncertain", status} : Raise(st)
        PROVE  ClientTyped'
    BY <1>1, <1>2, FreshIsARequestState DEF ClientTyped, Raise, Stages, Statuses
  <1>3. ASSUME NextProbe PROVE ClientTyped'
    <2>1. CASE probe + 1 < Attempts
      BY <1>1, <1>3, <2>1, FreshIsARequestState, AttemptsAssumption
      DEF ClientTyped, NextProbe, Goto, FirstProbe, Stages, Requests, Probing
    <2>2. CASE ~(probe + 1 < Attempts)
      BY <1>2, <1>3, <2>2 DEF NextProbe
    <2> QED
      BY <2>1, <2>2
  <1>4. CASE DefiniteError
    BY <1>2, <1>3, <1>4 DEF DefiniteError
  <1>5. CASE AmbiguousError
    <2>1. CASE stage = "write"
      BY <1>1, <1>5, <2>1, FreshIsARequestState, AttemptsAssumption
      DEF ClientTyped, AmbiguousError, Goto, FirstProbe, Stages, Requests, Probing, Statuses
    <2>2. CASE stage # "write"
      BY <1>2, <1>5, <2>2 DEF AmbiguousError
    <2> QED
      BY <2>1, <2>2
  <1>6. CASE Confirm
    BY <1>1, <1>6, FreshIsARequestState DEF ClientTyped, Confirm, Stages, Statuses
  <1>7. CASE MoreAttempts /\ Retry
    <2>1. /\ req.attempt + 1 \in 0..(Attempts - 1)
          /\ "idle" \in Wires /\ 0 \in 0..RateLimit
      BY <1>1, <1>7, AttemptsAssumption, BoundsAssumption
      DEF ClientTyped, RequestStates, MoreAttempts, Wires
    <2>2. req' \in RequestStates
      BY <1>1, <1>7, <2>1, FreshIsARequestState DEF ClientTyped, RequestStates, Retry
    <2> QED
      BY <1>1, <1>7, <2>2 DEF ClientTyped, Retry, Stages, Statuses
  <1> QED
    BY <1>2, <1>3, <1>4, <1>5, <1>6, <1>7

(* An answer of the platform is a reply of the declared shape.             *)
LEMMA AnswerTyped ==
    ASSUME TypeOK, NEW class \in Classes, NEW ids \in SUBSET Ids, NEW current \in Nat,
           NEW body \in Definitions, Answer(class, ids, current, body)
    PROVE  req' \in RequestStates
  BY DEF TypeOK, Answer, RequestStates, Replies, Wires

(* What the steps of the client leave alone, and what they count.          *)
LEMMA TypeParts ==
    ASSUME TypeOK, ClientTyped', UNCHANGED <<job, rivals, store, commits, held>>,
           delayed' \in {delayed, delayed + 1}, lapse' \in {lapse, "mangled", "interrupted"},
           interrupts' \in 0..MaxInterrupts
    PROVE  TypeOK'
  <1>1. delayed' \in Nat /\ commits' \in Nat /\ lapse' \in {"none", "mangled", "interrupted"}
    BY DEF TypeOK
  <1>2. /\ job' \in [method : {"POST", "PATCH"}, compares : BOOLEAN, build : BOOLEAN, pinned : BOOLEAN]
        /\ store' \in [Ids -> Seq(Definitions)] /\ held' \subseteq Ids /\ rivals' \in 0..MaxRivals
    BY DEF TypeOK
  <1> QED
    BY <1>1, <1>2 DEF TypeOK, ClientTyped, RequestStates

(* What the steps of the platform leave alone, and what they count.        *)
LEMMA TypePlatform ==
    ASSUME TypeOK, req' \in RequestStates, UNCHANGED <<job, stage, probe, found, pin, status, lapse, interrupts>>,
           store' \in [Ids -> Seq(Definitions)], held' \subseteq Ids,
           delayed' \in Nat, commits' \in Nat, rivals' \in 0..MaxRivals
    PROVE  TypeOK'
  BY DEF TypeOK, RequestStates, Stages, Statuses, Definitions, Wires

(* Every step keeps the types.                                             *)
LEMMA TypeStep ==
    ASSUME TypeOK, Reads, Kept, [Next]_vars
    PROVE  TypeOK'
  <1>1. ClientTyped /\ Ours \in Definitions /\ interrupts \in 0..MaxInterrupts
    BY OursAssumption DEF TypeOK, ClientTyped, RequestStates
  <1> USE DEF platform, client
  <1>2. CASE Send
    BY <1>1, <1>2, TypeParts DEF Send, ClientTyped, RequestStates, Wires, Stages, Statuses
  <1>3. CASE ConnectTimeout
    BY <1>1, <1>3, TypeParts, RequestEnds DEF ConnectTimeout
  <1>4. CASE LostAnswer
    BY <1>1, <1>4, TypeParts, RequestEnds DEF LostAnswer
  <1>5. CASE RefreshToken
    BY <1>1, <1>5, TypeParts, FreshIsARequestState
    DEF RefreshToken, ClientTyped, RequestStates, Wires, Stages, Statuses
  <1>6. CASE Throttle
    <2>1. req.throttled + 1 \in 0..RateLimit /\ "waiting" \in Wires
      BY <1>1, <1>6, BoundsAssumption DEF Throttle, ClientTyped, RequestStates, Wires
    <2>2. req' \in RequestStates
      BY <1>1, <1>6, <2>1, FreshIsARequestState DEF Throttle, ClientTyped, RequestStates
    <2> QED
      BY <1>1, <1>6, <2>2, TypeParts DEF Throttle, ClientTyped, Stages, Statuses
  <1>7. CASE ErrorResponse
    BY <1>1, <1>7, TypeParts, RequestEnds DEF ErrorResponse
  <1>8. CASE UnreadableBody
    BY <1>1, <1>8, TypeParts, RequestEnds DEF UnreadableBody
  <1>9. CASE Compared
    BY <1>1, <1>9, TypeParts, FreshIsARequestState
    DEF Compared, ClientTyped, Stages, Requests, Statuses
  <1>10. CASE Written
    <2>1. found' \in Ids
      BY <1>1, <1>10 DEF Written, ClientTyped, RequestStates, Replies
    <2> QED
      BY <1>1, <1>10, <2>1, TypeParts, FreshIsARequestState
      DEF Written, Goto, ClientTyped, Stages, Statuses
  <1>11. CASE Listed
    <2>1. CASE NextProbe
      BY <1>1, <1>11, <2>1, TypeParts, RequestEnds DEF Listed
    <2>2. CASE ~NextProbe
      <3>1. found' \in Ids
        BY <1>1, <1>11, <2>2 DEF Listed, ClientTyped, RequestStates, Replies
      <3> QED
        BY <1>1, <1>11, <2>2, <3>1, TypeParts, FreshIsARequestState
        DEF Listed, Goto, ClientTyped, Stages, Requests, Probing, Statuses
    <2> QED
      BY <2>1, <2>2
  <1>12. CASE GotResource
    <2>1. CASE NextProbe \/ Confirm
      BY <1>1, <1>12, <2>1, TypeParts, RequestEnds DEF GotResource
    <2>2. CASE ~(NextProbe \/ Confirm)
      <3>1. req.reply.current \in Nat
        BY <1>1 DEF ClientTyped, RequestStates, Replies
      <3> QED
        BY <1>1, <1>12, <2>2, <3>1, TypeParts, FreshIsARequestState
        DEF GotResource, Goto, ClientTyped, Stages, Requests, Probing, Statuses
    <2> QED
      BY <2>1, <2>2
  <1>13. CASE GotVersion
    <2>1. req.reply.body.version \in Values
      BY <1>1 DEF ClientTyped, RequestStates, Replies, Definitions
    <2> QED
      BY <1>1, <1>13, <2>1, TypeParts, FreshIsARequestState
      DEF GotVersion, Goto, ClientTyped, Stages, Requests, Probing, Statuses
  <1>14. CASE Reread
    BY <1>1, <1>14, TypeParts, RequestEnds DEF Reread
  <1>15. CASE Report
    BY <1>1, <1>15, TypeParts DEF Report, ClientTyped, RequestStates, Stages, Statuses
  <1>16. CASE Interrupt
    <2>1. \E st \in {"uncertain", status} : Raise(st)
      BY <1>16 DEF Interrupt
    <2>2. interrupts' \in 0..MaxInterrupts
      BY <1>1, <1>16, BoundsAssumption DEF Interrupt
    <2> QED
      BY <1>1, <1>16, <2>1, <2>2, TypeParts, RequestEnds DEF Interrupt
  <1>17. CASE Refuse
    <2>1. PICK class \in Classes : Answer(class, {}, NoVersion, Ours)
      BY <1>17 DEF Refuse, Classes
    <2> QED
      BY <1>1, <1>17, <2>1, AnswerTyped, TypePlatform DEF Refuse, TypeOK, NoVersion
  <1>18. CASE AcceptWrite
    <2>1. PICK i \in Ids, class \in Classes :
            PutAt(i, Ours) /\ commits' = commits + 1 /\ Answer(class, {i}, NoVersion, Ours)
      BY <1>18 DEF AcceptWrite, Commit, Classes
    <2>2. store' \in [Ids -> Seq(Definitions)] /\ held' \subseteq Ids
      BY <1>1, <2>1, PutAtKeeps
    <2>3. req' \in RequestStates
      BY <1>1, <2>1, AnswerTyped DEF NoVersion
    <2> QED
      BY <1>1, <1>18, <2>1, <2>2, <2>3, TypePlatform DEF AcceptWrite, TypeOK
  <1>19. CASE AnswerRead
    <2>1. PICK class \in Classes :
            \/ stage = "compare" /\ Answer(class, {i \in {PatchId} : Last(i) = Ours}, NoVersion, Ours)
            \/ stage = "list" /\ Answer(class, Existing, NoVersion, Ours)
            \/ stage \in {"get", "reread"} /\ Answer(class, {found}, Len(store[found]), Last(found))
            \/ stage = "version" /\ Answer(class, {found}, pin.version, store[found][pin.version])
      BY <1>19 DEF AnswerRead, Classes
    <2>2. req' \in RequestStates
      <3>1. CASE stage = "compare"
        BY <1>1, <2>1, <3>1, IdsAssumption, AnswerTyped DEF NoVersion
      <3>2. CASE stage = "list"
        BY <1>1, <2>1, <3>2, AnswerTyped DEF NoVersion, Existing
      <3>3. CASE stage \in {"get", "reread"}
        <4>1. found \in Existing
          BY <3>3 DEF Reads
        <4>2. Len(store[found]) \in Nat /\ Last(found) \in Definitions /\ {found} \in SUBSET Ids
          BY <1>1, <4>1, LastIsAVersion DEF ClientTyped
        <4> QED
          BY <2>1, <3>3, <4>2, AnswerTyped
      <3>4. CASE stage = "version"
        <4>1. found \in Existing /\ pin.version \in Versions(found)
          BY <3>4 DEF Reads
        <4>2. pin.version \in Nat /\ store[found][pin.version] \in Definitions /\ {found} \in SUBSET Ids
          BY <1>1, <4>1, LastIsAVersion DEF ClientTyped
        <4> QED
          BY <2>1, <3>4, <4>2, AnswerTyped
      <3> QED
        BY <2>1, <3>1, <3>2, <3>3, <3>4
    <2> QED
      BY <1>19, <2>2, TypePlatform DEF AnswerRead, TypeOK
  <1>20. CASE LateCommit
    <2>1. PICK i \in Ids : PutAt(i, Ours) /\ commits' = commits + 1
      BY <1>20 DEF LateCommit, Commit
    <2> QED
      BY <1>1, <1>20, <2>1, PutAtKeeps, TypePlatform DEF LateCommit, TypeOK, ClientTyped
  <1>21. CASE LateLoss
    BY <1>1, <1>21, TypePlatform DEF LateLoss, TypeOK, ClientTyped
  <1>22. CASE RivalWrite
    <2>1. PICK i \in Ids, d \in Definitions : PutAt(i, d)
      BY <1>22 DEF RivalWrite
    <2>2. rivals' \in 0..MaxRivals
      BY <1>22, BoundsAssumption DEF RivalWrite, TypeOK
    <2> QED
      BY <1>1, <1>22, <2>1, <2>2, PutAtKeeps, TypePlatform DEF RivalWrite, TypeOK, ClientTyped
  <1>23. CASE UNCHANGED vars
    BY <1>1, <1>23, TypePlatform DEF vars, TypeOK, ClientTyped
  <1> QED
    BY <1>2, <1>3, <1>4, <1>5, <1>6, <1>7, <1>8, <1>9, <1>10, <1>11, <1>12, <1>13, <1>14,
       <1>15, <1>16, <1>17, <1>18, <1>19, <1>20, <1>21, <1>22, <1>23
    DEF Next, ClientStep, PlatformStep, Finished

--------------------------------------------------------------------------------
(* Reads: what an answer shows is what the platform keeps.                 *)

(* The answer the client finds is the one the platform gave.               *)
LEMMA AnswerIs ==
    ASSUME TypeOK, NEW class, NEW ids, NEW current, NEW body, Answer(class, ids, current, body)
    PROVE  /\ req'.wire = "answered" /\ req'.reply.class = class /\ req'.reply.ids = ids
           /\ req'.reply.current = current /\ req'.reply.body = body
  BY DEF TypeOK, Answer

(* However a request ends, no answer is left over, and the client goes on  *)
(* to another attempt, to its first probe, or to an end.                   *)
LEMMA EndsQuietly ==
    ASSUME TypeOK,
           \/ DefiniteError \/ AmbiguousError \/ NextProbe \/ Confirm
           \/ (MoreAttempts /\ Retry)
           \/ \E st \in {"uncertain", status} : Raise(st)
    PROVE  /\ req'.wire = "idle" /\ req'.reply = NoReply
           /\ found' = found /\ pin' = pin
           /\ stage' \in {stage, FirstProbe, "acknowledged", "done"}
  <1>1. Fresh.wire = "idle" /\ Fresh.reply = NoReply
    BY DEF Fresh
  <1>2. ASSUME Retry PROVE req'.wire = "idle" /\ req'.reply = NoReply
    BY <1>2 DEF Retry, TypeOK
  <1> QED
    BY <1>1, <1>2 DEF DefiniteError, AmbiguousError, NextProbe, Confirm, Retry, Raise, Goto

(* Once the call is over nothing is said about what was read.              *)
LEMMA ReadsAfterTheEnd ==
    ASSUME TypeOK, Reads, UNCHANGED <<job, store, found, pin>>,
           req'.wire # "answered", req'.reply.ids = {},
           stage' \in {stage, FirstProbe, "acknowledged", "done"}
    PROVE  Reads'
  BY DEF Reads, Existing, Versions, Reading, FirstProbe

(* However a request ends, what an earlier read found stays valid.         *)
LEMMA ReadsEnds ==
    ASSUME TypeOK, Reads, UNCHANGED <<job, store>>,
           \/ DefiniteError \/ AmbiguousError \/ NextProbe \/ Confirm
           \/ (MoreAttempts /\ Retry)
           \/ \E st \in {"uncertain", status} : Raise(st)
    PROVE  Reads'
  <1>1. NoReply.ids = {}
    BY DEF NoReply
  <1> QED
    BY <1>1, EndsQuietly, ReadsAfterTheEnd

(* Versions appended behind the client's back leave what it read valid.    *)
LEMMA ReadsKept ==
    ASSUME TypeOK, Reads, Kept, NEW i \in Ids, NEW d \in Definitions, PutAt(i, d),
           UNCHANGED <<job, stage, req, found, pin>>
    PROVE  Reads'
  <1>1. Existing \subseteq Existing'
    BY PutAtKeeps
  <1>2. \A j \in Existing : \A k \in Versions(j) : k \in Versions(j)' /\ store'[j][k] = store[j][k]
    BY PutAtKeeps DEF Existing
  <1> QED
    BY <1>1, <1>2 DEF Reads, Reading, Versions

(* Every step keeps Reads: what the client compares with was really held.  *)
LEMMA ReadsStep ==
    ASSUME TypeOK, Reads, Kept, [Next]_vars
    PROVE  Reads'
  <1> USE DEF platform, client
  <1>1. /\ Fresh.wire = "idle" /\ Fresh.reply = NoReply /\ NoReply.ids = {}
        /\ \A s \in Stages : Goto(s) => req'.wire = "idle" /\ req'.reply.ids = {}
    BY DEF Fresh, NoReply, Goto
  <1>2. CASE Send
    <2>1. req'.wire = "sent" /\ req'.reply = req.reply
      BY <1>2 DEF Send, TypeOK
    <2> QED
      BY <1>2, <2>1 DEF Send, Reads, Reading, Existing, Versions
  <1>3. CASE ConnectTimeout
    BY <1>3, ReadsEnds DEF ConnectTimeout
  <1>4. CASE LostAnswer
    BY <1>4, ReadsEnds DEF LostAnswer
  <1>5. CASE RefreshToken \/ Throttle
    <2>1. req'.wire = "waiting" /\ req'.reply = NoReply
      BY <1>5 DEF RefreshToken, Throttle, TypeOK
    <2> QED
      BY <1>1, <1>5, <2>1, ReadsAfterTheEnd DEF RefreshToken, Throttle
  <1>6. CASE ErrorResponse
    BY <1>6, ReadsEnds DEF ErrorResponse
  <1>7. CASE UnreadableBody
    BY <1>7, ReadsEnds DEF UnreadableBody
  <1>8. CASE Compared
    BY <1>1, <1>8 DEF Compared, Reads, Reading, Existing, Versions
  <1>9. CASE Written
    <2>1. found' \in Existing
      BY <1>9 DEF Written, Reads
    <2> QED
      BY <1>1, <1>9, <2>1 DEF Written, Goto, Reads, Reading, Existing, Versions
  <1>10. CASE Listed
    <2>1. CASE NextProbe
      BY <1>10, <2>1, ReadsEnds DEF Listed
    <2>2. CASE ~NextProbe
      <3>1. Goto("get") /\ found' \in Existing
        BY <1>10, <2>2 DEF Listed, Reads
      <3> QED
        BY <1>1, <1>10, <3>1 DEF Listed, Goto, Reads, Reading, Existing, Versions
    <2> QED
      BY <2>1, <2>2
  <1>11. CASE GotResource
    <2>1. CASE NextProbe \/ Confirm
      BY <1>11, <2>1, ReadsEnds DEF GotResource
    <2>2. CASE ~(NextProbe \/ Confirm)
      <3>1. /\ Goto("version") /\ found' = found /\ stage = "get"
            /\ pin' = [pin EXCEPT !.version = req.reply.current]
        BY <1>11, <2>2 DEF GotResource, Answered
      <3>2. pin'.version \in Versions(found)
        BY <1>11, <3>1 DEF GotResource, Answered, Reads, Reading, TypeOK
      <3> QED
        BY <1>1, <1>11, <3>1, <3>2 DEF GotResource, Goto, Reads, Reading, Existing, Versions
    <2> QED
      BY <2>1, <2>2
  <1>12. CASE GotVersion
    <2>1. pin'.version = pin.version /\ pin'.body = req.reply.body.version
      BY <1>12 DEF GotVersion, TypeOK
    <2>2. req.reply.body = store[found][pin.version]
      BY <1>12 DEF GotVersion, Answered, Reads, Reading
    <2> QED
      BY <1>1, <1>12, <2>1, <2>2
      DEF GotVersion, Answered, Goto, Reads, Reading, Existing, Versions
  <1>13. CASE Reread
    BY <1>13, ReadsEnds DEF Reread
  <1>14. CASE Report
    BY <1>14 DEF Report, Reads, Reading, Existing, Versions
  <1>15. CASE Interrupt
    BY <1>15, ReadsEnds DEF Interrupt
  <1>16. CASE Refuse
    <2>1. PICK class \in Classes \ {"ok", "mangled"} : Answer(class, {}, NoVersion, Ours)
      BY <1>16 DEF Refuse, Classes
    <2>2. req'.reply.class = class /\ req'.reply.ids = {}
      BY <2>1 DEF Answer, TypeOK
    <2> QED
      BY <1>16, <2>1, <2>2 DEF Refuse, Reads, Reading, Existing, Versions
  <1>17. CASE AcceptWrite
    <2>1. PICK i \in Ids, class \in Classes :
            PutAt(i, Ours) /\ Answer(class, {i}, NoVersion, Ours)
      BY <1>17 DEF AcceptWrite, Commit, Classes
    <2>2. Existing' = Existing \cup {i}
      BY <2>1, OursAssumption, PutAtKeeps
    <2>3. req'.reply.ids = {i}
      BY <2>1 DEF Answer, TypeOK
    <2> QED
      BY <1>17, <2>2, <2>3 DEF AcceptWrite, Reads, Reading
  <1>18. CASE AnswerRead
    <2>1. PICK class \in Classes :
            \/ stage = "compare" /\ Answer(class, {i \in {PatchId} : Last(i) = Ours}, NoVersion, Ours)
            \/ stage = "list" /\ Answer(class, Existing, NoVersion, Ours)
            \/ stage \in {"get", "reread"} /\ Answer(class, {found}, Len(store[found]), Last(found))
            \/ stage = "version" /\ Answer(class, {found}, pin.version, store[found][pin.version])
      BY <1>18 DEF AnswerRead, Classes
    <2>2. Existing' = Existing /\ UNCHANGED <<job, stage, found, pin, store>>
      BY <1>18 DEF AnswerRead, Existing
    <2>3. CASE stage = "compare"
      <3>1. req'.reply.ids \subseteq {PatchId} /\ PatchId \in Existing
        BY <2>1, <2>3, AnswerIs DEF Reads
      <3> QED
        BY <2>2, <2>3, <3>1 DEF Reads, Reading, Versions
    <2>4. CASE stage = "list"
      <3>1. req'.reply.ids = Existing
        BY <2>1, <2>4, AnswerIs
      <3> QED
        BY <2>2, <2>4, <3>1 DEF Reads, Reading, Versions
    <2>5. CASE stage \in {"get", "reread"}
      <3>1. /\ req'.reply.ids = {found} /\ req'.reply.current = Len(store[found])
            /\ req'.reply.body = Last(found)
        BY <2>1, <2>5, AnswerIs
      <3>2. found \in Existing
        BY <2>5 DEF Reads
      <3>3. Len(store[found]) \in Versions(found) /\ Last(found) = store[found][Len(store[found])]
        BY <3>2, LastIsAVersion
      <3> QED
        BY <2>2, <2>5, <3>1, <3>2, <3>3 DEF Reads, Reading, Versions
    <2>6. CASE stage = "version"
      <3>1. req'.reply.ids = {found} /\ req'.reply.body = store[found][pin.version]
        BY <2>1, <2>6, AnswerIs
      <3> QED
        BY <2>2, <2>6, <3>1 DEF Reads, Reading, Versions
    <2> QED
      BY <2>1, <2>3, <2>4, <2>5, <2>6
  <1>19. CASE LateCommit
    BY <1>19, OursAssumption, ReadsKept DEF LateCommit, Commit
  <1>20. CASE LateLoss
    BY <1>20 DEF LateLoss, Reads, Reading, Existing, Versions
  <1>21. CASE RivalWrite
    BY <1>21, ReadsKept DEF RivalWrite
  <1>22. CASE UNCHANGED vars
    BY <1>22 DEF vars, Reads, Reading, Existing, Versions
  <1> QED
    BY <1>2, <1>3, <1>4, <1>5, <1>6, <1>7, <1>8, <1>9, <1>10, <1>11, <1>12, <1>13, <1>14,
       <1>15, <1>16, <1>17, <1>18, <1>19, <1>20, <1>21, <1>22
    DEF Next, ClientStep, PlatformStep, Finished

--------------------------------------------------------------------------------
(* Effects: which stages exclude that the write was applied.               *)

(* The call ends in an exception: failed only where nothing was done or    *)
(* the answer was lost on the client's side.                               *)
LEMMA EffectsRaise ==
    ASSUME TypeOK, NEW st, Raise(st), commits' + delayed' <= 1,
           st = "uncertain" \/ (commits' = 0 /\ delayed' = 0) \/ lapse' # "none"
    PROVE  Effects'
  BY DEF Raise, Fresh, Effects, FailedMeansRefused, NothingDone, Probing

(* A probe that fails is followed by another, or by the end of the call.   *)
LEMMA EffectsNextProbe ==
    ASSUME TypeOK, Effects, stage \in Probing, NextProbe, UNCHANGED <<commits, delayed, lapse>>
    PROVE  Effects'
  <1>1. status = "uncertain" /\ commits' + delayed' <= 1
    BY DEF Effects
  <1>2. CASE Raise(status)
    BY <1>1, <1>2, EffectsRaise
  <1>3. CASE ~Raise(status)
    <2>1. stage' \in {"list", "get"} /\ status' = "uncertain"
      BY <1>1, <1>3 DEF NextProbe, Goto, FirstProbe
    <2> QED
      BY <1>1, <2>1 DEF Effects, FailedMeansRefused, NothingDone, Probing
  <1> QED
    BY <1>2, <1>3

(* An error that says nothing was done.                                    *)
LEMMA EffectsDefinite ==
    ASSUME TypeOK, Effects, stage \in Requests, DefiniteError, UNCHANGED <<commits, delayed>>,
           IF stage = "write" THEN commits = 0 \/ lapse' # "none" ELSE lapse' = lapse
    PROVE  Effects'
  <1>1. CASE stage \in Probing
    BY <1>1, EffectsNextProbe DEF DefiniteError, Probing
  <1>2. CASE stage \in {"compare", "write"}
    <2>1. Raise(status) /\ commits' + delayed' <= 1
      BY <1>2 DEF DefiniteError, Probing, Effects
    <2>2. (commits' = 0 /\ delayed' = 0) \/ lapse' # "none"
      BY <1>2 DEF Effects, NothingDone
    <2> QED
      BY <2>1, <2>2, EffectsRaise
  <1> QED
    BY <1>1, <1>2 DEF Requests

(* An error that leaves the outcome open.                                  *)
LEMMA EffectsAmbiguous ==
    ASSUME TypeOK, Effects, AmbiguousError, commits' + delayed' <= 1, lapse' = lapse
    PROVE  Effects'
  <1>1. CASE stage = "write"
    <2>1. stage' \in {"list", "get"} /\ status' = "uncertain"
      BY <1>1 DEF AmbiguousError, Goto, FirstProbe
    <2> QED
      BY <1>1, <2>1 DEF Effects, FailedMeansRefused, NothingDone, Probing
  <1>2. CASE stage # "write"
    BY <1>2, EffectsRaise DEF AmbiguousError
  <1> QED
    BY <1>1, <1>2

(* The same request once more.                                             *)
LEMMA EffectsRetry ==
    ASSUME TypeOK, Effects, stage \in Requests, Retry, UNCHANGED <<commits, delayed, lapse>>,
           stage = "write" => commits = 0
    PROVE  Effects'
  BY DEF Retry, Effects, FailedMeansRefused, NothingDone, Requests, Probing

(* A confirmed write was applied, whatever the error had said before.      *)
LEMMA EffectsConfirm ==
    ASSUME TypeOK, Effects, stage \in Probing, Confirm, UNCHANGED <<commits, delayed, lapse>>
    PROVE  Effects'
  BY DEF Confirm, Fresh, Effects, FailedMeansRefused, NothingDone, Probing

(* Every step keeps Effects: what the status says of the commits.          *)
LEMMA EffectsStep ==
    ASSUME TypeOK, Effects, [Next]_vars
    PROVE  Effects'
  <1> USE DEF platform, client
  <1>1. /\ commits \in Nat /\ delayed \in Nat /\ commits + delayed <= 1
        /\ req.wire # "idle" => stage \in Requests
        /\ stage = "write" /\ req.wire # "answered" => commits = 0 /\ delayed = 0
    BY DEF TypeOK, Effects, Stages
  <1>2. CASE Send
    <2>1. req'.wire = "sent"
      BY <1>2 DEF Send, TypeOK
    <2> QED
      BY <1>1, <1>2, <2>1 DEF Send, Effects, FailedMeansRefused, NothingDone, Requests, Probing
  <1>3. CASE ConnectTimeout
    <2>1. CASE Retry
      BY <1>1, <1>3, <2>1, EffectsRetry DEF ConnectTimeout
    <2>2. CASE DefiniteError
      BY <1>1, <1>3, <2>2, EffectsDefinite DEF ConnectTimeout
    <2> QED
      BY <1>3, <2>1, <2>2 DEF ConnectTimeout
  <1>4. CASE LostAnswer
    <2>1. commits' + delayed' <= 1 /\ stage \in Requests
      BY <1>1, <1>4 DEF LostAnswer
    <2>2. CASE ReadOnly(stage)
      <3>1. UNCHANGED <<commits, delayed, lapse>> /\ stage # "write" /\ SafeToRetry
        BY <1>4, <2>2 DEF LostAnswer, ReadOnly, Probing, SafeToRetry
      <3>2. Retry \/ DefiniteError
        BY <1>4, <3>1 DEF LostAnswer
      <3> QED
        BY <2>1, <3>1, <3>2, EffectsRetry, EffectsDefinite
    <2>3. CASE ~ReadOnly(stage)
      BY <1>4, <2>1, <2>3, EffectsAmbiguous DEF LostAnswer, SafeToRetry
    <2> QED
      BY <2>2, <2>3
  <1>5. CASE RefreshToken
    <2>1. req'.wire = "waiting" /\ (stage = "write" => commits = 0)
      BY <1>5 DEF RefreshToken, TypeOK, Effects
    <2> QED
      BY <1>1, <1>5, <2>1 DEF RefreshToken, Effects, FailedMeansRefused, NothingDone, Requests
  <1>6. CASE Throttle
    <2>1. req'.wire = "waiting" /\ (stage = "write" => commits = 0)
      BY <1>6 DEF Throttle, TypeOK, Effects
    <2> QED
      BY <1>1, <1>6, <2>1 DEF Throttle, Effects, FailedMeansRefused, NothingDone, Requests
  <1>7. CASE ErrorResponse
    <2>1. stage \in Requests /\ UNCHANGED <<commits, delayed, lapse>>
      BY <1>1, <1>7 DEF ErrorResponse
    <2>2. CASE RetriedStatus
      <3>1. stage # "write" /\ ~AmbiguousStatus
        BY <2>2 DEF RetriedStatus, AmbiguousStatus, ReadOnly, Probing
      <3>2. Retry \/ DefiniteError
        BY <1>7, <2>2, <3>1 DEF ErrorResponse
      <3> QED
        BY <2>1, <3>1, <3>2, EffectsRetry, EffectsDefinite
    <2>3. CASE ~RetriedStatus /\ AmbiguousStatus
      BY <1>1, <1>7, <2>1, <2>3, EffectsAmbiguous DEF ErrorResponse
    <2>4. CASE ~RetriedStatus /\ ~AmbiguousStatus
      <3>1. stage = "write" => commits = 0
        BY <1>7, <2>4 DEF ErrorResponse, AmbiguousStatus, ReadOnly, Probing, Effects
      <3> QED
        BY <1>7, <2>1, <2>4, <3>1, EffectsDefinite DEF ErrorResponse
    <2> QED
      BY <2>2, <2>3, <2>4
  <1>8. CASE UnreadableBody
    <2>1. stage \in Requests /\ (IF stage = "write" THEN lapse' # "none" ELSE lapse' = lapse)
      BY <1>1, <1>8 DEF UnreadableBody
    <2> QED
      BY <1>8, <2>1, EffectsDefinite DEF UnreadableBody
  <1>9. CASE Compared
    BY <1>1, <1>9 DEF Compared, Answered, Fresh, Effects, FailedMeansRefused, NothingDone, Probing
  <1>10. CASE Written
    BY <1>1, <1>10 DEF Written, Answered, Goto, Fresh, Effects, FailedMeansRefused, NothingDone, Probing
  <1>11. CASE Listed
    <2>1. stage \in Probing /\ UNCHANGED <<commits, delayed, lapse>>
      BY <1>11 DEF Listed, Answered, Probing
    <2>2. CASE ~NextProbe
      BY <1>1, <1>11, <2>1, <2>2
      DEF Listed, Answered, Goto, Fresh, Effects, FailedMeansRefused, NothingDone, Probing
    <2> QED
      BY <2>1, <2>2, EffectsNextProbe
  <1>12. CASE GotResource
    <2>1. stage \in Probing /\ UNCHANGED <<commits, delayed, lapse>>
      BY <1>12 DEF GotResource, Answered, Probing
    <2>2. CASE ~NextProbe /\ ~Confirm
      BY <1>1, <1>12, <2>1, <2>2
      DEF GotResource, Answered, Goto, Fresh, Effects, FailedMeansRefused, NothingDone, Probing
    <2> QED
      BY <2>1, <2>2, EffectsNextProbe, EffectsConfirm
  <1>13. CASE GotVersion
    BY <1>1, <1>13 DEF GotVersion, Answered, Goto, Fresh, Effects, FailedMeansRefused, NothingDone, Probing
  <1>14. CASE Reread
    <2>1. stage \in Probing /\ UNCHANGED <<commits, delayed, lapse>> /\ (Confirm \/ NextProbe)
      BY <1>14 DEF Reread, Answered, Probing
    <2> QED
      BY <2>1, EffectsNextProbe, EffectsConfirm
  <1>15. CASE Report
    BY <1>1, <1>15 DEF Report, Effects, FailedMeansRefused, NothingDone, Probing
  <1>16. CASE Interrupt
    <2>1. commits' + delayed' <= 1
      BY <1>1, <1>16 DEF Interrupt
    <2>2. PICK st : Raise(st) /\ st = IF req.wire # "idle" /\ ~ReadOnly(stage) THEN "uncertain" ELSE status
      BY <1>16 DEF Interrupt
    <2>3. st = "uncertain" \/ (commits' = 0 /\ delayed' = 0) \/ lapse' # "none"
      <3>1. CASE stage = "acknowledged"
        BY <1>16, <3>1 DEF Interrupt
      <3>2. CASE stage \in Probing
        BY <2>2, <3>2 DEF Effects, ReadOnly
      <3>3. CASE stage = "compare"
        BY <1>16, <3>3 DEF Interrupt, Effects, NothingDone
      <3>4. CASE stage = "write" /\ req.wire # "idle"
        BY <2>2, <3>4 DEF ReadOnly, Probing
      <3>5. CASE stage = "write" /\ req.wire = "idle"
        BY <1>1, <1>16, <3>5 DEF Interrupt
      <3> QED
        BY <1>16, <3>1, <3>2, <3>3, <3>4, <3>5 DEF Interrupt, TypeOK, Stages, Requests
    <2> QED
      BY <2>1, <2>2, <2>3, EffectsRaise
  <1>17. CASE Refuse
    <2>1. PICK class \in {"refused", "absent", "unauthorized", "throttled", "held_off", "broken"} :
            Answer(class, {}, NoVersion, Ours)
      BY <1>17 DEF Refuse
    <2>2. req'.wire = "answered"
      BY <2>1, AnswerIs
    <2> QED
      BY <1>1, <1>17, <2>2 DEF Refuse, Effects, FailedMeansRefused, NothingDone, Requests, Probing
  <1>18. CASE AcceptWrite
    <2>1. PICK i \in Ids, class \in {"ok", "mangled", "broken"} :
            Commit(i) /\ Answer(class, {i}, NoVersion, Ours)
      BY <1>18 DEF AcceptWrite
    <2>2. req'.wire = "answered" /\ req'.reply.class = class /\ commits' = commits + 1
      BY <2>1, AnswerIs DEF Commit
    <2> QED
      BY <1>1, <1>18, <2>1, <2>2 DEF AcceptWrite, Effects, FailedMeansRefused, NothingDone, Probing
  <1>19. CASE AnswerRead
    <2>1. stage \in Requests /\ stage # "write"
      BY <1>1, <1>19 DEF AnswerRead
    <2> QED
      BY <1>1, <1>19, <2>1 DEF AnswerRead, Effects, FailedMeansRefused, NothingDone, Requests
  <1>20. CASE LateCommit
    <2>1. commits' = commits + 1 /\ delayed > 0 /\ delayed' = delayed - 1
      BY <1>20 DEF LateCommit, Commit
    <2> QED
      BY <1>1, <1>20, <2>1 DEF LateCommit, Effects, FailedMeansRefused, NothingDone
  <1>21. CASE LateLoss
    BY <1>1, <1>21 DEF LateLoss, Effects, FailedMeansRefused, NothingDone
  <1>22. CASE RivalWrite
    BY <1>1, <1>22 DEF RivalWrite, Effects, FailedMeansRefused, NothingDone
  <1>23. CASE UNCHANGED vars
    BY <1>1, <1>23 DEF vars, Effects, FailedMeansRefused, NothingDone
  <1> QED
    BY <1>2, <1>3, <1>4, <1>5, <1>6, <1>7, <1>8, <1>9, <1>10, <1>11, <1>12, <1>13, <1>14,
       <1>15, <1>16, <1>17, <1>18, <1>19, <1>20, <1>21, <1>22, <1>23
    DEF Next, ClientStep, PlatformStep, Finished

--------------------------------------------------------------------------------
(* Backing: what the client has concluded from its reads.                  *)

(* However a request ends, short of a confirmation, nothing is adopted.    *)
LEMMA BackingEnds ==
    ASSUME TypeOK, Backing, UNCHANGED <<store, held>>,
           \/ DefiniteError \/ AmbiguousError \/ NextProbe \/ (MoreAttempts /\ Retry)
           \/ \E st \in {"uncertain", status} : Raise(st)
    PROVE  Backing'
  <1>1. req'.wire = "idle" /\ req'.reply.ids = {} /\ found' = found
    BY EndsQuietly DEF NoReply
  <1>2. Kept'
    BY DEF Backing, Kept, Versions
  <1>3. AdoptedWasHeld'
    <2>1. CASE Retry
      BY <2>1, <1>1 DEF Retry, Backing, AdoptedWasHeld
    <2>2. CASE ~Retry
      BY <2>2 DEF DefiniteError, AmbiguousError, NextProbe, Raise, Goto, FirstProbe, AdoptedWasHeld
    <2> QED
      BY <2>1, <2>2
  <1> QED
    BY <1>1, <1>2, <1>3 DEF Backing, Reading

(* A confirmation adopts a resource the platform holds.                    *)
LEMMA BackingConfirm ==
    ASSUME TypeOK, Backing, UNCHANGED <<store, held>>, Confirm, found \in held
    PROVE  Backing'
  BY DEF Backing, Kept, Versions, Confirm, Fresh, NoReply, Reading, AdoptedWasHeld

(* Versions appended behind the client's back take nothing away.           *)
LEMMA BackingKept ==
    ASSUME TypeOK, Backing, NEW i \in Ids, NEW d \in Definitions, PutAt(i, d),
           UNCHANGED <<stage, req, found, status>>
    PROVE  Backing'
  <1>1. Kept' /\ held \subseteq held'
    BY PutAtKeeps DEF Backing
  <1> QED
    BY <1>1 DEF Backing, Reading, AdoptedWasHeld

(* Every step keeps Backing: what is adopted is held by the platform.      *)
LEMMA BackingStep ==
    ASSUME TypeOK, Reads, Effects, Backing, [Next]_vars
    PROVE  Backing'
  <1> USE DEF platform, client
  <1>1. Kept /\ (store' = store /\ held' = held => Kept')
    BY DEF Backing, Kept, Versions
  <1>2. CASE Send
    <2>1. req'.wire = "sent" /\ req'.reply = req.reply
      BY <1>2 DEF Send, TypeOK
    <2> QED
      BY <1>1, <1>2, <2>1 DEF Send, Backing, Reading, AdoptedWasHeld
  <1>3. CASE ConnectTimeout
    BY <1>3, BackingEnds DEF ConnectTimeout
  <1>4. CASE LostAnswer
    BY <1>4, BackingEnds DEF LostAnswer
  <1>5. CASE RefreshToken \/ Throttle
    <2>1. req'.wire = "waiting" /\ req'.reply = NoReply
      BY <1>5 DEF RefreshToken, Throttle, TypeOK
    <2> QED
      BY <1>1, <1>5, <2>1 DEF RefreshToken, Throttle, NoReply, Backing, Reading, AdoptedWasHeld
  <1>6. CASE ErrorResponse
    BY <1>6, BackingEnds DEF ErrorResponse
  <1>7. CASE UnreadableBody
    BY <1>7, BackingEnds DEF UnreadableBody
  <1>8. CASE Compared
    <2>1. stage = "compare" /\ found = PatchId /\ req.reply.ids \subseteq held \cap {PatchId}
      BY <1>8 DEF Compared, Answered, Backing, Reads
    <2>2. Matched => found \in held
      BY <2>1 DEF Matched
    <2> QED
      BY <1>1, <1>8, <2>2 DEF Compared, Fresh, Backing, Reading, AdoptedWasHeld
  <1>9. CASE Written
    <2>1. found' \in held
      BY <1>9 DEF Written, Answered, Backing, Reading
    <2> QED
      BY <1>1, <1>9, <2>1 DEF Written, Goto, Backing, Reading, AdoptedWasHeld
  <1>10. CASE Listed
    <2>1. CASE ~NextProbe
      BY <1>1, <1>10, <2>1 DEF Listed, Goto, Backing, Reading, AdoptedWasHeld
    <2> QED
      BY <1>10, <2>1, BackingEnds DEF Listed
  <1>11. CASE GotResource
    <2>1. CASE Confirm /\ req.reply.body = Ours
      <3>1. found \in Existing /\ req.reply.current \in Versions(found)
            /\ store[found][req.reply.current] = Ours
        BY <1>11, <2>1 DEF GotResource, Answered, Reads, Reading
      <3>2. found \in held
        BY <1>1, <3>1 DEF Kept, Existing
      <3> QED
        BY <1>11, <2>1, <3>2, BackingConfirm DEF GotResource
    <2>2. CASE Goto("version")
      BY <1>1, <1>11, <2>2 DEF GotResource, Goto, Fresh, Backing, Reading, AdoptedWasHeld
    <2>3. CASE NextProbe
      BY <1>11, <2>3, BackingEnds DEF GotResource
    <2> QED
      BY <1>11, <2>1, <2>2, <2>3 DEF GotResource
  <1>12. CASE GotVersion
    BY <1>1, <1>12 DEF GotVersion, Goto, Fresh, Backing, Reading, AdoptedWasHeld
  <1>13. CASE Reread
    <2>1. CASE SamePin /\ req.reply.body.resource = Ours.resource /\ pin.body = Ours.version
      <3>1. /\ found \in Existing /\ req.reply.current \in Versions(found)
            /\ req.reply.body = store[found][req.reply.current]
            /\ pin.body = store[found][pin.version].version
        BY <1>13 DEF Reread, Answered, Reads, Reading
      <3>2. req.reply.body.version = Ours.version
        BY <2>1, <3>1 DEF SamePin
      <3>3. req.reply.body \in Definitions /\ Ours \in Definitions
        BY OursAssumption DEF TypeOK, Replies
      <3>4. req.reply.body = Ours
        BY <2>1, <3>2, <3>3 DEF Definitions
      <3>5. found \in held
        BY <1>1, <3>1, <3>4 DEF Kept, Existing
      <3> QED
        BY <1>13, <2>1, <3>5, BackingConfirm DEF Reread
    <2>2. CASE NextProbe
      BY <1>13, <2>2, BackingEnds DEF Reread
    <2> QED
      BY <1>13, <2>1, <2>2 DEF Reread
  <1>14. CASE Report
    BY <1>1, <1>14 DEF Report, Effects, Backing, Reading, AdoptedWasHeld
  <1>15. CASE Interrupt
    BY <1>15, BackingEnds DEF Interrupt
  <1>16. CASE Refuse
    <2>1. PICK class \in Classes \ {"ok", "mangled"} : Answer(class, {}, NoVersion, Ours)
      BY <1>16 DEF Refuse, Classes
    <2>2. req'.reply.class = class /\ req'.reply.ids = {}
      BY <2>1, AnswerIs
    <2> QED
      BY <1>1, <1>16, <2>1, <2>2 DEF Refuse, Backing, Reading, AdoptedWasHeld
  <1>17. CASE AcceptWrite
    <2>1. PICK i \in Ids, class \in Classes :
            PutAt(i, Ours) /\ Answer(class, {i}, NoVersion, Ours)
      BY <1>17 DEF AcceptWrite, Commit, Classes
    <2>2. Kept' /\ held \subseteq held' /\ i \in held'
      BY <1>1, <2>1, OursAssumption, PutAtKeeps
    <2>3. req'.reply.ids = {i}
      BY <2>1, AnswerIs
    <2> QED
      BY <1>17, <2>2, <2>3 DEF AcceptWrite, Backing, Reading, AdoptedWasHeld
  <1>18. CASE AnswerRead
    <2>1. UNCHANGED <<stage, found, status, store, held>> /\ stage # "write"
      BY <1>18 DEF AnswerRead
    <2>2. CASE stage = "compare"
      <3>1. req'.reply.ids = {i \in {PatchId} : Last(i) = Ours}
        BY <1>18, <2>2, AnswerIs DEF AnswerRead
      <3>2. PatchId \in Existing
        BY <2>2 DEF Reads
      <3>3. Last(PatchId) = Ours => PatchId \in held
        BY <1>1, <3>2, LastIsAVersion DEF Kept, Existing
      <3> QED
        BY <1>1, <2>1, <2>2, <3>1, <3>3 DEF Backing, Reading, AdoptedWasHeld
    <2>3. CASE stage # "compare"
      BY <1>1, <2>1, <2>3 DEF Backing, Reading, AdoptedWasHeld
    <2> QED
      BY <2>2, <2>3
  <1>19. CASE LateCommit
    BY <1>19, OursAssumption, BackingKept DEF LateCommit, Commit
  <1>20. CASE LateLoss
    BY <1>1, <1>20 DEF LateLoss, Backing, Reading, AdoptedWasHeld
  <1>21. CASE RivalWrite
    BY <1>21, BackingKept DEF RivalWrite
  <1>22. CASE UNCHANGED vars
    BY <1>1, <1>22 DEF vars, Backing, Reading, AdoptedWasHeld
  <1> QED
    BY <1>2, <1>3, <1>4, <1>5, <1>6, <1>7, <1>8, <1>9, <1>10, <1>11, <1>12, <1>13, <1>14,
       <1>15, <1>16, <1>17, <1>18, <1>19, <1>20, <1>21, <1>22
    DEF Next, ClientStep, PlatformStep, Finished

--------------------------------------------------------------------------------
(* The inductive invariant and what it implies.                            *)

(* The invariant holds before the call, ...                                *)
LEMMA InvInit == Init => Inv
  <1> SUFFICES ASSUME Init PROVE Inv
    OBVIOUS
  <1>1. PICK old \in Definitions :
          store = [i \in Ids |-> IF job.method = "PATCH" /\ i = PatchId THEN <<old>> ELSE <<>>]
    BY DEF Init
  <1>2. PICK method \in {"POST", "PATCH"}, compares \in BOOLEAN, build \in BOOLEAN, pinned \in BOOLEAN :
          /\ compares => method = "PATCH"
          /\ job = [method |-> method, compares |-> compares, build |-> build, pinned |-> pinned]
          /\ stage = IF compares THEN "compare" ELSE "write"
    BY DEF Init
  <1>3. stage \in {"compare", "write"} /\ (stage = "compare" => job.method = "PATCH")
    BY <1>2
  <1>4. \A i \in Existing : job.method = "PATCH" /\ i = PatchId /\ store[i] = <<old>>
    BY <1>1 DEF Existing
  <1>5. job.method = "PATCH" => PatchId \in Existing
    BY <1>1, IdsAssumption DEF Existing
  <1>6. TypeOK
    <2>1. store \in [Ids -> Seq(Definitions)]
      BY <1>1
    <2>2. probe \in 0..(Attempts - 1) /\ found \in Ids /\ rivals \in 0..MaxRivals /\ interrupts \in 0..MaxInterrupts
      BY AttemptsAssumption, IdsAssumption, BoundsAssumption DEF Init
    <2>3. req \in RequestStates /\ pin \in [version : Nat, body : Values]
      BY FreshIsARequestState DEF Init
    <2> QED
      BY <1>2, <1>3, <2>1, <2>2, <2>3 DEF Init, TypeOK, RequestStates, Stages, Requests, Statuses, Existing
  <1>7. Reads
    BY <1>3, <1>5 DEF Init, Reads, Reading, Fresh, NoReply
  <1>8. Effects
    BY <1>3 DEF Init, Effects, FailedMeansRefused, NothingDone, Probing, Fresh
  <1>9. Kept
    <2> SUFFICES ASSUME NEW i \in Ids, NEW k \in DOMAIN store[i], store[i][k] = Ours
                 PROVE  i \in held
      BY DEF Kept, Versions
    <2>1. i \in Existing
      BY DEF Existing
    <2>2. store[i] = <<old>> /\ Last(i) = old /\ old = Ours
      BY <1>4, <2>1 DEF Last
    <2> QED
      BY <2>1, <2>2 DEF Init
  <1>10. Backing
    BY <1>3, <1>9 DEF Init, Backing, Reading, AdoptedWasHeld, Fresh, NoReply
  <1> QED
    BY <1>6, <1>7, <1>8, <1>10 DEF Inv

(* ... and every step of the client, the platform and a rival keeps it.    *)
LEMMA InvStep == Inv /\ [Next]_vars => Inv'
  <1> SUFFICES ASSUME Inv, [Next]_vars PROVE Inv'
    OBVIOUS
  <1>1. TypeOK /\ Reads /\ Effects /\ Backing /\ Kept
    BY DEF Inv, Backing
  <1> QED
    BY <1>1, TypeStep, ReadsStep, EffectsStep, BackingStep DEF Inv

(* The inductive invariant of one definition write.                        *)
THEOREM InvAlways == Spec => []Inv
  BY InvInit, InvStep, PTL DEF Spec

(* Every variable of the call, the request layer and the platform keeps    *)
(* its type, whatever the definition and the bounds: an answer the client  *)
(* reads is always a definition some version really had.                   *)
THEOREM TypeCorrect == Spec => []TypeOK
  <1>1. Inv => TypeOK
    BY DEF Inv
  <1> QED
    BY InvAlways, <1>1, PTL

(* _request_response never causes a second application of a write.         *)
THEOREM AppliedAtMostOnce == Spec => []AtMostOneCommit
  <1>1. Inv => AtMostOneCommit
    BY DEF Inv, Effects, AtMostOneCommit
  <1> QED
    BY InvAlways, <1>1, PTL

(* A target reported failed was not written and will not be, but for a lost*)
(* body or a Ctrl-C after the answer.                                      *)
THEOREM FailedIsRefused == Spec => []FailedMeansRefused
  <1>1. Inv => FailedMeansRefused
    BY DEF Inv, Effects
  <1> QED
    BY InvAlways, <1>1, PTL

(* What the call adopts - from a comparison, an answer or a probe - held   *)
(* exactly the submitted definition during the call.                       *)
THEOREM AdoptedIsBacked == Spec => []AdoptedWasHeld
  <1>1. Inv => AdoptedWasHeld
    BY DEF Inv, Backing
  <1> QED
    BY InvAlways, <1>1, PTL

(* The write is sent again only when nothing was done by an earlier send.  *)
THEOREM NeverReplayed == Spec => NoReplay
  <1>1. ASSUME Inv, [Next]_vars,
               stage = "write", req.wire # "sent", req'.wire = "sent"
        PROVE  commits = 0 /\ delayed = 0
    <2>1. CASE req.wire # "answered"
      BY <1>1, <2>1 DEF Inv, Effects
    <2>2. CASE req.wire = "answered"
      <3>1. TypeOK
        BY <1>1 DEF Inv
      <3>2. ~Send /\ ~ConnectTimeout /\ ~Refuse /\ ~AcceptWrite /\ ~AnswerRead
        BY <2>2 DEF Send, ConnectTimeout, Refuse, AcceptWrite, AnswerRead
      <3>3. ~(Compared \/ Listed \/ GotResource \/ GotVersion \/ Reread \/ Report)
        BY <1>1 DEF Compared, Listed, GotResource, GotVersion, Reread, Report, Answered
      <3>4. ~(DefiniteError \/ AmbiguousError \/ (MoreAttempts /\ Retry) \/ \E st \in {"uncertain", status} : Raise(st))
        BY <1>1, <3>1, EndsQuietly
      <3>5. ~LostAnswer /\ ~ErrorResponse /\ ~UnreadableBody /\ ~Interrupt
        BY <3>4 DEF LostAnswer, ErrorResponse, UnreadableBody, Interrupt
      <3>6. ~RefreshToken /\ ~Throttle
        BY <1>1, <3>1 DEF RefreshToken, Throttle, TypeOK
      <3>7. ~Written
        BY <1>1 DEF Written, Goto, Fresh
      <3>8. ~(LateCommit \/ LateLoss \/ RivalWrite \/ Finished \/ UNCHANGED vars)
        BY <1>1 DEF LateCommit, LateLoss, RivalWrite, Finished, vars, client
      <3> QED
        BY <1>1, <3>2, <3>3, <3>5, <3>6, <3>7, <3>8 DEF Next, ClientStep, PlatformStep
    <2> QED
      BY <2>1, <2>2
  <1>2. Inv /\ [Next]_vars =>
          [stage = "write" /\ req.wire # "sent" /\ req'.wire = "sent" => commits = 0 /\ delayed = 0]_vars
    BY <1>1
  <1> QED
    BY InvAlways, <1>2, PTL DEF Spec, NoReplay

(* Between the ambiguous error and the end of the call the mark "uncertain"*)
(* is taken back only by a confirmation.                                   *)
THEOREM MarkIsKept == Spec => UncertainUntilConfirmed
  <1> DEFINE Kind == status' = "uncertain" \/ (status' = "unattempted" /\ found \in held)
  <1>1. ASSUME Inv, [Next]_vars, status = "uncertain", stage # "done"
        PROVE  Kind
    <2>1. TypeOK /\ Effects /\ Reads /\ Backing /\ stage \in Probing /\ ReadOnly(stage)
      BY <1>1 DEF Inv, Effects, TypeOK, Stages, Requests, ReadOnly
    <2>2. Backing'
      BY <1>1, <2>1, BackingStep
    <2>3. ASSUME NextProbe \/ DefiniteError \/ Retry \/ \E st \in {"uncertain", status} : Raise(st)
          PROVE  status' = "uncertain"
      BY <1>1, <2>1, <2>3 DEF NextProbe, DefiniteError, Retry, Raise
    <2>4. ASSUME Confirm, UNCHANGED held PROVE Kind
      BY <2>2, <2>4 DEF Confirm, Backing, AdoptedWasHeld
    <2>5. CASE ClientStep \/ Interrupt
      <3>1. CASE Send \/ RefreshToken \/ Throttle \/ GotVersion
        BY <1>1, <3>1 DEF Send, RefreshToken, Throttle, GotVersion
      <3>2. CASE ConnectTimeout \/ UnreadableBody \/ Interrupt
        BY <2>3, <3>2 DEF ConnectTimeout, UnreadableBody, Interrupt
      <3>3. CASE LostAnswer
        BY <2>1, <2>3, <3>3 DEF LostAnswer, SafeToRetry
      <3>4. CASE ErrorResponse
        BY <2>1, <2>3, <3>4 DEF ErrorResponse, AmbiguousStatus
      <3>5. CASE Listed
        BY <1>1, <2>3, <3>5 DEF Listed
      <3>6. CASE GotResource
        BY <1>1, <2>3, <2>4, <3>6 DEF GotResource, platform
      <3>7. CASE Reread
        BY <2>3, <2>4, <3>7 DEF Reread, platform
      <3>8. ~Compared /\ ~Written /\ ~Report
        BY <2>1 DEF Compared, Written, Report, Answered, Probing
      <3> QED
        BY <2>5, <3>1, <3>2, <3>3, <3>4, <3>5, <3>6, <3>7, <3>8 DEF ClientStep
    <2>6. CASE PlatformStep \/ Finished \/ UNCHANGED vars
      BY <1>1, <2>6
      DEF PlatformStep, Refuse, AcceptWrite, AnswerRead, LateCommit, LateLoss, RivalWrite,
          Finished, vars, client
    <2> QED
      BY <1>1, <2>5, <2>6 DEF Next
  <1>2. Inv /\ [Next]_vars => [status = "uncertain" /\ stage # "done" => Kind]_vars
    BY <1>1
  <1> QED
    BY InvAlways, <1>2, PTL DEF Spec, UncertainUntilConfirmed

--------------------------------------------------------------------------------
(* The write call implements WriteOutcome, up to fairness.                 *)

OutcomeNow == IF stage = "done" THEN status ELSE "open"
EffectNow  == CASE commits > 0 -> "applied"
                [] commits = 0 /\ (delayed > 0 \/ (stage = "write" /\ req.wire = "sent")) -> "possible"
                [] OTHER -> "none"
BackedNow  == held # {}
ExcusedNow == stage = "done" /\ lapse # "none"

(* A write that has not started is a WriteOutcome that has not started.    *)
LEMMA RefinementInit == Init => Outcome!Init
  <1> SUFFICES ASSUME Init PROVE Outcome!Init
    OBVIOUS
  <1>1. stage \in {"compare", "write"} /\ commits = 0 /\ delayed = 0 /\ req.wire = "idle"
    BY DEF Init, Fresh
  <1> QED
    BY <1>1 DEF Outcome!Init

(* The steps of the client move the write only from open to a report, or   *)
(* leave it as possible as it was; those of the platform decide it.        *)
LEMMA RefinementStep ==
    ASSUME Inv, [Next]_vars
    PROVE  [Outcome!Next]_Outcome!vars
  <1> USE DEF platform, client
  <1>1. TypeOK /\ Effects /\ Backing /\ TypeOK' /\ Effects' /\ Backing'
    BY InvStep DEF Inv
  <1>2. /\ commits \in Nat /\ delayed \in Nat /\ commits' \in Nat /\ delayed' \in Nat
        /\ commits + delayed <= 1 /\ commits' + delayed' <= 1
        /\ req.wire # "idle" => stage \in Requests
    BY <1>1 DEF TypeOK, Effects, Stages
  <1> DEFINE Sending == stage = "write" /\ req.wire = "sent"
             Same    == UNCHANGED <<OutcomeNow, EffectNow, BackedNow, ExcusedNow>>
             Kind    == Same \/ Outcome!Next
  <1>3. Same => UNCHANGED Outcome!vars
    BY DEF Outcome!vars, OutcomeNow, EffectNow, BackedNow, ExcusedNow
  <1> SUFFICES Kind
    BY <1>3
  (* A step of the client after which the call goes on.                    *)
  <1>4. ASSUME stage # "done", stage' # "done", UNCHANGED <<held, commits>>,
               delayed' \in {delayed, delayed + 1}, ~Sending => delayed' = delayed,
               stage' = "write" => req'.wire # "sent"
        PROVE  Kind
    <2>1. OutcomeNow' = OutcomeNow /\ BackedNow' = BackedNow /\ ExcusedNow' = ExcusedNow
      BY <1>4 DEF OutcomeNow, BackedNow, ExcusedNow
    <2>2. EffectNow' = EffectNow \/ (EffectNow = "possible" /\ EffectNow' = "none")
      BY <1>2, <1>4 DEF EffectNow
    <2> QED
      BY <2>1, <2>2 DEF Outcome!Next, Outcome!Refuse, OutcomeNow, EffectNow, BackedNow, ExcusedNow
  (* A step of the client that ends the call with an exception.            *)
  <1>5. ASSUME NEW st, Raise(st), stage # "done", UNCHANGED <<held, commits>>,
               delayed' \in {delayed, delayed + 1},
               Sending /\ (st = "uncertain" \/ lapse' # "none") => delayed' = delayed + 1,
               ~Sending => delayed' = delayed,
               st = "uncertain" => lapse' = lapse
        PROVE  Kind
    <2>1. /\ lapse = "none" /\ OutcomeNow = "open" /\ ExcusedNow = FALSE /\ BackedNow' = BackedNow
          /\ OutcomeNow' = IF st = "uncertain" THEN "uncertain" ELSE "failed"
          /\ ExcusedNow' = (lapse' # "none")
      BY <1>1, <1>5 DEF Effects, Raise, OutcomeNow, ExcusedNow, BackedNow
    <2>2. CASE st = "uncertain"
      <3>1. EffectNow' = EffectNow
        BY <1>2, <1>5, <2>2 DEF EffectNow, Raise
      <3> QED
        BY <1>5, <2>1, <2>2, <3>1
        DEF Outcome!Next, Outcome!Report, OutcomeNow, EffectNow, BackedNow, ExcusedNow
    <2>3. CASE st # "uncertain" /\ lapse' = "none"
      <3>1. commits' = 0 /\ delayed' = 0 /\ commits = 0
        BY <1>1, <1>5, <2>3 DEF Effects, FailedMeansRefused, Raise
      <3>2. EffectNow # "applied" /\ EffectNow' = "none"
        BY <1>5, <3>1 DEF EffectNow, Raise
      <3> QED
        BY <2>1, <2>3, <3>2
        DEF Outcome!Next, Outcome!Report, OutcomeNow, EffectNow, BackedNow, ExcusedNow
    <2>4. CASE st # "uncertain" /\ lapse' # "none"
      <3>1. EffectNow' = EffectNow
        BY <1>2, <1>5, <2>4 DEF EffectNow, Raise
      <3> QED
        BY <2>1, <2>4, <3>1
        DEF Outcome!Next, Outcome!Report, OutcomeNow, EffectNow, BackedNow, ExcusedNow
    <2> QED
      BY <2>2, <2>3, <2>4
  (* How a request ends that left no doubt, or that is given up.           *)
  <1>6. ASSUME Retry \/ DefiniteError \/ Confirm \/ NextProbe, req.wire # "idle",
               UNCHANGED <<held, commits, delayed>>,
               lapse' = lapse \/ (stage = "write" /\ req.wire = "answered")
        PROVE  Kind
    <2>1. stage \in Requests /\ stage # "done"
      BY <1>2, <1>6 DEF Requests, Probing
    <2>2. CASE Retry \/ Confirm \/ (NextProbe /\ ~Raise(status))
      <3>1. req'.wire = "idle" /\ stage' # "done"
        <4>1. CASE Retry
          BY <1>1, <2>1, <4>1 DEF Retry, TypeOK
        <4>2. CASE Confirm
          BY <4>2 DEF Confirm, Fresh
        <4>3. CASE NextProbe /\ ~Raise(status)
          BY <4>3 DEF NextProbe, Goto, Fresh, FirstProbe
        <4> QED
          BY <2>2, <4>1, <4>2, <4>3
      <3> QED
        BY <1>4, <1>6, <2>1, <3>1
    <2>3. CASE Raise(status)
      <3>1. status = "uncertain" => stage # "write"
        BY <1>1 DEF Effects
      <3>2. Sending => lapse' = "none"
        BY <1>1, <1>6 DEF Effects
      <3> QED
        BY <1>5, <1>6, <2>1, <2>3, <3>1, <3>2
    <2> QED
      BY <1>6, <2>2, <2>3 DEF DefiniteError, NextProbe
  (* How a request ends that may have been applied.                        *)
  <1>7. ASSUME AmbiguousError, req.wire # "idle", UNCHANGED <<held, commits, lapse>>,
               delayed' = IF Sending THEN delayed + 1 ELSE delayed
        PROVE  Kind
    <2>1. stage \in Requests /\ stage # "done" /\ delayed' \in {delayed, delayed + 1}
      BY <1>2, <1>7 DEF Requests, Probing
    <2>2. CASE stage = "write"
      <3>1. req'.wire = "idle" /\ stage' # "done"
        BY <1>7, <2>2 DEF AmbiguousError, Goto, Fresh, FirstProbe
      <3> QED
        BY <1>4, <1>7, <2>1, <3>1
    <2>3. CASE stage # "write"
      BY <1>5, <1>7, <2>1, <2>3 DEF AmbiguousError
    <2> QED
      BY <2>2, <2>3
  <1>8. CASE Send
    <2>1. /\ req'.wire = "sent" /\ req.wire # "sent" /\ stage # "done"
          /\ UNCHANGED <<stage, status, lapse, held, commits, delayed>>
      BY <1>1, <1>8 DEF Send, TypeOK, Requests, Probing
    <2>2. CASE stage = "write"
      <3>1. commits = 0 /\ delayed = 0
        BY <1>1, <1>8, <2>2 DEF Send, Effects
      <3>2. EffectNow = "none" /\ EffectNow' = "possible"
        BY <2>1, <2>2, <3>1 DEF EffectNow
      <3> QED
        BY <2>1, <3>2 DEF Outcome!Next, Outcome!Issue, OutcomeNow, EffectNow, BackedNow, ExcusedNow
    <2>3. CASE stage # "write"
      BY <2>1, <2>3 DEF OutcomeNow, EffectNow, BackedNow, ExcusedNow
    <2> QED
      BY <2>2, <2>3
  <1>9. CASE ConnectTimeout
    BY <1>6, <1>9 DEF ConnectTimeout
  <1>10. CASE LostAnswer
    <2>1. CASE SafeToRetry
      <3>1. stage # "write" /\ delayed' = delayed
        BY <1>10, <2>1 DEF LostAnswer, SafeToRetry, ReadOnly, Probing
      <3> QED
        BY <1>6, <1>10, <2>1, <3>1 DEF LostAnswer
    <2>2. CASE ~SafeToRetry
      BY <1>7, <1>10, <2>2 DEF LostAnswer
    <2> QED
      BY <2>1, <2>2
  <1>11. CASE RefreshToken \/ Throttle
    <2>1. req'.wire = "waiting" /\ req.wire = "answered"
      BY <1>1, <1>11 DEF RefreshToken, Throttle, TypeOK
    <2>2. stage # "done" /\ UNCHANGED <<stage, held, commits, delayed>>
      BY <1>2, <1>11, <2>1 DEF RefreshToken, Throttle, Requests, Probing
    <2> QED
      BY <1>2, <1>4, <2>1, <2>2
  <1>12. CASE ErrorResponse
    <2>1. req.wire = "answered" /\ UNCHANGED <<held, commits, delayed, lapse>> /\ delayed' = IF Sending THEN delayed + 1 ELSE delayed
      BY <1>12 DEF ErrorResponse
    <2> QED
      BY <1>6, <1>7, <1>12, <2>1 DEF ErrorResponse
  <1>13. CASE UnreadableBody
    BY <1>6, <1>13 DEF UnreadableBody
  <1>14. CASE Listed
    <2>1. req.wire = "answered" /\ stage = "list" /\ UNCHANGED <<held, commits, delayed, lapse>>
      BY <1>14 DEF Listed, Answered
    <2>2. CASE Goto("get")
      BY <1>2, <1>4, <2>1, <2>2 DEF Goto
    <2> QED
      BY <1>6, <1>14, <2>1, <2>2 DEF Listed
  <1>15. CASE GotResource
    <2>1. req.wire = "answered" /\ stage = "get" /\ UNCHANGED <<held, commits, delayed, lapse>>
      BY <1>15 DEF GotResource, Answered
    <2>2. CASE Goto("version")
      BY <1>2, <1>4, <2>1, <2>2 DEF Goto
    <2> QED
      BY <1>6, <1>15, <2>1, <2>2 DEF GotResource
  <1>16. CASE Reread
    <2>1. req.wire = "answered" /\ UNCHANGED <<held, commits, delayed, lapse>>
      BY <1>16 DEF Reread, Answered
    <2> QED
      BY <1>6, <1>16, <2>1 DEF Reread
  <1>17. CASE Compared \/ Written \/ GotVersion
    <2>1. /\ stage # "done" /\ stage' # "done" /\ req.wire = "answered" /\ req'.wire = "idle"
          /\ UNCHANGED <<held, commits, delayed>>
      BY <1>17 DEF Compared, Written, GotVersion, Answered, Goto, Fresh
    <2> QED
      BY <1>2, <1>4, <2>1
  <1>18. CASE Report
    <2>1. /\ stage = "acknowledged" /\ stage' = "done" /\ lapse' = "none" /\ found' \in held'
          /\ UNCHANGED <<held, commits, delayed, lapse>>
          /\ status' = IF status = "unchanged" THEN "unchanged" ELSE "succeeded"
      BY <1>1, <1>18 DEF Report, Effects, Backing, AdoptedWasHeld
    <2>2. OutcomeNow = "open" /\ BackedNow /\ EffectNow' = EffectNow /\ UNCHANGED <<BackedNow, ExcusedNow>>
      BY <2>1 DEF OutcomeNow, BackedNow, EffectNow, ExcusedNow
    <2>3. status = "unchanged" => EffectNow = "none"
      BY <1>1, <2>1 DEF Effects, NothingDone, EffectNow
    <2> QED
      BY <2>1, <2>2, <2>3 DEF Outcome!Next, Outcome!Report, OutcomeNow, EffectNow, BackedNow, ExcusedNow
  <1>19. CASE Interrupt
    <2>1. PICK st : Raise(st) /\ st = IF req.wire # "idle" /\ ~ReadOnly(stage) THEN "uncertain" ELSE status
      BY <1>19 DEF Interrupt
    <2>2. stage # "done" /\ UNCHANGED <<held, commits>> /\ delayed' = IF Sending THEN delayed + 1 ELSE delayed
      BY <1>19 DEF Interrupt
    <2>3. st = "uncertain" => lapse' = lapse
      BY <1>1, <1>2, <1>19, <2>1 DEF Interrupt, Effects, Requests, Probing
    <2>4. delayed' \in {delayed, delayed + 1}
      BY <2>2
    <2> QED
      BY <1>5, <2>1, <2>2, <2>3, <2>4
  (* The platform.                                                         *)
  <1>20. CASE Refuse \/ AnswerRead
    <2>1. /\ req.wire = "sent" /\ req'.wire = "answered"
          /\ UNCHANGED <<stage, status, lapse, held, commits, delayed>>
      <3>1. CASE Refuse
        <4>1. PICK class \in Classes : Answer(class, {}, NoVersion, Ours)
          BY <3>1 DEF Refuse, Classes
        <4> QED
          BY <1>1, <3>1, <4>1, AnswerIs DEF Refuse
      <3>2. CASE AnswerRead
        <4>1. PICK class, ids, current, body : class \in Classes /\ Answer(class, ids, current, body)
          BY <3>2 DEF AnswerRead, Classes
        <4> QED
          BY <1>1, <3>2, <4>1, AnswerIs DEF AnswerRead
      <3> QED
        BY <1>20, <3>1, <3>2
    <2>2. stage # "done"
      BY <1>2, <2>1 DEF Requests, Probing
    <2> QED
      BY <1>4, <2>1, <2>2
  <1>21. CASE AcceptWrite
    <2>1. PICK i \in Ids : PutAt(i, Ours) /\ commits' = commits + 1
      BY <1>21 DEF AcceptWrite, Commit
    <2>2. i \in held'
      BY <2>1 DEF PutAt
    <2>3. Sending /\ commits = 0 /\ delayed = 0 /\ UNCHANGED <<stage, status, lapse, delayed>>
      BY <1>1, <1>21 DEF AcceptWrite, Effects
    <2>4. /\ EffectNow = "possible" /\ EffectNow' = "applied" /\ BackedNow' = TRUE
          /\ UNCHANGED <<OutcomeNow, ExcusedNow>>
      BY <2>1, <2>2, <2>3 DEF EffectNow, BackedNow, OutcomeNow, ExcusedNow
    <2> QED
      BY <2>4 DEF Outcome!Next, Outcome!Apply, OutcomeNow, EffectNow, BackedNow, ExcusedNow
  <1>22. CASE LateCommit
    <2>1. PICK i \in Ids : PutAt(i, Ours) /\ commits' = commits + 1
      BY <1>22 DEF LateCommit, Commit
    <2>2. i \in held'
      BY <2>1 DEF PutAt
    <2>3. delayed > 0 /\ commits = 0 /\ UNCHANGED <<stage, status, lapse>>
      BY <1>2, <1>22 DEF LateCommit
    <2>4. /\ EffectNow = "possible" /\ EffectNow' = "applied" /\ BackedNow' = TRUE
          /\ UNCHANGED <<OutcomeNow, ExcusedNow>>
      BY <2>1, <2>2, <2>3 DEF EffectNow, BackedNow, OutcomeNow, ExcusedNow
    <2> QED
      BY <2>4 DEF Outcome!Next, Outcome!Apply, OutcomeNow, EffectNow, BackedNow, ExcusedNow
  <1>23. CASE LateLoss
    <2>1. /\ delayed > 0 /\ delayed' = delayed - 1 /\ commits = 0
          /\ UNCHANGED <<stage, req, status, lapse, held, commits>>
      BY <1>2, <1>23 DEF LateLoss
    <2>2. ~Sending /\ delayed' = 0
      BY <1>1, <1>2, <2>1 DEF Effects
    <2>3. EffectNow = "possible" /\ EffectNow' = "none" /\ UNCHANGED <<OutcomeNow, BackedNow, ExcusedNow>>
      BY <2>1, <2>2 DEF EffectNow, BackedNow, OutcomeNow, ExcusedNow
    <2> QED
      BY <2>3 DEF Outcome!Next, Outcome!Refuse, OutcomeNow, EffectNow, BackedNow, ExcusedNow
  <1>24. CASE RivalWrite
    <2>1. PICK i \in Ids, d \in Definitions : PutAt(i, d)
      BY <1>24 DEF RivalWrite
    <2>2. UNCHANGED <<OutcomeNow, EffectNow, ExcusedNow>>
      BY <1>24 DEF RivalWrite, EffectNow, OutcomeNow, ExcusedNow
    <2>3. BackedNow' = BackedNow \/ BackedNow' = TRUE
      BY <2>1 DEF PutAt, BackedNow
    <2> QED
      BY <2>2, <2>3 DEF Outcome!Next, Outcome!Back, OutcomeNow, EffectNow, BackedNow, ExcusedNow
  <1>25. CASE Finished \/ UNCHANGED vars
    BY <1>25 DEF Finished, vars, OutcomeNow, EffectNow, BackedNow, ExcusedNow
  <1> QED
    BY <1>8, <1>9, <1>10, <1>11, <1>12, <1>13, <1>14, <1>15, <1>16, <1>17, <1>18, <1>19,
       <1>20, <1>21, <1>22, <1>23, <1>24, <1>25
    DEF Next, ClientStep, PlatformStep

(* Whatever happens to its requests, the write call keeps WriteOutcome's   *)
(* promise about the status it reports: ImplementsOutcome without fairness.*)
THEOREM OutcomeIsHonest == Spec => Outcome!SafeSpec
  BY InvAlways, RefinementInit, RefinementStep, PTL DEF Spec, Outcome!SafeSpec
================================================================================
