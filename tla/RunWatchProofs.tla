----------------------------- MODULE RunWatchProofs -----------------------------
(***************************************************************************)
(* Proofs about a watched run, for any number of items, any failing items  *)
(* and any number of faults.                                               *)
(*                                                                         *)
(* The inductive invariant has one part for each actor. MapInv says where  *)
(* an item that arrived is: in the buffer of the map, or printed; from     *)
(* which, by counting, a body that returned has printed all of them.       *)
(* EndInv says that only a body that returned succeeds. LineInv and        *)
(* NewsInv say how what is shown is a prefix of what happened, and         *)
(* VerdictInv that a last status in hand is the run's, whose own never     *)
(* changes again.                                                          *)
(***************************************************************************)
EXTENDS RunWatch, FunctionTheorems, FiniteSetTheorems, SequenceTheorems, TLAPS

(* What the map has given the body, and what the body has printed.               *)
Printed == {emitted[k] : k \in 1..Len(emitted)}

MapInv ==
    /\ Printed \subseteq arrived \ buffer
    /\ \A j, k \in 1..Len(emitted) : emitted[j] = emitted[k] => j = k
    /\ ordered => \A k \in 1..Len(emitted) : emitted[k] = k
    /\ body \in {"idle", "mapping"} => arrived = buffer \cup Printed
    /\ body = "returned" /\ lost = {} => Len(emitted) = N

(* How the run ends: it succeeds when its body has returned.                     *)
EndInv ==
    /\ status = "succeeded" => body = "returned"
    /\ step = "succeeded" /\ status \notin Terminal => body = "returned"

(* What the watcher has printed of the lines.                                    *)
LineInv ==
    /\ shown.lines = SubSeq(emitted, 1, since)
    /\ had.lines <= ingested
    /\ (pc = "verdict" \/ (pc = "done" /\ verdict \in Terminal /\ kind # "result"))
         /\ "logs" \in follows => since >= had.lines

(* When the run's whole record is printed: at the end, and only by `run logs`.    *)
ListInv ==
    /\ pc = "again" => kind = "follow"
    /\ pc = "snap" => kind = "snapshot"
    /\ kind = "snapshot" => /\ pc \in {"start", "snap", "last", "verdict", "done"}
                            /\ seen = NothingSeen
    /\ listed => \/ kind = "snapshot" /\ pc \in {"last", "verdict", "done"}
                 \/ kind = "follow" /\ verdict = "timeout" /\ pc = "done"

(* What the watcher has printed of the events and the step.                      *)
NewsInv ==
    /\ shown.events = UpTo(seen.events) \o (IF listed THEN UpTo(had.events) ELSE <<>>)
    /\ seen.events <= had.events /\ had.events <= events
    /\ \A k \in 2..StepChanges : shown.step[k] # shown.step[k - 1]
    /\ ~listed /\ Len(shown.step) # 0 => shown.step[Len(shown.step)] = seen.step

(* What the watcher holds of the run's status.                                   *)
VerdictInv ==
    /\ data \in Terminal => data = status
    /\ verdict \in Terminal => verdict = status

IInv == TypeOK /\ MapInv /\ EndInv /\ LineInv /\ ListInv /\ NewsInv /\ VerdictInv

(* One sequence of numbers after another.                                        *)
LEMMA Joined ==
    ASSUME NEW s \in Seq(Nat), NEW t \in Seq(Nat)
    PROVE  /\ s \o t \in Seq(Nat) /\ Len(s \o t) = Len(s) + Len(t)
           /\ \A k \in 1..Len(s) : (s \o t)[k] = s[k]
           /\ \A k \in 1..Len(t) : (s \o t)[Len(s) + k] = t[k]
OBVIOUS

(* The first n numbers, as a sequence.                                           *)
LEMMA UpToType ==
    ASSUME NEW n \in Nat
    PROVE  UpTo(n) \in Seq(Nat) /\ Len(UpTo(n)) = n /\ \A k \in 1..n : UpTo(n)[k] = k
<1>1. UpTo(n) \in [1..n -> Nat] BY DEF UpTo
<1>2. UpTo(n) \in Seq(Nat) /\ Len(UpTo(n)) = n BY <1>1
<1> QED BY <1>2 DEF UpTo

(* What follows the first m numbers, up to n, continues them.                    *)
LEMMA Continued ==
    ASSUME NEW m \in Nat, NEW n \in Nat, m <= n
    PROVE  UpTo(m) \o [k \in 1..(n - m) |-> m + k] = UpTo(n)
<1> DEFINE old  == UpTo(m)
           news == [k \in 1..(n - m) |-> m + k]
<1>1. news \in [1..(n - m) -> Nat] /\ n - m \in Nat OBVIOUS
<1>2. news \in Seq(Nat) /\ Len(news) = n - m BY <1>1
<1>3. \A k \in 1..(n - m) : news[k] = m + k OBVIOUS
<1>4. old \in Seq(Nat) /\ Len(old) = m /\ \A k \in 1..m : old[k] = k BY UpToType
<1>5. UpTo(n) \in Seq(Nat) /\ Len(UpTo(n)) = n /\ \A k \in 1..n : UpTo(n)[k] = k
      BY UpToType
<1> HIDE DEF old, news
<1>6. /\ old \o news \in Seq(Nat) /\ Len(old \o news) = Len(old) + Len(news)
      /\ \A k \in 1..Len(old) : (old \o news)[k] = old[k]
      /\ \A k \in 1..Len(news) : (old \o news)[Len(old) + k] = news[k]
      BY <1>2, <1>4, Joined
<1>7. ASSUME NEW k \in 1..n PROVE (old \o news)[k] = UpTo(n)[k]
      <2>1. CASE k <= m
            <3>1. k \in 1..m BY <2>1
            <3> QED BY <1>4, <1>5, <1>6, <3>1
      <2>2. CASE ~(k <= m)
            <3>1. k - m \in 1..(n - m) /\ m + (k - m) = k BY <2>2
            <3> QED BY <1>2, <1>3, <1>4, <1>5, <1>6, <3>1
      <2> QED BY <2>1, <2>2
<1>8. old \o news = UpTo(n)
      <2>1. Len(old \o news) = n BY <1>2, <1>4, <1>6
      <2> DEFINE both == old \o news
                 all  == UpTo(n)
      <2>2. /\ both \in Seq(Nat) /\ all \in Seq(Nat) /\ Len(both) = Len(all)
            /\ \A k \in 1..Len(both) : both[k] = all[k]
            BY <1>5, <1>6, <1>7, <2>1
      <2> HIDE DEF both, all
      <2>3. both = all BY <2>2, SeqEqual
      <2> QED BY <2>3 DEF both, all
<1> QED BY <1>8 DEF old, news

USE RunWatchAssumption DEF Items, Terminal, Statuses, Steps, Kinds

--------------------------------------------------------------------------------
LEMMA NewEventsType ==
    ASSUME TypeOK
    PROVE  /\ NewEvents \in Seq(Nat)
           /\ EventsNow \in Seq(Nat)
<1>1. NewEvents \in Seq(Nat)
      <2> DEFINE m == events - seen.events
      <2>1. events \in Nat BY DEF TypeOK
      <2>2. seen.events \in Nat BY DEF TypeOK, Seen
      <2>3. CASE m \in Nat
            <3>1. NewEvents \in [1..m -> Nat] BY <2>1, <2>2, <2>3 DEF NewEvents
            <3> QED BY <3>1, <2>3
      <2>4. CASE m \notin Nat
            <3>1. 1..m = 1..0 BY <2>1, <2>2, <2>4
            <3>2. NewEvents \in [1..0 -> Nat] BY <3>1 DEF NewEvents
            <3> QED BY <3>2
      <2> QED BY <2>3, <2>4
<1> QED BY <1>1, ConcatProperties DEF TypeOK, Shown, EventsNow, StepNow, LinesNow

LEMMA StepNewsType ==
    ASSUME TypeOK
    PROVE  StepNow \in Seq(Statuses \cup {"pending"})
<1>1. step \in Statuses \cup {"pending"} BY DEF TypeOK
<1>2. StepNews \in {<<>>, <<step>>} BY DEF StepNews
<1>3. <<>> \in Seq(Statuses \cup {"pending"}) BY EmptySeq
<1>4. <<step>> \in Seq(Statuses \cup {"pending"}) BY <1>1
<1>5. StepNews \in Seq(Statuses \cup {"pending"}) BY <1>2, <1>3, <1>4
<1> QED BY <1>5, ConcatProperties DEF TypeOK, Shown, EventsNow, StepNow, LinesNow

LEMMA RecordType ==
    ASSUME TypeOK
    PROVE  /\ AllEvents \in Seq(Nat) /\ shown.events \o AllEvents \in Seq(Nat)
           /\ AllSteps \in Seq(Steps) /\ shown.step \o AllSteps \in Seq(Steps)
<1>1. AllEvents \in Seq(Nat)
      <2>1. events \in Nat BY DEF TypeOK
      <2>2. AllEvents \in [1..events -> Nat] BY <2>1 DEF AllEvents
      <2> QED BY <2>1, <2>2
<1>2. AllSteps \in Seq(Steps)
      <2>1. step \in Steps BY DEF TypeOK
      <2>2. <<>> \in Seq(Steps) BY EmptySeq
      <2>3. <<step>> \in Seq(Steps) BY <2>1
      <2> QED BY <2>2, <2>3 DEF AllSteps
<1>3. shown.events \in Seq(Nat) /\ shown.step \in Seq(Steps) BY DEF TypeOK, Shown
<1> QED BY <1>1, <1>2, <1>3, ConcatProperties

LEMMA LinesType ==
    ASSUME TypeOK
    PROVE  LinesNow \in Seq(Items)
<1>1. emitted \in Seq(Items) /\ ingested \in 0..Len(emitted) /\ since \in 0..ingested BY DEF TypeOK
<1>2. \A i \in since + 1..ingested : emitted[i] \in Items
      BY <1>1, ElementOfSeq, LenProperties
<1>3. SubSeq(emitted, since + 1, ingested) \in Seq(Items)
      BY <1>1, <1>2, SubSeqProperties, LenProperties
<1> QED BY <1>3, ConcatProperties DEF TypeOK, Shown, EventsNow, StepNow, LinesNow

LEMMA ShownType ==
    ASSUME TypeOK, [Next]_vars
    PROVE  shown' \in Shown
<1>0. shown \in Shown BY DEF TypeOK
<1>1. EventsNow \in Seq(Nat) BY NewEventsType
<1>2. StepNow \in Seq(Statuses \cup {"pending"}) BY StepNewsType
<1>3. LinesNow \in Seq(Items) BY LinesType
<1>4. \/ UNCHANGED shown
      \/ shown' = [shown EXCEPT !.events = EventsNow]
      \/ shown' = [shown EXCEPT !.step = StepNow]
      \/ shown' = [shown EXCEPT !.lines = LinesNow]
      \/ shown' = [shown EXCEPT !.events = @ \o AllEvents, !.step = @ \o AllSteps]
      <2>1. CASE Worker
            BY <2>1 DEF Worker, Begin, StreamEnds, StreamBreaks, WorkerDies, Arrive, Yield,
                        ItemLost, watcher
      <2>2. CASE Platform \/ DeadlinePasses
            BY <2>2 DEF Platform, StepEnds, RunEnds, Settle, Cancel, Ingest, DeadlinePasses, watcher
      <2>3. CASE Watch
            BY <2>3 DEF Watch, Start, PollEvents, PollSteps, PollLogs, Look, LookFails, Last,
                        Report, Check, Again, Snap, List, FetchEvents, FetchSteps, FetchLogs,
                        FetchFails, Pass
      <2>4. CASE UNCHANGED vars BY <2>4 DEF vars, watcher
      <2> QED BY <2>1, <2>2, <2>3, <2>4 DEF Next
<1>5. shown.events \o AllEvents \in Seq(Nat) /\ shown.step \o AllSteps \in Seq(Steps)
      BY RecordType
<1> QED BY <1>0, <1>1, <1>2, <1>3, <1>4, <1>5 DEF Shown

LEMMA HadType ==
    ASSUME TypeOK, [Next]_vars
    PROVE  had' \in Had
<1>0. had \in Had /\ events \in Nat /\ ingested \in Nat
      BY LenProperties DEF TypeOK
<1>1. \/ UNCHANGED had
      \/ had' = [had EXCEPT !.events = events]
      \/ had' = [had EXCEPT !.lines = ingested]
      \/ had' = [events |-> events, lines |-> ingested]
      <2>1. CASE Worker
            BY <2>1 DEF Worker, Begin, StreamEnds, StreamBreaks, WorkerDies, Arrive, Yield,
                        ItemLost, watcher
      <2>2. CASE Platform \/ DeadlinePasses
            BY <2>2 DEF Platform, StepEnds, RunEnds, Settle, Cancel, Ingest, DeadlinePasses, watcher
      <2>3. CASE Watch
            BY <2>3 DEF Watch, Start, PollEvents, PollSteps, PollLogs, Look, LookFails, Last,
                        Report, Check, Again, Snap, FetchEvents, FetchSteps, FetchLogs,
                        FetchFails, Pass
      <2>4. CASE UNCHANGED vars BY <2>4 DEF vars, watcher
      <2> QED BY <2>1, <2>2, <2>3, <2>4 DEF Next
<1> QED BY <1>0, <1>1 DEF Had

LEMMA SeenType ==
    ASSUME TypeOK, [Next]_vars
    PROVE  seen' \in Seen
<1>0. seen \in Seen /\ events \in Nat /\ step \in Steps BY DEF TypeOK
<1>1. \/ UNCHANGED seen
      \/ seen' = [seen EXCEPT !.events = events]
      \/ seen' = [seen EXCEPT !.step = step]
      <2>1. CASE Worker
            BY <2>1 DEF Worker, Begin, StreamEnds, StreamBreaks, WorkerDies, Arrive, Yield,
                        ItemLost, watcher
      <2>2. CASE Platform \/ DeadlinePasses
            BY <2>2 DEF Platform, StepEnds, RunEnds, Settle, Cancel, Ingest, DeadlinePasses, watcher
      <2>3. CASE Watch
            BY <2>3 DEF Watch, Start, PollEvents, PollSteps, PollLogs, Look, LookFails, Last,
                        Report, Check, Again, Snap, FetchEvents, FetchSteps, FetchLogs,
                        FetchFails, Pass
      <2>4. CASE UNCHANGED vars BY <2>4 DEF vars, watcher
      <2> QED BY <2>1, <2>2, <2>3, <2>4 DEF Next
<1> QED BY <1>0, <1>1 DEF Seen

LEMMA EmittedType ==
    ASSUME TypeOK, NEW i \in Items
    PROVE  /\ Append(emitted, i) \in Seq(Items)
           /\ Len(Append(emitted, i)) = Len(emitted) + 1
           /\ Len(emitted) \in Nat
BY AppendProperties, LenProperties DEF TypeOK

LEMMA TypeStep ==
    ASSUME TypeOK, [Next]_vars
    PROVE  TypeOK'
<1>0. shown' \in Shown /\ had' \in Had /\ seen' \in Seen /\ Len(emitted) \in Nat
      BY ShownType, HadType, SeenType, LenProperties DEF TypeOK
<1> USE DEF TypeOK
<1>1. CASE Begin BY <1>0, <1>1 DEF Begin, watcher
<1>2. ASSUME NEW i \in Items, Arrive(i) PROVE TypeOK'
      BY <1>0, <1>2 DEF Arrive, watcher, platform
<1>3. ASSUME NEW i \in Items, Yield(i) PROVE TypeOK'
      <2>1. UNCHANGED <<watcher, platform, ordered, tolerant, arrived, expired, lost, faults>>
            BY <1>3 DEF Yield
      <2>2. buffer' \subseteq arrived' BY <1>3, <2>1 DEF Yield
      <2>3. \/ emitted' = emitted /\ body' = "raised"
            \/ emitted' = Append(emitted, i) /\ body' = body
            BY <1>3 DEF Yield
      <2>4. emitted' \in Seq(Items) /\ Len(emitted') \in Nat /\ Len(emitted') >= Len(emitted)
            <3>1. /\ Append(emitted, i) \in Seq(Items)
                  /\ Len(Append(emitted, i)) = Len(emitted) + 1
                  BY <1>3, EmittedType
            <3>2. emitted \in Seq(Items) OBVIOUS
            <3> HIDE DEF TypeOK
            <3> QED BY <1>0, <2>3, <3>1, <3>2
      <2>5. body' \in {"idle", "mapping", "returned", "raised", "gone"} BY <2>3
      <2>6. ingested' \in 0..Len(emitted') /\ since' \in 0..ingested'
            <3>1. ingested' = ingested /\ since' = since BY <2>1 DEF platform, watcher
            <3>2. ingested \in 0..Len(emitted) /\ since \in 0..ingested OBVIOUS
            <3> HIDE DEF TypeOK
            <3> QED BY <1>0, <2>4, <3>1, <3>2
      <2> HIDE DEF TypeOK
      <2> QED BY <1>0, <2>1, <2>2, <2>4, <2>5, <2>6 DEF TypeOK, platform, watcher
<1>4. ASSUME NEW i \in Items, ItemLost(i) PROVE TypeOK'
      BY <1>0, <1>4 DEF ItemLost, Fault, watcher, platform, worker
<1>5. CASE StreamEnds BY <1>0, <1>5 DEF StreamEnds, watcher, platform
<1>6. CASE StreamBreaks BY <1>0, <1>6 DEF StreamBreaks, Fault, watcher, platform
<1>7. CASE WorkerDies BY <1>0, <1>7 DEF WorkerDies, Fault, watcher, platform
<1>8. CASE StepEnds BY <1>0, <1>8 DEF StepEnds, watcher, worker
<1>9. CASE RunEnds BY <1>0, <1>9 DEF RunEnds, watcher, worker
<1>10. CASE Settle BY <1>0, <1>10 DEF Settle, watcher, worker
<1>11. CASE Cancel BY <1>0, <1>11 DEF Cancel, Fault, watcher
<1>12. CASE Ingest BY <1>0, <1>12 DEF Ingest, watcher, worker
<1>13. CASE DeadlinePasses BY <1>0, <1>13 DEF DeadlinePasses, watcher, worker, platform
<1>14. CASE Start BY <1>0, <1>14 DEF Start, Goto, worker, platform
<1>15. CASE PollEvents
       BY <1>0, <1>15 DEF PollEvents, FetchEvents, FetchFails, Pass, Fault, Goto, worker, platform
<1>16. CASE PollSteps
       BY <1>0, <1>16 DEF PollSteps, FetchSteps, FetchFails, Pass, Fault, Goto, worker, platform
<1>17. CASE PollLogs
       BY <1>0, <1>17 DEF PollLogs, FetchLogs, FetchFails, Pass, Fault, Goto, worker, platform
<1>18. CASE Look
       <2>1. UNCHANGED <<platform, worker, kind, follows, shown, listed, since, expired, lost, faults>>
             BY <1>18 DEF Look
       <2>2. data' \in Statuses \cup {None}
             <3>1. CASE InHand BY <1>18, <3>1 DEF Look
             <3>2. CASE ~InHand BY <1>18, <3>2 DEF Look
             <3> QED BY <3>1, <3>2
       <2>3. fresh' \in BOOLEAN BY <1>18 DEF Look
       <2>4. pc' \in {"check", "done", "last"} BY <1>18 DEF Look, Goto, Done
       <2>5. verdict' \in Statuses \cup {None, "timeout", "error"}
             BY <1>18, <2>2 DEF Look, Done
       <2> QED BY <1>0, <2>1, <2>2, <2>3, <2>4, <2>5 DEF platform, worker
<1>19. CASE LookFails BY <1>0, <1>19 DEF LookFails, Fault, Done, worker, platform
<1>20. CASE Last
       BY <1>0, <1>20 DEF Last, FetchLogs, FetchFails, Pass, Fault, Goto, worker, platform
<1>21. CASE Report BY <1>0, <1>21 DEF Report, Done, worker, platform
<1>22. CASE Check BY <1>0, <1>22 DEF Check, Goto, Done, worker, platform
<1>23. CASE Again BY <1>0, <1>23 DEF Again, List, Done, worker, platform
<1>24. CASE Snap BY <1>0, <1>24 DEF Snap, List, Goto, worker, platform
<1>25. CASE UNCHANGED vars BY <1>0, <1>25 DEF vars, watcher, worker, platform
<1> QED BY <1>1, <1>2, <1>3, <1>4, <1>5, <1>6, <1>7, <1>8, <1>9, <1>10, <1>11, <1>12, <1>13,
           <1>14, <1>15, <1>16, <1>17, <1>18, <1>19, <1>20, <1>21, <1>22, <1>23, <1>24, <1>25
        DEF Next, Worker, Platform, Watch

--------------------------------------------------------------------------------
(* Who changes what.                                                             *)

LEMMA WatchFrame ==
    ASSUME Watch
    PROVE  UNCHANGED <<platform, worker, expired, lost, kind>>
BY DEF Watch, Start, PollEvents, PollSteps, PollLogs, Look, LookFails, Last, Report, Check,
       Again, Snap, FetchEvents, FetchSteps, FetchLogs, FetchFails, Pass

LEMMA OthersFrame ==
    ASSUME Worker \/ Platform \/ DeadlinePasses
    PROVE  UNCHANGED watcher
BY DEF Worker, Begin, StreamEnds, StreamBreaks, WorkerDies, Arrive, Yield, ItemLost,
       Platform, StepEnds, RunEnds, Settle, Cancel, Ingest, DeadlinePasses

LEMMA MapFrame ==
    ASSUME StepEnds \/ RunEnds \/ Settle \/ Ingest \/ DeadlinePasses \/ Watch \/ UNCHANGED vars
    PROVE  UNCHANGED <<worker, lost>>
BY WatchFrame DEF StepEnds, RunEnds, Settle, Ingest, DeadlinePasses, vars

--------------------------------------------------------------------------------
(* The map: what it has given the body is what arrived and is not in the buffer. *)

(* The stream has ended and nothing was lost: all items were given.              *)
LEMMA AllGiven ==
    ASSUME TypeOK, MapInv, body = "mapping", lost = {}, StreamEnds
    PROVE  Len(emitted) = N
<1>1. /\ emitted \in [1..Len(emitted) -> Items] /\ Len(emitted) \in Nat /\ N \in Nat
      /\ arrived = Items /\ arrived = buffer \cup Printed
      BY LenProperties DEF TypeOK, StreamEnds, MapInv, RunWatchAssumption
<1>2. CASE ~ordered
      <2>1. buffer = {} BY <1>1, <1>2 DEF StreamEnds, Given
      <2>2. \A i \in Items : \E k \in 1..Len(emitted) : emitted[k] = i
            BY <1>1, <2>1 DEF Printed
      <2>3. \A j, k \in 1..Len(emitted) : emitted[j] = emitted[k] => j = k BY DEF MapInv
      <2>4. emitted \in Bijection(1..Len(emitted), Items)
            <3> HIDE DEF Items
            <3> QED BY <1>1, <2>2, <2>3, Fun_IsBij
      <2>5. ExistsBijection(1..Len(emitted), Items) BY <2>4, Fun_ExistsBij
      <2> \A n \in Nat : IsFiniteSet(1..n) /\ Cardinality(1..n) = n BY FS_Interval
      <2>6. IsFiniteSet(1..Len(emitted)) /\ Cardinality(1..Len(emitted)) = Len(emitted)
            BY <1>1
      <2>7. Cardinality(Items) = Len(emitted)
            <3> HIDE DEF Items
            <3> QED BY <2>5, <2>6, FS_Bijection
      <2>8. Cardinality(Items) = N BY <1>1
      <2> QED BY <2>7, <2>8
<1>3. CASE ordered
      <2>1. \A k \in 1..Len(emitted) : emitted[k] = k BY <1>3 DEF MapInv
      <2>2. Len(emitted) <= N
            <3>1. CASE Len(emitted) = 0 BY <1>1, <3>1
            <3>2. CASE Len(emitted) # 0
                  <4>1. Len(emitted) \in 1..Len(emitted) BY <1>1, <3>2
                  <4>2. emitted[Len(emitted)] \in Items BY <1>1, <4>1
                  <4> QED BY <2>1, <4>1, <4>2
            <3> QED BY <3>1, <3>2
      <2>3. ASSUME Len(emitted) < N PROVE FALSE
            <3>1. Len(emitted) + 1 \in Items BY <1>1, <2>3
            <3>2. Len(emitted) + 1 \notin buffer BY <1>3, <3>1 DEF StreamEnds, Given
            <3>3. Len(emitted) + 1 \in Printed BY <1>1, <3>1, <3>2
            <3>4. PICK k \in 1..Len(emitted) : emitted[k] = Len(emitted) + 1
                  BY <3>3 DEF Printed
            <3> QED BY <1>1, <2>1, <3>4
      <2>4. Len(emitted) \in Nat /\ N \in Nat BY <1>1
      <2>5. ~(Len(emitted) < N) BY <2>3
      <2> QED BY <2>2, <2>4, <2>5
<1> QED BY <1>2, <1>3

LEMMA MapStep ==
    ASSUME TypeOK, MapInv, [Next]_vars
    PROVE  MapInv'
<1>0. /\ emitted \in Seq(Items) /\ Len(emitted) \in Nat /\ buffer \subseteq arrived
      /\ arrived \subseteq Items
      BY LenProperties DEF TypeOK
<1>1. CASE UNCHANGED <<worker, lost>> BY <1>1 DEF MapInv, Printed, worker
<1>2. CASE Begin BY <1>2 DEF Begin, MapInv, Printed
<1>3. ASSUME NEW i \in Items, Arrive(i) PROVE MapInv'
      <2>1. UNCHANGED <<ordered, body, emitted, lost>> /\ Printed' = Printed /\ body = "mapping"
            BY <1>3 DEF Arrive, Printed
      <2>2. arrived' = arrived \cup {i} /\ buffer' = buffer \cup {i} /\ i \notin arrived
            BY <1>3 DEF Arrive
      <2>3. Printed \subseteq arrived' \ buffer' BY <2>2 DEF MapInv
      <2>4. arrived' = buffer' \cup Printed BY <2>1, <2>2 DEF MapInv
      <2> QED BY <2>1, <2>3, <2>4 DEF MapInv
<1>4. ASSUME NEW i \in Items, Yield(i) PROVE MapInv'
      <2>1. /\ UNCHANGED <<ordered, arrived, lost>> /\ buffer' = buffer \ {i} /\ body = "mapping"
            /\ i \in buffer /\ (ordered => i = Len(emitted) + 1)
            BY <1>4 DEF Yield, Given
      <2>2. CASE emitted' = emitted /\ body' = "raised"
            BY <2>1, <2>2 DEF MapInv, Printed
      <2>3. CASE emitted' = Append(emitted, i) /\ body' = body
            <3>1. /\ Len(emitted') = Len(emitted) + 1
                  /\ \A k \in 1..Len(emitted) : emitted'[k] = emitted[k]
                  /\ emitted'[Len(emitted) + 1] = i
                  BY <1>0, <2>3, AppendProperties
            <3>2. 1..Len(emitted') = 1..Len(emitted) \cup {Len(emitted) + 1} BY <1>0, <3>1
            <3>3. Printed' = Printed \cup {i} BY <3>1, <3>2 DEF Printed
            <3>4. i \notin Printed BY <2>1 DEF MapInv
            <3>5. Printed' \subseteq arrived' \ buffer' BY <1>0, <2>1, <3>3, <3>4 DEF MapInv
            <3>6. \A j, k \in 1..Len(emitted') : emitted'[j] = emitted'[k] => j = k
                  BY <3>1, <3>2, <3>4 DEF MapInv, Printed
            <3>7. ordered' => \A k \in 1..Len(emitted') : emitted'[k] = k
                  BY <2>1, <3>1, <3>2 DEF MapInv
            <3>8. arrived' = buffer' \cup Printed' BY <2>1, <3>3 DEF MapInv
            <3>9. body' = "mapping" BY <2>1, <2>3
            <3> QED BY <3>5, <3>6, <3>7, <3>8, <3>9 DEF MapInv
      <2> QED BY <1>4, <2>2, <2>3 DEF Yield
<1>5. CASE StreamEnds
      <2>1. UNCHANGED <<ordered, arrived, buffer, emitted, lost>> /\ body' = "returned"
            /\ body = "mapping"
            BY <1>5 DEF StreamEnds
      <2>2. lost = {} => Len(emitted) = N BY <1>5, <2>1, AllGiven
      <2> QED BY <2>1, <2>2 DEF MapInv, Printed
<1>6. CASE StreamBreaks \/ WorkerDies
      BY <1>6 DEF StreamBreaks, WorkerDies, MapInv, Printed
<1>7. ASSUME NEW i \in Items, ItemLost(i) PROVE MapInv'
      BY <1>7 DEF ItemLost, MapInv, Printed, worker
<1>8. CASE Cancel BY <1>8 DEF Cancel, MapInv, Printed
<1> QED BY <1>1, <1>2, <1>3, <1>4, <1>5, <1>6, <1>7, <1>8, MapFrame
        DEF Next, Worker, Platform

--------------------------------------------------------------------------------
(* The run: it succeeds only when its body has returned.                         *)

LEMMA EndStep ==
    ASSUME TypeOK, EndInv, [Next]_vars
    PROVE  EndInv'
<1>1. CASE Watch BY <1>1, WatchFrame DEF EndInv, platform, worker
<1>2. CASE UNCHANGED vars BY <1>2 DEF vars, EndInv, platform, worker
<1>3. CASE DeadlinePasses BY <1>3 DEF DeadlinePasses, EndInv, platform, worker
<1>4. CASE Worker
      BY <1>4 DEF Worker, Begin, StreamEnds, StreamBreaks, WorkerDies, Arrive, Yield, ItemLost,
                  EndInv, platform, worker
<1>5. CASE Platform
      BY <1>5 DEF Platform, StepEnds, RunEnds, Settle, Cancel, Ingest, EndInv, worker
<1> QED BY <1>1, <1>2, <1>3, <1>4, <1>5 DEF Next

(* An ended run stays as it ended.                                               *)
LEMMA EndedStays ==
    ASSUME status \in Terminal, [Next]_vars
    PROVE  status' = status
<1>1. CASE Watch BY <1>1, WatchFrame DEF platform
<1>2. CASE UNCHANGED vars BY <1>2 DEF vars, platform
<1>3. CASE DeadlinePasses BY <1>3 DEF DeadlinePasses, platform
<1>4. CASE Worker
      BY <1>4 DEF Worker, Begin, StreamEnds, StreamBreaks, WorkerDies, Arrive, Yield, ItemLost,
                  platform
<1>5. CASE Platform BY <1>5 DEF Platform, StepEnds, RunEnds, Settle, Cancel, Ingest
<1> QED BY <1>1, <1>2, <1>3, <1>4, <1>5 DEF Next

--------------------------------------------------------------------------------
(* What is printed: the lines up to the place in the log, the events and the     *)
(* changes of the step.                                                          *)

LEMMA LinesMove ==
    ASSUME TypeOK, [Next]_vars
    PROVE  \/ shown'.lines = shown.lines /\ since' = since
           \/ /\ shown'.lines = LinesNow /\ since' = ingested
              /\ UNCHANGED <<emitted, ingested>>
<1>0. shown \in Shown BY DEF TypeOK
<1>1. CASE Worker \/ Platform \/ DeadlinePasses BY <1>1, OthersFrame DEF watcher
<1>2. CASE Watch
      <2>1. UNCHANGED <<emitted, ingested>> BY <1>2, WatchFrame DEF platform, worker
      <2> QED
          BY <1>0, <1>2, <2>1
          DEF Watch, Start, PollEvents, PollSteps, PollLogs, Look, LookFails, Last, Report, Check,
              Again, Snap, List, FetchEvents, FetchSteps, FetchLogs, FetchFails, Pass, Shown
<1>3. CASE UNCHANGED vars BY <1>3 DEF vars, watcher
<1> QED BY <1>1, <1>2, <1>3 DEF Next

LEMMA EmittedGrows ==
    ASSUME TypeOK, [Next]_vars
    PROVE  emitted' = emitted \/ \E i \in Items : emitted' = Append(emitted, i)
<1>1. CASE Watch BY <1>1, WatchFrame DEF worker
<1>2. CASE UNCHANGED vars BY <1>2 DEF vars, worker
<1>3. CASE DeadlinePasses BY <1>3 DEF DeadlinePasses, worker
<1>4. CASE Worker
      BY <1>4 DEF Worker, Begin, StreamEnds, StreamBreaks, WorkerDies, Arrive, Yield, ItemLost,
                  worker
<1>5. CASE Platform
      BY <1>5 DEF Platform, StepEnds, RunEnds, Settle, Cancel, Ingest, worker
<1> QED BY <1>1, <1>2, <1>3, <1>4, <1>5 DEF Next

(* The lines printed stay the first of what the body printed.                    *)
LEMMA PrefixStep ==
    ASSUME TypeOK, shown.lines = SubSeq(emitted, 1, since), [Next]_vars
    PROVE  shown'.lines = SubSeq(emitted', 1, since')
<1>0. /\ emitted \in Seq(Items) /\ Len(emitted) \in Nat
      /\ ingested \in 0..Len(emitted) /\ since \in 0..ingested
      BY LenProperties DEF TypeOK
<1>1. CASE shown'.lines = shown.lines /\ since' = since
      <2>1. CASE emitted' = emitted BY <1>1, <2>1
      <2>2. ASSUME NEW i \in Items, emitted' = Append(emitted, i)
            PROVE  shown'.lines = SubSeq(emitted', 1, since')
            <3>1. /\ emitted' \in Seq(Items) /\ Len(emitted') = Len(emitted) + 1
                  /\ \A k \in 1..Len(emitted) : emitted'[k] = emitted[k]
                  BY <1>0, <2>2, AppendProperties
            <3> HIDE DEF Items
            <3>2. \A k \in 1..since : emitted[k] \in Items /\ emitted'[k] = emitted[k]
                  BY <1>0, <3>1, ElementOfSeq
            <3>3. /\ SubSeq(emitted, 1, since) \in Seq(Items)
                  /\ Len(SubSeq(emitted, 1, since)) = since
                  /\ \A k \in 1..since : SubSeq(emitted, 1, since)[k] = emitted[k]
                  BY <1>0, <3>2, SubSeqProperties
            <3>4. /\ SubSeq(emitted', 1, since) \in Seq(Items)
                  /\ Len(SubSeq(emitted', 1, since)) = since
                  /\ \A k \in 1..since : SubSeq(emitted', 1, since)[k] = emitted'[k]
                  BY <1>0, <3>2, SubSeqProperties
            <3>5. SubSeq(emitted', 1, since) = SubSeq(emitted, 1, since)
                  BY <3>2, <3>3, <3>4, SeqEqual
            <3> QED BY <1>1, <3>5
      <2> QED BY <2>1, <2>2, EmittedGrows
<1>2. CASE /\ shown'.lines = LinesNow /\ since' = ingested
           /\ UNCHANGED <<emitted, ingested>>
      <2>1. SubSeq(emitted, 1, since) \o SubSeq(emitted, since + 1, ingested)
              = SubSeq(emitted, 1, ingested)
            <3> HIDE DEF Items
            <3> QED BY <1>0, ConcatAdjacentSubSeq
      <2> QED BY <1>2, <2>1 DEF LinesNow
<1> QED BY <1>1, <1>2, LinesMove

LEMMA LineStep ==
    ASSUME TypeOK, LineInv, [Next]_vars
    PROVE  LineInv'
<1>0. /\ Len(emitted) \in Nat /\ ingested \in 0..Len(emitted) /\ since \in 0..ingested
      /\ had \in Had
      BY LenProperties DEF TypeOK
<1>1. shown'.lines = SubSeq(emitted', 1, since') BY PrefixStep DEF LineInv
<1>2. CASE Worker \/ DeadlinePasses \/ UNCHANGED vars
      <2>1. UNCHANGED <<ingested, watcher>>
            BY <1>2, OthersFrame DEF Worker, Begin, StreamEnds, StreamBreaks, WorkerDies, Arrive,
               Yield, ItemLost, DeadlinePasses, vars, platform
      <2> QED BY <1>1, <2>1 DEF LineInv, watcher
<1>3. CASE Platform
      <2>1. UNCHANGED watcher BY <1>3, OthersFrame
      <2>2. ingested' >= ingested /\ ingested' \in Nat
            BY <1>0, <1>3 DEF Platform, StepEnds, RunEnds, Settle, Cancel, Ingest
      <2> QED BY <1>0, <1>1, <2>1, <2>2 DEF LineInv, watcher, Had
<1>4. CASE Watch
      <2>0. UNCHANGED <<ingested, kind>> BY <1>4, WatchFrame DEF platform
      <2>1. had'.lines \in {had.lines, ingested}
            BY <1>0, <1>4 DEF Watch, Start, PollEvents, PollSteps, PollLogs, Look, LookFails, Last,
               Report, Check, Again, Snap, FetchEvents, FetchSteps, FetchLogs, FetchFails, Pass, Had
      <2>2. had'.lines <= ingested' BY <1>0, <2>0, <2>1 DEF LineInv, Had
      <2>3. ASSUME pc' = "verdict" \/ (pc' = "done" /\ verdict' \in Terminal /\ kind # "result"),
                   "logs" \in follows'
            PROVE  since' >= had'.lines
            <3>1. CASE Last
                  <4>1. CASE Pass("verdict") /\ "logs" \notin follows
                        BY <2>3, <4>1 DEF Pass
                  <4>2. CASE FetchLogs("verdict")
                        BY <1>0, <4>2 DEF FetchLogs, LineInv, Had
                  <4>3. CASE FetchFails("logs", "verdict")
                        BY <2>3, <4>3 DEF FetchFails
                  <4> QED BY <3>1, <4>1, <4>2, <4>3 DEF Last
            <3>2. CASE Report BY <2>3, <3>2 DEF Report, LineInv
            <3>3. CASE Look BY <2>0, <2>3, <3>3 DEF Look, Goto, Done
            <3>4. CASE LookFails BY <2>3, <3>4 DEF LookFails, Done
            <3>5. CASE Check BY <2>3, <3>5 DEF Check, Goto, Done
            <3>6. CASE Again BY <2>3, <3>6 DEF Again, Done
            <3>7. CASE Snap BY <2>3, <3>7 DEF Snap, Goto
            <3>8. CASE Start BY <2>3, <3>8 DEF Start, Goto
            <3>9. CASE PollEvents \/ PollSteps \/ PollLogs
                  BY <2>3, <3>9 DEF PollEvents, PollSteps, PollLogs, FetchEvents, FetchSteps,
                     FetchLogs, FetchFails, Pass, Goto
            <3> QED BY <1>4, <3>1, <3>2, <3>3, <3>4, <3>5, <3>6, <3>7, <3>8, <3>9 DEF Watch
      <2> QED BY <1>1, <2>0, <2>2, <2>3 DEF LineInv
<1> QED BY <1>2, <1>3, <1>4 DEF Next

LEMMA EventsGrow ==
    ASSUME TypeOK, [Next]_vars
    PROVE  events' \in {events, events + 1}
<1>1. CASE Watch BY <1>1, WatchFrame DEF platform
<1>2. CASE UNCHANGED vars BY <1>2 DEF vars, platform
<1>3. CASE DeadlinePasses BY <1>3 DEF DeadlinePasses, platform
<1>4. CASE Worker
      BY <1>4 DEF Worker, Begin, StreamEnds, StreamBreaks, WorkerDies, Arrive, Yield, ItemLost,
                  platform
<1>5. CASE Platform BY <1>5 DEF Platform, StepEnds, RunEnds, Settle, Cancel, Ingest
<1> QED BY <1>1, <1>2, <1>3, <1>4, <1>5 DEF Next

LEMMA ListStep ==
    ASSUME TypeOK, ListInv, [Next]_vars
    PROVE  ListInv'
<1>1. CASE Worker \/ Platform \/ DeadlinePasses BY <1>1, OthersFrame DEF watcher, ListInv
<1>2. CASE UNCHANGED vars BY <1>2 DEF vars, watcher, ListInv
<1>3. CASE Start BY <1>3 DEF Start, Goto, ListInv, TypeOK
<1>4. CASE PollEvents
      BY <1>4 DEF PollEvents, FetchEvents, FetchFails, Pass, Goto, ListInv
<1>5. CASE PollSteps
      BY <1>5 DEF PollSteps, FetchSteps, FetchFails, Pass, Goto, ListInv
<1>6. CASE PollLogs
      BY <1>6 DEF PollLogs, FetchLogs, FetchFails, Pass, Goto, ListInv
<1>7. CASE Look
      <2>1. UNCHANGED <<kind, seen, listed>> /\ pc = "look" /\ pc' \in {"check", "done", "last"}
            BY <1>7 DEF Look, Goto, Done
      <2> QED BY <2>1 DEF ListInv
<1>8. CASE LookFails BY <1>8 DEF LookFails, Done, ListInv
<1>9. CASE Last BY <1>9 DEF Last, FetchLogs, FetchFails, Pass, Goto, ListInv
<1>10. CASE Report BY <1>10 DEF Report, Done, ListInv
<1>11. CASE Check BY <1>11 DEF Check, Goto, Done, ListInv
<1>12. CASE Again BY <1>12 DEF Again, List, Done, ListInv
<1>13. CASE Snap BY <1>13 DEF Snap, List, Goto, ListInv
<1> QED BY <1>1, <1>2, <1>3, <1>4, <1>5, <1>6, <1>7, <1>8, <1>9, <1>10, <1>11, <1>12, <1>13
        DEF Next, Watch

(* A step that prints none of the events or steps.                               *)
Silent ==
    /\ shown'.events = shown.events /\ shown'.step = shown.step
    /\ had'.events = had.events
    /\ UNCHANGED <<seen, listed, workflow>>

LEMMA NewsMove ==
    ASSUME TypeOK, [Next]_vars
    PROVE  Silent \/ (pc = "events" /\ FetchEvents) \/ (pc = "steps" /\ FetchSteps)
             \/ Again \/ Snap
<1>0. shown \in Shown /\ had \in Had BY DEF TypeOK
<1>1. CASE Worker
      BY <1>1, OthersFrame DEF Worker, Begin, StreamEnds, StreamBreaks, WorkerDies, Arrive, Yield,
         ItemLost, watcher, platform, Silent
<1>2. CASE Platform \/ DeadlinePasses
      BY <1>2, OthersFrame DEF Platform, StepEnds, RunEnds, Settle, Cancel, Ingest, DeadlinePasses,
         watcher, platform, Silent
<1>3. CASE Watch
      <2>1. UNCHANGED workflow BY <1>3, WatchFrame DEF platform
      <2>2. CASE PollEvents
            BY <2>1, <2>2 DEF PollEvents, FetchFails, Pass, Silent
      <2>3. CASE PollSteps
            BY <2>1, <2>3 DEF PollSteps, FetchFails, Pass, Silent
      <2>4. CASE Start \/ PollLogs \/ Look \/ LookFails \/ Last \/ Report \/ Check
            BY <1>0, <2>1, <2>4
            DEF Start, PollLogs, Look, LookFails, Last, Report, Check, FetchLogs, FetchFails, Pass,
                Silent, Shown, Had
      <2> QED BY <1>3, <2>2, <2>3, <2>4 DEF Watch
<1>4. CASE UNCHANGED vars BY <1>4 DEF vars, watcher, platform, Silent
<1> QED BY <1>1, <1>2, <1>3, <1>4 DEF Next

(* The news of the events continue those that were seen.                         *)
LEMMA NewsFollow ==
    ASSUME TypeOK, seen.events <= events, shown.events = UpTo(seen.events)
    PROVE  EventsNow = UpTo(events)
<1>1. seen.events \in Nat /\ events \in Nat BY DEF TypeOK, Seen
<1>2. UpTo(seen.events) \o NewEvents = UpTo(events) BY <1>1, Continued DEF NewEvents
<1> QED BY <1>2 DEF EventsNow

LEMMA NewsStep ==
    ASSUME TypeOK, ListInv, NewsInv, [Next]_vars
    PROVE  NewsInv'
<1>0. /\ shown \in Shown /\ had \in Had /\ seen \in Seen /\ events \in Nat /\ step \in Steps
      /\ shown.events \in Seq(Nat) /\ seen.events \in Nat
      /\ shown.step \in Seq(Steps) /\ Len(shown.step) \in Nat
      BY LenProperties DEF TypeOK, Shown, Seen
<1>1. CASE Silent
      <2>1. Len(AllSteps)' = Len(AllSteps)
            <3>1. Len(<<step>>) = 1 /\ Len(<<step'>>) = 1 OBVIOUS
            <3>2. workflow' = workflow BY <1>1 DEF Silent
            <3> QED BY <3>1, <3>2 DEF AllSteps
      <2>2. StepChanges' = StepChanges BY <1>1, <2>1 DEF Silent, StepChanges
      <2> QED BY <1>0, <1>1, <2>2, EventsGrow DEF Silent, NewsInv, Had
<1>2. CASE pc = "events" /\ FetchEvents
      <2>1. ~listed /\ ~listed' BY <1>2 DEF FetchEvents, ListInv
      <2>2. /\ shown'.events = EventsNow /\ shown'.step = shown.step
            /\ seen'.events = events /\ had'.events = events /\ seen'.step = seen.step
            BY <1>0, <1>2 DEF FetchEvents, Shown, Seen, Had
      <2>3. events' = events BY <1>2 DEF FetchEvents, platform
      <2>4. shown.events = UpTo(seen.events)
            <3>1. shown.events = UpTo(seen.events) \o <<>> BY <2>1 DEF NewsInv
            <3> QED BY <1>0, <3>1, UpToType, ConcatEmptySeq
      <2>5. seen.events <= events BY <1>0 DEF NewsInv, Had
      <2>6. EventsNow = UpTo(events) BY <2>4, <2>5, NewsFollow
      <2>7. shown'.events = UpTo(seen'.events) \o <<>>
            BY <1>0, <2>2, <2>6, UpToType, ConcatEmptySeq
      <2>8. StepChanges = Len(shown.step) /\ StepChanges' = Len(shown.step)
            BY <1>0, <2>1, <2>2 DEF StepChanges
      <2>9. \A k \in 2..StepChanges' : shown'.step[k] # shown'.step[k - 1]
            BY <2>2, <2>8 DEF NewsInv
      <2>10. Len(shown'.step) # 0 => shown'.step[Len(shown'.step)] = seen'.step
             BY <2>1, <2>2 DEF NewsInv
      <2>11. seen'.events <= had'.events /\ had'.events <= events' BY <1>0, <2>2, <2>3
      <2> QED BY <2>1, <2>7, <2>9, <2>10, <2>11 DEF NewsInv
<1>3. CASE pc = "steps" /\ FetchSteps
      <2>1. ~listed /\ ~listed' BY <1>3 DEF FetchSteps, ListInv
      <2>2. /\ shown'.events = shown.events /\ shown'.step = StepNow
            /\ seen'.events = seen.events /\ seen'.step = step /\ had' = had
            BY <1>0, <1>3 DEF FetchSteps, Shown, Seen
      <2>3. events' = events BY <1>3 DEF FetchSteps, platform
      <2>4. StepNow \in Seq(Steps) /\ Len(StepNow) \in Nat BY StepNewsType, LenProperties
      <2>5. StepChanges = Len(shown.step) /\ StepChanges' = Len(StepNow)
            BY <1>0, <2>1, <2>2, <2>4 DEF StepChanges
      <2>6. /\ \A k \in 2..Len(StepNow) : StepNow[k] # StepNow[k - 1]
            /\ Len(StepNow) # 0 => StepNow[Len(StepNow)] = step
            <3>1. CASE seen.step = step
                  <4>1. StepNow = shown.step BY <1>0, <3>1, ConcatEmptySeq DEF StepNow, StepNews
                  <4> QED BY <2>1, <2>5, <3>1, <4>1 DEF NewsInv
            <3>2. CASE seen.step # step
                  <4>1. /\ <<step>> \in Seq(Steps) /\ Len(<<step>>) = 1 /\ <<step>>[1] = step
                        BY <1>0
                  <4>2. /\ Len(StepNow) = Len(shown.step) + 1
                        /\ \A k \in 1..Len(shown.step) + 1 :
                              StepNow[k] = IF k <= Len(shown.step) THEN shown.step[k] ELSE step
                        BY <1>0, <3>2, <4>1, ConcatProperties DEF StepNow, StepNews
                  <4>3. Len(shown.step) # 0 => shown.step[Len(shown.step)] # step
                        BY <2>1, <3>2 DEF NewsInv
                  <4>4. \A k \in 2..Len(shown.step) : shown.step[k] # shown.step[k - 1]
                        BY <2>5 DEF NewsInv
                  <4>5. Len(shown.step) \in Nat BY <1>0, LenProperties
                  <4>6. StepNow[Len(StepNow)] = step BY <4>2, <4>5
                  <4>7. ASSUME NEW k \in 2..Len(StepNow) PROVE StepNow[k] # StepNow[k - 1]
                        <5>1. StepNow[k - 1] = shown.step[k - 1] /\ k - 1 \in 1..Len(shown.step)
                              BY <4>2, <4>5
                        <5>2. CASE k \in 2..Len(shown.step)
                              <6>1. StepNow[k] = shown.step[k] BY <4>2, <4>5, <5>2
                              <6> QED BY <4>4, <5>1, <5>2, <6>1
                        <5>3. CASE k = Len(shown.step) + 1
                              <6>1. StepNow[k] = step BY <4>2, <4>5, <5>3
                              <6>2. k - 1 = Len(shown.step) /\ Len(shown.step) # 0
                                    BY <4>5, <5>3
                              <6> QED BY <4>3, <5>1, <6>1, <6>2
                        <5> QED BY <4>2, <4>5, <5>2, <5>3
                  <4> QED BY <4>6, <4>7
            <3> QED BY <3>1, <3>2
      <2> QED BY <1>0, <2>1, <2>2, <2>3, <2>5, <2>6 DEF NewsInv
<1>4. CASE Again \/ Snap
      <2>1. ~listed /\ listed' BY <1>4 DEF Again, Snap, List, ListInv
      <2>2. /\ shown'.events = shown.events \o AllEvents /\ shown'.step = shown.step \o AllSteps
            /\ seen' = seen /\ had'.events = events
            <3>1. List /\ seen' = seen BY <1>4 DEF Again, Snap
            <3>2. had'.events = events BY <1>0, <1>4 DEF Again, Snap, Had
            <3>3. /\ shown'.events = shown.events \o AllEvents
                  /\ shown'.step = shown.step \o AllSteps
                  BY <1>0, <3>1 DEF List, Shown
            <3> QED BY <3>1, <3>2, <3>3
      <2>3. events' = events /\ step' = step /\ workflow' = workflow
            BY <1>4 DEF Again, Snap, platform
      <2>4. shown.events = UpTo(seen.events)
            <3>1. shown.events = UpTo(seen.events) \o <<>> BY <2>1 DEF NewsInv
            <3> QED BY <1>0, <3>1, UpToType, ConcatEmptySeq
      <2>5. AllEvents = UpTo(events) BY DEF AllEvents, UpTo
      <2>6. shown'.events = UpTo(seen'.events) \o UpTo(had'.events) BY <2>2, <2>4, <2>5
      <2>7. seen'.events <= had'.events /\ had'.events <= events'
            BY <1>0, <2>2, <2>3 DEF NewsInv, Had
      <2>8. AllSteps' = AllSteps BY <2>3 DEF AllSteps
      <2>9. /\ Len(shown'.step) = Len(shown.step) + Len(AllSteps)
            /\ \A k \in 1..Len(shown.step) : shown'.step[k] = shown.step[k]
            /\ Len(AllSteps) \in Nat
            BY <1>0, <2>2, RecordType, ConcatProperties, LenProperties
      <2>10. StepChanges' = Len(shown.step) /\ StepChanges = Len(shown.step)
             BY <1>0, <2>1, <2>8, <2>9 DEF StepChanges
      <2>11. \A k \in 2..StepChanges' : shown'.step[k] # shown'.step[k - 1]
             <3>1. \A k \in 2..Len(shown.step) : shown.step[k] # shown.step[k - 1]
                   BY <2>10 DEF NewsInv
             <3>2. \A k \in 2..Len(shown.step) :
                      k \in 1..Len(shown.step) /\ k - 1 \in 1..Len(shown.step)
                   BY <1>0
             <3> QED BY <2>9, <2>10, <3>1, <3>2
      <2> QED BY <2>1, <2>6, <2>7, <2>11 DEF NewsInv
<1> QED BY <1>1, <1>2, <1>3, <1>4, NewsMove

--------------------------------------------------------------------------------
(* The verdict: the status in hand is an old one, or the one the run ended with. *)

LEMMA InHandMoves ==
    ASSUME TypeOK, [Next]_vars
    PROVE  /\ data' \in {data, status, None}
           /\ verdict' \in {verdict, data, "timeout", "error"} \/ verdict' = data'
<1>1. CASE Worker \/ Platform \/ DeadlinePasses BY <1>1, OthersFrame DEF watcher
<1>2. CASE Look
      <2>1. data' \in {data, status}
            <3>1. CASE InHand BY <1>2, <3>1 DEF Look
            <3>2. CASE ~InHand BY <1>2, <3>2 DEF Look
            <3> QED BY <3>1, <3>2
      <2> QED BY <1>2, <2>1 DEF Look, Done
<1>3. CASE Watch /\ ~Look
      BY <1>3
      DEF Watch, Start, PollEvents, PollSteps, PollLogs, LookFails, Last, Report, Check,
          Again, Snap, FetchEvents, FetchSteps, FetchLogs, FetchFails, Pass, Done
<1>4. CASE UNCHANGED vars BY <1>4 DEF vars, watcher
<1> QED BY <1>1, <1>2, <1>3, <1>4 DEF Next

LEMMA VerdictStep ==
    ASSUME TypeOK, VerdictInv, [Next]_vars
    PROVE  VerdictInv'
<1>1. None \notin Terminal BY RunWatchAssumption
<1>2. data' \in Terminal => data' = status'
      BY <1>1, InHandMoves, EndedStays DEF VerdictInv
<1>3. verdict' \in Terminal => verdict' = status'
      BY <1>2, InHandMoves, EndedStays DEF VerdictInv
<1> QED BY <1>2, <1>3 DEF VerdictInv

--------------------------------------------------------------------------------
LEMMA InitInv == Init => IInv
<1> SUFFICES ASSUME Init PROVE IInv OBVIOUS
<1>0. /\ emitted = <<>> /\ Len(emitted) = 0 /\ <<>> \in Seq(Items) /\ <<>> \in Seq(Nat)
      /\ <<>> \in Seq(Statuses \cup {"pending"})
      BY EmptySeq DEF Init
<1>1. shown \in Shown /\ had \in Had /\ seen \in Seen
      <2>1. shown \in Shown BY <1>0 DEF Init, Shown
      <2>2. had \in Had BY DEF Init, Had
      <2>3. seen \in Seen BY DEF Init, Seen, NothingSeen
      <2> QED BY <2>1, <2>2, <2>3
<1>2. TypeOK
      <2>1. /\ ordered \in BOOLEAN /\ fresh \in BOOLEAN /\ listed \in BOOLEAN
            /\ workflow \in BOOLEAN
            BY DEF Init
      <2>2. ingested \in 0..Len(emitted) /\ since \in 0..ingested /\ events \in Nat
            BY <1>0 DEF Init
      <2>3. data = None /\ verdict = None /\ step = "pending" BY DEF Init
      <2>4. /\ status \in Statuses /\ kind \in Kinds /\ faults \in Nat
            /\ buffer \subseteq arrived /\ arrived \cup lost \subseteq Items
            /\ emitted \in Seq(Items) /\ body = "idle" /\ pc = "start"
            BY <1>0, RunWatchAssumption DEF Init
      <2> QED BY <1>1, <2>1, <2>2, <2>3, <2>4 DEF TypeOK
<1>3. Printed = {} BY <1>0 DEF Printed
<1>4. MapInv BY <1>0, <1>3 DEF Init, MapInv
<1>5. EndInv BY DEF Init, EndInv
<1>6. LineInv
      <2>1. SubSeq(emitted, 1, 0) = <<>> BY SubSeqEmpty
      <2> QED BY <1>0, <2>1 DEF Init, LineInv
<1>7. NewsInv
      <2>1. UpTo(0) \o <<>> = <<>>
            <3>1. UpTo(0) \in Seq(Nat) /\ Len(UpTo(0)) = 0 BY UpToType
            <3> QED BY <3>1, EmptySeq, ConcatEmptySeq
      <2>2. StepChanges = 0 BY <1>0 DEF Init, StepChanges
      <2> QED BY <1>0, <2>1, <2>2 DEF Init, NewsInv, NothingSeen
<1>9. ListInv BY DEF Init, ListInv
<1>8. VerdictInv BY RunWatchAssumption DEF Init, VerdictInv
<1> QED BY <1>2, <1>4, <1>5, <1>6, <1>7, <1>8, <1>9 DEF IInv

LEMMA StepInv == IInv /\ [Next]_vars => IInv'
BY TypeStep, MapStep, EndStep, LineStep, ListStep, NewsStep, VerdictStep DEF IInv

(* The inductive invariant holds always.                                         *)
THEOREM Invariance == Spec => []IInv
BY InitInv, StepInv, PTL DEF Spec

(* Type correctness of the run, of its worker and of whoever watches it.         *)
THEOREM TypeCorrect == Spec => []TypeOK
<1>1. IInv => TypeOK BY DEF IInv
<1> QED BY <1>1, Invariance, PTL

(* What _stream_run_result prints is what happened, once and in order; the whole *)
(* record comes once more only past the timeout of `run logs`, after it. And     *)
(* what Function.map yields comes once and, if so asked, in the items' order.    *)
THEOREM ShownOnce == Spec => []ShownOnceInOrder
<1>1. IInv => ShownOnceInOrder
      BY DEF IInv, LineInv, ListInv, NewsInv, MapInv, ShownOnceInOrder
<1> QED BY <1>1, Invariance, PTL

(* A verdict is the run's own, comes after the lines the log store had when the  *)
(* run was found ended, and succeeded means that every result was given.         *)
THEOREM NothingMissing == Spec => []NothingLost
<1>1. IInv => NothingLost
      <2> SUFFICES ASSUME IInv, pc = "done", verdict \in Terminal
                   PROVE  /\ verdict = status
                          /\ kind # "result" /\ "logs" \in follows => Len(shown.lines) >= had.lines
                          /\ verdict = "succeeded" /\ lost = {} => Len(emitted) = N
          BY DEF NothingLost
      <2>1. verdict = status BY DEF IInv, VerdictInv
      <2>2. Len(shown.lines) = since
            <3>1. /\ emitted \in Seq(Items) /\ Len(emitted) \in Nat
                  /\ ingested \in 0..Len(emitted) /\ since \in 0..ingested
                  BY LenProperties DEF IInv, TypeOK
            <3> HIDE DEF Items
            <3>2. \A k \in 1..since : emitted[k] \in Items BY <3>1, ElementOfSeq
            <3>3. Len(SubSeq(emitted, 1, since)) = since BY <3>1, <3>2, SubSeqProperties
            <3> QED BY <3>3 DEF IInv, LineInv
      <2>3. kind # "result" /\ "logs" \in follows => since >= had.lines BY DEF IInv, LineInv
      <2>4. status = "succeeded" => body = "returned" BY DEF IInv, EndInv
      <2> QED BY <2>1, <2>2, <2>3, <2>4 DEF IInv, MapInv
<1> QED BY <1>1, Invariance, PTL
================================================================================
