-------------------------- MODULE HillclimbJobProofs --------------------------
(***************************************************************************)
(* Proofs about a hosted job: for any number of searches, records,         *)
(* commands and failing bucket calls, a job implements what HostedRun      *)
(* promises the readers of its bucket.                                     *)
(*                                                                         *)
(* The inductive invariant says what an engine's record tells of it        *)
(* (Engines), how far the copy under way and the remembered fingerprints   *)
(* are behind the records (Copying), who holds the lock while the main     *)
(* thread flushes (Held) and what that flush has reached (Flushed).  On it *)
(* rest Concluded, for the verdict of a returned result, Saved, for the    *)
(* status records an ended job leaves, and Delivered, for the commands.    *)
(***************************************************************************)
EXTENDS HillclimbJob, TLAPS

Engines ==
    /\ \A s \in Searches : engine[s] \in {"off", "up"} => state[s] \in {"none", "running"}
    /\ \A s \in Searches : state[s] = "none" => local[Status(s)] = 0
    /\ \A s \in Searches : state[s] = "running" => local[Status(s)] < MaxWrites
    /\ \A s \in Searches \ members : engine[s] = "off"
    /\ ~Fleet /\ main \notin {"launching", "waiting"} => \A s \in Searches : engine[s] # "up"

Copying ==
    /\ NothingForgotten
    /\ sync.reading =>
         /\ sync.next <= Len(Tree)
         /\ bucket[Current] <= sync.read /\ sync.read <= local[Current]

Held ==
    /\ main = "flushing" => sync.holder = "main" /\ sync.full
    /\ handler = "leaving" => main # "flushing"

Flushed ==
    /\ main = "summarising" => raising = "nothing" /\ \A f \in Files : bucket[f] = local[f]
    /\ main \in {"joining", "flushing", "summarising"} /\ raising = "nothing"
         => \A s \in members : Down(s)
    /\ main = "flushing" /\ raising = "nothing" =>
         /\ \A i \in 1..(sync.next - 1) : bucket[Tree[i]] = local[Tree[i]]
         /\ sync.reading => sync.read = local[Current]

Inv == TypeOK /\ Engines /\ Copying /\ Held /\ Flushed

--------------------------------------------------------------------------------
(* The records of the tree, and the status record of every search.         *)
LEMMA TreeTyped ==
    /\ Len(Tree) \in Nat /\ \A i \in 1..Len(Tree) : Tree[i] \in Files
    /\ \A f \in Files : \E i \in 1..Len(Tree) : Tree[i] = f
    /\ \A f \in Files : f[1] \in Searches
    /\ \A s \in Searches : Status(s) \in Files
  BY TreeAssumption DEF Files, Searches

(* The records differ from each other by search and kind.                  *)
LEMMA RecordsDiffer ==
    \A s, t \in Searches : (Status(s) = Status(t) => s = t) /\ Status(s) # Other(t) /\ Status(s)[1] = s
  BY DEF Status, Other

USE DEF Exits, States, Holders, MainPlaces, HandlerPlaces, LoopPlaces

(* The free lock is a copy not begun.                                      *)
LEMMA FreeTyped ==
    Free \in [holder : Holders, full : BOOLEAN, next : 1..(Len(Tree) + 1),
              reading : BOOLEAN, read : 0..MaxWrites]
  BY TreeTyped, LimitsAssumption DEF Free

(* Everything holds in the initial state.                                  *)
LEMMA InitInv == Init => Inv
  <1> SUFFICES ASSUME Init PROVE Inv
    OBVIOUS
  <1>1. TypeOK
    <2>1. members \subseteq Searches
      BY DEF Init
    <2>2. sync = Free
      BY DEF Init
    <2>3. /\ tick \in 0..(FullEvery - 1) /\ failures \in 0..MaxFailures
          /\ local \in [Files -> 0..MaxWrites]
          /\ uploaded \in [Files -> 0..MaxWrites] /\ bucket \in [Files -> 0..MaxWrites]
      BY LimitsAssumption DEF Init
    <2>4. /\ engine \in [Searches -> {"off", "up"} \cup Exits]
          /\ state \in [Searches -> States]
          /\ inbox \in [Searches -> SUBSET (Commands \cup {Stop})]
          /\ given \in [Searches -> SUBSET Commands]
      BY DEF Init
    <2> QED
      BY <2>1, <2>2, <2>3, <2>4, FreeTyped DEF Init, TypeOK
  <1>2. Engines /\ Copying /\ Held /\ Flushed
    BY TreeTyped, LimitsAssumption DEF Init, Engines, Copying, Held, Flushed, NothingForgotten, Free
  <1> QED
    BY <1>1, <1>2 DEF Inv

--------------------------------------------------------------------------------
(* An engine's step leaves the copy, the threads and the bucket alone and  *)
(* only adds to the records.                                               *)
EngineFrame ==
    UNCHANGED <<members, threads, sync, copies, control, failures, signalled, result>>

(* What the steps of an engine do to its exit, its state and its records.  *)
Advances(s) ==
    /\ EngineFrame /\ ~Over /\ engine[s] = "up" /\ s \in members
    /\ inbox' \in [Searches -> SUBSET (Commands \cup {Stop})]
    /\ engine' = engine \/ \E e \in Exits : engine' = [engine EXCEPT ![s] = e]
    /\ \/ state' = state /\ local' = local
       \/ /\ state[s] = "none" /\ state' = [state EXCEPT ![s] = "running"] /\ engine' = engine
          /\ local' = [local EXCEPT ![Status(s)] = @ + 1]
       \/ /\ state[s] = "running" /\ state' = state /\ engine' = engine
          /\ \E f \in Files : f[1] = s /\ local[f] < MaxWrites - 1 /\ local' = [local EXCEPT ![f] = @ + 1]
       \/ /\ state[s] = "running" /\ engine'[s] \in Exits
          /\ \E x \in States \ {"none", "running"} : state' = [state EXCEPT ![s] = x]
          /\ local' = [local EXCEPT ![Status(s)] = @ + 1]

LEMMA EngineAdvances ==
    ASSUME NEW s \in Searches, Inv, EngineWork(s) \/ EngineCrashes(s)
    PROVE  Advances(s)
  <1>0. TypeOK /\ engine[s] = "up" => s \in members
    BY DEF Inv, Engines
  <1>1. TypeOK
    BY DEF Inv
  <1> USE DEF EngineFrame, records, EngineWrites
  <1>2. ASSUME NEW x \in States, NEW e \in Exits, EngineExits(s, x, e), engine[s] = "up", ~Over,
               x = state[s] \/ (state[s] = "running" /\ x \notin {"none", "running"})
        PROVE  Advances(s)
    BY <1>0, <1>1, <1>2 DEF EngineExits, Advances, TypeOK
  <1>3. CASE EngineReports(s)
    BY <1>0, <1>1, <1>3 DEF EngineReports, EngineRuns, Advances, TypeOK
  <1>4. CASE EngineProgresses(s)
    <2>1. PICK f \in Files : f[1] = s /\ local[f] < MaxWrites - 1 /\ local' = [local EXCEPT ![f] = @ + 1]
      BY <1>4, TreeTyped DEF EngineProgresses, Status, Other
    <2> QED
      BY <1>0, <1>1, <1>4, <2>1 DEF EngineProgresses, EngineRuns, Advances, TypeOK
  <1>5. CASE EngineEnds(s)
    BY <1>2, <1>5 DEF EngineEnds, EngineRuns
  <1>6. CASE EngineObeys(s)
    BY <1>2, <1>6 DEF EngineObeys, EngineRuns
  <1>7. CASE EngineTerminated(s)
    BY <1>1, <1>2, <1>7 DEF EngineTerminated, TypeOK
  <1>8. CASE EngineCrashes(s)
    BY <1>1, <1>2, <1>8 DEF EngineCrashes, EngineRuns, TypeOK
  <1> QED
    BY <1>3, <1>4, <1>5, <1>6, <1>7, <1>8 DEF EngineWork

LEMMA EngineInv ==
    ASSUME NEW s \in Searches, Inv, Advances(s)
    PROVE  Inv'
  <1>1. EngineFrame /\ ~Over /\ engine[s] = "up" /\ s \in members
    BY DEF Advances
  <1>2. TypeOK /\ Engines
    BY DEF Inv
  <1>a. \/ local' = local
        \/ \E f \in Files : f[1] = s /\ local[f] < MaxWrites /\ local' = [local EXCEPT ![f] = @ + 1]
    <2>1. Status(s) \in Files /\ Status(s)[1] = s
      BY TreeTyped, RecordsDiffer
    <2>2. state[s] = "none" => local[Status(s)] < MaxWrites
      BY <1>2, LimitsAssumption DEF Engines
    <2>3. state[s] = "running" => local[Status(s)] < MaxWrites
      BY <1>2 DEF Engines
    <2>4. \A f \in Files : local[f] < MaxWrites - 1 => local[f] < MaxWrites
      BY <1>2, LimitsAssumption DEF TypeOK
    <2> QED
      BY <2>1, <2>2, <2>3, <2>4 DEF Advances
  <1>b. /\ local' \in [Files -> 0..MaxWrites]
        /\ \A f \in Files : local[f] <= local'[f]
    <2>1. local \in [Files -> 0..MaxWrites] /\ MaxWrites \in Nat
      BY <1>2, LimitsAssumption DEF TypeOK
    <2>2. CASE local' = local
      BY <2>1, <2>2
    <2>3. ASSUME NEW f \in Files, local[f] < MaxWrites, local' = [local EXCEPT ![f] = @ + 1]
          PROVE  /\ local' \in [Files -> 0..MaxWrites]
                 /\ \A g \in Files : local[g] <= local'[g]
      <3>1. local[f] + 1 \in 0..MaxWrites
        BY <2>1, <2>3
      <3>2. \A g \in Files : local'[g] = IF g = f THEN local[f] + 1 ELSE local[g]
        BY <2>1, <2>3
      <3>3. local' \in [Files -> 0..MaxWrites]
        BY <2>1, <2>3, <3>1
      <3>4. \A g \in Files : local[g] \in Nat
        BY <2>1
      <3> QED
        BY <3>2, <3>3, <3>4
    <2> QED
      BY <1>a, <2>2, <2>3
  <1>3. /\ engine' \in [Searches -> {"off", "up"} \cup Exits]
        /\ state' \in [Searches -> States]
        /\ local' \in [Files -> 0..MaxWrites]
        /\ \A f \in Files : local[f] <= local'[f]
    <2>1. engine' \in [Searches -> {"off", "up"} \cup Exits]
      BY <1>2 DEF Advances, TypeOK
    <2>2. state' \in [Searches -> States]
      BY <1>2 DEF Advances, TypeOK
    <2> QED
      BY <1>b, <2>1, <2>2
  <1>4. TypeOK'
    BY <1>1, <1>2, <1>3 DEF Advances, EngineFrame, TypeOK, threads, copies, control
  <1>5. Engines'
    <2>1. \A t \in Searches : engine'[t] \in {"off", "up"} => state'[t] \in {"none", "running"}
      BY <1>2, <1>3 DEF Advances, TypeOK, Engines
    <2>2. \A t \in Searches : state'[t] = "none" => local'[Status(t)] = 0
      <3> TAKE t \in Searches
      <3>1. CASE t = s
        BY <1>2, <1>3, <3>1, TreeTyped DEF Advances, TypeOK, Engines
      <3>2. CASE t # s
        <4>1. state'[t] = state[t]
          BY <1>2, <3>2 DEF Advances, TypeOK
        <4>2. local'[Status(t)] = local[Status(t)]
          BY <1>2, <1>a, <3>2, TreeTyped, RecordsDiffer DEF TypeOK
        <4> QED
          BY <1>2, <4>1, <4>2 DEF Engines
      <3> QED
        BY <3>1, <3>2
    <2>3. \A t \in Searches : state'[t] = "running" => local'[Status(t)] < MaxWrites
      <3> TAKE t \in Searches
      <3>1. CASE t = s
        <4> SUFFICES ASSUME state'[s] = "running" PROVE local'[Status(s)] < MaxWrites
          BY <3>1
        <4>1. Status(s) \in Files /\ local[Status(s)] \in Nat /\ MaxWrites \in Nat /\ MaxWrites > 1
          BY <1>2, TreeTyped, LimitsAssumption DEF TypeOK
        <4>2. CASE state' = state /\ local' = local
          BY <1>2, <4>2 DEF Engines
        <4>3. CASE state[s] = "none" /\ local' = [local EXCEPT ![Status(s)] = @ + 1]
          <5>1. local'[Status(s)] = 1
            BY <1>2, <4>1, <4>3 DEF TypeOK, Engines
          <5> QED
            BY <4>1, <5>1
        <4>4. ASSUME NEW f \in Files, state[s] = "running", local[f] < MaxWrites - 1,
                     local' = [local EXCEPT ![f] = @ + 1]
              PROVE  local'[Status(s)] < MaxWrites
          <5>1. local[Status(s)] < MaxWrites
            BY <1>2, <4>4 DEF Engines
          <5>2. local'[Status(s)] = IF f = Status(s) THEN local[f] + 1 ELSE local[Status(s)]
            BY <1>2, <4>1, <4>4 DEF TypeOK
          <5> QED
            BY <4>1, <4>4, <5>1, <5>2
        <4>5. CASE \E x \in States \ {"none", "running"} : state' = [state EXCEPT ![s] = x]
          BY <1>2, <4>5 DEF TypeOK
        <4> QED
          BY <4>2, <4>3, <4>4, <4>5 DEF Advances
      <3>2. CASE t # s
        <4>1. state'[t] = state[t]
          BY <1>2, <3>2 DEF Advances, TypeOK
        <4>2. local'[Status(t)] = local[Status(t)]
          BY <1>2, <1>a, <3>2, TreeTyped, RecordsDiffer DEF TypeOK
        <4> QED
          BY <1>2, <4>1, <4>2 DEF Engines
      <3> QED
        BY <3>1, <3>2
    <2>4. \A t \in Searches \ members' : engine'[t] = "off"
      BY <1>1, <1>2 DEF Advances, TypeOK, Engines, EngineFrame
    <2>5. ~Fleet' /\ main' \notin {"launching", "waiting"} => \A t \in Searches : engine'[t] # "up"
      BY <1>1, <1>2 DEF Advances, TypeOK, Engines, EngineFrame, Fleet, threads
    <2> QED
      BY <2>1, <2>2, <2>3, <2>4, <2>5 DEF Engines
  <1>6. Copying'
    <2>1. sync' = sync /\ bucket' = bucket /\ uploaded' = uploaded
      BY <1>1 DEF EngineFrame, copies
    <2>2. NothingForgotten'
      BY <1>2, <1>3, <2>1 DEF Inv, Copying, NothingForgotten, TypeOK
    <2>3. sync.reading => Tree[sync.next] \in Files
      BY <1>2, TreeTyped DEF Inv, Copying, TypeOK
    <2> QED
      BY <1>2, <1>3, <2>1, <2>2, <2>3 DEF Inv, Copying, TypeOK, Current
  <1>7. Held' /\ Flushed'
    <2>1. ~(main \in {"joining", "flushing", "summarising"} /\ raising = "nothing")
      BY <1>1 DEF Inv, Flushed, Down
    <2> QED
      BY <1>1, <2>1 DEF Inv, Held, Flushed, EngineFrame, threads
  <1> QED
    BY <1>4, <1>5, <1>6, <1>7 DEF Inv

--------------------------------------------------------------------------------
(* The copy: what the bucket may get, and what is remembered.              *)

SyncType == [holder : Holders, full : BOOLEAN, next : 1..(Len(Tree) + 1),
             reading : BOOLEAN, read : 0..MaxWrites]
Versions == [Files -> 0..MaxWrites]

(* An upload never takes a record in the bucket back.                      *)
LEMMA PutForward ==
    ASSUME Inv, sync.reading, Put(Current)
    PROVE  /\ Current \in Files /\ sync.next <= Len(Tree)
           /\ sync.read <= bucket'[Current] /\ bucket'[Current] <= local[Current]
           /\ bucket' \in Versions
           /\ \E v \in bucket[Current]..local[Current] : bucket' = [bucket EXCEPT ![Current] = v]
  <1>1. sync \in SyncType /\ bucket \in Versions /\ local \in Versions /\ MaxWrites \in Nat
    BY LimitsAssumption DEF Inv, TypeOK, SyncType, Versions
  <1>2. sync.next <= Len(Tree) /\ bucket[Current] <= sync.read /\ sync.read <= local[Current]
    BY DEF Inv, Copying
  <1>3. Current \in Files
    BY <1>1, <1>2, TreeTyped DEF Current, SyncType
  <1>4. PICK v \in sync.read..local[Current] : bucket' = [bucket EXCEPT ![Current] = v]
    BY DEF Put
  <1>5. sync.read \in Nat /\ bucket[Current] \in Nat /\ local[Current] \in 0..MaxWrites
    BY <1>1, <1>3 DEF SyncType, Versions
  <1>6. v \in bucket[Current]..local[Current] /\ v \in 0..MaxWrites
    BY <1>1, <1>2, <1>4, <1>5
  <1>7. bucket'[Current] = v /\ bucket' \in Versions
    BY <1>1, <1>3, <1>4, <1>6 DEF Versions
  <1>8. sync.read <= v /\ v <= local[Current]
    BY <1>1, <1>4, <1>5
  <1> QED
    BY <1>2, <1>3, <1>4, <1>6, <1>7, <1>8

(* A step of the copy, while nothing is written.                           *)
LEMMA CopyStepSafe ==
    ASSUME Inv, NEW who, CopyStep(who), local' = local
    PROVE  /\ sync' \in SyncType /\ bucket' \in Versions /\ uploaded' \in Versions
           /\ sync'.holder = sync.holder /\ sync'.full = sync.full
           /\ Copying'
           /\ \/ bucket' = bucket
              \/ sync.reading /\ \E v \in bucket[Current]..local[Current] : bucket' = [bucket EXCEPT ![Current] = v]
  <1>1. sync \in SyncType /\ bucket \in Versions /\ local \in Versions /\ uploaded \in Versions /\ MaxWrites \in Nat
    BY LimitsAssumption DEF Inv, TypeOK, SyncType, Versions
  <1>2. NothingForgotten
    BY DEF Inv, Copying
  <1>3. CASE StatFile
    <2>1. bucket' = bucket /\ uploaded' = uploaded /\ ~sync.reading /\ sync.next <= Len(Tree)
      BY <1>3 DEF StatFile, copies
    <2>2. Current \in Files
      BY <1>1, <2>1, TreeTyped DEF Current, SyncType
    <2>3. local[Current] \in 0..MaxWrites
      BY <1>1, <2>2 DEF Versions
    <2>4. NothingForgotten'
      BY <1>2, <2>1 DEF NothingForgotten
    <2>5. CASE Passed(Current)
      <3>1. sync' = [sync EXCEPT !.next = @ + 1]
        BY <1>3, <2>5 DEF StatFile
      <3>2. sync' \in SyncType /\ ~sync'.reading /\ sync'.holder = sync.holder /\ sync'.full = sync.full
        BY <1>1, <2>1, <3>1, TreeTyped DEF SyncType
      <3> QED
        BY <1>1, <2>1, <2>4, <3>2 DEF Copying
    <2>6. CASE ~Passed(Current)
      <3>1. sync' = [sync EXCEPT !.reading = TRUE, !.read = local[Current]]
        BY <1>3, <2>6 DEF StatFile
      <3>2. /\ sync' \in SyncType /\ sync'.next = sync.next /\ sync'.read = local[Current]
            /\ sync'.holder = sync.holder /\ sync'.full = sync.full
        BY <1>1, <2>3, <3>1 DEF SyncType
      <3>3. Current' = Current
        BY <3>2 DEF Current
      <3>4. bucket[Current] <= local[Current] /\ local[Current] <= local[Current]
        BY <1>2, <2>2, <2>3 DEF NothingForgotten
      <3> QED
        BY <1>1, <2>1, <2>4, <3>2, <3>3, <3>4 DEF Copying
    <2> QED
      BY <2>5, <2>6
  <1>4. CASE PutFile
    <2>1. sync.reading /\ Put(Current) /\ RememberFingerprint(Current)
          /\ sync' = [sync EXCEPT !.next = @ + 1, !.reading = FALSE, !.read = 0]
      BY <1>4 DEF PutFile
    <2>2. /\ Current \in Files /\ sync.next <= Len(Tree)
          /\ sync.read <= bucket'[Current] /\ bucket'[Current] <= local[Current]
          /\ bucket' \in Versions
          /\ \E v \in bucket[Current]..local[Current] : bucket' = [bucket EXCEPT ![Current] = v]
      BY <2>1, PutForward
    <2>3. sync' \in SyncType /\ ~sync'.reading /\ sync'.holder = sync.holder /\ sync'.full = sync.full
      <3>1. sync.next + 1 \in 1..(Len(Tree) + 1) /\ 0 \in 0..MaxWrites
        BY <1>1, <2>2, TreeTyped DEF SyncType
      <3> QED
        BY <1>1, <2>1, <3>1 DEF SyncType
    <2>4. uploaded' = [uploaded EXCEPT ![Current] = sync.read] /\ sync.read \in 0..MaxWrites
      BY <1>1, <2>1 DEF RememberFingerprint, SyncType
    <2>5. uploaded' \in Versions
      BY <1>1, <2>4 DEF Versions
    <2>6. NothingForgotten'
      <3> SUFFICES ASSUME NEW f \in Files PROVE uploaded'[f] <= bucket'[f] /\ bucket'[f] <= local[f]
        BY DEF NothingForgotten
      <3>1. CASE f = Current
        BY <1>1, <2>2, <2>4, <3>1 DEF Versions
      <3>2. CASE f # Current
        <4>1. uploaded'[f] = uploaded[f] /\ bucket'[f] = bucket[f]
          BY <1>1, <2>2, <2>4, <3>2 DEF Versions
        <4> QED
          BY <1>2, <4>1 DEF NothingForgotten
      <3> QED
        BY <3>1, <3>2
    <2> QED
      BY <2>1, <2>2, <2>3, <2>5, <2>6 DEF Copying
  <1> QED
    BY <1>3, <1>4 DEF CopyStep

(* A copy that fails lets go of the lock and has remembered nothing.       *)
LEMMA CopyFailsSafe ==
    ASSUME Inv, NEW who, CopyFails(who), local' = local
    PROVE  /\ sync' = Free /\ bucket' \in Versions /\ uploaded' = uploaded
           /\ Copying' /\ failures' \in 0..MaxFailures
           /\ \/ bucket' = bucket
              \/ \E v \in bucket[Current]..local[Current] : bucket' = [bucket EXCEPT ![Current] = v]
           /\ Current \in Files
  <1>1. bucket \in Versions /\ local \in Versions /\ uploaded \in Versions /\ failures \in 0..MaxFailures
    BY DEF Inv, TypeOK, Versions
  <1>2. NothingForgotten /\ sync.reading
    BY DEF Inv, Copying, CopyFails
  <1>3. failures' \in 0..MaxFailures
    BY <1>1, LimitsAssumption DEF CopyFails, BucketFails
  <1>4. sync' = Free /\ uploaded' = uploaded /\ ~sync'.reading
    BY DEF CopyFails, Free
  <1>5. Current \in Files
    <2>1. sync \in SyncType /\ sync.next <= Len(Tree)
      BY <1>2 DEF Inv, Copying, TypeOK, SyncType
    <2> QED
      BY <2>1, TreeTyped DEF Current, SyncType
  <1>6. CASE bucket' = bucket
    BY <1>1, <1>2, <1>3, <1>4, <1>5, <1>6 DEF Copying, NothingForgotten
  <1>7. CASE Put(Current)
    <2>1. /\ bucket' \in Versions /\ bucket'[Current] <= local[Current]
          /\ \E v \in bucket[Current]..local[Current] : bucket' = [bucket EXCEPT ![Current] = v]
      BY <1>2, <1>7, PutForward
    <2>2. NothingForgotten'
      <3> SUFFICES ASSUME NEW f \in Files PROVE uploaded[f] <= bucket'[f] /\ bucket'[f] <= local[f]
        BY <1>4 DEF NothingForgotten
      <3>1. bucket[f] <= bucket'[f]
        BY <1>1, <2>1 DEF Versions
      <3>2. bucket'[f] <= local[f]
        BY <1>1, <1>2, <2>1 DEF Versions, NothingForgotten
      <3>3. uploaded[f] <= bucket[f] /\ uploaded[f] \in Nat /\ bucket[f] \in Nat /\ bucket'[f] \in Nat
        BY <1>1, <1>2, <2>1 DEF Versions, NothingForgotten
      <3> QED
        BY <3>1, <3>2, <3>3
    <2> QED
      BY <1>3, <1>4, <1>5, <2>1, <2>2 DEF Copying
  <1> QED
    BY <1>6, <1>7 DEF CopyFails

--------------------------------------------------------------------------------
(* When the handler unwinds a search that runs in its thread, the search   *)
(* may park: its status record gets one version more.                      *)
LEMMA ExitsAdvance ==
    ASSUME Inv, HandlerExits
    PROVE  /\ local' \in Versions
           /\ \A f \in Files : local'[f] = local[f] \/ local'[f] = local[f] + 1
           /\ \A f \in Files : local'[f] # local[f] => ~Fleet /\ engine[f[1]] = "up"
  <1>1. TypeOK /\ Engines /\ MaxWrites \in Nat /\ MaxWrites > 1
    BY LimitsAssumption DEF Inv
  <1>2. local \in Versions
    BY <1>1 DEF TypeOK, Versions
  <1>3. CASE local' = local
    BY <1>2, <1>3
  <1>4. CASE ~Fleet /\ local' = [f \in Files |-> local[f] + IF engine[f[1]] = "up" /\ f[2] = "status" THEN 1 ELSE 0]
    <2> SUFFICES ASSUME NEW f \in Files
                 PROVE  /\ local'[f] \in 0..MaxWrites
                        /\ local'[f] = local[f] \/ local'[f] = local[f] + 1
                        /\ local'[f] # local[f] => engine[f[1]] = "up"
      BY <1>4 DEF Versions
    <2>1. local[f] \in 0..MaxWrites
      BY <1>2 DEF Versions
    <2>2. CASE engine[f[1]] = "up" /\ f[2] = "status"
      <3>1. f[1] \in Searches /\ f = Status(f[1])
        BY <2>2, TreeTyped, TreeAssumption DEF Status, Files
      <3>2. local[f] < MaxWrites
        BY <1>1, <2>2, <3>1 DEF Engines
      <3> QED
        BY <1>1, <1>4, <2>1, <2>2, <3>2
    <2>3. CASE ~(engine[f[1]] = "up" /\ f[2] = "status")
      BY <1>1, <1>4, <2>1, <2>3
    <2> QED
      BY <2>2, <2>3
  <1> QED
    BY <1>3, <1>4 DEF HandlerExits

--------------------------------------------------------------------------------
(* Types: one step per action.                                             *)

(* What a lock gives its holder is a copy not begun.                       *)
LEMMA LockTyped ==
    ASSUME NEW who \in {"main", "loop", "handler"}, NEW full \in BOOLEAN, Lock(who, full)
    PROVE  /\ sync' \in SyncType /\ sync'.holder = who /\ sync'.full = full
           /\ ~sync'.reading /\ sync'.next = 1 /\ sync.holder = Nobody
  BY FreeTyped DEF Lock, SyncType, Free

LEMMA LoopTyped ==
    ASSUME Inv, LoopStep
    PROVE  TypeOK'
  <1> USE DEF threads, records, copies, control
  <1>1. TypeOK
    BY DEF Inv
  <1>2. CASE LoopTick
    <2>1. tick' \in 0..(FullEvery - 1)
      BY <1>1, <1>2, LimitsAssumption DEF LoopTick, TypeOK
    <2> QED
      BY <1>1, <1>2, <2>1 DEF LoopTick, TypeOK
  <1>3. CASE LoopLocks
    <2>1. sync' \in SyncType
      BY <1>3, LockTyped DEF LoopLocks, FullTick
    <2> QED
      BY <1>1, <1>3, <2>1 DEF LoopLocks, TypeOK, SyncType
  <1>4. CASE LoopCopies
    <2>1. sync' \in SyncType /\ bucket' \in Versions /\ uploaded' \in Versions /\ failures' = failures
      BY <1>4, CopyStepSafe DEF LoopCopies, CopyStep
    <2> QED
      BY <1>1, <1>4, <2>1 DEF LoopCopies, TypeOK, SyncType, Versions
  <1>5. CASE LoopCopyFails
    <2>1. sync' \in SyncType /\ bucket' \in Versions /\ uploaded' = uploaded /\ failures' \in 0..MaxFailures
      BY <1>5, CopyFailsSafe, FreeTyped DEF LoopCopyFails, SyncType
    <2> QED
      BY <1>1, <1>5, <2>1 DEF LoopCopyFails, LoopGoesOn, TypeOK, SyncType, Versions
  <1>6. CASE LoopCopyDone
    <2>1. sync' \in SyncType
      BY <1>6, FreeTyped DEF LoopCopyDone, CopyDone, SyncType
    <2> QED
      BY <1>1, <1>6, <2>1 DEF LoopCopyDone, TypeOK, SyncType
  <1>7. CASE ListCommands
    <2>1. failures' \in 0..MaxFailures
      BY <1>1, <1>7, LimitsAssumption DEF ListCommands, BucketFails, TypeOK
    <2> QED
      BY <1>1, <1>7, <2>1 DEF ListCommands, ListNewCommands, LoopGoesOn, TypeOK
  <1>8. ASSUME NEW c \in Commands, PullCommand(c)
        PROVE  TypeOK'
    <2>1. failures' \in 0..MaxFailures
      BY <1>1, <1>8, LimitsAssumption DEF PullCommand, BucketFails, TypeOK
    <2>2. inbox' \in [Searches -> SUBSET (Commands \cup {Stop})] /\ given' \in [Searches -> SUBSET Commands]
      <3>1. CASE inbox' = inbox /\ given' = given
        BY <1>1, <3>1 DEF TypeOK
      <3>2. CASE /\ inbox' = [s \in Searches |-> IF s \in Running THEN inbox[s] \cup {c} ELSE inbox[s]]
                 /\ given' = [s \in Searches |-> IF s \in Running THEN given[s] \cup {c} ELSE given[s]]
        <4>1. \A s \in Searches : inbox[s] \in SUBSET (Commands \cup {Stop}) /\ given[s] \in SUBSET Commands
          BY <1>1 DEF TypeOK
        <4>2. \A s \in Searches : inbox'[s] \in SUBSET (Commands \cup {Stop}) /\ given'[s] \in SUBSET Commands
          BY <3>2, <4>1
        <4> QED
          BY <3>2, <4>2
      <3> QED
        BY <1>8, <3>1, <3>2 DEF PullCommand
    <2> QED
      BY <1>1, <1>8, <2>1, <2>2 DEF PullCommand, LoopGoesOn, TypeOK
  <1>9. CASE PullDone \/ LoopEnds
    BY <1>1, <1>9 DEF PullDone, LoopEnds, TypeOK
  <1> QED
    BY <1>2, <1>3, <1>4, <1>5, <1>6, <1>7, <1>8, <1>9 DEF LoopStep

LEMMA MainTyped ==
    ASSUME Inv, MainStep
    PROVE  TypeOK'
  <1> USE DEF threads, records, copies, control, MainGoes
  <1>1. TypeOK
    BY DEF Inv
  <1>2. CASE Setup
    <2>1. failures' \in 0..MaxFailures
      BY <1>1, <1>2, LimitsAssumption DEF Setup, BucketFails, TypeOK
    <2> QED
      BY <1>1, <1>2, <2>1 DEF Setup, TypeOK
  <1>3. CASE InstallHandler \/ Launched \/ LaunchFails \/ SearchesEnd \/ Parked
    BY <1>1, <1>3 DEF InstallHandler, Launched, LaunchFails, SearchesEnd, Parked, TypeOK
  <1>4. ASSUME NEW s \in Searches, Launch(s)
        PROVE  TypeOK'
    BY <1>1, <1>4 DEF Launch, TypeOK
  <1>5. CASE Deadline
    <2>1. inbox' \in [Searches -> SUBSET (Commands \cup {Stop})]
      BY <1>1, <1>5 DEF Deadline, StopEverywhere, TypeOK
    <2> QED
      BY <1>1, <1>5, <2>1 DEF Deadline, TypeOK
  <1>6. CASE Flush
    <2>1. sync' \in SyncType
      BY <1>6, LockTyped DEF Flush
    <2> QED
      BY <1>1, <1>6, <2>1 DEF Flush, TypeOK, SyncType
  <1>7. CASE FlushCopies
    <2>1. sync' \in SyncType /\ bucket' \in Versions /\ uploaded' \in Versions /\ failures' = failures
      BY <1>7, CopyStepSafe DEF FlushCopies, CopyStep
    <2> QED
      BY <1>1, <1>7, <2>1 DEF FlushCopies, TypeOK, SyncType, Versions
  <1>8. CASE FlushFails
    <2>1. sync' \in SyncType /\ bucket' \in Versions /\ uploaded' = uploaded /\ failures' \in 0..MaxFailures
      BY <1>8, CopyFailsSafe, FreeTyped DEF FlushFails, SyncType
    <2> QED
      BY <1>1, <1>8, <2>1 DEF FlushFails, TypeOK, SyncType, Versions
  <1>9. CASE FlushDone
    <2>1. sync' \in SyncType
      BY <1>9, FreeTyped DEF FlushDone, CopyDone, SyncType
    <2>2. main' \in {"summarising", "raised", "exited"}
      BY <1>9 DEF FlushDone
    <2> QED
      BY <1>1, <1>9, <2>1, <2>2 DEF FlushDone, TypeOK, SyncType
  <1>10. CASE Summarise
    <2>1. Verdict \in Verdicts
      <3>1. \A a, b, c, d, e \in BOOLEAN :
              (CASE a -> "failed" [] b -> "done" [] c -> "failed" [] d -> "parked" [] e -> "stopped"
                 [] OTHER -> "running") \in Verdicts
        BY DEF Verdicts
      <3> QED
        BY <3>1 DEF Verdict
    <2>2. result' \in [state : Verdicts, error : BOOLEAN]
      BY <1>10, <2>1 DEF Summarise, ErrorOfExits
    <2> QED
      BY <1>1, <1>10, <2>2 DEF Summarise, TypeOK
  <1> QED
    BY <1>2, <1>3, <1>4, <1>5, <1>6, <1>7, <1>8, <1>9, <1>10 DEF MainStep

LEMMA HandlerTyped ==
    ASSUME Inv, HandlerStep
    PROVE  TypeOK'
  <1> USE DEF threads, records, copies, control
  <1>1. TypeOK
    BY DEF Inv
  <1>2. CASE HandlerStops
    <2>1. inbox' \in [Searches -> SUBSET (Commands \cup {Stop})]
      BY <1>1, <1>2 DEF HandlerStops, StopEverywhere, TypeOK
    <2> QED
      BY <1>1, <1>2, <2>1 DEF HandlerStops, TypeOK
  <1>3. CASE HandlerParked \/ HandlerReturns
    BY <1>1, <1>3 DEF HandlerParked, HandlerReturns, TypeOK
  <1>4. CASE HandlerLocks
    <2>1. sync' \in SyncType
      BY <1>4, LockTyped DEF HandlerLocks
    <2> QED
      BY <1>1, <1>4, <2>1 DEF HandlerLocks, TypeOK, SyncType
  <1>5. CASE HandlerCopies
    <2>1. sync' \in SyncType /\ bucket' \in Versions /\ uploaded' \in Versions /\ failures' = failures
      BY <1>5, CopyStepSafe DEF HandlerCopies, CopyStep
    <2> QED
      BY <1>1, <1>5, <2>1 DEF HandlerCopies, TypeOK, SyncType, Versions
  <1>6. CASE HandlerFlushed
    <2>1. sync' \in SyncType /\ bucket' \in Versions /\ uploaded' = uploaded /\ failures' \in 0..MaxFailures
      <3>1. CASE CopyDone("handler") /\ UNCHANGED <<copies, failures>>
        BY <1>1, <3>1, FreeTyped DEF CopyDone, SyncType, TypeOK, Versions
      <3>2. CASE CopyFails("handler")
        BY <1>6, <3>2, CopyFailsSafe, FreeTyped DEF HandlerFlushed, SyncType
      <3> QED
        BY <1>6, <3>1, <3>2 DEF HandlerFlushed
    <2> QED
      BY <1>1, <1>6, <2>1 DEF HandlerFlushed, TypeOK, SyncType, Versions
  <1>7. CASE HandlerExits
    <2>1. main' \in MainPlaces
      BY <1>7 DEF HandlerExits, LeftAfter
    <2>2. engine' \in [Searches -> {"off", "up"} \cup Exits] /\ state' \in [Searches -> States]
      BY <1>1, <1>7 DEF HandlerExits, TypeOK
    <2>3. local' \in Versions
      BY <1>7, ExitsAdvance DEF Versions
    <2> QED
      BY <1>1, <1>7, <2>1, <2>2, <2>3 DEF HandlerExits, TypeOK, Versions
  <1> QED
    BY <1>2, <1>3, <1>4, <1>5, <1>6, <1>7 DEF HandlerStep

--------------------------------------------------------------------------------
(* The other parts of the invariant: steps that leave the records and the  *)
(* main thread alone.                                                      *)
Parts == Engines /\ Copying /\ Held /\ Flushed
SearchFrame == UNCHANGED <<members, main, raising, engine, state, local>>

(* Waiting, commands, and the handler's decisions.                         *)
LEMMA PlumbingParts ==
    ASSUME Inv, SearchFrame, UNCHANGED <<sync, bucket, uploaded>>,
           handler' = "leaving" => handler = "leaving"
    PROVE  Parts'
  <1>1. Engines' /\ Copying' /\ Flushed'
    BY DEF Inv, SearchFrame, Engines, Copying, NothingForgotten, Flushed, Fleet, Down, Current
  <1>2. Held'
    BY DEF Inv, SearchFrame, Held
  <1> QED
    BY <1>1, <1>2 DEF Parts

(* Taking, using and freeing the lock while it is not the main thread's: a *)
(* bucket that has everything is left as it is.                            *)
LEMMA UnheldParts ==
    ASSUME Inv, SearchFrame, sync.holder # "main", Copying',
           \/ bucket' = bucket
           \/ Current \in Files /\ \E v \in bucket[Current]..local[Current] : bucket' = [bucket EXCEPT ![Current] = v]
    PROVE  Parts'
  <1>1. main # "flushing"
    BY DEF Inv, Held
  <1>2. Engines'
    BY DEF Inv, SearchFrame, Engines, Fleet
  <1>3. Held'
    BY <1>1 DEF SearchFrame, Held
  <1>4. ASSUME main = "summarising"
        PROVE  bucket' = bucket
    <2>1. bucket \in Versions /\ local \in Versions
      BY DEF Inv, TypeOK, Versions
    <2>2. Current \in Files => bucket[Current] = local[Current] /\ local[Current] \in Nat
      BY <1>4, <2>1 DEF Inv, Flushed, Versions
    <2> QED
      BY <2>1, <2>2 DEF Versions
  <1>5. Flushed'
    BY <1>1, <1>4 DEF Inv, SearchFrame, Flushed, Down
  <1> QED
    BY <1>2, <1>3, <1>5 DEF Parts

LEMMA CurrentTyped ==
    ASSUME Inv, sync.reading
    PROVE  Current \in Files /\ sync.next <= Len(Tree)
  <1>1. sync.next \in 1..(Len(Tree) + 1) /\ sync.next <= Len(Tree)
    BY DEF Inv, TypeOK, Copying
  <1> QED
    BY <1>1, TreeTyped DEF Current

(* A copy not begun has read nothing.                                      *)
LEMMA IdleCopying ==
    ASSUME Inv, UNCHANGED <<local, bucket, uploaded>>, ~sync'.reading
    PROVE  Copying'
  BY DEF Inv, Copying, NothingForgotten

LEMMA LoopParts ==
    ASSUME Inv, LoopStep
    PROVE  Parts'
  <1> USE DEF threads, records, copies, control, SearchFrame
  <1>1. CASE LoopTick \/ ListCommands \/ (\E c \in Commands : PullCommand(c)) \/ PullDone \/ LoopEnds
    BY <1>1, PlumbingParts DEF LoopTick, ListCommands, PullCommand, PullDone, LoopEnds
  <1>2. CASE LoopLocks
    <2>1. sync.holder = Nobody /\ ~sync'.reading
      BY <1>2, LockTyped DEF LoopLocks, FullTick
    <2>2. SearchFrame /\ bucket' = bucket /\ uploaded' = uploaded
      BY <1>2 DEF LoopLocks
    <2> QED
      BY <2>1, <2>2, NobodyAssumption, IdleCopying, UnheldParts
  <1>3. CASE LoopCopies
    <2>1. SearchFrame /\ sync.holder = "loop" /\ CopyStep("loop")
      BY <1>3 DEF LoopCopies, CopyStep
    <2>2. /\ Copying'
          /\ \/ bucket' = bucket
             \/ sync.reading /\ \E v \in bucket[Current]..local[Current] : bucket' = [bucket EXCEPT ![Current] = v]
      BY <2>1, CopyStepSafe
    <2> QED
      BY <2>1, <2>2, CurrentTyped, UnheldParts
  <1>4. CASE LoopCopyFails
    <2>1. SearchFrame /\ sync.holder = "loop" /\ CopyFails("loop")
      BY <1>4 DEF LoopCopyFails, CopyFails
    <2> QED
      BY <2>1, CopyFailsSafe, UnheldParts
  <1>5. CASE LoopCopyDone
    <2>1. SearchFrame /\ sync.holder = "loop" /\ ~sync'.reading /\ bucket' = bucket /\ uploaded' = uploaded
      BY <1>5 DEF LoopCopyDone, CopyDone, Free
    <2> QED
      BY <2>1, IdleCopying, UnheldParts
  <1> QED
    BY <1>1, <1>2, <1>3, <1>4, <1>5 DEF LoopStep

--------------------------------------------------------------------------------
(* The main thread's final flush: it is the lock's holder, its searches    *)
(* are down unless it is unwinding, and every record it has passed is in   *)
(* the bucket.                                                             *)
LEMMA FlushCopiesParts ==
    ASSUME Inv, FlushCopies
    PROVE  Parts'
  <1>1. SearchFrame /\ handler' = handler /\ main = "flushing" /\ CopyStep("main")
    BY DEF FlushCopies, SearchFrame, threads, records
  <1>2. /\ Copying' /\ sync'.holder = sync.holder /\ sync'.full = sync.full /\ sync' \in SyncType
        /\ \/ bucket' = bucket
           \/ sync.reading /\ \E v \in bucket[Current]..local[Current] : bucket' = [bucket EXCEPT ![Current] = v]
    BY <1>1, CopyStepSafe DEF SearchFrame
  <1>3. Engines'
    BY <1>1 DEF Inv, SearchFrame, Engines, Fleet
  <1>4. Held'
    BY <1>1, <1>2 DEF Inv, SearchFrame, Held
  <1>5. ASSUME raising = "nothing"
        PROVE  /\ \A i \in 1..(sync'.next - 1) : bucket'[Tree[i]] = local[Tree[i]]
               /\ sync'.reading => sync'.read = local[Tree[sync'.next]]
    <2>1. /\ \A i \in 1..(sync.next - 1) : bucket[Tree[i]] = local[Tree[i]]
          /\ sync.reading => sync.read = local[Current]
      BY <1>1, <1>5 DEF Inv, Flushed
    <2>2. sync \in SyncType /\ bucket \in Versions /\ local \in Versions /\ uploaded \in Versions
      BY DEF Inv, TypeOK, SyncType, Versions
    <2>3. sync.full /\ NothingForgotten
      BY <1>1 DEF Inv, Held, Copying
    <2>4. sync.next \in Nat /\ sync.next >= 1
      BY <2>2, TreeTyped DEF SyncType
    <2>5. CASE StatFile /\ Passed(Current)
      <3>1. sync' = [sync EXCEPT !.next = @ + 1] /\ bucket' = bucket /\ ~sync.reading /\ sync.next <= Len(Tree)
        BY <2>5 DEF StatFile, copies
      <3>2. sync'.next = sync.next + 1 /\ ~sync'.reading
        BY <2>2, <3>1 DEF SyncType
      <3>3. Current \in Files
        BY <2>4, <3>1, TreeTyped DEF Current
      <3>4. local[Current] = uploaded[Current]
        BY <2>3, <2>5 DEF Passed
      <3>5. bucket[Current] = local[Current]
        BY <2>2, <2>3, <3>3, <3>4 DEF NothingForgotten, Versions
      <3>6. \A i \in 1..sync.next : i \in 1..(sync.next - 1) \/ i = sync.next
        BY <2>4
      <3>7. sync'.next - 1 = sync.next
        BY <2>4, <3>2
      <3> QED
        BY <2>1, <3>1, <3>2, <3>5, <3>6, <3>7 DEF Current
    <2>6. CASE StatFile /\ ~Passed(Current)
      <3>1. sync' = [sync EXCEPT !.reading = TRUE, !.read = local[Current]] /\ bucket' = bucket
        BY <2>6 DEF StatFile, copies
      <3>2. sync'.next = sync.next /\ sync'.read = local[Current]
        BY <2>2, <3>1 DEF SyncType
      <3> QED
        BY <2>1, <3>1, <3>2 DEF Current
    <2>7. CASE PutFile
      <3>1. sync.reading /\ Put(Current) /\ sync' = [sync EXCEPT !.next = @ + 1, !.reading = FALSE, !.read = 0]
        BY <2>7 DEF PutFile
      <3>2. sync'.next = sync.next + 1 /\ ~sync'.reading
        BY <2>2, <3>1 DEF SyncType
      <3>3. /\ Current \in Files /\ sync.next <= Len(Tree)
            /\ sync.read <= bucket'[Current] /\ bucket'[Current] <= local[Current] /\ bucket' \in Versions
            /\ \E v \in bucket[Current]..local[Current] : bucket' = [bucket EXCEPT ![Current] = v]
        BY <3>1, PutForward
      <3>4. bucket'[Current] = local[Current]
        BY <2>1, <2>2, <3>1, <3>3 DEF Versions
      <3>5. \A i \in 1..(sync.next - 1) : bucket'[Tree[i]] = local[Tree[i]]
        <4> TAKE i \in 1..(sync.next - 1)
        <4>1. Tree[i] \in Files /\ bucket[Tree[i]] = local[Tree[i]]
          BY <2>1, <2>4, <3>3, TreeTyped
        <4>2. CASE Tree[i] = Current
          BY <3>4, <4>2
        <4>3. CASE Tree[i] # Current
          BY <2>2, <3>3, <4>1, <4>3 DEF Versions
        <4> QED
          BY <4>2, <4>3
      <3>6. \A i \in 1..sync.next : i \in 1..(sync.next - 1) \/ i = sync.next
        BY <2>4
      <3>7. sync'.next - 1 = sync.next
        BY <2>4, <3>2
      <3> QED
        BY <3>2, <3>4, <3>5, <3>6, <3>7 DEF Current
    <2> QED
      BY <1>1, <2>5, <2>6, <2>7 DEF CopyStep
  <1>6. Flushed'
    BY <1>1, <1>5 DEF Inv, SearchFrame, Flushed, Down, Current
  <1> QED
    BY <1>2, <1>3, <1>4, <1>6 DEF Parts

(* The flush over: with nothing raised every record is in the bucket.      *)
LEMMA FlushDoneParts ==
    ASSUME Inv, FlushDone
    PROVE  Parts'
  <1>1. /\ UNCHANGED <<members, raising, handler, engine, state, local, uploaded, bucket>>
        /\ main = "flushing" /\ CopyDone("main")
        /\ main' \in {"summarising", "raised", "exited"} /\ (main' = "summarising" => raising = "nothing")
    BY DEF FlushDone, MainGoes, records, copies
  <1>2. ~sync'.reading
    BY <1>1 DEF CopyDone, Free
  <1>3. Copying'
    BY <1>1, <1>2, IdleCopying
  <1>4. Engines' /\ Held'
    BY <1>1 DEF Inv, Engines, Held, Fleet
  <1>5. raising = "nothing" => \A f \in Files : bucket[f] = local[f]
    <2>1. sync.next = Len(Tree) + 1
      BY <1>1, TreeTyped DEF CopyDone, Inv, TypeOK
    <2>2. sync.next - 1 = Len(Tree)
      BY <2>1, TreeTyped
    <2> QED
      BY <1>1, <2>2, TreeTyped DEF Inv, Flushed
  <1>6. Flushed'
    BY <1>1, <1>5 DEF Inv, Flushed, Down
  <1> QED
    BY <1>3, <1>4, <1>6 DEF Parts

LEMMA MainParts ==
    ASSUME Inv, MainStep
    PROVE  Parts'
  <1> USE DEF threads, records, copies, control, MainGoes
  <1>1. TypeOK /\ Engines /\ Copying /\ Held /\ Flushed
    BY DEF Inv
  <1>2. CASE Setup \/ InstallHandler \/ Launched \/ LaunchFails \/ SearchesEnd \/ Deadline \/ Parked \/ Summarise
    <2>1. UNCHANGED <<members, handler, engine, state, local, sync, bucket, uploaded>>
      BY <1>2 DEF Setup, InstallHandler, Launched, LaunchFails, SearchesEnd, Deadline, Parked, Summarise
    <2>2. Copying'
      BY <1>1, <2>1 DEF Copying, NothingForgotten, Current
    <2>3. /\ main' \in {"started", "raised", "launching", "waiting", "parking", "joining", "returned"}
          /\ main' = "waiting" => main = "launching"
          /\ ~Fleet /\ main' \notin {"launching", "waiting"} =>
               main \notin {"launching", "waiting"} \/ \A s \in members : Down(s)
          /\ main' = "joining" => raising' # "nothing" \/ \A s \in members : Down(s)
      BY <1>2 DEF Setup, InstallHandler, Launched, LaunchFails, SearchesEnd, Deadline, Parked, Summarise, StragglersDown
    <2>4. Engines'
      BY <1>1, <2>1, <2>3 DEF Engines, Fleet, Down
    <2>5. Held'
      BY <2>3 DEF Held
    <2>6. Flushed'
      BY <2>1, <2>3 DEF Flushed, Down
    <2> QED
      BY <2>2, <2>4, <2>5, <2>6 DEF Parts
  <1>3. ASSUME NEW s \in Searches, Launch(s)
        PROVE  Parts'
    <2>1. UNCHANGED <<members, main, raising, handler, state, local, sync, bucket, uploaded>>
      BY <1>3 DEF Launch
    <2>2. main = "launching" /\ s \in members /\ engine[s] = "off" /\ engine' = [engine EXCEPT ![s] = "up"]
      BY <1>3 DEF Launch
    <2>3. Copying'
      BY <1>1, <2>1 DEF Copying, NothingForgotten, Current
    <2>4. Engines'
      BY <1>1, <2>1, <2>2 DEF Engines, TypeOK, Fleet
    <2>5. Held' /\ Flushed'
      BY <1>1, <2>1, <2>2 DEF Held, Flushed
    <2> QED
      BY <2>3, <2>4, <2>5 DEF Parts
  <1>4. CASE Flush
    <2>1. UNCHANGED <<members, raising, handler, engine, state, local, bucket, uploaded>>
      BY <1>4 DEF Flush
    <2>2. main = "joining" /\ main' = "flushing" /\ handler = "off" /\ Lock("main", TRUE)
      BY <1>4 DEF Flush, MainRuns
    <2>3. sync'.holder = "main" /\ sync'.full = TRUE /\ ~sync'.reading /\ sync'.next = 1
      BY <2>2, LockTyped
    <2>4. Copying' /\ Held'
      BY <2>1, <2>2, <2>3, IdleCopying DEF Held
    <2>5. Engines'
      BY <1>1, <2>1, <2>2 DEF Engines, Fleet
    <2>6. Flushed'
      BY <1>1, <2>1, <2>2, <2>3 DEF Flushed, Down
    <2> QED
      BY <2>4, <2>5, <2>6 DEF Parts
  <1>5. CASE FlushCopies
    BY <1>5, FlushCopiesParts
  <1>6. CASE FlushFails
    <2>1. UNCHANGED <<members, handler, engine, state, local>> /\ main = "flushing" /\ main' = "raised"
      BY <1>6 DEF FlushFails
    <2>2. Copying'
      BY <1>6, <2>1, CopyFailsSafe DEF FlushFails
    <2>3. Engines'
      BY <1>1, <2>1 DEF Engines, Fleet
    <2>4. Held' /\ Flushed'
      BY <2>1 DEF Held, Flushed
    <2> QED
      BY <2>2, <2>3, <2>4 DEF Parts
  <1>7. CASE FlushDone
    BY <1>7, FlushDoneParts
  <1> QED
    BY <1>2, <1>3, <1>4, <1>5, <1>6, <1>7 DEF MainStep

--------------------------------------------------------------------------------
(* The handler: it takes the lock only when the main thread does not hold  *)
(* it, and what it unwinds is a search that runs in this thread.           *)
LEMMA HandlerExitsParts ==
    ASSUME Inv, HandlerExits
    PROVE  Parts'
  <1>1. TypeOK /\ Engines /\ Copying /\ Held /\ Flushed
    BY DEF Inv
  <1>2. /\ UNCHANGED <<members, sync, bucket, uploaded>>
        /\ handler = "leaving" /\ handler' = "off" /\ raising' = "exit" /\ main' \in {"joining", "exited"}
    BY DEF HandlerExits, LeftAfter, copies
  <1>3. /\ local' \in Versions
        /\ \A f \in Files : local'[f] = local[f] \/ local'[f] = local[f] + 1
        /\ \A f \in Files : local'[f] # local[f] => ~Fleet /\ engine[f[1]] = "up"
    BY ExitsAdvance
  <1>4. \A f \in Files : local[f] \in Nat /\ local'[f] \in Nat /\ bucket[f] \in Nat /\ local[f] <= local'[f]
    <2> TAKE f \in Files
    <2>1. local[f] \in 0..MaxWrites /\ local'[f] \in 0..MaxWrites /\ bucket[f] \in 0..MaxWrites
      BY <1>1, <1>3 DEF TypeOK, Versions
    <2>2. local'[f] = local[f] \/ local'[f] = local[f] + 1
      BY <1>3
    <2> QED
      BY <2>1, <2>2
  <1>5. Copying'
    <2>1. NothingForgotten'
      BY <1>1, <1>2, <1>4 DEF Copying, NothingForgotten
    <2>2. sync.reading => Current \in Files /\ sync.read \in Nat
      BY <1>1, CurrentTyped DEF TypeOK
    <2> QED
      BY <1>1, <1>2, <1>4, <2>1, <2>2 DEF Copying, Current
  <1>6. Engines'
    <2>1. \A s \in Searches : engine[s] # "up" =>
            engine'[s] = engine[s] /\ state'[s] = state[s] /\ local'[Status(s)] = local[Status(s)]
      <3> SUFFICES ASSUME NEW s \in Searches, engine[s] # "up"
                   PROVE  engine'[s] = engine[s] /\ state'[s] = state[s] /\ local'[Status(s)] = local[Status(s)]
        OBVIOUS
      <3>1. engine'[s] = engine[s] /\ state'[s] = state[s]
        BY <1>1 DEF HandlerExits, TypeOK
      <3>2. Status(s) \in Files /\ Status(s)[1] = s
        BY TreeTyped, RecordsDiffer
      <3>3. local'[Status(s)] = local[Status(s)]
        BY <1>3, <3>2
      <3> QED
        BY <3>1, <3>3
    <2>2. \A s \in Searches : engine[s] = "up" =>
            \/ engine'[s] = "clean" /\ state'[s] = "parked"
            \/ /\ state' = state /\ local' = local
               /\ engine'[s] = IF ~Fleet THEN "error" ELSE engine[s]
      BY <1>1 DEF HandlerExits, TypeOK
    <2>3. \A s \in Searches : ~Fleet => engine'[s] # "up"
      BY <2>1, <2>2
    <2> QED
      BY <1>1, <1>2, <2>1, <2>2, <2>3 DEF Engines, Fleet
  <1>7. Held' /\ Flushed'
    BY <1>2 DEF Held, Flushed
  <1> QED
    BY <1>5, <1>6, <1>7 DEF Parts

LEMMA HandlerParts ==
    ASSUME Inv, HandlerStep
    PROVE  Parts'
  <1> USE DEF threads, records, copies, control, SearchFrame
  <1>1. CASE HandlerStops \/ HandlerParked \/ HandlerReturns
    BY <1>1, PlumbingParts DEF HandlerStops, HandlerParked, HandlerReturns
  <1>2. CASE HandlerLocks
    <2>1. sync.holder = Nobody /\ ~sync'.reading
      BY <1>2, LockTyped DEF HandlerLocks
    <2>2. SearchFrame /\ bucket' = bucket /\ uploaded' = uploaded
      BY <1>2 DEF HandlerLocks
    <2> QED
      BY <2>1, <2>2, NobodyAssumption, IdleCopying, UnheldParts
  <1>3. CASE HandlerCopies
    <2>1. SearchFrame /\ sync.holder = "handler" /\ CopyStep("handler")
      BY <1>3 DEF HandlerCopies, CopyStep
    <2>2. /\ Copying'
          /\ \/ bucket' = bucket
             \/ sync.reading /\ \E v \in bucket[Current]..local[Current] : bucket' = [bucket EXCEPT ![Current] = v]
      BY <2>1, CopyStepSafe
    <2> QED
      BY <2>1, <2>2, CurrentTyped, UnheldParts
  <1>4. CASE HandlerFlushed
    <2>1. SearchFrame /\ sync.holder = "handler"
      BY <1>4 DEF HandlerFlushed, CopyDone, CopyFails
    <2>2. CASE CopyDone("handler") /\ UNCHANGED <<copies, failures>>
      <3>1. ~sync'.reading /\ bucket' = bucket /\ uploaded' = uploaded
        BY <2>2 DEF CopyDone, Free
      <3> QED
        BY <2>1, <3>1, IdleCopying, UnheldParts
    <2>3. CASE CopyFails("handler")
      BY <2>1, <2>3, CopyFailsSafe, UnheldParts
    <2> QED
      BY <1>4, <2>2, <2>3 DEF HandlerFlushed
  <1>5. CASE HandlerExits
    BY <1>5, HandlerExitsParts
  <1> QED
    BY <1>1, <1>2, <1>3, <1>4, <1>5 DEF HandlerStep

LEMMA PlatformInv ==
    ASSUME Inv, (\E c \in Commands : Request(c)) \/ Sigterm \/ UNCHANGED vars
    PROVE  Inv'
  <1> USE DEF threads, records, copies, control
  <1>1. TypeOK /\ Engines /\ Copying /\ Held /\ Flushed
    BY DEF Inv
  <1>2. CASE \E c \in Commands : Request(c)
    <2>1. TypeOK'
      BY <1>1, <1>2 DEF Request, TypeOK
    <2>2. Parts'
      BY <1>2, PlumbingParts DEF Request, SearchFrame
    <2> QED
      BY <2>1, <2>2 DEF Inv, Parts
  <1>3. CASE Sigterm
    <2>1. TypeOK'
      BY <1>1, <1>3 DEF Sigterm, TypeOK
    <2>2. /\ UNCHANGED <<members, raising, engine, state, local, sync, bucket, uploaded>>
          /\ \/ main' = main /\ handler' = "stopping"
             \/ main \in {"setup", "started"} /\ main' = "exited" /\ handler' = handler
      BY <1>3 DEF Sigterm
    <2>3. Engines' /\ Copying' /\ Held' /\ Flushed'
      BY <1>1, <2>2 DEF Engines, Copying, NothingForgotten, Held, Flushed, Fleet, Down, Current
    <2> QED
      BY <2>1, <2>3 DEF Inv
  <1>4. CASE UNCHANGED vars
    <2>1. TypeOK'
      BY <1>1, <1>4 DEF vars, TypeOK
    <2>2. Parts'
      BY <1>4, PlumbingParts DEF vars, SearchFrame
    <2> QED
      BY <2>1, <2>2 DEF Inv, Parts
  <1> QED
    BY <1>2, <1>3, <1>4

(* The invariant is inductive.                                             *)
LEMMA NextInv == Inv /\ [Next]_vars => Inv'
  <1> SUFFICES ASSUME Inv, [Next]_vars PROVE Inv'
    OBVIOUS
  <1>1. CASE \E s \in Searches : EngineWork(s) \/ EngineCrashes(s)
    BY <1>1, EngineAdvances, EngineInv
  <1>2. CASE LoopStep
    BY <1>2, LoopTyped, LoopParts DEF Inv, Parts
  <1>3. CASE MainStep
    BY <1>3, MainTyped, MainParts DEF Inv, Parts
  <1>4. CASE HandlerStep
    BY <1>4, HandlerTyped, HandlerParts DEF Inv, Parts
  <1>5. CASE (\E c \in Commands : Request(c)) \/ Sigterm \/ UNCHANGED vars
    BY <1>5, PlatformInv
  <1> QED
    BY <1>1, <1>2, <1>3, <1>4, <1>5 DEF Next, Finished

THEOREM InvAlways == Spec => []Inv
  BY InitInv, NextInv, PTL DEF Spec

(* Every variable of the job always has its type.                          *)
THEOREM TypeCorrect == Spec => []TypeOK
  <1>1. Inv => TypeOK
    BY DEF Inv
  <1> QED
    BY <1>1, InvAlways, PTL

(* A remembered fingerprint is never newer than the copy in the bucket,    *)
(* and the copy is never newer than the record: whatever fails, and        *)
(* whichever thread copies, a record that has changed is copied again.     *)
THEOREM NeverForgotten == Spec => []NothingForgotten
  <1>1. Inv => NothingForgotten
    BY DEF Inv, Copying
  <1> QED
    BY <1>1, InvAlways, PTL

--------------------------------------------------------------------------------
(* The refinement: how the job's steps look to the readers of its bucket.  *)
Ended == CASE main = "returned" -> "result"
           [] main \in {"raised", "exited"} -> "otherwise"
           [] OTHER -> "no"

Promise == [Reader!Next]_(Reader!vars)

LEMMA EndedIs ==
    /\ ~Over => Ended = "no"
    /\ main = "returned" => Ended = "result"
    /\ main \in {"raised", "exited"} => Ended = "otherwise"
  BY DEF Over, Ended

LEMMA EndedNext ==
    /\ ~Over' => Ended' = "no"
    /\ main' = "returned" => Ended' = "result"
    /\ main' \in {"raised", "exited"} => Ended' = "otherwise"
  BY DEF Over, Ended

(* A step that ends nothing and touches neither records nor bucket.        *)
LEMMA Stutters ==
    ASSUME UNCHANGED <<local, bucket>>, Ended' = Ended
    PROVE  Promise
  BY DEF Promise, Reader!vars, Ended

(* A copy publishes one record, or nothing.                                *)
LEMMA Publishes ==
    ASSUME Inv, ~Over, ~Over', local' = local,
           \/ bucket' = bucket
           \/ Current \in Files /\ \E v \in bucket[Current]..local[Current] : bucket' = [bucket EXCEPT ![Current] = v]
    PROVE  Promise
  <1>1. Ended = "no" /\ Ended' = "no"
    BY EndedIs, EndedNext
  <1>2. CASE bucket' = bucket
    BY <1>1, <1>2, Stutters
  <1>3. CASE Current \in Files /\ \E v \in bucket[Current]..local[Current] : bucket' = [bucket EXCEPT ![Current] = v]
    <2>1. Reader!Publish(Current)
      BY <1>1, <1>3 DEF Reader!Publish, Reader!Put, Ended
    <2> QED
      BY <1>3, <2>1 DEF Promise, Reader!Next
  <1> QED
    BY <1>2, <1>3

(* A failing upload ends the job, whether or not the bucket took it.       *)
LEMMA Fails ==
    ASSUME Inv, ~Over, main' \in {"raised", "exited"}, local' = local,
           \/ bucket' = bucket
           \/ Current \in Files /\ \E v \in bucket[Current]..local[Current] : bucket' = [bucket EXCEPT ![Current] = v]
    PROVE  Promise
  <1>1. Ended = "no" /\ Ended' = "otherwise"
    BY EndedIs, EndedNext
  <1>2. Reader!Fail
    BY <1>1 DEF Reader!Fail, Reader!Put, Ended
  <1> QED
    BY <1>2 DEF Promise, Reader!Next

(* Some records get one version more.                                      *)
LEMMA Produces ==
    ASSUME Inv, ~Over, ~Over', bucket' = bucket, local' \in Versions,
           \A f \in Files : local'[f] = local[f] \/ local'[f] = local[f] + 1
    PROVE  Promise
  <1>1. Ended = "no" /\ Ended' = "no"
    BY EndedIs, EndedNext
  <1>2. local \in Versions
    BY DEF Inv, TypeOK, Versions
  <1> DEFINE changed == {f \in Files : local'[f] = local[f] + 1}
  <1>3. \A f \in Files : local'[f] = local[f] + IF f \in changed THEN 1 ELSE 0
    <2> TAKE f \in Files
    <2>1. local[f] \in Nat
      BY <1>2 DEF Versions
    <2> QED
      BY <2>1
  <1>4. local' = [f \in Files |-> local[f] + IF f \in changed THEN 1 ELSE 0]
    BY <1>3 DEF Versions
  <1>5. changed \in SUBSET Files
    OBVIOUS
  <1> HIDE DEF changed
  <1>6. Reader!Produce
    BY <1>1, <1>4, <1>5 DEF Reader!Produce, Ended
  <1> QED
    BY <1>6 DEF Promise, Reader!Next

LEMMA LoopKeeps ==
    ASSUME Inv, LoopStep
    PROVE  Promise
  <1> USE DEF threads, records, copies, control
  <1>1. ~Over /\ ~Over' /\ local' = local
    BY DEF LoopStep, LoopTick, LoopLocks, LoopCopies, LoopCopyFails, LoopCopyDone,
           ListCommands, PullCommand, PullDone, LoopEnds, Over
  <1>2. CASE LoopCopies
    <2>1. CopyStep("loop")
      BY <1>2 DEF LoopCopies
    <2> QED
      BY <1>1, <2>1, CopyStepSafe, CurrentTyped, Publishes
  <1>3. CASE LoopCopyFails
    <2>1. CopyFails("loop")
      BY <1>3 DEF LoopCopyFails
    <2> QED
      BY <1>1, <2>1, CopyFailsSafe, Publishes
  <1>4. CASE ~LoopCopies /\ ~LoopCopyFails
    <2>1. bucket' = bucket
      BY <1>4 DEF LoopStep, LoopTick, LoopLocks, LoopCopyDone, ListCommands, PullCommand, PullDone, LoopEnds
    <2> QED
      BY <1>1, <2>1, Publishes
  <1> QED
    BY <1>2, <1>3, <1>4

LEMMA MainKeeps ==
    ASSUME Inv, MainStep
    PROVE  Promise
  <1> USE DEF threads, records, copies, control, MainGoes, MainRuns
  <1>1. ~Over /\ local' = local
    BY DEF MainStep, Setup, InstallHandler, Launch, Launched, LaunchFails, SearchesEnd, Deadline, Parked,
           Flush, FlushCopies, FlushFails, FlushDone, Summarise
  <1>2. CASE FlushCopies
    <2>1. CopyStep("main") /\ ~Over'
      BY <1>2 DEF FlushCopies, Over
    <2> QED
      BY <1>1, <2>1, CopyStepSafe, CurrentTyped, Publishes
  <1>3. CASE FlushFails
    <2>1. CopyFails("main") /\ main' = "raised"
      BY <1>3 DEF FlushFails
    <2> QED
      BY <1>1, <2>1, CopyFailsSafe, Fails
  <1>4. CASE Summarise
    <2>1. bucket' = bucket /\ main = "summarising" /\ main' = "returned"
      BY <1>4 DEF Summarise
    <2>2. Ended = "no" /\ Ended' = "result"
      BY <1>1, <2>1, EndedIs, EndedNext
    <2>3. bucket \in Versions /\ local \in Versions /\ \A f \in Files : bucket[f] = local[f]
      BY <2>1 DEF Inv, TypeOK, Flushed, Versions
    <2>4. bucket = local
      BY <2>3 DEF Versions
    <2>5. Reader!Return
      BY <1>1, <2>1, <2>2, <2>4 DEF Reader!Return, Ended
    <2> QED
      BY <2>5 DEF Promise, Reader!Next
  <1>5. CASE ~FlushCopies /\ ~FlushFails /\ ~Summarise
    <2>1. bucket' = bucket
      BY <1>5 DEF MainStep, Setup, InstallHandler, Launch, Launched, LaunchFails, SearchesEnd, Deadline, Parked,
                  Flush, FlushDone
    <2>2. ~Over' \/ main' \in {"raised", "exited"}
      BY <1>1, <1>5 DEF MainStep, Setup, InstallHandler, Launch, Launched, LaunchFails, SearchesEnd, Deadline, Parked,
                  Flush, FlushDone, Over
    <2> QED
      BY <1>1, <2>1, <2>2, Publishes, Fails
  <1> QED
    BY <1>2, <1>3, <1>4, <1>5

LEMMA HandlerKeeps ==
    ASSUME Inv, HandlerStep
    PROVE  Promise
  <1> USE DEF threads, records, copies, control
  <1>1. ~Over
    BY DEF HandlerStep, HandlerStops, HandlerParked, HandlerLocks, HandlerCopies, HandlerFlushed, HandlerReturns, HandlerExits
  <1>2. CASE HandlerCopies
    <2>1. CopyStep("handler") /\ ~Over' /\ local' = local
      BY <1>1, <1>2 DEF HandlerCopies, Over
    <2> QED
      BY <1>1, <2>1, CopyStepSafe, CurrentTyped, Publishes
  <1>3. CASE HandlerFlushed
    <2>1. ~Over' /\ local' = local /\ (bucket' = bucket \/ CopyFails("handler"))
      BY <1>1, <1>3 DEF HandlerFlushed, Over
    <2> QED
      BY <1>1, <2>1, CopyFailsSafe, Publishes
  <1>4. CASE HandlerExits
    <2>1. bucket' = bucket /\ main' = LeftAfter
      BY <1>4 DEF HandlerExits
    <2>2. CASE main \in {"launching", "waiting"}
      <3>1. ~Over'
        BY <2>1, <2>2 DEF LeftAfter, Over
      <3> QED
        BY <1>1, <1>4, <2>1, <3>1, ExitsAdvance, Produces
    <2>3. CASE main \notin {"launching", "waiting"}
      <3>1. \A f \in Files : local'[f] = local[f]
        BY <1>4, <2>3, ExitsAdvance, TreeTyped DEF Inv, Engines
      <3>2. local' = local
        BY <1>4, <3>1, ExitsAdvance DEF Inv, TypeOK, Versions
      <3> QED
        BY <1>1, <2>1, <2>3, <3>2, Fails DEF LeftAfter
    <2> QED
      BY <2>2, <2>3
  <1>5. CASE HandlerStops \/ HandlerParked \/ HandlerLocks \/ HandlerReturns
    <2>1. ~Over' /\ local' = local /\ bucket' = bucket
      BY <1>1, <1>5 DEF HandlerStops, HandlerParked, HandlerLocks, HandlerReturns, Over
    <2> QED
      BY <1>1, <2>1, Publishes
  <1> QED
    BY <1>2, <1>3, <1>4, <1>5 DEF HandlerStep

LEMMA EngineKeeps ==
    ASSUME NEW s \in Searches, Inv, Advances(s)
    PROVE  Promise
  <1>1. EngineFrame /\ ~Over
    BY DEF Advances
  <1>2. ~Over' /\ bucket' = bucket
    BY <1>1 DEF EngineFrame, threads, copies, Over
  <1>3. local' \in Versions
    BY EngineInv DEF Inv, TypeOK, Versions
  <1>4. \A f \in Files : local'[f] = local[f] \/ local'[f] = local[f] + 1
    <2>1. local \in Versions
      BY DEF Inv, TypeOK, Versions
    <2>2. local' = local \/ \E f \in Files : local' = [local EXCEPT ![f] = @ + 1]
      BY TreeTyped DEF Advances
    <2> QED
      BY <2>1, <2>2 DEF Versions
  <1> QED
    BY <1>1, <1>2, <1>3, <1>4, Produces

LEMMA PlatformKeeps ==
    ASSUME Inv, (\E c \in Commands : Request(c)) \/ Sigterm \/ UNCHANGED vars
    PROVE  Promise
  <1> USE DEF threads, records, copies, control
  <1>1. CASE \E c \in Commands : Request(c)
    BY <1>1, Stutters DEF Request, Ended
  <1>2. CASE Sigterm
    <2>1. ~Over /\ local' = local /\ bucket' = bucket /\ (main' = main \/ main' = "exited")
      BY <1>2 DEF Sigterm
    <2>2. main' = main => ~Over'
      BY <2>1 DEF Over
    <2> QED
      BY <2>1, <2>2, Publishes, Fails
  <1>3. CASE UNCHANGED vars
    BY <1>3, Stutters DEF vars, Ended
  <1> QED
    BY <1>1, <1>2, <1>3

LEMMA NextKeeps == Inv /\ [Next]_vars => Promise
  <1> SUFFICES ASSUME Inv, [Next]_vars PROVE Promise
    OBVIOUS
  <1>1. CASE \E s \in Searches : EngineWork(s) \/ EngineCrashes(s)
    BY <1>1, EngineAdvances, EngineKeeps
  <1>2. CASE LoopStep
    BY <1>2, LoopKeeps
  <1>3. CASE MainStep
    BY <1>3, MainKeeps
  <1>4. CASE HandlerStep
    BY <1>4, HandlerKeeps
  <1>5. CASE (\E c \in Commands : Request(c)) \/ Sigterm \/ UNCHANGED vars
    BY <1>5, PlatformKeeps
  <1> QED
    BY <1>1, <1>2, <1>3, <1>4, <1>5 DEF Next, Finished

LEMMA InitKeeps == Init => Reader!Init
  BY DEF Init, Reader!Init

(* The job implements HostedRun: no reader of the bucket ever sees a record*)
(* go back, whichever of the three threads copies it and whatever fails in *)
(* between, and a returned result comes with the last version of every     *)
(* record of every search.                                                 *)
THEOREM KeepsPromise == Spec => ImplementsHostedRun
  <1>1. Init => Reader!Init
    BY InitKeeps
  <1>2. Inv /\ [Next]_vars => [Reader!Next]_(Reader!vars)
    BY NextKeeps DEF Promise
  <1> QED
    BY <1>1, <1>2, InvAlways, PTL DEF Spec, Reader!Spec, ImplementsHostedRun

--------------------------------------------------------------------------------
(* The verdict: an engine that exited cleanly has said how it ended, and a *)
(* result is there only when the job has returned.                         *)
CleanReported == \A s \in Searches : engine[s] = "clean" => state[s] \in {"done", "stopped", "parked"}

Concluded ==
    /\ CleanReported
    /\ main # "returned" => result = NoResult
    /\ HonestVerdict

(* All steps but the last leave the job without a result.                  *)
LEMMA NotYetConcluded ==
    ASSUME Concluded, ~Over, result' = result, main' # "returned", CleanReported'
    PROVE  Concluded'
  <1>1. result' = NoResult
    BY DEF Concluded, Over
  <1> QED
    BY <1>1 DEF Concluded, HonestVerdict, NoResult

LEMMA EnginesConclude ==
    ASSUME Inv, Concluded, NEW s \in Searches, EngineWork(s) \/ EngineCrashes(s)
    PROVE  Concluded'
  <1>1. TypeOK /\ CleanReported
    BY DEF Inv, Concluded
  <1>2. ~Over /\ result' = result /\ main' = main
    BY EngineAdvances DEF Advances, EngineFrame, threads
  <1>3. ASSUME NEW x, NEW e, EngineExits(s, x, e), e = "clean" => x \in {"done", "stopped", "parked"}
        PROVE  CleanReported'
    BY <1>1, <1>3 DEF EngineExits, CleanReported, TypeOK
  <1>4. ASSUME EngineReports(s) \/ EngineProgresses(s)
        PROVE  CleanReported'
    <2>1. /\ engine' = engine /\ engine[s] = "up"
          /\ state' = state \/ state' = [state EXCEPT ![s] = "running"]
      BY <1>4 DEF EngineReports, EngineProgresses, EngineRuns
    <2> QED
      BY <1>1, <2>1 DEF CleanReported, TypeOK
  <1>5. ASSUME EngineEnds(s) \/ EngineObeys(s) \/ EngineTerminated(s) \/ EngineCrashes(s)
        PROVE  CleanReported'
    BY <1>3, <1>5 DEF EngineEnds, EngineObeys, EngineTerminated, EngineCrashes
  <1>6. CleanReported'
    BY <1>4, <1>5 DEF EngineWork
  <1> QED
    BY <1>2, <1>6, NotYetConcluded DEF Over

(* A verdict is done only when every recorded search is, and running only  *)
(* when one of them is - which a fleet's never are.                        *)
LEMMA VerdictReads ==
    LET found == {FinalState(s) : s \in {x \in members : state[x] # "none"}}
    IN  /\ Verdict = "done" => found = {"done"}
        /\ Verdict = "running" => \E x \in found : x \notin {"done", "failed", "stopped", "parked", "crashed"}
  <1> DEFINE found == {FinalState(s) : s \in {x \in members : state[x] # "none"}}
  <1>1. \A F :
          LET v == CASE F = {} -> "failed"
                     [] F = {"done"} -> "done"
                     [] "failed" \in F -> "failed"
                     [] "failed" \notin F /\ F \cap {"parked", "crashed"} # {} -> "parked"
                     [] F \cap {"failed", "parked", "crashed"} = {} /\ "stopped" \in F -> "stopped"
                     [] OTHER -> "running"
          IN  /\ v = "done" => F = {"done"}
              /\ v = "running" => /\ F # {} /\ F # {"done"} /\ "failed" \notin F
                                  /\ "parked" \notin F /\ "crashed" \notin F /\ "stopped" \notin F
    OBVIOUS
  <1>2. \A F : F # {} /\ F # {"done"} => \E x \in F : x # "done"
    OBVIOUS
  <1>3. Verdict = "done" => found = {"done"}
    BY <1>1 DEF Verdict
  <1>4. Verdict = "running" => /\ found # {} /\ found # {"done"} /\ "failed" \notin found
                              /\ "parked" \notin found /\ "crashed" \notin found /\ "stopped" \notin found
    BY <1>1 DEF Verdict
  <1> HIDE DEF found
  <1>5. Verdict = "running" => \E x \in found : x \notin {"done", "failed", "stopped", "parked", "crashed"}
    BY <1>2, <1>4
  <1> QED
    BY <1>3, <1>5 DEF found

LEMMA SummaryConcludes ==
    ASSUME Inv, Concluded, Summarise
    PROVE  Concluded'
  <1>1. /\ TypeOK /\ CleanReported
        /\ main = "summarising" /\ UNCHANGED <<members, engine, state>> /\ main' = "returned"
        /\ result' = [state |-> Verdict, error |-> ErrorOfExits]
    BY DEF Inv, Concluded, Summarise, MainGoes, records
  <1>2. \A s \in members : Down(s)
    BY <1>1 DEF Inv, Flushed
  <1>3. ASSUME Verdict = "done", ~ErrorOfExits, NEW s \in members
        PROVE  state[s] = "done"
    <2>1. engine[s] = "clean" /\ s \in Searches
      BY <1>1, <1>2, <1>3 DEF ErrorOfExits, Down, TypeOK
    <2>2. state[s] \in {"done", "stopped", "parked"}
      BY <1>1, <2>1 DEF CleanReported
    <2>3. FinalState(s) = state[s]
      BY <2>2 DEF FinalState
    <2>4. FinalState(s) \in {FinalState(t) : t \in {x \in members : state[x] # "none"}}
      BY <2>2
    <2> QED
      BY <1>3, <2>3, <2>4, VerdictReads
  <1>4. ASSUME Fleet
        PROVE  Verdict # "running"
    <2>1. \A s \in members : state[s] # "none" => FinalState(s) \in {"done", "failed", "stopped", "parked", "crashed"}
      BY <1>1, <1>4 DEF FinalState, TypeOK
    <2> QED
      BY <2>1, VerdictReads
  <1>5. HonestVerdict'
    BY <1>1, <1>3, <1>4 DEF HonestVerdict, Fleet
  <1>6. CleanReported'
    BY <1>1 DEF CleanReported
  <1> QED
    BY <1>1, <1>5, <1>6 DEF Concluded

LEMMA OthersConclude ==
    ASSUME Inv, Concluded,
           (\E c \in Commands : Request(c)) \/ Sigterm \/ LoopStep \/ (MainStep /\ ~Summarise) \/ HandlerStep
    PROVE  Concluded'
  <1> USE DEF threads, records, copies, control, MainGoes, MainRuns
  <1>1. TypeOK /\ CleanReported
    BY DEF Inv, Concluded
  <1>2. CASE (\E c \in Commands : Request(c)) \/ Sigterm
    <2>1. ~Over /\ UNCHANGED <<engine, state, result>> /\ main' # "returned"
      BY <1>2 DEF Request, Sigterm, Over
    <2> QED
      BY <1>1, <2>1, NotYetConcluded DEF CleanReported
  <1>3. CASE LoopStep
    <2>1. ~Over /\ UNCHANGED <<engine, state, result, main>>
      BY <1>3 DEF LoopStep, LoopTick, LoopLocks, LoopCopies, LoopCopyFails, LoopCopyDone, ListCommands, PullCommand,
                  PullDone, LoopEnds
    <2> QED
      BY <1>1, <2>1, NotYetConcluded DEF CleanReported, Over
  <1>4. CASE MainStep /\ ~Summarise
    <2>1. ~Over /\ UNCHANGED <<state, result>>
      BY <1>4 DEF MainStep, Setup, InstallHandler, Launch, Launched, LaunchFails, SearchesEnd, Deadline, Parked,
                  Flush, FlushCopies, FlushFails, FlushDone
    <2>2. main' # "returned"
      BY <1>4 DEF MainStep, Setup, InstallHandler, Launch, Launched, LaunchFails, SearchesEnd, Deadline, Parked,
                  Flush, FlushCopies, FlushFails, FlushDone, Over
    <2>3. engine' = engine \/ \E s \in Searches : engine' = [engine EXCEPT ![s] = "up"]
      BY <1>4 DEF MainStep, Setup, InstallHandler, Launch, Launched, LaunchFails, SearchesEnd, Deadline, Parked,
                  Flush, FlushCopies, FlushFails, FlushDone
    <2>4. CleanReported'
      BY <1>1, <2>1, <2>3 DEF CleanReported, TypeOK
    <2> QED
      BY <2>1, <2>2, <2>4, NotYetConcluded
  <1>5. CASE HandlerStep /\ ~HandlerExits
    <2>1. ~Over /\ UNCHANGED <<engine, state, result, main>>
      BY <1>5 DEF HandlerStep, HandlerStops, HandlerParked, HandlerLocks, HandlerCopies, HandlerFlushed, HandlerReturns
    <2> QED
      BY <1>1, <2>1, NotYetConcluded DEF CleanReported, Over
  <1>6. CASE HandlerExits
    <2>1. ~Over /\ result' = result /\ main' # "returned"
      BY <1>6 DEF HandlerExits, LeftAfter
    <2>2. \A s \in Searches : \/ engine'[s] = engine[s] /\ state'[s] = state[s]
                              \/ engine'[s] = "clean" /\ state'[s] = "parked"
                              \/ engine'[s] = "error"
      BY <1>1, <1>6 DEF HandlerExits, TypeOK
    <2>3. CleanReported'
      BY <1>1, <2>2 DEF CleanReported
    <2> QED
      BY <2>1, <2>3, NotYetConcluded
  <1> QED
    BY <1>2, <1>3, <1>4, <1>5, <1>6

(* A result that says done without an error has every search of the job    *)
(* done - also when an engine died before its first record, which the      *)
(* records cannot tell - and a fleet's result never says running.          *)
THEOREM VerdictIsHonest == Spec => []HonestVerdict
  <1>1. Init => Concluded
    BY DEF Init, Concluded, CleanReported, HonestVerdict, NoResult
  <1>2. Inv /\ Concluded /\ [Next]_vars => Concluded'
    <2> SUFFICES ASSUME Inv, Concluded, [Next]_vars PROVE Concluded'
      OBVIOUS
    <2>1. CASE \E s \in Searches : EngineWork(s) \/ EngineCrashes(s)
      BY <2>1, EnginesConclude
    <2>2. CASE Summarise
      BY <2>2, SummaryConcludes
    <2>3. CASE UNCHANGED vars
      BY <2>3 DEF vars, threads, records, Concluded, CleanReported, HonestVerdict, Fleet
    <2>4. CASE (\E c \in Commands : Request(c)) \/ Sigterm \/ LoopStep \/ (MainStep /\ ~Summarise) \/ HandlerStep
      BY <2>4, OthersConclude
    <2> QED
      BY <2>1, <2>2, <2>3, <2>4 DEF Next, Finished
  <1>3. Concluded => HonestVerdict
    BY DEF Concluded
  <1> QED
    BY <1>1, <1>2, <1>3, InvAlways, PTL DEF Spec

--------------------------------------------------------------------------------
(* The status records: what the last flush of a job leaves in the bucket.  *)
(* A single search writes only while the main thread runs it, so a flush   *)
(* that begins after it - the main thread's, or the handler's between two  *)
(* steps of the main thread - finds the records at rest.                   *)
AllStatus == \A s \in Searches : bucket[Status(s)] = local[Status(s)]

(* The copy under way has what it was to copy of the records it has passed.*)
InScope(f) == sync.full \/ f = Status(f[1])
Copied ==
    /\ \A i \in 1..(sync.next - 1) : InScope(Tree[i]) => bucket[Tree[i]] = local[Tree[i]]
    /\ sync.reading => sync.read = local[Current]

AtRest == ~Fleet /\ main \notin {"launching", "waiting"}
InHand == main = "flushing" \/ (handler = "flushing" /\ sync.holder = "handler")

Saved ==
    /\ main \in {"setup", "started"} => \A s \in Searches : engine[s] = "off"
    /\ handler # "off" => signalled
    /\ sync.holder = "handler" => handler = "flushing"
    /\ AtRest /\ InHand => Copied
    /\ AtRest /\ handler = "leaving" /\ failures = 0 => AllStatus
    /\ StatusFlushed

(* A bucket that has a record as it is keeps it so.                        *)
LEMMA StatusKept ==
    ASSUME Inv, AllStatus, local' = local,
           \/ bucket' = bucket
           \/ Current \in Files /\ \E v \in bucket[Current]..local[Current] : bucket' = [bucket EXCEPT ![Current] = v]
    PROVE  AllStatus'
  <1> SUFFICES ASSUME NEW s \in Searches PROVE bucket'[Status(s)] = local[Status(s)]
    BY DEF AllStatus
  <1>1. bucket \in Versions /\ local \in Versions /\ Status(s) \in Files
    BY TreeTyped DEF Inv, TypeOK, Versions
  <1>2. bucket[Status(s)] = local[Status(s)] /\ local[Status(s)] \in Nat
    BY <1>1 DEF AllStatus, Versions
  <1>3. CASE bucket' = bucket
    BY <1>2, <1>3
  <1>4. CASE Current \in Files /\ \E v \in bucket[Current]..local[Current] : bucket' = [bucket EXCEPT ![Current] = v]
    <2>1. PICK v \in bucket[Current]..local[Current] : bucket' = [bucket EXCEPT ![Current] = v]
      BY <1>4
    <2>2. CASE Current = Status(s)
      <3>1. v = local[Status(s)]
        BY <1>2, <2>1, <2>2
      <3> QED
        BY <1>1, <2>1, <2>2, <3>1 DEF Versions
    <2>3. CASE Current # Status(s)
      BY <1>1, <1>2, <2>1, <2>3 DEF Versions
    <2> QED
      BY <2>2, <2>3
  <1> QED
    BY <1>3, <1>4

(* A step of a copy, while nothing is written, copies what it passes.      *)
LEMMA CopyStepCopies ==
    ASSUME Inv, Copied, NEW who, CopyStep(who), local' = local
    PROVE  Copied'
  <1>1. sync \in SyncType /\ bucket \in Versions /\ local \in Versions /\ uploaded \in Versions
    BY DEF Inv, TypeOK, SyncType, Versions
  <1>2. NothingForgotten
    BY DEF Inv, Copying
  <1>3. sync.next \in Nat /\ sync.next >= 1
    BY <1>1, TreeTyped DEF SyncType
  <1>4. sync'.full = sync.full
    BY CopyStepSafe
  <1>5. \A i \in 1..sync.next : i \in 1..(sync.next - 1) \/ i = sync.next
    BY <1>3
  <1>6. CASE StatFile /\ Passed(Current)
    <2>1. sync' = [sync EXCEPT !.next = @ + 1] /\ bucket' = bucket /\ ~sync.reading /\ sync.next <= Len(Tree)
      BY <1>6 DEF StatFile, copies
    <2>2. sync'.next = sync.next + 1 /\ ~sync'.reading
      BY <1>1, <2>1 DEF SyncType
    <2>3. Current \in Files
      BY <1>3, <2>1, TreeTyped DEF Current
    <2>4. InScope(Current) => bucket[Current] = local[Current]
      <3>1. uploaded[Current] <= bucket[Current] /\ bucket[Current] <= local[Current]
            /\ uploaded[Current] \in Nat /\ bucket[Current] \in Nat /\ local[Current] \in Nat
        BY <1>1, <1>2, <2>3 DEF NothingForgotten, Versions
      <3> QED
        BY <1>6, <3>1 DEF Passed, InScope
    <2>5. sync'.next - 1 = sync.next
      BY <1>3, <2>2
    <2> QED
      BY <1>4, <1>5, <2>1, <2>2, <2>4, <2>5 DEF Copied, InScope, Current
  <1>7. CASE StatFile /\ ~Passed(Current)
    <2>1. sync' = [sync EXCEPT !.reading = TRUE, !.read = local[Current]] /\ bucket' = bucket
      BY <1>7 DEF StatFile, copies
    <2>2. sync'.next = sync.next /\ sync'.read = local[Current]
      BY <1>1, <2>1 DEF SyncType
    <2> QED
      BY <1>4, <2>1, <2>2 DEF Copied, InScope, Current
  <1>8. CASE PutFile
    <2>1. sync.reading /\ Put(Current) /\ sync' = [sync EXCEPT !.next = @ + 1, !.reading = FALSE, !.read = 0]
      BY <1>8 DEF PutFile
    <2>2. sync'.next = sync.next + 1 /\ ~sync'.reading
      BY <1>1, <2>1 DEF SyncType
    <2>3. /\ Current \in Files /\ sync.next <= Len(Tree)
          /\ sync.read <= bucket'[Current] /\ bucket'[Current] <= local[Current] /\ bucket' \in Versions
          /\ \E v \in bucket[Current]..local[Current] : bucket' = [bucket EXCEPT ![Current] = v]
      BY <2>1, PutForward
    <2>4. bucket'[Current] = local[Current]
      BY <1>1, <2>1, <2>3 DEF Copied, Versions
    <2>5. \A f \in Files : bucket[f] = local[f] => bucket'[f] = local[f]
      BY <1>1, <2>3, <2>4 DEF Versions
    <2>6. \A i \in 1..(sync.next - 1) : Tree[i] \in Files
      BY <1>3, <2>3, TreeTyped
    <2>7. sync'.next - 1 = sync.next
      BY <1>3, <2>2
    <2> QED
      BY <1>4, <1>5, <2>2, <2>4, <2>5, <2>6, <2>7 DEF Copied, InScope, Current
  <1> QED
    BY <1>6, <1>7, <1>8 DEF CopyStep

(* A copy that is done has every status record.                            *)
LEMMA CopyDoneCopied ==
    ASSUME Inv, Copied, NEW who, CopyDone(who)
    PROVE  AllStatus
  <1>1. sync.next - 1 = Len(Tree)
    BY TreeTyped DEF CopyDone, Inv, TypeOK
  <1>2. ASSUME NEW s \in Searches PROVE bucket[Status(s)] = local[Status(s)]
    <2>1. PICK i \in 1..Len(Tree) : Tree[i] = Status(s)
      BY TreeTyped
    <2>2. InScope(Tree[i])
      BY <2>1, RecordsDiffer DEF InScope
    <2> QED
      BY <1>1, <2>1, <2>2 DEF Copied
  <1> QED
    BY <1>2 DEF AllStatus

(* A job that has ended does nothing any more.                             *)
LEMMA OverStands ==
    ASSUME Over, [Next]_vars
    PROVE  UNCHANGED vars
  <1> USE DEF MainGoes, MainRuns
  <1>1. ASSUME NEW s \in Searches PROVE ~EngineWork(s) /\ ~EngineCrashes(s)
    BY DEF EngineWork, EngineReports, EngineProgresses, EngineEnds, EngineObeys, EngineTerminated, EngineCrashes,
           EngineRuns
  <1>2. ~LoopStep /\ ~HandlerStep /\ ~Sigterm /\ \A c \in Commands : ~Request(c)
    BY DEF LoopStep, LoopTick, LoopLocks, LoopCopies, LoopCopyFails, LoopCopyDone, ListCommands, PullCommand, PullDone,
           LoopEnds, HandlerStep, HandlerStops, HandlerParked, HandlerLocks, HandlerCopies, HandlerFlushed,
           HandlerReturns, HandlerExits, Sigterm, Request
  <1>3. ~MainStep
    BY DEF MainStep, Setup, InstallHandler, Launch, Launched, LaunchFails, SearchesEnd, Deadline, Parked, Flush,
           FlushCopies, FlushFails, FlushDone, Summarise
  <1> QED
    BY <1>1, <1>2, <1>3 DEF Next, Finished

(* Engines: a single search that is up is not at rest.                     *)
LEMMA EnginesSave ==
    ASSUME Inv, Saved, NEW s \in Searches, EngineWork(s) \/ EngineCrashes(s)
    PROVE  Saved'
  <1>1. EngineFrame /\ ~Over /\ engine[s] = "up"
    BY EngineAdvances DEF Advances
  <1>2. ~AtRest
    BY <1>1 DEF Inv, Engines, AtRest
  <1>3. main \notin {"setup", "started"}
    BY <1>1 DEF Saved
  <1> QED
    BY <1>1, <1>2, <1>3 DEF EngineFrame, threads, Saved, AtRest, Fleet, StatusFlushed, Over

(* The sync thread: it has no part in a copy that is in hand.              *)
LEMMA LoopSaves ==
    ASSUME Inv, Saved, LoopStep
    PROVE  Saved'
  <1> USE DEF threads, records, copies, control
  <1>1. /\ UNCHANGED <<members, main, raising, handler, engine, state, local, signalled>> /\ ~Over
    BY DEF LoopStep, LoopTick, LoopLocks, LoopCopies, LoopCopyFails, LoopCopyDone, ListCommands, PullCommand,
           PullDone, LoopEnds
  <1>2. failures \in Nat /\ failures' \in Nat /\ failures <= failures'
    BY LimitsAssumption DEF LoopStep, LoopTick, LoopLocks, LoopCopies, LoopCopyFails, LoopCopyDone, ListCommands,
           PullCommand, PullDone, LoopEnds, CopyStep, CopyFails, BucketFails, Inv, TypeOK
  <1>3. \/ UNCHANGED <<sync, bucket>>
        \/ sync.holder \in {"loop", Nobody} /\ sync'.holder \in {"loop", Nobody}
    <2>1. CASE LoopTick \/ ListCommands \/ (\E c \in Commands : PullCommand(c)) \/ PullDone \/ LoopEnds
      BY <2>1 DEF LoopTick, ListCommands, PullCommand, PullDone, LoopEnds
    <2>2. CASE LoopLocks
      BY <2>2, LockTyped DEF LoopLocks, FullTick, Lock
    <2>3. CASE LoopCopies
      BY <1>1, <2>3, CopyStepSafe DEF LoopCopies, CopyStep
    <2>4. CASE LoopCopyFails \/ LoopCopyDone
      BY <2>4 DEF LoopCopyFails, LoopCopyDone, CopyFails, CopyDone, Free
    <2> QED
      BY <2>1, <2>2, <2>3, <2>4 DEF LoopStep
  <1>4. \/ bucket' = bucket
        \/ Current \in Files /\ \E v \in bucket[Current]..local[Current] : bucket' = [bucket EXCEPT ![Current] = v]
    <2>1. CASE LoopCopies
      BY <1>1, <2>1, CopyStepSafe, CurrentTyped DEF LoopCopies
    <2>2. CASE LoopCopyFails
      BY <1>1, <2>2, CopyFailsSafe DEF LoopCopyFails
    <2>3. CASE ~LoopCopies /\ ~LoopCopyFails
      BY <2>3 DEF LoopStep, LoopTick, LoopLocks, LoopCopyDone, ListCommands, PullCommand, PullDone, LoopEnds
    <2> QED
      BY <2>1, <2>2, <2>3
  <1>5. InHand' /\ AtRest' => AtRest /\ InHand /\ UNCHANGED <<sync, bucket>>
    BY <1>1, <1>3, NobodyAssumption DEF InHand, AtRest, Fleet, Inv, Held
  <1>6. AtRest' /\ InHand' => Copied'
    BY <1>1, <1>5 DEF Saved, Copied, InScope, Current
  <1>7. AtRest' /\ handler' = "leaving" /\ failures' = 0 => AllStatus'
    BY <1>1, <1>2, <1>4, StatusKept DEF Saved, AtRest, Fleet
  <1>8. sync'.holder = "handler" => handler' = "flushing"
    BY <1>1, <1>3, NobodyAssumption DEF Saved
  <1> QED
    BY <1>1, <1>6, <1>7, <1>8 DEF Saved, StatusFlushed, Over

(* The main thread: a flush that gets through has every status record.     *)
LEMMA MainSaves ==
    ASSUME Inv, Saved, MainStep
    PROVE  Saved'
  <1> USE DEF threads, records, copies, control, MainGoes, MainRuns
  <1>1. TypeOK /\ Engines /\ Held /\ Flushed /\ failures \in Nat
    BY LimitsAssumption DEF Inv, TypeOK
  <1>2. CASE Setup \/ InstallHandler \/ Launched \/ LaunchFails \/ SearchesEnd \/ Deadline \/ Parked
    <2>1. UNCHANGED <<members, handler, engine, local, sync, bucket, signalled>> /\ ~Over /\ handler = "off"
      BY <1>2 DEF Setup, InstallHandler, Launched, LaunchFails, SearchesEnd, Deadline, Parked
    <2>2. /\ main' \in {"started", "raised", "launching", "waiting", "parking", "joining"}
          /\ main' = "started" => main = "setup"
          /\ main' = "raised" => failures' = failures + 1
      BY <1>2 DEF Setup, InstallHandler, Launched, LaunchFails, SearchesEnd, Deadline, Parked, BucketFails
    <2>3. ~InHand' /\ handler' # "leaving"
      BY <2>1, <2>2 DEF InHand
    <2>4. StatusFlushed'
      BY <1>1, <2>2 DEF StatusFlushed, Over
    <2> QED
      BY <2>1, <2>2, <2>3, <2>4 DEF Saved
  <1>3. ASSUME NEW s \in Searches, Launch(s)
        PROVE  Saved'
    <2>1. UNCHANGED <<members, main, handler, sync, signalled>> /\ main = "launching" /\ handler = "off"
      BY <1>3 DEF Launch
    <2> QED
      BY <2>1 DEF Saved, AtRest, StatusFlushed, Over
  <1>4. CASE Flush
    <2>1. main' = "flushing" /\ handler' = "off" /\ Lock("main", TRUE) /\ UNCHANGED <<bucket, local>>
      BY <1>4 DEF Flush
    <2>2. sync'.next = 1 /\ ~sync'.reading /\ sync'.holder = "main"
      BY <2>1, LockTyped
    <2>3. Copied'
      BY <2>2 DEF Copied
    <2> QED
      BY <2>1, <2>2, <2>3 DEF Saved, StatusFlushed, Over
  <1>5. CASE FlushCopies
    <2>1. UNCHANGED <<members, main, handler, local, failures, signalled>> /\ main = "flushing" /\ handler = "off" /\ CopyStep("main")
      BY <1>5 DEF FlushCopies, CopyStep
    <2>2. sync'.holder = "main"
      BY <1>1, <2>1, CopyStepSafe DEF Held
    <2>3. AtRest => Copied'
      BY <2>1, CopyStepCopies DEF Saved, InHand
    <2> QED
      BY <2>1, <2>2, <2>3 DEF Saved, AtRest, Fleet, StatusFlushed, Over
  <1>6. CASE FlushFails
    <2>1. main' = "raised" /\ handler' = "off" /\ failures' = failures + 1 /\ sync' = Free
      BY <1>6 DEF FlushFails, CopyFails, BucketFails
    <2> QED
      BY <1>1, <2>1, NobodyAssumption DEF Saved, InHand, StatusFlushed, Free
  <1>7. CASE FlushDone
    <2>1. /\ UNCHANGED <<members, raising, handler, engine, local, bucket>> /\ handler = "off" /\ main = "flushing"
          /\ CopyDone("main") /\ main' \in {"summarising", "raised", "exited"}
          /\ main' # "summarising" => raising # "nothing"
      BY <1>7 DEF FlushDone
    <2>2. sync' = Free
      BY <2>1 DEF CopyDone
    <2>3. ~Fleet => AllStatus
      BY <2>1, CopyDoneCopied DEF Saved, AtRest, InHand
    <2>4. StatusFlushed'
      BY <1>1, <2>1, <2>3 DEF StatusFlushed, Over, AllStatus, Fleet, TypeOK
    <2> QED
      BY <2>1, <2>2, <2>4, NobodyAssumption DEF Saved, InHand, Free
  <1>8. CASE Summarise
    <2>1. /\ UNCHANGED <<members, handler, local, bucket, sync>> /\ handler = "off" /\ main = "summarising"
          /\ main' = "returned"
      BY <1>8 DEF Summarise
    <2>2. \A s \in members : bucket[Status(s)] = local[Status(s)]
      BY <1>1, <2>1, TreeTyped DEF Flushed, TypeOK
    <2>3. StatusFlushed'
      BY <2>1, <2>2 DEF StatusFlushed
    <2> QED
      BY <2>1, <2>3 DEF Saved, InHand
  <1> QED
    BY <1>2, <1>3, <1>4, <1>5, <1>6, <1>7, <1>8 DEF MainStep

(* The handler: it leaves the job at rest only with what it has flushed.   *)
LEMMA HandlerSaves ==
    ASSUME Inv, Saved, HandlerStep
    PROVE  Saved'
  <1> USE DEF threads, records, copies, control
  <1>1. TypeOK /\ Engines /\ Held /\ failures \in Nat
    BY LimitsAssumption DEF Inv, TypeOK
  <1>2. CASE HandlerStops \/ HandlerParked \/ HandlerReturns
    <2>1. /\ UNCHANGED <<members, main, engine, local, bucket, sync, signalled>> /\ ~Over /\ handler # "flushing"
          /\ handler' # "leaving" /\ handler # "off"
      BY <1>2 DEF HandlerStops, HandlerParked, HandlerReturns
    <2>2. sync.holder # "handler"
      BY <2>1 DEF Saved
    <2>3. InHand' => InHand
      BY <2>1, <2>2 DEF InHand
    <2>4. AtRest' /\ InHand' => Copied'
      BY <2>1, <2>3 DEF Saved, AtRest, Fleet, Copied, InScope, Current
    <2> QED
      BY <2>1, <2>2, <2>4 DEF Saved, StatusFlushed, Over
  <1>3. CASE HandlerLocks
    <2>1. /\ UNCHANGED <<members, main, engine, local, bucket, handler, signalled>> /\ ~Over /\ handler = "flushing"
          /\ Lock("handler", FALSE)
      BY <1>3 DEF HandlerLocks
    <2>2. sync'.next = 1 /\ ~sync'.reading
      BY <2>1, LockTyped
    <2>3. Copied'
      BY <2>2 DEF Copied
    <2> QED
      BY <2>1, <2>3 DEF Saved, StatusFlushed, Over
  <1>4. CASE HandlerCopies
    <2>1. /\ UNCHANGED <<members, main, engine, local, handler, signalled>> /\ ~Over /\ handler = "flushing"
          /\ CopyStep("handler") /\ sync.holder = "handler"
      BY <1>4 DEF HandlerCopies, CopyStep
    <2>2. AtRest => Copied'
      BY <2>1, CopyStepCopies DEF Saved, InHand
    <2> QED
      BY <2>1, <2>2 DEF Saved, AtRest, Fleet, StatusFlushed, Over
  <1>5. CASE HandlerFlushed
    <2>1. /\ UNCHANGED <<members, main, engine, local, signalled>> /\ ~Over /\ handler = "flushing"
          /\ handler' = "leaving" /\ sync' = Free /\ sync.holder = "handler"
      BY <1>5 DEF HandlerFlushed, CopyDone, CopyFails
    <2>2. main # "flushing"
      BY <1>1, <2>1 DEF Held
    <2>3. AtRest /\ failures' = 0 => AllStatus'
      <3>1. CASE CopyDone("handler") /\ UNCHANGED <<copies, failures>>
        BY <2>1, <3>1, CopyDoneCopied DEF Saved, InHand, AllStatus
      <3>2. CASE CopyFails("handler")
        BY <1>1, <3>2 DEF CopyFails, BucketFails
      <3> QED
        BY <1>5, <3>1, <3>2 DEF HandlerFlushed
    <2> QED
      BY <2>1, <2>2, <2>3, NobodyAssumption DEF Saved, InHand, AtRest, Fleet, StatusFlushed, Over, Free
  <1>6. CASE HandlerExits
    <2>1. /\ UNCHANGED <<members, sync, bucket, failures>> /\ handler = "leaving" /\ handler' = "off"
          /\ raising' = "exit" /\ main' \in {"joining", "exited"}
          /\ main' = "exited" => main \notin {"launching", "waiting"}
      BY <1>6 DEF HandlerExits, LeftAfter
    <2>2. sync.holder # "handler" /\ ~InHand'
      BY <2>1 DEF Saved, InHand
    <2>3. AtRest => local' = local
      <3>1. \A f \in Files : local'[f] # local[f] => engine[f[1]] = "up"
        BY <1>6, ExitsAdvance
      <3>2. AtRest => \A f \in Files : local'[f] = local[f]
        BY <1>1, <3>1, TreeTyped DEF Engines, AtRest
      <3>3. local \in Versions /\ local' \in Versions
        BY <1>1, <1>6, ExitsAdvance DEF TypeOK, Versions
      <3> QED
        BY <3>2, <3>3 DEF Versions
    <2>4. StatusFlushed'
      BY <1>1, <2>1, <2>3 DEF Saved, AtRest, Fleet, StatusFlushed, Over, AllStatus, TypeOK
    <2> QED
      BY <2>1, <2>2, <2>4 DEF Saved
  <1> QED
    BY <1>2, <1>3, <1>4, <1>5, <1>6 DEF HandlerStep

(* The platform: a job killed before its handler is in place has no search.*)
LEMMA PlatformSaves ==
    ASSUME Inv, Saved, (\E c \in Commands : Request(c)) \/ Sigterm
    PROVE  Saved'
  <1> USE DEF threads, records, copies
  <1>1. UNCHANGED <<members, raising, engine, local, bucket, sync, failures>> /\ ~Over
    BY DEF Request, Sigterm
  <1>2. Copied' <=> Copied
    BY <1>1 DEF Copied, InScope, Current
  <1>3. AllStatus' <=> AllStatus
    BY <1>1 DEF AllStatus
  <1>4. CASE \E c \in Commands : Request(c)
    <2>1. UNCHANGED <<main, handler, signalled>>
      BY <1>4 DEF Request
    <2> QED
      BY <1>1, <1>2, <1>3, <2>1 DEF Saved, AtRest, InHand, Fleet, StatusFlushed, Over
  <1>5. CASE Sigterm /\ main \in {"setup", "started"}
    <2>1. main' = "exited" /\ handler' = handler /\ signalled' /\ handler = "off"
      BY <1>5 DEF Sigterm, Saved
    <2>2. \A s \in members : ~Down(s)'
      BY <1>1, <1>5 DEF Saved, Down, Inv, TypeOK
    <2>3. StatusFlushed'
      BY <1>1, <2>2 DEF StatusFlushed
    <2> QED
      BY <1>1, <2>1, <2>3 DEF Saved, InHand
  <1>6. CASE Sigterm /\ main \notin {"setup", "started"}
    <2>1. main' = main /\ handler' = "stopping" /\ signalled' /\ handler = "off"
      BY <1>6 DEF Sigterm, Saved
    <2> QED
      BY <1>1, <1>2, <2>1 DEF Saved, AtRest, InHand, Fleet, StatusFlushed, Over
  <1> QED
    BY <1>4, <1>5, <1>6

(* A job that ended by itself or by SIGTERM, without a failing bucket call,*)
(* leaves the last status record of every engine that has exited: also     *)
(* when the handler cut in before the final flush, and whatever the sync   *)
(* thread was copying.                                                     *)
THEOREM LastStatusFlushed == Spec => []StatusFlushed
  <1>1. Init => Saved
    <2> SUFFICES ASSUME Init PROVE Saved
      OBVIOUS
    <2>1. sync.holder # "handler" /\ handler = "off" /\ main = "setup"
      BY NobodyAssumption DEF Init, Free
    <2> QED
      BY <2>1 DEF Init, Saved, InHand, StatusFlushed, Over
  <1>2. Inv /\ Saved /\ [Next]_vars => Saved'
    <2> SUFFICES ASSUME Inv, Saved, [Next]_vars PROVE Saved'
      OBVIOUS
    <2>1. CASE UNCHANGED vars
      BY <2>1 DEF vars, threads, records, copies, Saved, AtRest, InHand, Copied, InScope, Current, AllStatus, Fleet,
                  StatusFlushed, Over, Down
    <2>2. CASE \E s \in Searches : EngineWork(s) \/ EngineCrashes(s)
      BY <2>2, EnginesSave
    <2>3. CASE (\E c \in Commands : Request(c)) \/ Sigterm
      BY <2>3, PlatformSaves
    <2> QED
      BY <2>1, <2>2, <2>3, LoopSaves, MainSaves, HandlerSaves DEF Next, Finished
  <1>3. Saved => StatusFlushed
    BY DEF Saved
  <1> QED
    BY <1>1, <1>2, <1>3, InvAlways, PTL DEF Spec

--------------------------------------------------------------------------------
(* Commands: what a search was given the sync thread has seen, and what it *)
(* is about to give it has not.                                            *)
Delivered == todo \cap seen = {} /\ \A s \in Searches : given[s] \subseteq seen

(* A step that gives a command gives one that was not seen.                *)
LEMMA DeliveredStep ==
    ASSUME Inv, Delivered, [Next]_vars
    PROVE  /\ Delivered'
           /\ \A s \in Searches, c \in Commands : c \in given[s] /\ c \notin inbox[s] => c \notin inbox'[s]
  <1> USE DEF threads, records, control, MainGoes
  <1>1. /\ inbox \in [Searches -> SUBSET (Commands \cup {Stop})] /\ given \in [Searches -> SUBSET Commands]
        /\ members \subseteq Searches
    BY DEF Inv, TypeOK
  <1>2. ASSUME UNCHANGED <<given, seen, todo>>,
               \A s \in Searches : inbox'[s] \subseteq inbox[s] \cup {Stop}
        PROVE  /\ Delivered'
               /\ \A s \in Searches, c \in Commands : c \in given[s] /\ c \notin inbox[s] => c \notin inbox'[s]
    BY <1>2, StopAssumption DEF Delivered
  <1>3. CASE UNCHANGED vars
    BY <1>2, <1>3 DEF vars
  <1>4. ASSUME NEW s \in Searches, EngineWork(s) \/ EngineCrashes(s)
        PROVE  UNCHANGED <<given, seen, todo>> /\ \A x \in Searches : inbox'[x] \subseteq inbox[x] \cup {Stop}
    BY <1>1, <1>4 DEF EngineWork, EngineReports, EngineProgresses, EngineEnds, EngineObeys, EngineTerminated,
                      EngineCrashes, EngineExits
  <1>5. CASE (\E c \in Commands : Request(c)) \/ Sigterm
    BY <1>2, <1>5 DEF Request, Sigterm
  <1>6. CASE HandlerStep \/ MainStep
    <2>1. UNCHANGED <<given, seen, todo>>
      BY <1>6 DEF HandlerStep, HandlerStops, HandlerParked, HandlerLocks, HandlerCopies, HandlerFlushed,
                  HandlerReturns, HandlerExits, MainStep, Setup, InstallHandler, Launch, Launched, LaunchFails,
                  SearchesEnd, Deadline, Parked, Flush, FlushCopies, FlushFails, FlushDone, Summarise
    <2>2. inbox' = inbox \/ StopEverywhere
      BY <1>6 DEF HandlerStep, HandlerStops, HandlerParked, HandlerLocks, HandlerCopies, HandlerFlushed,
                  HandlerReturns, HandlerExits, MainStep, Setup, InstallHandler, Launch, Launched, LaunchFails,
                  SearchesEnd, Deadline, Parked, Flush, FlushCopies, FlushFails, FlushDone, Summarise
    <2>3. \A x \in Searches : inbox'[x] \subseteq inbox[x] \cup {Stop}
      BY <2>2 DEF StopEverywhere
    <2> QED
      BY <1>2, <2>1, <2>3
  <1>7. ASSUME NEW c \in Commands, PullCommand(c)
        PROVE  /\ Delivered'
               /\ \A s \in Searches, d \in Commands : d \in given[s] /\ d \notin inbox[s] => d \notin inbox'[s]
    <2>1. c \in todo /\ c \notin seen /\ seen' = seen \cup {c}
      BY <1>7 DEF PullCommand, Delivered
    <2>2. todo' \subseteq todo \ {c}
      BY <1>7 DEF PullCommand
    <2>3. \A s \in Searches : inbox'[s] \subseteq inbox[s] \cup {c} /\ given'[s] \subseteq given[s] \cup {c}
      BY <1>1, <1>7 DEF PullCommand
    <2>4. \A s \in Searches : c \notin given[s]
      BY <2>1 DEF Delivered
    <2> QED
      BY <2>1, <2>2, <2>3, <2>4 DEF Delivered
  <1>8. CASE ListCommands
    <2>1. UNCHANGED <<given, seen, inbox>> /\ (todo' = todo \/ todo' = queue \ seen)
      BY <1>8 DEF ListCommands, ListNewCommands
    <2> QED
      BY <2>1 DEF Delivered
  <1>9. CASE LoopStep /\ ~ListCommands /\ \A c \in Commands : ~PullCommand(c)
    BY <1>2, <1>9 DEF LoopStep, LoopTick, LoopLocks, LoopCopies, LoopCopyFails, LoopCopyDone, PullDone, LoopEnds
  <1> QED
    BY <1>2, <1>3, <1>4, <1>5, <1>6, <1>7, <1>8, <1>9 DEF Next, Finished

(* No search is given a command twice, however often the listing of the    *)
(* bucket is read and whatever download fails (pull_control): a command it *)
(* has taken from its control directory does not come back.                *)
THEOREM NeverGivenTwice == Spec => GivenOnce
  <1>1. Init => Delivered
    BY DEF Init, Delivered
  <1>2. Inv /\ Delivered /\ [Next]_vars => Delivered'
    BY DeliveredStep
  <1>3. Inv /\ Delivered /\ [Next]_vars
          => [\A s \in Searches, c \in Commands : c \in given[s] /\ c \notin inbox[s] => c \notin inbox'[s]]_vars
    BY DeliveredStep
  <1> QED
    BY <1>1, <1>2, <1>3, InvAlways, PTL DEF Spec, GivenOnce

--------------------------------------------------------------------------------
(* Who has the lock gives it back: the safety half of EndsUnlessSelfLocked.*)
Owned ==
    /\ sync.holder = "loop" => loop = "copying"
    /\ sync.holder = "handler" => handler = "flushing"
    /\ sync.holder = "main" => main = "flushing"
    /\ handler # "off" => signalled
    /\ handler = "parking" => FleetKnown
    /\ main = "setup" => loop = "off"

(* The holder of the lock goes on: it is at its copy and not suspended, or *)
(* suspended by a handler that does not want the lock yet and will not wait*)
(* for an engine.                                                          *)
HolderGoesOn ==
    \/ sync.holder = "loop" /\ loop = "copying"
    \/ sync.holder = "handler" /\ handler = "flushing"
    \/ /\ sync.holder = "main" /\ main = "flushing"
       /\ handler \in {"off", "stopping", "parking"}
       /\ handler = "parking" => \A s \in members : Down(s)

LEMMA MembersFixed == [Next]_vars => members' = members
  BY DEF Next, EngineWork, EngineReports, EngineProgresses, EngineEnds, EngineObeys, EngineTerminated, EngineCrashes,
         EngineExits, Request, Sigterm, LoopStep, LoopTick, LoopLocks, LoopCopies, LoopCopyFails, LoopCopyDone,
         ListCommands, PullCommand, PullDone, LoopEnds, MainStep, Setup, InstallHandler, Launch, Launched, LaunchFails,
         SearchesEnd, Deadline, Parked, Flush, FlushCopies, FlushFails, FlushDone, Summarise, HandlerStep,
         HandlerStops, HandlerParked, HandlerLocks, HandlerCopies, HandlerFlushed, HandlerReturns, HandlerExits,
         Finished, vars

LEMMA OwnedStep ==
    ASSUME Inv, Owned, [Next]_vars
    PROVE  Owned'
  <1> USE DEF threads, records, MainGoes, MainRuns, Free
  <1>1. /\ sync \in SyncType
        /\ handler \in HandlerPlaces /\ main \in MainPlaces
        /\ handler = "leaving" => main # "flushing"
    BY DEF Inv, TypeOK, SyncType, Held
  <1>2. ASSUME NEW who, CopyStep(who) PROVE sync'.holder = sync.holder
    BY <1>1, <1>2 DEF CopyStep, StatFile, PutFile, SyncType
  <1>3. ASSUME NEW who \in {"main", "loop", "handler"}, NEW full \in BOOLEAN, Lock(who, full)
        PROVE  sync.holder = Nobody /\ sync'.holder = who
    BY <1>3 DEF Lock
  <1>4. Nobody \notin {"main", "loop", "handler"}
    BY NobodyAssumption
  <1>5. members' = members
    BY MembersFixed
  <1>6. CASE /\ UNCHANGED <<main, raising, handler, signalled>>
             /\ sync'.holder = sync.holder /\ (loop' = loop \/ (sync.holder # "loop" /\ loop # "off"))
    BY <1>5, <1>6 DEF Owned, FleetKnown, Fleet
  <1>7. ASSUME NEW s \in Searches, EngineWork(s) \/ EngineCrashes(s)
        PROVE  Owned'
    BY <1>6, <1>7 DEF EngineWork, EngineReports, EngineProgresses, EngineEnds, EngineObeys, EngineTerminated,
                      EngineCrashes, EngineExits
  <1>8. CASE (\E c \in Commands : Request(c)) \/ UNCHANGED vars
    BY <1>6, <1>8 DEF Request, vars
  <1>9. CASE Sigterm
    BY <1>1, <1>4, <1>9 DEF Sigterm, Owned
  <1>10. CASE LoopStep
    <2>1. CASE LoopTick \/ ListCommands \/ PullDone \/ LoopEnds
      BY <1>6, <2>1 DEF LoopTick, ListCommands, PullDone, LoopEnds, LoopGoesOn, Owned
    <2>2. ASSUME NEW c \in Commands, PullCommand(c) PROVE Owned'
      BY <1>6, <2>2 DEF PullCommand, LoopGoesOn, Owned
    <2>3. CASE LoopLocks
      <3>1. sync'.holder = "loop" /\ loop = "locking" /\ loop' = "copying" /\ UNCHANGED <<main, raising, handler, signalled>>
        BY <2>3, <1>3 DEF LoopLocks, FullTick
      <3> QED
        BY <1>5, <3>1 DEF Owned, FleetKnown, Fleet
    <2>4. CASE LoopCopies
      BY <1>2, <1>6, <2>4 DEF LoopCopies
    <2>5. CASE LoopCopyFails \/ LoopCopyDone
      <3>1. sync'.holder = Nobody /\ loop = "copying" /\ UNCHANGED <<main, raising, handler, signalled>>
        BY <2>5 DEF LoopCopyFails, LoopCopyDone, CopyFails, CopyDone
      <3> QED
        BY <1>4, <1>5, <3>1 DEF Owned, FleetKnown, Fleet
    <2> QED
      BY <1>10, <2>1, <2>2, <2>3, <2>4, <2>5 DEF LoopStep
  <1>11. CASE MainStep
    <2>1. handler = "off" /\ UNCHANGED <<handler, signalled>>
      BY <1>11 DEF MainStep, Setup, InstallHandler, Launch, Launched, LaunchFails, SearchesEnd, Deadline, Parked, Flush,
                   FlushCopies, FlushFails, FlushDone, Summarise
    <2>2. CASE Flush
      <3>1. sync'.holder = "main" /\ main' = "flushing"
        BY <2>2, <1>3 DEF Flush
      <3> QED
        BY <2>1, <3>1 DEF Owned
    <2>3. CASE FlushCopies
      BY <1>2, <1>6, <2>3 DEF FlushCopies
    <2>4. CASE FlushFails \/ FlushDone
      <3>1. sync'.holder = Nobody /\ main' # "setup"
        BY <2>4 DEF FlushFails, FlushDone, CopyFails, CopyDone
      <3> QED
        BY <1>4, <2>1, <3>1 DEF Owned
    <2>5. CASE Setup
      <3>1. sync' = sync /\ main = "setup" /\ main' \in {"started", "raised"} /\ loop = "off"
        BY <2>5 DEF Setup, Owned
      <3> QED
        BY <2>1, <3>1 DEF Owned
    <2>6. CASE InstallHandler \/ (\E s \in Searches : Launch(s)) \/ Launched \/ LaunchFails \/ SearchesEnd
               \/ Deadline \/ Parked \/ Summarise
      <3>1. sync' = sync /\ loop' = loop /\ main # "flushing" /\ main' # "setup"
        BY <2>6 DEF InstallHandler, Launch, Launched, LaunchFails, SearchesEnd, Deadline, Parked, Summarise
      <3> QED
        BY <2>1, <3>1 DEF Owned
    <2> QED
      BY <1>11, <2>2, <2>3, <2>4, <2>5, <2>6 DEF MainStep
  <1>12. CASE HandlerStep
    <2>1. CASE HandlerStops
      BY <1>5, <2>1 DEF HandlerStops, Owned, FleetKnown, Fleet
    <2>2. CASE HandlerParked
      BY <2>2 DEF HandlerParked, Owned
    <2>3. CASE HandlerLocks
      <3>1. sync'.holder = "handler" /\ handler = "flushing" /\ UNCHANGED <<main, loop, handler, signalled>>
        BY <2>3, <1>3 DEF HandlerLocks
      <3> QED
        BY <3>1 DEF Owned
    <2>4. CASE HandlerCopies
      BY <1>2, <1>6, <2>4 DEF HandlerCopies
    <2>5. CASE HandlerFlushed
      <3>1. sync'.holder = Nobody /\ handler = "flushing" /\ handler' = "leaving" /\ UNCHANGED <<main, loop, signalled>>
        BY <2>5 DEF HandlerFlushed, CopyFails, CopyDone
      <3> QED
        BY <1>4, <3>1 DEF Owned
    <2>6. CASE HandlerReturns \/ HandlerExits
      <3>1. handler' = "off" /\ handler = "leaving" /\ UNCHANGED <<sync, loop>>
            /\ main # "flushing" /\ (main' = main \/ main' # "setup")
        BY <1>1, <2>6 DEF HandlerReturns, HandlerExits, LeftAfter
      <3> QED
        BY <1>1, <3>1 DEF Owned
    <2> QED
      BY <1>12, <2>1, <2>2, <2>3, <2>4, <2>5, <2>6 DEF HandlerStep
  <1> QED
    BY <1>7, <1>8, <1>9, <1>10, <1>11, <1>12 DEF Next, Finished

(* Whoever waits for the sync lock waits for a party that goes on, with the*)
(* one exception of a handler on top of the main thread's own final flush: *)
(* no failing bucket call, no late sync thread and no order of SIGTERM and *)
(* the ends of engines leaves the lock with a party that is gone or waits  *)
(* itself (_StateSync.sync_once, on_sigterm).                              *)
THEOREM LockIsGivenBack == Spec => [](sync.holder # Nobody /\ ~SelfLocked => HolderGoesOn)
  <1>1. Init => Owned
    BY NobodyAssumption DEF Init, Owned, Free
  <1>2. Inv /\ Owned /\ [Next]_vars => Owned'
    BY OwnedStep
  <1>3. Inv /\ Owned => (sync.holder # Nobody /\ ~SelfLocked => HolderGoesOn)
    <2> SUFFICES ASSUME Inv, Owned, sync.holder # Nobody, ~SelfLocked PROVE HolderGoesOn
      OBVIOUS
    <2>1. sync.holder \in {"main", "loop", "handler"} /\ handler \in HandlerPlaces
      BY DEF Inv, TypeOK, Holders
    <2>2. CASE sync.holder = "main"
      <3>1. main = "flushing" /\ handler \in {"off", "stopping", "parking"}
        BY <2>1, <2>2 DEF Owned, SelfLocked, Inv, Held, HandlerPlaces
      <3>2. handler = "parking" => \A s \in members : Down(s)
        BY <3>1 DEF Owned, FleetKnown, Inv, Flushed
      <3> QED
        BY <2>2, <3>1, <3>2 DEF HolderGoesOn
    <2> QED
      BY <2>1, <2>2 DEF Owned, HolderGoesOn
  <1> QED
    BY <1>1, <1>2, <1>3, InvAlways, PTL DEF Spec
================================================================================
