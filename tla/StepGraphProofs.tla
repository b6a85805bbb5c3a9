---------------------------- MODULE StepGraphProofs ----------------------------
(***************************************************************************)
(* Proofs about the graph of a step workflow, for any steps, any names and *)
(* bodies of any length.                                                   *)
(*                                                                         *)
(* A new key is free (KeyIsFree, by the pigeonhole principle: one of       *)
(* Len(nodes) + 1 candidates is not taken), so a key names one node. The   *)
(* inductive invariant adds to the order of the nodes what a switch has    *)
(* done to its branches (SwitchOwnsBranches).                              *)
(***************************************************************************)
EXTENDS StepGraph, TLAPS, FiniteSetTheorems, WellFoundedInduction

NodeShape(x) ==
    /\ x.upstream = x.ordering \cup x.reads \cup x.items \cup x.condition.on \cup x.branches
    /\ x.kind = "step" => x.items = {} /\ x.branches = {}
    /\ x.kind = "step" /\ x.sense = "always" => x.condition.on = {}

NodesAreShaped == \A i \in DOMAIN nodes : NodeShape(nodes[i])

Branches(s, i, j) ==
    /\ i # j
    /\ nodes[s].branches = {nodes[i].key, nodes[j].key}
    /\ nodes[i].sense = "if" /\ nodes[j].sense = "unless"
    /\ nodes[i].condition = nodes[j].condition

SwitchOwnsBranches ==
    \A s \in DOMAIN nodes :
        nodes[s].branches # {} => \E i, j \in DOMAIN nodes : Branches(s, i, j)

Inv ==
    /\ TypeOK
    /\ OrderIsTopological
    /\ NodesAreShaped
    /\ SwitchOwnsBranches

--------------------------------------------------------------------------------
(* A nonempty set of numbers has a least one.                              *)
LEMMA LeastExists ==
    ASSUME NEW T \in SUBSET Nat, T # {}
    PROVE  \E n \in T : \A m \in T : ~(m < n)
<1> DEFINE R == OpToRel(<, Nat)
<1>1. IsWellFoundedOn(R, Nat)
  BY NatLessThanWellFounded
<1>2. \A x, y \in Nat : x < y => <<x, y>> \in R
  BY DEF OpToRel
<1> HIDE DEF R
<1>3. \E x \in T : \A y \in T : ~(<<y, x>> \in R)
  BY <1>1, WFMin
<1> QED
  BY <1>2, <1>3

(* The candidates for a key are keys, and all different.                   *)
LEMMA CandidatesDiffer ==
    ASSUME NEW base \in Key
    PROVE  /\ \A n \in Nat \ {0} : Candidate(base, n) \in Key
           /\ \A m, n \in Nat \ {0} : Candidate(base, m) = Candidate(base, n) => m = n
<1>1. \A n \in Nat : Append(base, n) \in Key /\ Len(Append(base, n)) = Len(base) + 1
                      /\ Append(base, n)[Len(base) + 1] = n
  BY DEF Key
<1>2. Len(base) \in Nat
  BY DEF Key
<1>3. \A n \in Nat \ {0} : Candidate(base, n) \in Key
  BY <1>1 DEF Candidate
<1>4. ASSUME NEW m \in Nat \ {0}, NEW n \in Nat \ {0},
             Candidate(base, m) = Candidate(base, n)
      PROVE  m = n
  <2>1. CASE m = 1 /\ n # 1
    BY <1>1, <1>2, <1>4, <2>1 DEF Candidate
  <2>2. CASE m # 1 /\ n = 1
    BY <1>1, <1>2, <1>4, <2>2 DEF Candidate
  <2>3. CASE m # 1 /\ n # 1
    <3>1. Append(base, m) = Append(base, n)
      BY <1>4, <2>3 DEF Candidate
    <3> QED
      BY <3>1, <1>1
  <2> QED
    BY <2>1, <2>2, <2>3
<1> QED
  BY <1>3, <1>4

(* The keys of the graph are no more than its nodes.                       *)
LEMMA FewKeys ==
    ASSUME TypeOK
    PROVE  IsFiniteSet(Keys) /\ Cardinality(Keys) <= Len(nodes)
<1>1. DOMAIN nodes = 1..Len(nodes) /\ Len(nodes) \in Nat
  BY DEF TypeOK
<1>2. IsFiniteSet(1..Len(nodes)) /\ Cardinality(1..Len(nodes)) = Len(nodes)
  <2>1. 1 \in Int /\ Len(nodes) \in Int
    BY <1>1
  <2>2. /\ IsFiniteSet(1..Len(nodes))
        /\ Cardinality(1..Len(nodes)) = IF 1 > Len(nodes) THEN 0 ELSE Len(nodes) - 1 + 1
    BY <2>1, FS_Interval
  <2> QED
    BY <2>2, <1>1
<1> DEFINE f == [i \in 1..Len(nodes) |-> nodes[i].key]
<1>3. f \in Surjection(1..Len(nodes), Keys)
  BY <1>1 DEF Surjection, Keys
<1> QED
  BY <1>2, <1>3, FS_Surjection

(* The key a new node gets is a key, and no node has it.                   *)
LEMMA KeyIsFree ==
    ASSUME TypeOK, NEW base \in Key
    PROVE  NodeKeyFor(base) \in Key /\ NodeKeyFor(base) \notin Keys
<1> DEFINE N == Len(nodes) + 1
           T == {n \in 1..N : Candidate(base, n) \notin Keys}
<1>1. Len(nodes) \in Nat /\ N \in Nat /\ 1..N \subseteq Nat \ {0}
  BY DEF TypeOK
<1>2. T # {}
  <2> SUFFICES ASSUME T = {} PROVE FALSE
    OBVIOUS
  <2> DEFINE f == [n \in 1..N |-> Candidate(base, n)]
  <2>1. f \in [1..N -> Keys]
    OBVIOUS
  <2>2. IsFiniteSet(1..N) /\ Cardinality(1..N) = N
    BY <1>1, FS_Interval
  <2>3. IsFiniteSet(Keys) /\ Cardinality(Keys) < N
    <3>1. Cardinality(Keys) \in Nat
      BY FewKeys, FS_CardinalityType
    <3> QED
      BY FewKeys, <1>1, <3>1
  <2> HIDE DEF f
  <2>4. \E x, y \in 1..N : x # y /\ f[x] = f[y]
    BY <2>1, <2>2, <2>3, FS_PigeonHole
  <2> USE DEF f
  <2> QED
    BY <2>4, <1>1, CandidatesDiffer
<1>3. PICK n \in T : \A m \in T : ~(m < n)
  BY <1>1, <1>2, LeastExists
<1>4. \A m \in 1..(n - 1) : m \in 1..N /\ m < n
  BY <1>1
<1>5. \E k \in 1..N : /\ Candidate(base, k) \notin Keys
                      /\ \A m \in 1..(k - 1) : Candidate(base, m) \in Keys
  BY <1>3, <1>4
<1> QED
  BY <1>5, <1>1, CandidatesDiffer DEF NodeKeyFor

--------------------------------------------------------------------------------
(* A sequence of nodes that has grown by one.                              *)
LEMMA Grown ==
    ASSUME NEW old \in Seq(Node), NEW x \in Node, nodes' = Append(old, x)
    PROVE  /\ nodes' \in Seq(Node)
           /\ DOMAIN old = 1..Len(old) /\ Len(old) \in Nat
           /\ DOMAIN nodes' = 1..(Len(old) + 1)
           /\ DOMAIN nodes' = (DOMAIN old) \cup {Len(old) + 1}
           /\ \A i \in DOMAIN old : nodes'[i] = old[i] /\ i \in Nat /\ i < Len(old) + 1
           /\ nodes'[Len(old) + 1] = x
<1>1. /\ nodes' \in Seq(Node)
      /\ DOMAIN old = 1..Len(old) /\ Len(old) \in Nat
      /\ DOMAIN nodes' = 1..(Len(old) + 1)
      /\ \A i \in DOMAIN old : nodes'[i] = old[i]
      /\ nodes'[Len(old) + 1] = x
  OBVIOUS
<1> QED
  BY <1>1

(* A call adds one node, with a key of its own, that waits for nodes of the *)
(* graph and leaves all others as they are.                                *)
LEMMA CallKeepsInv ==
    ASSUME Inv, phase = "tracing", phase' = phase,
           NEW x \in Node, nodes' = Append(nodes, x),
           x.key \notin Keys, x.upstream \subseteq Keys, x.branches = {}, NodeShape(x)
    PROVE  Inv'
<1> DEFINE n == Len(nodes) + 1
<1>1. nodes \in Seq(Node)
  BY DEF Inv, TypeOK
<1>2. /\ nodes' \in Seq(Node)
      /\ n \in Nat
      /\ DOMAIN nodes' = (DOMAIN nodes) \cup {n}
      /\ \A i \in DOMAIN nodes : nodes'[i] = nodes[i] /\ i \in Nat /\ i < n
      /\ nodes'[n] = x
  BY <1>1, Grown
<1> HIDE DEF n
<1>3. TypeOK'
  BY <1>2 DEF Inv, TypeOK
<1>4. Keys' = Keys \cup {x.key}
  BY <1>2 DEF Keys
<1>5. KeysAreUnique'
  <2> SUFFICES ASSUME NEW i \in DOMAIN nodes', NEW j \in DOMAIN nodes',
                      nodes'[i].key = nodes'[j].key
               PROVE  i = j
    BY DEF KeysAreUnique
  <2> QED
    BY <1>2 DEF Inv, OrderIsTopological, KeysAreUnique, Keys
<1>6. NothingDangles'
  BY <1>2, <1>4 DEF Inv, OrderIsTopological, NothingDangles
<1>7. EdgesGoBack'
  <2> SUFFICES ASSUME NEW i \in DOMAIN nodes', NEW j \in DOMAIN nodes',
                      nodes'[j].key \in nodes'[i].upstream
               PROVE  j < i \/ LateCondition(i, j)'
    BY DEF EdgesGoBack
  <2>1. nodes'[j].key \in Keys
    <3>1. \A k \in DOMAIN nodes : nodes[k].upstream \subseteq Keys
      BY DEF Inv, OrderIsTopological, NothingDangles
    <3> QED
      BY <3>1, <1>2
  <2>2. j \in DOMAIN nodes
    BY <2>1, <1>2
  <2>3. CASE i = n
    BY <2>2, <2>3, <1>2
  <2>4. CASE i \in DOMAIN nodes
    <3>1. j < i \/ LateCondition(i, j)
      BY <2>2, <2>4, <1>2 DEF Inv, OrderIsTopological, EdgesGoBack
    <3>2. LateCondition(i, j) => LateCondition(i, j)'
      BY <2>2, <2>4, <1>2 DEF LateCondition
    <3> QED
      BY <3>1, <3>2
  <2> QED
    BY <2>3, <2>4, <1>2
<1>8. NodesAreShaped'
  <2>1. \A i \in DOMAIN nodes' : NodeShape(nodes'[i])
    BY <1>2 DEF Inv, NodesAreShaped
  <2> QED
    BY <2>1 DEF NodesAreShaped, NodeShape
<1>9. SwitchOwnsBranches'
  <2> SUFFICES ASSUME NEW s \in DOMAIN nodes', nodes'[s].branches # {}
               PROVE  \E i, j \in DOMAIN nodes' : Branches(s, i, j)'
    BY DEF SwitchOwnsBranches
  <2>1. s \in DOMAIN nodes
    BY <1>2
  <2>2. PICK i \in DOMAIN nodes, j \in DOMAIN nodes : Branches(s, i, j)
    BY <2>1, <1>2 DEF Inv, SwitchOwnsBranches
  <2>3. Branches(s, i, j)'
    BY <2>1, <2>2, <1>2 DEF Branches
  <2> QED
    BY <2>3, <1>2
<1> QED
  BY <1>3, <1>5, <1>6, <1>7, <1>8, <1>9 DEF Inv, OrderIsTopological

(* The nodes of the graph, as the next lemmas use them.                    *)
LEMMA KeysAreKeys ==
    ASSUME TypeOK
    PROVE  Keys \subseteq Key
<1>1. \A i \in DOMAIN nodes : nodes[i] \in Node
  BY DEF TypeOK
<1>2. \A x \in Node : x.key \in Key
  BY DEF Node
<1> QED
  BY <1>1, <1>2 DEF Keys

LEMMA RecordStepKeepsInv ==
    ASSUME Inv, NEW step \in Steps, NEW reads \in SUBSET Keys, NEW ordering \in SUBSET Keys,
           NEW condition \in Conditions \cup {NoCondition},
           RecordStep(step, reads, ordering, condition)
    PROVE  Inv'
<1> DEFINE x == NodeFor("step", Base[step], reads, {}, ordering, condition)
<1>1. Base[step] \in Key
  BY StepGraphAssumption
<1>2. NodeKeyFor(Base[step]) \in Key \ Keys
  BY <1>1, KeyIsFree DEF Inv
<1>3. condition \in [on : SUBSET Key, op : Ops \cup {"none"}] /\ condition.on \subseteq Keys
  BY KeysAreKeys DEF Inv, Conditions, NoCondition
<1>4. /\ x \in Node
      /\ x.key \notin Keys /\ x.upstream \subseteq Keys /\ x.branches = {}
  BY <1>2, <1>3, KeysAreKeys DEF NodeFor, Node, Inv
<1>5. NodeShape(x)
  BY DEF NodeFor, NodeShape, NoCondition
<1>6. phase = "tracing" /\ phase' = phase /\ nodes' = Append(nodes, x)
  BY DEF RecordStep
<1> HIDE DEF x
<1> QED
  BY <1>4, <1>5, <1>6, CallKeepsInv

LEMMA RecordMapKeepsInv ==
    ASSUME Inv, NEW step \in Steps, NEW reads \in SUBSET Keys, NEW items \in SUBSET Keys,
           RecordMap(step, items, reads)
    PROVE  Inv'
<1> DEFINE x == NodeFor("map", Base[step], reads, items, {}, NoCondition)
<1>1. Base[step] \in Key
  BY StepGraphAssumption
<1>2. NodeKeyFor(Base[step]) \in Key \ Keys
  BY <1>1, KeyIsFree DEF Inv
<1>3. /\ x \in Node
      /\ x.key \notin Keys /\ x.upstream \subseteq Keys /\ x.branches = {}
  BY <1>2, KeysAreKeys DEF NodeFor, Node, Inv, NoCondition
<1>4. NodeShape(x)
  BY DEF NodeFor, NodeShape, NoCondition
<1>5. phase = "tracing" /\ phase' = phase /\ nodes' = Append(nodes, x)
  BY DEF RecordMap
<1> HIDE DEF x
<1> QED
  BY <1>3, <1>4, <1>5, CallKeepsInv

--------------------------------------------------------------------------------
(* A switch: two plain steps get its condition, one of them the other way  *)
(* round, and a node of its own follows. What may lead forward is an edge  *)
(* from a branch to what the condition looks at.                           *)
LEMMA RecordSwitchKeepsInv ==
    ASSUME Inv, NEW condition \in Conditions, NEW i \in DOMAIN nodes, NEW j \in DOMAIN nodes,
           RecordSwitch(condition, i, j)
    PROVE  Inv'
<1> DEFINE old == [m \in DOMAIN nodes |->
                       CASE m = i -> Conditioned(nodes[m], condition, "if")
                         [] m = j -> Conditioned(nodes[m], condition, "unless")
                         [] OTHER -> nodes[m]]
           x == SwitchFor(condition, nodes[i].key, nodes[j].key)
<1>1. /\ nodes \in Seq(Node) /\ DOMAIN nodes = 1..Len(nodes) /\ Len(nodes) \in Nat
      /\ \A m \in DOMAIN nodes : nodes[m] \in Node
  BY DEF Inv, TypeOK
<1>2. /\ i # j /\ PlainStep(i) /\ PlainStep(j) /\ phase = "tracing" /\ phase' = phase
      /\ nodes' = Append(old, x)
  BY DEF RecordSwitch
<1>3. /\ condition \in [on : SUBSET Key, op : Ops \cup {"none"}]
      /\ condition.on \subseteq Keys /\ Keys \subseteq Key
  BY KeysAreKeys DEF Inv, Conditions
<1>4. x \in Node /\ x.key \notin Keys
  <2>1. NodeKeyFor(WhenBase) \in Key \ Keys
    BY KeyIsFree, StepGraphAssumption DEF Inv
  <2>2. nodes[i].key \in Key /\ nodes[j].key \in Key
    BY <1>1 DEF Node
  <2> QED
    BY <2>1, <2>2, <1>3 DEF SwitchFor, Node
<1>0. PICK n \in Nat : n = Len(nodes) + 1
  BY <1>1
<1>5. \A m \in DOMAIN nodes :
          /\ old[m] \in Node
          /\ old[m].key = nodes[m].key /\ old[m].kind = nodes[m].kind
          /\ old[m].branches = nodes[m].branches
          /\ m # i /\ m # j => old[m] = nodes[m]
  <2>1. ASSUME NEW y \in Node, NEW sense \in {"if", "unless"}
        PROVE  LET c == Conditioned(y, condition, sense)
               IN  c \in Node /\ c.key = y.key /\ c.kind = y.kind /\ c.branches = y.branches
    <3>1. y.upstream \cup condition.on \in SUBSET Key
      BY <1>3 DEF Node
    <3> QED
      BY <3>1, <1>3 DEF Conditioned, Node
  <2> SUFFICES ASSUME NEW m \in DOMAIN nodes
               PROVE  /\ old[m] \in Node
                      /\ old[m].key = nodes[m].key /\ old[m].kind = nodes[m].kind
                      /\ old[m].branches = nodes[m].branches
                      /\ m # i /\ m # j => old[m] = nodes[m]
    OBVIOUS
  <2>2. CASE m = i
    BY <1>1, <2>1, <2>2
  <2>3. CASE m # i /\ m = j
    BY <1>1, <2>1, <2>3
  <2>4. CASE m # i /\ m # j
    BY <1>1, <2>4
  <2> QED
    BY <2>2, <2>3, <2>4
<1>6. \A m \in {i, j} :
          /\ old[m].condition = condition
          /\ old[m].upstream = nodes[m].upstream \cup condition.on
          /\ old[m].ordering = nodes[m].ordering /\ old[m].reads = nodes[m].reads
          /\ old[m].items = nodes[m].items
          /\ old[m].sense = IF m = i THEN "if" ELSE "unless"
  BY <1>1, <1>2 DEF Conditioned, Node
<1>7. old \in Seq(Node) /\ Len(old) = Len(nodes) /\ DOMAIN old = DOMAIN nodes
  <2>1. old \in [1..Len(nodes) -> Node]
    BY <1>1, <1>5
  <2> QED
    BY <2>1, <1>1
<1>8. /\ x.upstream = {nodes[i].key, nodes[j].key} \cup condition.on
      /\ x.branches = {nodes[i].key, nodes[j].key}
      /\ x.kind = "switch"
  BY DEF SwitchFor
<1>9. NodeShape(x)
  BY DEF SwitchFor, NodeShape
<1> HIDE DEF old, x
<1>10. /\ nodes' \in Seq(Node)
      /\ DOMAIN nodes' = (DOMAIN nodes) \cup {n}
      /\ n \in Nat
      /\ \A m \in DOMAIN nodes : nodes'[m] = old[m] /\ m \in Nat /\ m < n
      /\ nodes'[n] = x
  BY <1>4, <1>7, <1>2, <1>0, Grown
<1>11. TypeOK'
  BY <1>10, <1>2 DEF TypeOK
<1>12. Keys' = Keys \cup {x.key}
  <2>1. \A m \in DOMAIN nodes : nodes'[m].key = nodes[m].key
    BY <1>5, <1>10
  <2> QED
    BY <2>1, <1>10 DEF Keys
<1>13. KeysAreUnique'
  <2> SUFFICES ASSUME NEW a \in DOMAIN nodes', NEW b \in DOMAIN nodes',
                      nodes'[a].key = nodes'[b].key
               PROVE  a = b
    BY DEF KeysAreUnique
  <2>1. \A m \in DOMAIN nodes : nodes'[m].key = nodes[m].key /\ nodes[m].key \in Keys
    BY <1>5, <1>10 DEF Keys
  <2> QED
    BY <2>1, <1>4, <1>10 DEF Inv, OrderIsTopological, KeysAreUnique
<1>14. \A m \in DOMAIN nodes : old[m].upstream \subseteq Keys
  <2>1. \A m \in DOMAIN nodes : nodes[m].upstream \subseteq Keys
    BY DEF Inv, OrderIsTopological, NothingDangles
  <2> QED
    BY <2>1, <1>3, <1>5, <1>6
<1>15. x.upstream \subseteq Keys
  BY <1>3, <1>8 DEF Keys
<1>16. NothingDangles'
  BY <1>10, <1>12, <1>14, <1>15 DEF NothingDangles
<1>17. EdgesGoBack'
  <2> SUFFICES ASSUME NEW a \in DOMAIN nodes', NEW b \in DOMAIN nodes',
                      nodes'[b].key \in nodes'[a].upstream
               PROVE  b < a \/ LateCondition(a, b)'
    BY DEF EdgesGoBack
  <2>1. b \in DOMAIN nodes
    BY <1>4, <1>10, <1>14, <1>15
  <2>2. nodes'[b].key = nodes[b].key
    BY <2>1, <1>5, <1>10
  <2>3. CASE a = n
    BY <2>1, <2>3, <1>10
  <2>4. CASE a \in DOMAIN nodes
    <3>1. nodes[b].key \in old[a].upstream
      BY <2>2, <2>4, <1>10
    <3>2. CASE a \in {i, j} /\ nodes[b].key \in condition.on
      <4>1. nodes'[b].key \in nodes'[a].condition.on
        BY <3>2, <2>2, <2>4, <1>6, <1>10
      <4>2. n > a /\ n > b /\ nodes'[a].key \in nodes'[n].branches
        BY <3>2, <2>1, <2>4, <1>5, <1>10, <1>8
      <4> QED
        BY <4>1, <4>2, <1>10 DEF LateCondition
    <3>3. CASE nodes[b].key \in nodes[a].upstream
      <4>1. b < a \/ LateCondition(a, b)
        BY <2>1, <2>4, <3>3 DEF Inv, OrderIsTopological, EdgesGoBack
      <4>2. LateCondition(a, b) => a \notin {i, j}
        BY <1>2, <2>4 DEF LateCondition, PlainStep, Inv, NodesAreShaped, NodeShape
      <4>3. LateCondition(a, b) => LateCondition(a, b)'
        <5> SUFFICES ASSUME LateCondition(a, b) PROVE LateCondition(a, b)'
          OBVIOUS
        <5>1. PICK s \in DOMAIN nodes :
                  s > a /\ s > b /\ nodes[a].key \in nodes[s].branches
          BY DEF LateCondition
        <5>2. nodes'[s].branches = nodes[s].branches
          BY <5>1, <1>5, <1>10
        <5>3. nodes'[a] = nodes[a]
          BY <4>2, <2>4, <1>5, <1>10
        <5> QED
          BY <5>1, <5>2, <5>3, <2>2, <1>10 DEF LateCondition
      <4> QED
        BY <4>1, <4>3
    <3> QED
      BY <3>1, <3>2, <3>3, <2>4, <1>5, <1>6
  <2> QED
    BY <2>3, <2>4, <1>10
<1>18. NodesAreShaped'
  <2>1. ASSUME NEW m \in DOMAIN nodes PROVE NodeShape(old[m])
    <3>1. NodeShape(nodes[m])
      BY DEF Inv, NodesAreShaped
    <3>2. CASE m \in {i, j}
      <4>1. /\ nodes[m].kind = "step" /\ nodes[m].sense = "always"
        BY <3>2, <1>2 DEF PlainStep
      <4> QED
        BY <4>1, <3>1, <3>2, <1>5, <1>6 DEF NodeShape
    <3>3. CASE m \notin {i, j}
      BY <3>1, <3>3, <1>5
    <3> QED
      BY <3>2, <3>3
  <2>2. \A m \in DOMAIN nodes' : NodeShape(nodes'[m])
    BY <2>1, <1>10, <1>9
  <2> QED
    BY <2>2 DEF NodesAreShaped, NodeShape
<1>19. SwitchOwnsBranches'
  <2> SUFFICES ASSUME NEW s \in DOMAIN nodes', nodes'[s].branches # {}
               PROVE  \E a, b \in DOMAIN nodes' : Branches(s, a, b)'
    BY DEF SwitchOwnsBranches
  <2>1. CASE s = n
    <3>1. Branches(n, i, j)'
      BY <1>2, <1>5, <1>6, <1>10, <1>8 DEF Branches
    <3> QED
      BY <2>1, <3>1, <1>10
  <2>2. CASE s \in DOMAIN nodes
    <3>1. nodes'[s].branches = nodes[s].branches
      BY <2>2, <1>5, <1>10
    <3>2. PICK a \in DOMAIN nodes, b \in DOMAIN nodes : Branches(s, a, b)
      BY <2>2, <3>1 DEF Inv, SwitchOwnsBranches
    <3>3. a \notin {i, j} /\ b \notin {i, j}
      BY <3>2, <1>2 DEF Branches, PlainStep
    <3>4. nodes'[a] = nodes[a] /\ nodes'[b] = nodes[b]
      BY <3>3, <1>5, <1>10
    <3>5. Branches(s, a, b)'
      BY <3>1, <3>2, <3>4 DEF Branches
    <3> QED
      BY <3>5, <1>10
  <2> QED
    BY <2>1, <2>2, <1>10
<1> QED
  BY <1>11, <1>13, <1>16, <1>17, <1>18, <1>19 DEF Inv, OrderIsTopological

--------------------------------------------------------------------------------
(* What leaves the nodes alone leaves alone all that is said of them.      *)
LEMMA NodesKept ==
    ASSUME Inv, nodes' = nodes
    PROVE  (OrderIsTopological /\ NodesAreShaped /\ SwitchOwnsBranches)'
<1>1. OrderIsTopological'
  BY DEF Inv, OrderIsTopological, KeysAreUnique, NothingDangles, EdgesGoBack,
         LateCondition, Keys
<1>2. NodesAreShaped'
  BY DEF Inv, NodesAreShaped, NodeShape
<1>3. SwitchOwnsBranches'
  BY DEF Inv, SwitchOwnsBranches, Branches
<1> QED
  BY <1>1, <1>2, <1>3

LEMMA InitInv == Init => Inv
<1> SUFFICES ASSUME Init PROVE Inv
  OBVIOUS
<1>1. nodes = <<>> /\ DOMAIN nodes = {} /\ phase = "tracing"
  BY DEF Init
<1>2. nodes \in Seq(Node)
  BY <1>1
<1> QED
  BY <1>1, <1>2 DEF Inv, TypeOK, OrderIsTopological, KeysAreUnique, NothingDangles,
     EdgesGoBack, NodesAreShaped, SwitchOwnsBranches

LEMMA NextInv == Inv /\ [Next]_vars => Inv'
<1> SUFFICES ASSUME Inv, [Next]_vars PROVE Inv'
  OBVIOUS
<1>1. ASSUME NEW step \in Steps, NEW reads \in Held, NEW ordering \in Held,
             NEW condition \in Conditions \cup {NoCondition},
             RecordStep(step, reads, ordering, condition)
      PROVE  Inv'
  BY <1>1, RecordStepKeepsInv DEF Held
<1>2. ASSUME NEW step \in Steps, NEW reads \in Held,
             NEW items \in Held, RecordMap(step, items, reads)
      PROVE  Inv'
  <2>1. reads \subseteq Keys /\ items \subseteq Keys
    BY DEF Held
  <2> QED
    BY <2>1, <1>2, RecordMapKeepsInv
<1>3. ASSUME NEW condition \in Conditions, NEW i \in DOMAIN nodes, NEW j \in DOMAIN nodes,
             RecordSwitch(condition, i, j)
      PROVE  Inv'
  BY <1>3, RecordSwitchKeepsInv
<1>4. CASE Return \/ Refuse \/ UNCHANGED vars
  <2>1. nodes' = nodes /\ (phase' = phase \/ phase' \in {"empty", "compiled", "refused"})
    BY <1>4 DEF Return, Refuse, vars
  <2>2. TypeOK'
    BY <2>1 DEF Inv, TypeOK
  <2> QED
    BY <2>1, <2>2, NodesKept DEF Inv
<1> QED
  BY <1>1, <1>2, <1>3, <1>4 DEF Next

(* The inductive invariant holds always.                                   *)
THEOREM Invariance == Spec => []Inv
<1> QED
  BY InitInv, NextInv, PTL DEF Spec

(* Type correctness of the tracing and of the engine.                      *)
THEOREM TypeCorrect == Spec => []TypeOK
<1>1. Inv => TypeOK
  BY DEF Inv
<1> QED
  BY <1>1, Invariance, PTL

(* Keys are unique, nobody waits for a node that is not there, and the     *)
(* order of the calls is one the dependencies allow but for a late         *)
(* condition, for bodies of any length (client.py, _node_for).             *)
THEOREM CallOrderWorks == Spec => []OrderIsTopological
<1>1. Inv => OrderIsTopological
  BY DEF Inv
<1> QED
  BY <1>1, Invariance, PTL

(* Of the branches of a switch exactly one is run (record_switch).         *)
THEOREM ExactlyOneBranch == Spec => []OneBranchRuns
<1>1. Inv => OneBranchRuns
  <2> SUFFICES ASSUME Inv,
                      NEW s \in DOMAIN nodes, NEW a \in DOMAIN nodes, NEW b \in DOMAIN nodes,
                      a # b, {nodes[a].key, nodes[b].key} = nodes[s].branches,
                      NEW verdict \in [Asked -> BOOLEAN]
               PROVE  Taken(a, verdict) # Taken(b, verdict)
    BY DEF OneBranchRuns
  <2>1. PICK i \in DOMAIN nodes, j \in DOMAIN nodes : Branches(s, i, j)
    BY DEF Inv, SwitchOwnsBranches
  <2>2. {a, b} = {i, j}
    BY <2>1 DEF Branches, Inv, OrderIsTopological, KeysAreUnique
  <2>3. nodes[i].condition \in Asked /\ nodes[j].condition = nodes[i].condition
    BY <2>1 DEF Branches, Asked
  <2>4. verdict[nodes[i].condition] \in BOOLEAN
    BY <2>3
  <2>5. /\ Taken(i, verdict) = verdict[nodes[i].condition]
        /\ Taken(j, verdict) = ~verdict[nodes[i].condition]
    BY <2>1, <2>3, <2>4 DEF Branches, Taken
  <2>6. Taken(i, verdict) # Taken(j, verdict)
    BY <2>4, <2>5
  <2> QED
    BY <2>2, <2>6
<1> QED
  BY <1>1, Invariance, PTL

(* The pane lights only nodes that are waited for, and all of them in a    *)
(* graph of plain calls (tui_graph.py, upstream_nodes).                    *)
THEOREM PaneTellsTheTruth == Spec => []PaneIsHonest
<1>1. Inv => PaneIsHonest
  <2> SUFFICES ASSUME Inv, NEW i \in DOMAIN nodes
               PROVE  /\ UpstreamNodes(i, DrawnEdges) \subseteq UpstreamNodes(i, EngineEdges)
                      /\ PlainGraph =>
                             UpstreamNodes(i, DrawnEdges) = UpstreamNodes(i, EngineEdges)
    BY DEF PaneIsHonest
  <2>1. \A m \in DOMAIN nodes : NodeShape(nodes[m])
    BY DEF Inv, NodesAreShaped
  <2>2. DrawnEdges \subseteq EngineEdges
    BY <2>1 DEF NodeShape, DrawnEdges, EngineEdges, DataUpstream
  <2>3. \A S : Closed(S, EngineEdges) => Closed(S, DrawnEdges)
    BY <2>2 DEF Closed
  <2>4. UpstreamNodes(i, DrawnEdges) \subseteq UpstreamNodes(i, EngineEdges)
    BY <2>3 DEF UpstreamNodes
  <2>5. PlainGraph => DrawnEdges = EngineEdges
    <3>1. PlainGraph => \A m \in DOMAIN nodes : nodes[m].upstream = nodes[m].reads
      BY <2>1 DEF PlainGraph, NodeShape
    <3> QED
      BY <3>1 DEF DrawnEdges, EngineEdges, DataUpstream
  <2> QED
    BY <2>4, <2>5
<1> QED
  BY <1>1, Invariance, PTL

--------------------------------------------------------------------------------
(* Which graphs the engine can finish: no two nodes wait for each other    *)
(* but by a late condition that closes the circle.                         *)

(* A node is among what it waits for, and so is all that those wait for.   *)
LEMMA UpstreamGrows ==
    ASSUME NEW i \in DOMAIN nodes, NEW j \in DOMAIN nodes, <<j, i>> \in EngineEdges
    PROVE  /\ i \in UpstreamNodes(i, EngineEdges)
           /\ j \in UpstreamNodes(i, EngineEdges)
<1>1. i \in UpstreamNodes(i, EngineEdges)
  BY DEF UpstreamNodes
<1>2. ASSUME NEW S \in SUBSET DOMAIN nodes, i \in S, Closed(S, EngineEdges)
      PROVE  j \in S
  BY <1>2 DEF Closed
<1> QED
  BY <1>1, <1>2 DEF UpstreamNodes

(* Upstream is transitive.                                                 *)
LEMMA UpstreamComposes ==
    ASSUME NEW i \in DOMAIN nodes, NEW j \in UpstreamNodes(i, EngineEdges)
    PROVE  UpstreamNodes(j, EngineEdges) \subseteq UpstreamNodes(i, EngineEdges)
<1>1. ASSUME NEW S \in SUBSET DOMAIN nodes, i \in S, Closed(S, EngineEdges)
      PROVE  j \in S
  BY <1>1 DEF UpstreamNodes
<1> QED
  BY <1>1 DEF UpstreamNodes

(* What lies upstream of a node, itself aside, lies upstream of one it     *)
(* waits for directly.                                                     *)
LEMMA UpstreamStarts ==
    ASSUME NEW i \in DOMAIN nodes, NEW j \in UpstreamNodes(i, EngineEdges), j # i
    PROVE  \E m \in DOMAIN nodes :
              <<m, i>> \in EngineEdges /\ j \in UpstreamNodes(m, EngineEdges)
<1> DEFINE Up(n) == UpstreamNodes(n, EngineEdges)
           T == {n \in DOMAIN nodes :
                    n = i \/ \E m \in DOMAIN nodes : <<m, i>> \in EngineEdges /\ n \in Up(m)}
<1>1. Closed(T, EngineEdges)
  <2> SUFFICES ASSUME NEW e \in EngineEdges, e[2] \in T
               PROVE  e[1] \in T
    BY DEF Closed
  <2>1. e[1] \in DOMAIN nodes /\ e[2] \in DOMAIN nodes /\ <<e[1], e[2]>> \in EngineEdges
    BY DEF EngineEdges
  <2>2. e[1] \in Up(e[1]) /\ e[1] \in Up(e[2])
    <3>1. e[1] \in Up(e[2])
      BY <2>1, UpstreamGrows
    <3>2. e[1] \in Up(e[1])
      BY <2>1 DEF UpstreamNodes
    <3> QED
      BY <3>1, <3>2
  <2>3. CASE e[2] = i
    BY <2>1, <2>2, <2>3
  <2>4. ASSUME NEW m \in DOMAIN nodes, <<m, i>> \in EngineEdges, e[2] \in Up(m)
        PROVE  e[1] \in T
    <3>1. Up(e[2]) \subseteq Up(m)
      BY <2>4, UpstreamComposes
    <3> QED
      BY <2>1, <2>2, <2>4, <3>1
  <2> QED
    BY <2>3, <2>4
<1>2. i \in T /\ T \subseteq DOMAIN nodes
  OBVIOUS
<1>3. j \in T
  <2> HIDE DEF T
  <2> QED
    BY <1>1, <1>2 DEF UpstreamNodes
<1> QED
  BY <1>3

(* Two nodes wait for each other only where a late condition looks at a    *)
(* value that was computed from the branch itself (record_switch): in the  *)
(* circle of such nodes every other edge leads back, and the first of them *)
(* has none before it.                                                     *)
THEOREM CyclesExplained == Spec => []OnlyLateConditionsMakeCycles
<1>1. Inv => OnlyLateConditionsMakeCycles
  <2> DEFINE Up(n) == UpstreamNodes(n, EngineEdges)
  <2> SUFFICES ASSUME Inv,
                      \A a, b \in DOMAIN nodes : LateCondition(a, b) => a \notin Up(b),
                      NEW i \in DOMAIN nodes, NEW j \in DOMAIN nodes,
                      <<i, j>> \in EngineEdges, j \in Up(i)
               PROVE  FALSE
    BY DEF OnlyLateConditionsMakeCycles, Cyclic
  <2> DEFINE S == {n \in DOMAIN nodes : n \in Up(i) /\ i \in Up(n)}
  <2>1. nodes \in Seq(Node)
    BY DEF Inv, TypeOK
  <2>2. i \in Up(j)
    BY UpstreamGrows
  <2>3. i \in S
    <3>1. i \in Up(i)
      BY DEF UpstreamNodes
    <3> QED
      BY <3>1
  <2>4. ASSUME NEW n \in S
        PROVE  \E m \in S : <<m, n>> \in EngineEdges
    <3>1. PICK m \in DOMAIN nodes : <<m, n>> \in EngineEdges /\ i \in Up(m)
      <4>1. CASE n # i
        BY <2>4, <4>1, UpstreamStarts
      <4>2. CASE n = i /\ j = i
        BY <2>3, <4>2
      <4>3. CASE n = i /\ j # i
        <5>1. PICK m \in DOMAIN nodes : <<m, i>> \in EngineEdges /\ j \in Up(m)
          BY <4>3, UpstreamStarts
        <5>2. Up(j) \subseteq Up(m)
          BY <5>1, UpstreamComposes
        <5> QED
          BY <2>2, <4>3, <5>1, <5>2
      <4> QED
        BY <4>1, <4>2, <4>3
    <3>2. m \in Up(n) /\ Up(n) \subseteq Up(i)
      BY <2>4, <3>1, UpstreamGrows, UpstreamComposes
    <3> QED
      BY <3>1, <3>2
  <2>5. ASSUME NEW m \in S, NEW n \in S, <<m, n>> \in EngineEdges
        PROVE  m < n
    <3>1. Up(i) \subseteq Up(m)
      BY UpstreamComposes
    <3>2. ~LateCondition(n, m)
      BY <3>1
    <3>3. nodes[m].key \in nodes[n].upstream
      BY <2>5 DEF EngineEdges
    <3> QED
      BY <3>2, <3>3 DEF Inv, OrderIsTopological, EdgesGoBack
  <2>6. S \in SUBSET Nat
    BY <2>1
  <2>7. PICK n \in S : \A m \in S : ~(m < n)
    <3> HIDE DEF S
    <3> QED
      BY <2>3, <2>6, LeastExists
  <2> QED
    BY <2>4, <2>5, <2>7
<1> QED
  BY <1>1, Invariance, PTL
================================================================================
