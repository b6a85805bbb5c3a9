------------------------------- MODULE StepGraph -------------------------------
(* How the body of a step workflow becomes a graph, and what the TUI draws of  *)
(* the graph.                                                                  *)
(*                                                                             *)
(* The body is called once at deploy time with every step call intercepted     *)
(* (client.py, _WorkflowTrace). A call does not run the step: it records a     *)
(* node and returns a promise, which is the key of the node. The body may      *)
(*   - call a step, after others and under a condition      RecordStep         *)
(*   - map a step over a list                               RecordMap          *)
(*   - choose between two calls it has already made         RecordSwitch       *)
(*   - use a promise as if it were a value, or raise        Refuse             *)
(*   - return                                               Return             *)
(* The engine that runs the graph is on the platform. Of it the properties     *)
(* assume what _WorkflowTrace and its options say: a node waits for its        *)
(* upstream to be settled, and is run or skipped as its condition says.        *)
(*                                                                             *)
(* A value is abstracted to the set of nodes whose output it holds: the empty  *)
(* set is a literal or a workflow parameter, a container holds what its items  *)
(* hold. A key is a sequence of numbers, <<b>> for a name and <<b, 2>> for the *)
(* name with the suffix _2: a step may itself be called <<b, 2>>.              *)
EXTENDS Naturals, Sequences, FiniteSets

CONSTANTS
    Steps,      \* the steps the body can call
    Base,       \* the key a step's name asks for
    Deployed,   \* the steps that have an id and a version (all, in a one-off run)
    WhenBase,   \* the key a switch asks for
    Ops,        \* how a condition looks at a value: "truthy" and "eq"
    MaxCalls,   \* bound: calls of a step, plain or mapped, one body makes
    MaxSwitches,\* bound: switches one body makes
    MaxHeld     \* bound: outputs one call is given, and calls it is ordered after

Key == Seq(Nat)

ASSUME StepGraphAssumption ==
    /\ Base \in [Steps -> Key]
    /\ WhenBase \in Key
    /\ Deployed \subseteq Steps
    /\ MaxCalls \in Nat /\ MaxSwitches \in Nat /\ MaxHeld \in Nat

VARIABLES
    nodes,      \* _WorkflowTrace.nodes: the nodes in the order of the calls
    phase       \* "tracing", then "compiled", "refused" or "empty" (no graph)

vars == <<nodes, phase>>

Keys == {nodes[i].key : i \in DOMAIN nodes}

\* The key a new node gets: the name's, or the name's with the first free suffix.
Candidate(base, n) == IF n = 1 THEN base ELSE Append(base, n)

\* A mutant: the suffix is tried once.
NodeKeyOneSuffix(base) == IF base \notin Keys THEN base ELSE Append(base, 2)

NodeKeyFor(base) ==
    Candidate(base, CHOOSE n \in 1..(Len(nodes) + 1) :
                        /\ Candidate(base, n) \notin Keys
                        /\ \A m \in 1..(n - 1) : Candidate(base, m) \in Keys)

\* A condition: what its value holds (one node, or nothing: a parameter) and how
\* the value is looked at. NoCondition is the absence of the key "condition".
NoCondition == [on |-> {}, op |-> "none"]
Conditions == [on : {{}} \cup {{k} : k \in Keys}, op : Ops]

\* A mutant: a step ordered after others waits for those only.
NodeOrderedOnly(kind, base, reads, items, ordering, condition) ==
    [key |-> NodeKeyFor(base), kind |-> kind, reads |-> reads, items |-> items,
     ordering |-> ordering, condition |-> condition,
     sense |-> IF condition = NoCondition THEN "always" ELSE "if",
     upstream |-> (IF ordering = {} THEN reads \cup items ELSE ordering) \cup condition.on,
     branches |-> {}]

\* _node_for: a step waits for what it reads, what it was ordered after and what
\* its condition looks at.
NodeFor(kind, base, reads, items, ordering, condition) ==
    [key |-> NodeKeyFor(base), kind |-> kind, reads |-> reads, items |-> items,
     ordering |-> ordering, condition |-> condition,
     sense |-> IF condition = NoCondition THEN "always" ELSE "if",
     upstream |-> ordering \cup reads \cup items \cup condition.on,
     branches |-> {}]

\* The switch itself is never skipped: it hands on the output of the taken branch.
SwitchFor(condition, then, otherwise) ==
    [key |-> NodeKeyFor(WhenBase), kind |-> "switch", reads |-> {}, items |-> {},
     ordering |-> {}, condition |-> condition, sense |-> "always",
     upstream |-> {then, otherwise} \cup condition.on,
     branches |-> {then, otherwise}]

\* A mutant: a branch waits for its switch as well as for the condition.
ConditionedOnSwitch(node, condition, sense) ==
    [node EXCEPT !.condition = condition, !.sense = sense,
                 !.upstream = @ \cup condition.on \cup {NodeKeyFor(WhenBase)}]

\* A branch of a switch gets the condition after the fact.
Conditioned(node, condition, sense) ==
    [node EXCEPT !.condition = condition, !.sense = sense,
                 !.upstream = @ \cup condition.on]

Init ==
    /\ nodes = <<>>
    /\ phase = "tracing"

Calls(kinds) == Cardinality({i \in DOMAIN nodes : nodes[i].kind \in kinds})

Held == {S \in SUBSET Keys : Cardinality(S) <= MaxHeld}

\* record_step, by a plain call, by step.after(...) or by step.when(...); the two
\* options are not combined.
RecordStep(step, reads, ordering, condition) ==
    /\ phase = "tracing"
    /\ Calls({"step", "map"}) < MaxCalls
    /\ step \in Deployed
    /\ ordering = {} \/ condition = NoCondition
    /\ nodes' = Append(nodes, NodeFor("step", Base[step], reads, {}, ordering, condition))
    /\ UNCHANGED phase

\* record_map: the list is one step's output, a parameter or a literal. A literal
\* list with a step's output among its items is refused, but what an item holds
\* further down is not looked at, so that the list may hold any outputs.
RecordMap(step, items, reads) ==
    /\ phase = "tracing"
    /\ Calls({"step", "map"}) < MaxCalls
    /\ step \in Deployed
    /\ nodes' = Append(nodes, NodeFor("map", Base[step], reads, items, {}, NoCondition))
    /\ UNCHANGED phase

\* A mutant: a step that already runs under a condition is taken as a branch.
AnyStep(i) == nodes[i].kind = "step"

PlainStep(i) == nodes[i].kind = "step" /\ nodes[i].sense = "always"

\* record_switch: both branches are plain steps this body has called before, each
\* without a condition so far (so they are two different ones).
RecordSwitch(condition, i, j) ==
    /\ phase = "tracing"
    /\ Calls({"switch"}) < MaxSwitches
    /\ i # j
    /\ PlainStep(i) /\ PlainStep(j)
    /\ nodes' = Append([n \in DOMAIN nodes |->
                            CASE n = i -> Conditioned(nodes[n], condition, "if")
                              [] n = j -> Conditioned(nodes[n], condition, "unless")
                              [] OTHER -> nodes[n]],
                       SwitchFor(condition, nodes[i].key, nodes[j].key))
    /\ UNCHANGED phase

\* A promise used as a value, a step that is not deployed, a branch that is no
\* plain step, an exception in the body: there is no graph and no deployment.
Refuse ==
    /\ phase = "tracing"
    /\ phase' = "refused"
    /\ UNCHANGED nodes

\* The body returns: the graph is complete.
Return ==
    /\ phase = "tracing"
    /\ phase' = IF nodes = <<>> THEN "empty" ELSE "compiled"
    /\ UNCHANGED nodes

Next ==
    \/ \E step \in Steps, reads \in Held, ordering \in Held,
          condition \in Conditions \cup {NoCondition} :
            RecordStep(step, reads, ordering, condition)
    \/ \E step \in Steps, reads \in Held, items \in Held : RecordMap(step, items, reads)
    \/ \E condition \in Conditions, i, j \in DOMAIN nodes : RecordSwitch(condition, i, j)
    \/ Return
    \/ Refuse

Spec == Init /\ [][Next]_vars

--------------------------------------------------------------------------------
(* What the TUI draws (tui_graph.py): a line for each input binding that holds *)
(* a step's output, and, for the node under the cursor, all it "waits on".     *)

DataUpstream(i) == nodes[i].reads

DrawnEdges ==
    {e \in (DOMAIN nodes) \X (DOMAIN nodes) : nodes[e[1]].key \in DataUpstream(e[2])}

EngineEdges ==
    {e \in (DOMAIN nodes) \X (DOMAIN nodes) : nodes[e[1]].key \in nodes[e[2]].upstream}

Closed(S, edges) == \A e \in edges : e[2] \in S => e[1] \in S

\* upstream_nodes: the node and everything the edges lead back to.
UpstreamNodes(i, edges) ==
    LET complete == {S \in SUBSET DOMAIN nodes : i \in S /\ Closed(S, edges)}
    IN  {j \in DOMAIN nodes : \A S \in complete : j \in S}

--------------------------------------------------------------------------------
Node == [key : Key, kind : {"step", "map", "switch"},
         reads : SUBSET Key, items : SUBSET Key, ordering : SUBSET Key,
         condition : [on : SUBSET Key, op : Ops \cup {"none"}],
         sense : {"always", "if", "unless"},
         upstream : SUBSET Key, branches : SUBSET Key]

TypeOK ==
    /\ nodes \in Seq(Node)
    /\ phase \in {"tracing", "compiled", "refused", "empty"}

\* A key names one node, also when a step is called as another's second node.
KeysAreUnique == \A i, j \in DOMAIN nodes : nodes[i].key = nodes[j].key => i = j

\* Nobody waits for a node that is not in the graph.
NothingDangles == \A i \in DOMAIN nodes : nodes[i].upstream \subseteq Keys

\* The one edge that may lead forward: from a condition to a branch called before
\* the value the condition looks at (or to that value's own step).
LateCondition(i, j) ==
    /\ nodes[j].key \in nodes[i].condition.on
    /\ \E s \in DOMAIN nodes : s > i /\ s > j /\ nodes[i].key \in nodes[s].branches

EdgesGoBack ==
    \A i, j \in DOMAIN nodes :
        nodes[j].key \in nodes[i].upstream => j < i \/ LateCondition(i, j)

\* The order of the calls, in which the in-process runner runs the nodes, is an
\* order the dependencies allow: every node a node waits for is in the graph,
\* once, and earlier - but for a switch on a value the body computes only after
\* it called the branches (client.py:2430 says the runner keeps the order).
OrderIsTopological == KeysAreUnique /\ NothingDangles /\ EdgesGoBack

Asked == {nodes[i].condition : i \in {n \in DOMAIN nodes : nodes[n].sense # "always"}}

\* The engine runs a node, once what it waits for is settled, when the node's
\* condition says so, and skips it otherwise.
Taken(i, verdict) ==
    CASE nodes[i].sense = "always" -> TRUE
      [] nodes[i].sense = "if"     -> verdict[nodes[i].condition]
      [] nodes[i].sense = "unless" -> ~verdict[nodes[i].condition]

\* Of the two branches of a switch exactly one is run, however the conditions of
\* the graph turn out and whatever other switches and conditions the body has.
OneBranchRuns ==
    \A s, i, j \in DOMAIN nodes :
        i # j /\ {nodes[i].key, nodes[j].key} = nodes[s].branches =>
            \A verdict \in [Asked -> BOOLEAN] : Taken(i, verdict) # Taken(j, verdict)

PlainGraph == \A i \in DOMAIN nodes : nodes[i].kind = "step" /\ nodes[i].ordering = {}
                                        /\ nodes[i].sense = "always"

\* The pane lights no node that the node under the cursor does not wait for, and
\* in a graph of plain calls it lights all of them. (It does not draw the list a
\* map runs over, a condition, or the branches of a switch.)
PaneIsHonest ==
    \A i \in DOMAIN nodes :
        /\ UpstreamNodes(i, DrawnEdges) \subseteq UpstreamNodes(i, EngineEdges)
        /\ PlainGraph => UpstreamNodes(i, DrawnEdges) = UpstreamNodes(i, EngineEdges)

Cyclic == \E i, j \in DOMAIN nodes :
    /\ <<i, j>> \in EngineEdges
    /\ j \in UpstreamNodes(i, EngineEdges)

\* Two nodes wait for each other, and the engine can settle neither, only where a
\* late condition looks at a value that was computed from the branch itself: no
\* other order of calls, maps, conditions and switches makes a graph the engine
\* cannot finish (record_switch adds the edge after the fact, client.py:2575).
OnlyLateConditionsMakeCycles ==
    Cyclic => \E i, j \in DOMAIN nodes :
        LateCondition(i, j) /\ i \in UpstreamNodes(j, EngineEdges)
================================================================================
