--------------------------- MODULE GraphAnalysis ---------------------------
(***************************************************************************)
(* The analysis of a graph (src/src/analysis): its edges are counted       *)
(* between symbols, files or directories; Tarjan's algorithm finds the     *)
(* strongly connected components, with a stack of frames of its own in     *)
(* place of recursion; a bounded search lists cycles; labels are           *)
(* propagated to find communities; a report takes the first of each.       *)
(*                                                                         *)
(* Each step of Tarjan's loop, each start node of the cycle search and     *)
(* each round of the labels is an action.  Page rank is not modelled, nor  *)
(* the lists that are ordered by it.                                       *)
(***************************************************************************)
EXTENDS RepoGraph

CONSTANTS
    Place(_),     \* the place of a path among all the paths by their texts
    MaxLength,    \* CycleConfig::max_length (20)
    MaxCycles,    \* CycleConfig::max_cycles (100)
    MaxRounds     \* CommunityConfig::max_iterations (50)

ASSUME BoundsAssumption == MaxLength \in Nat \ {0} /\ MaxCycles \in Nat \ {0} /\ MaxRounds \in Nat \ {0}

VARIABLES
    graph,        \* the graph that is analysed: never changed
    options,      \* [level, filter, limit]; no limit is 0, no filter "none"
    stage,        \* "project", "components", "cycles", "communities", "report", "done"
    weight,       \* weight[<<u, v>>]: how many edges of the graph lead from unit u to unit v
    tarjan,       \* [index, low, stack, frames, components]; an index of 0 is unset
    starts,       \* the start nodes the cycle search has left
    cycles,       \* the cycles found, each from its smallest node
    labels,       \* the label of each unit
    round,        \* rounds of label propagation done
    report        \* what the caller is given

vars == <<graph, options, stage, weight, tarjan, starts, cycles, labels, round, report>>

---------------------------------------------------------------------------
(* Projection.  Units are numbered in the order of their names; symbols    *)
(* with one qualified name stay apart.                                     *)

Members(G, level) ==
    LET symbols == {n \in Nodes(G) : ~ IsFile(G, n)}
    IN  IF level = "symbol" /\ symbols # {} THEN symbols ELSE Nodes(G)

\* The directory of a file; file_to_module.
Module(file) == SubSeq(file, 1, Len(file) - 1)

UnitName(G, level, n) ==
    CASE level = "symbol" -> n
      [] level = "file" -> Place(Node(G, n).file)
      [] level = "module" -> Place(Module(Node(G, n).file))

Unit(G, level, n) ==
    Cardinality({UnitName(G, level, m) : m \in {m \in Members(G, level) :
                    UnitName(G, level, m) <= UnitName(G, level, n)}})

\* What the paths of the files are in every graph.
Analysable(G, level) ==
    /\ IsGraph(G)
    /\ level \in {"symbol", "file", "module"}
    /\ \A n \in Nodes(G) : /\ Place(Node(G, n).file) \in Nat
                           /\ Place(Module(Node(G, n).file)) \in Nat

Counts(e, filter) == IF filter = "none" THEN e.kind # "contains" ELSE e.kind = filter

Projected(G, level, filter) ==
    LET members == Members(G, level)
        unit == [n \in members |-> Unit(G, level, n)]
        units == {unit[n] : n \in members}
        counted == {e \in G.edges : Counts(e, filter) /\ {e.from, e.to} \subseteq members}
    IN  [p \in units \X units |->
            Cardinality({e \in counted : unit[e.from] = p[1] /\ unit[e.to] = p[2]})]

Units == {p[1] : p \in DOMAIN weight}
Linked(u, v) == weight[<<u, v>>] > 0

Project ==
    /\ stage = "project"
    /\ weight' = Projected(graph, options.level, options.filter)
    /\ LET units == {p[1] : p \in DOMAIN weight'}
       IN  /\ tarjan' = [index |-> [u \in units |-> 0], low |-> [u \in units |-> 0],
                         stack |-> <<>>, frames |-> <<>>, components |-> {}]
           /\ labels' = [u \in units |-> u]
    /\ stage' = "components"
    /\ UNCHANGED <<graph, options, starts, cycles, round, report>>

---------------------------------------------------------------------------
(* Strongly connected components: tarjan_scc.  A frame is [node, seen]:    *)
(* the neighbours up to `seen' are done.                                   *)

Top == Last(tarjan.frames)

\* The next neighbour of the node on top.
Ahead == {v \in Units : Linked(Top.node, v) /\ v > Top.seen}
NextUnit(S) == CHOOSE v \in S : \A w \in S : v <= w

Entered(t, u) ==
    LET number == Cardinality({v \in Units : t.index[v] # 0}) + 1
    IN  [t EXCEPT !.index[u] = number, !.low[u] = number,
                  !.stack = Append(t.stack, u),
                  !.frames = Append(t.frames, [node |-> u, seen |-> 0])]

EnterRoot ==
    /\ stage = "components" /\ tarjan.frames = <<>>
    /\ \E u \in Units : tarjan.index[u] = 0
    /\ tarjan' = Entered(tarjan, NextUnit({u \in Units : tarjan.index[u] = 0}))
    /\ UNCHANGED <<graph, options, stage, weight, starts, cycles, labels, round, report>>

\* As it would be if only the nodes on the stack of frames counted.
LookAtOpen(t, u, v) ==
    IF t.index[v] = 0 THEN Entered(t, v)
    ELSE IF \E i \in DOMAIN t.frames : t.frames[i].node = v /\ t.index[v] < t.low[u]
    THEN [t EXCEPT !.low[u] = t.index[v]]
    ELSE t

LookAt(t, u, v) ==
    IF t.index[v] = 0 THEN Entered(t, v)
    ELSE IF v \in ToSet(t.stack) /\ t.index[v] < t.low[u]
    THEN [t EXCEPT !.low[u] = t.index[v]]
    ELSE t

FollowEdge ==
    /\ stage = "components" /\ tarjan.frames # <<>> /\ Ahead # {}
    /\ LET v == NextUnit(Ahead)
       IN  tarjan' = LookAt([tarjan EXCEPT !.frames[Len(tarjan.frames)].seen = v], Top.node, v)
    /\ UNCHANGED <<graph, options, stage, weight, starts, cycles, labels, round, report>>

\* The component of u: the stack down to u.
Closed(t, u) ==
    LET at == CHOOSE i \in DOMAIN t.stack : t.stack[i] = u
    IN  [t EXCEPT !.stack = SubSeq(t.stack, 1, at - 1),
                  !.components = @ \cup {ToSet(SubSeq(t.stack, at, Len(t.stack)))}]

LeaveNode ==
    /\ stage = "components" /\ tarjan.frames # <<>> /\ Ahead = {}
    /\ LET u == Top.node
           left == [tarjan EXCEPT !.frames = Front(tarjan.frames)]
           parent == IF left.frames = <<>> THEN u ELSE Last(left.frames).node
           told == IF left.low[u] < left.low[parent]
                   THEN [left EXCEPT !.low[parent] = left.low[u]] ELSE left
       IN  tarjan' = IF told.low[u] = told.index[u] THEN Closed(told, u) ELSE told
    /\ UNCHANGED <<graph, options, stage, weight, starts, cycles, labels, round, report>>

\* By size, the largest first, then by the first member.
Smallest(c) == NextUnit(c)
Components == InOrder(tarjan.components,
                      LAMBDA c : <<Cardinality(Units) - Cardinality(c), Smallest(c)>>)

\* find_cycles leaves out components of one node: every caller asks for
\* no cycles of one edge.
CycleStarts ==
    LET sorted == Components
        Upto[k \in 0 .. Len(sorted)] ==
            IF k = 0 THEN <<>>
            ELSE IF Cardinality(sorted[k]) = 1 THEN Upto[k - 1]
            ELSE Upto[k - 1] \o ByName(sorted[k])
    IN  Upto[Len(sorted)]

ComponentsDone ==
    /\ stage = "components" /\ tarjan.frames = <<>>
    /\ \A u \in Units : tarjan.index[u] # 0
    /\ starts' = CycleStarts
    /\ stage' = "cycles"
    /\ UNCHANGED <<graph, options, weight, tarjan, cycles, labels, round, report>>

---------------------------------------------------------------------------
(* Cycles: find_cycles.                                                    *)

ComponentOf(u) == CHOOSE c \in tarjan.components : u \in c

\* dfs_cycles at one neighbour of the end of a path.  It adds the cycles that
\* begin with the path to those found, at most MaxCycles; deeper does so for
\* a path longer by one.
VisitNode(deeper, path, found, v) ==
    IF Cardinality(found) >= MaxCycles THEN found
    ELSE IF v = Head(path)
    THEN IF Len(path) = 1 THEN found ELSE found \cup {path}
    ELSE IF v \notin ToSet(path) /\ Len(path) < MaxLength /\ v > Head(path)
    THEN deeper[<<Append(path, v), found>>]
    ELSE found

VisitNext(deeper, path, found) ==
    LET next == ByName({v \in ComponentOf(Head(path)) : Linked(Last(path), v)})
        Upto[j \in 0 .. Len(next)] ==
            IF j = 0 THEN found ELSE VisitNode(deeper, path, Upto[j - 1], next[j])
    IN  Upto[Len(next)]

\* dfs_cycles for a path of MaxLength + 1 - room nodes.
DfsCycles[room \in 0 .. MaxLength] ==
    [q \in (Seq(Units) \ {<<>>}) \X SUBSET Seq(Units) |->
        IF room = 0 THEN q[2] ELSE VisitNext(DfsCycles[room - 1], q[1], q[2])]

\* As it would be if the limit on the length were that of the edges but one.
CyclesFromShort(u) == {p \in DfsCycles[MaxLength][<<<<u>>, {}>>] : Len(p) < MaxLength}

CyclesFrom(u) == DfsCycles[MaxLength][<<<<u>>, {}>>]

\* A sequence of nodes among others: node by node.
PathKey(p) == [i \in 1 .. Cardinality(Units) |-> IF i <= Len(p) THEN p[i] ELSE 0]

SearchCycles ==
    /\ stage = "cycles" /\ starts # <<>> /\ Cardinality(cycles) < MaxCycles
    /\ cycles' = cycles \cup ToSet(Limited(InOrder(CyclesFrom(Head(starts)), PathKey),
                                           MaxCycles - Cardinality(cycles)))
    /\ starts' = Tail(starts)
    /\ UNCHANGED <<graph, options, stage, weight, tarjan, labels, round, report>>

CyclesDone ==
    /\ stage = "cycles"
    /\ starts = <<>> \/ Cardinality(cycles) >= MaxCycles
    /\ stage' = "communities"
    /\ UNCHANGED <<graph, options, weight, tarjan, starts, cycles, labels, round, report>>

---------------------------------------------------------------------------
(* Communities: detect_communities.                                        *)

Tie(u, v) == weight[<<u, v>>] + weight[<<v, u>>]

\* Each edge between two units is a vote.
Votes(u, label) ==
    Cardinality(UNION {{v} \X (1 .. Tie(u, v)) : v \in {v \in Units : labels[v] = label}})
      + (IF labels[u] = label THEN 1 ELSE 0)

\* The label with most votes, the smallest of several.
Elected(u) ==
    LET heard == {labels[v] : v \in {v \in Units : Tie(u, v) > 0}} \cup {labels[u]}
        most == {l \in heard : \A k \in heard : Votes(u, k) <= Votes(u, l)}
    IN  IF \A v \in Units : Tie(u, v) = 0 THEN labels[u] ELSE NextUnit(most)

\* As it would be if labels were propagated until none changes.
PropagateUntilStable ==
    /\ stage = "communities"
    /\ labels' = [u \in Units |-> Elected(u)]
    /\ round' = round + 1
    /\ stage' = IF labels' = labels THEN "report" ELSE stage
    /\ UNCHANGED <<graph, options, weight, tarjan, starts, cycles, report>>

\* All labels of a round are chosen from those of the round before.
PropagateLabels ==
    /\ stage = "communities" /\ round < MaxRounds
    /\ labels' = [u \in Units |-> Elected(u)]
    /\ round' = round + 1
    /\ stage' = IF labels' = labels \/ round' = MaxRounds THEN "report" ELSE stage
    /\ UNCHANGED <<graph, options, weight, tarjan, starts, cycles, report>>

Community(l) ==
    LET members == {u \in Units : labels[u] = l}
        leaving == {p \in members \X Units : Linked(p[1], p[2])}
    IN  [members |-> members,
         internal |-> Cardinality({p \in leaving : p[2] \in members}),
         external |-> Cardinality({p \in leaving : p[2] \notin members})]

Communities ==
    InOrder({Community(labels[u]) : u \in Units},
            LAMBDA c : <<Cardinality(Units) - Cardinality(c.members), Smallest(c.members)>>)

---------------------------------------------------------------------------
(* The report: run_analysis.                                               *)

\* compute_coupling; of the hotspots only what has no page rank in it.
Coupling(u) ==
    LET component == ComponentOf(u)
    IN  [unit |-> u,
         fanIn |-> Cardinality({v \in Units : Linked(v, u)}),
         fanOut |-> Cardinality({v \in Units : Linked(u, v)}),
         inCycle |-> Cardinality(component) > 1 \/ Linked(u, u),
         size |-> Cardinality(component)]

Couplings ==
    LET most == Cardinality(Units)
    IN  InOrder({Coupling(u) : u \in Units},
                LAMBDA c : <<most - c.fanIn, most - c.fanOut, c.unit>>)

Part(seq) == IF options.limit = 0 THEN seq ELSE Limited(seq, options.limit)

Report ==
    /\ stage = "report"
    /\ report' = [components |-> Part(Components),
                  cycles |-> Part(InOrder(cycles, LAMBDA p : <<Len(p)>> \o PathKey(p))),
                  coupling |-> Part(Couplings),
                  communities |-> Part(Communities)]
    /\ stage' = "done"
    /\ UNCHANGED <<graph, options, weight, tarjan, starts, cycles, labels, round>>

\* Before an analysis of graph G, or any other work on it.
Idle(G, opts, first) ==
    /\ graph = G /\ options = opts /\ stage = first
    /\ weight = <<>> /\ labels = <<>>
    /\ tarjan = [index |-> <<>>, low |-> <<>>, stack |-> <<>>, frames |-> <<>>, components |-> {}]
    /\ starts = <<>> /\ cycles = {} /\ round = 0
    /\ report = [components |-> <<>>, cycles |-> <<>>, coupling |-> <<>>, communities |-> <<>>]

Analyse ==
    \/ Project
    \/ EnterRoot \/ FollowEdge \/ LeaveNode \/ ComponentsDone
    \/ SearchCycles \/ CyclesDone
    \/ PropagateLabels
    \/ Report

---------------------------------------------------------------------------
(* Properties.                                                             *)

\* The sets of units no link leads out of.  A unit reaches what every such
\* set around it holds.
Sealed == {S \in SUBSET Units : \A u \in S, v \in Units : Linked(u, v) => v \in S}

\* Whatever the order in which Tarjan's loop meets nodes, edges back to
\* open nodes and edges across to closed ones: a component it closes is
\* all the units that reach one another, the stack holds the units that
\* are in no component yet, and at the end every unit is in one.
ComponentsAreStrong ==
    stage # "project" =>
        LET sealed == Sealed
            reaches(u, v) == \A S \in sealed : u \in S => v \in S
        IN  /\ \A c \in tarjan.components : \A u \in c :
                  c = {v \in Units : reaches(u, v) /\ reaches(v, u)}
            /\ ToSet(tarjan.stack)
                  = {u \in Units : tarjan.index[u] # 0} \ UNION tarjan.components
            /\ stage # "components" => UNION tarjan.components = Units

SimpleCycles ==
    UNION {{p \in [1 .. k -> Units] :
               /\ \A i \in 1 .. k : /\ Linked(p[i], p[IF i = k THEN 1 ELSE i + 1])
                                    /\ i > 1 => p[1] < p[i]
               /\ \A i, j \in 1 .. k : i # j => p[i] # p[j]} : k \in 2 .. MaxLength}

\* The search from each start, over greater nodes of its component alone
\* and under two limits, misses no cycle and reports none twice: it finds
\* every cycle of 2 to MaxLength units, or as many of them as MaxCycles.
CyclesAreComplete ==
    stage \in {"communities", "report", "done"} =>
        LET all == SimpleCycles
        IN  /\ cycles \subseteq all
            /\ Cardinality(cycles)
                  = IF Cardinality(all) < MaxCycles THEN Cardinality(all) ELSE MaxCycles
=============================================================================
