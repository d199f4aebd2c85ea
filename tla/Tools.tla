------------------------------- MODULE Tools -------------------------------
(***************************************************************************)
(* What the tools answer about one finished graph (src/src/mcp/tools.rs    *)
(* and the commands that share their functions): an analysis, in many      *)
(* steps, or one question and its answer.  No tool changes the graph.      *)
(***************************************************************************)
EXTENDS GraphAnalysis, ContextBundle, AdvancedAnalysis

CONSTANTS
    Analyses,     \* requests [graph, options] for an analysis
    Asked,        \* the graphs questions are asked about; they have flows
    Earlier(_),   \* earlier states of a graph it may be compared with
    Layers,       \* sets of layers a graph may be checked against
    Histories,    \* histories of commits
    Terms, Words, \* terms to find a node by, and to search for
    Depths, Sizes, Stops, Budgets, Unreadables  \* limits, small here

ASSUME AnalysesAssumption == \A a \in Analyses : Analysable(a.graph, a.options.level)
ASSUME QuestionsAssumption ==
    \A G \in Asked : \A H \in {G} \cup Earlier(G) :
        /\ IsGraph(H)
        /\ \A n \in Nodes(H) : /\ Node(H, n).sig \in Nat
                               /\ {First(H, n), Final(H, n)} \subseteq Nat
                               /\ First(H, n) <= Final(H, n)
ASSUME FlowsAssumption ==
    \A G \in Asked : \A f \in DOMAIN G.flows :
        /\ f \in Nodes(G)
        /\ Len(G.flows[f].names) \in Nat /\ DOMAIN G.flows[f].names = 1 .. Len(G.flows[f].names)
ASSUME LimitsAssumption == Depths \cup Sizes \cup Stops \cup Budgets \subseteq Nat

VARIABLE answer   \* [tool, args, result], or None

Init ==
    /\ answer = None
    /\ \/ \E a \in Analyses : Idle(a.graph, a.options, "project")
       \/ \E G \in Asked : Idle(G, [level |-> "symbol", filter |-> "none", limit |-> 0], "idle")

\* A tool answers once.
Answers(tool, args, result) ==
    /\ answer' = [tool |-> tool, args |-> args, result |-> result]
    /\ stage' = "done"
    /\ UNCHANGED <<graph, options, weight, tarjan, starts, cycles, labels, round, report>>

\* The first node each of two terms finds.
DependencyPath ==
    /\ stage = "idle"
    /\ \E from, to \in Terms, depth \in Depths, visits \in Sizes, stop \in Stops :
          LET n == Find(graph, from)
              m == Find(graph, to)
          IN  /\ n # <<>> /\ m # <<>>
              /\ Answers("path", [from |-> n[1], to |-> m[1], depth |-> depth, visits |-> visits,
                                  stop |-> stop],
                         ShortestPath(graph, n[1], m[1], depth, visits, stop))

FindImpact ==
    /\ stage = "idle"
    /\ \E term \in Terms, depth \in Depths, stop \in Stops :
          Answers("impact", [depth |-> depth, stop |-> stop], Impact(graph, term, depth, stop))

\* Also the callers, the callees and the references alone.
FindNeighbourhood ==
    /\ stage = "idle"
    /\ \E term \in Terms, depth \in Depths, limit \in Sizes :
          Answers("neighbourhood", [depth |-> depth, limit |-> limit],
                  Neighbourhood(graph, term, depth, limit))

ExploreSymbol ==
    /\ stage = "idle"
    /\ \E term \in Terms, depth \in Depths, stop \in Stops :
          Answers("explore", [depth |-> depth, stop |-> stop], Explore(graph, term, depth, stop))

GetContext ==
    /\ stage = "idle"
    /\ \E words \in Words, by \in {"symbol", "query", "file"}, depth \in Depths, limit \in Sizes,
          budget \in Budgets, unreadable \in Unreadables :
          LET request == [[symbol |-> <<>>, file |-> <<>>, query |-> <<>>, changed |-> {}]
                             EXCEPT ![by] = words]
          IN  \E tests \in SetToSeqs(SeedTests(graph, Seeds(graph, request))) :
                 Answers("context", [depth |-> depth, limit |-> limit, budget |-> budget,
                                     unreadable |-> unreadable],
                         Context(graph, request, tests, depth, limit, unreadable, budget))

\* By symbol, by words, by file, or all of a kind: the small tools.
Lookup ==
    /\ stage = "idle"
    /\ \/ \E term \in Terms :
             Answers("symbol", term, {Explanation(graph, n) : n \in ToSet(Find(graph, term))})
       \/ \E words \in Words, kinds \in {{"function", "method"}, DOMAIN KindCode \cup TypeNodes} :
             Answers("search", words, SearchGraph(graph, words, kinds))
       \/ \E term \in Terms : Answers("tests", term, TestsOf(graph, term))
       \/ Answers("all tests", None, Mappings(graph))

\* What the overview holds besides cycles and communities of directories.
Architecture ==
    /\ stage = "idle"
    /\ Answers("architecture", None,
               [entrypoints |-> EntryPoints(graph),
                directions |-> Projected(graph, "module", "none")])

TraceFlows ==
    /\ stage = "idle"
    /\ \E from, to \in Words, depth \in Depths, limit \in Sizes :
          LET sources == Matching(graph, graph.flows, from)
              sinks == Matching(graph, graph.flows, to)
          IN  Answers("flows", [sources |-> ToSet(sources), sinks |-> ToSet(sinks),
                                depth |-> depth, limit |-> limit],
                      FindFlows(graph, graph.flows, sources, sinks, depth, limit))

InTests(G) == {n \in Nodes(G) : TestishPath(Node(G, n).file)}

\* The commands for advanced analysis.
CheckCode ==
    /\ stage = "idle"
    /\ \/ Answers("calls", None, CallSites(graph))
       \/ Answers("unused", None,
                  DeadCode(graph, InTests(graph) \cup
                             {n \in Nodes(graph) : \/ Node(graph, n).name = <<"main">>
                                                   \/ TestName(Node(graph, n).name)}))
       \/ \E layers \in Layers : Answers("layers", layers, Violations(graph, layers))
       \/ \E commits \in Histories, support \in {0, 50} :
             Answers("history", commits, [churn |-> Churn(commits),
                                          coupling |-> ChangeCoupling(commits, support)])

Compare ==
    /\ stage = "idle"
    /\ \E old \in Earlier(graph) :
          Answers("diff", old,
                  [graph |-> DiffGraphs(old, graph),
                   api |-> DiffPublicApi(old, graph, InTests(old), InTests(graph))])

Next ==
    \/ Analyse /\ UNCHANGED answer
    \/ DependencyPath \/ FindImpact \/ FindNeighbourhood \/ ExploreSymbol
    \/ GetContext \/ Lookup \/ Architecture \/ TraceFlows \/ CheckCode \/ Compare

Spec == Init /\ [][Next]_<<vars, answer>>

---------------------------------------------------------------------------
(* Reference definitions: distances by sets.                               *)

\* Balls(S, succ)[k + 1] is the set of nodes at most k steps from S, where
\* one step leads from n to the nodes in succ[n].
Balls(S, succ) ==
    LET upTo[k \in 0 .. Len(graph.nodes)] ==
            IF k = 0 THEN <<S>>
            ELSE LET balls == upTo[k - 1]
                 IN  Append(balls, balls[k] \cup UNION {succ[n] : n \in balls[k]})
    IN  upTo[Len(graph.nodes)]

\* No node is farther away than there are nodes.
Ball(S, k, succ) ==
    Balls(S, succ)[IF k < Len(graph.nodes) THEN k + 1 ELSE Len(graph.nodes) + 1]

Far == 99

\* How many steps it takes to a node.
Distance(balls, n) ==
    LET within == {k \in DOMAIN balls : n \in balls[k]}
    IN  IF within = {} THEN Far ELSE (CHOOSE k \in within : \A j \in within : k <= j) - 1

Is(tool) == stage = "done" /\ answer # None /\ answer.tool = tool

---------------------------------------------------------------------------
(* Properties.                                                             *)

TypeOK ==
    /\ stage \in {"idle", "project", "components", "cycles", "communities", "report", "done"}
    /\ \A u \in Units : /\ tarjan.low[u] <= tarjan.index[u]
                        /\ tarjan.index[u] <= Cardinality(Units)
                        /\ labels[u] \in Units
    /\ ToSet(starts) \subseteq Units
    /\ round \in 0 .. MaxRounds
    /\ answer # None => stage = "done"

PathIsShortest ==
    Is("path") =>
        LET a == answer.args
            r == answer.result
            succ == [n \in Nodes(graph) |-> Ends(graph, n, DOMAIN KindCode)]
            near == a.to \in Ball({a.from}, a.depth, succ)
            far == Distance(Balls({a.from}, succ), a.to)
            upTo(k) == Cardinality(Ball({a.from}, k, succ))
        IN  /\ r.state = "path" =>
                 /\ r.path[1] = a.from /\ Last(r.path) = a.to
                 /\ \A i \in 1 .. Len(r.path) - 1 : r.path[i + 1] \in succ[r.path[i]]
                 /\ Len(r.path) - 1 = far /\ far <= a.depth
            /\ r.state = "limit" => upTo(IF near THEN far ELSE a.depth) > a.visits
            /\ r.state = "none" => ~ near \/ a.stop <= upTo(far)

ImpactIsReach ==
    Is("impact") /\ answer.result # None =>
        LET r == answer.result
            by(n, kinds) == Starts(graph, n, kinds)
            succ == [n \in Nodes(graph) |-> by(n, DOMAIN KindCode \ {"contains"})]
            balls == Balls({r.target}, succ)
            hard == {"calls", "imports"}
            through(x, kinds) == \E m \in by(x.path[Len(x.path) - 1], kinds) : m = x.node
        IN  /\ {x.node : x \in r.impacted} \cup {r.target} = Ball({r.target}, answer.args.depth, succ)
            /\ \A x \in r.impacted :
                 /\ x.node # r.target
                 /\ x.depth = Distance(balls, x.node)
                 /\ Len(x.path) = x.depth + 1 /\ x.path[1] = r.target /\ Last(x.path) = x.node
                 /\ \A i \in 1 .. x.depth : x.path[i + 1] \in succ[x.path[i]]
                 /\ CASE x.kind = "direct" -> x.depth = 1 /\ through(x, hard)
                      [] x.kind = "transitive" -> x.depth > 1 /\ through(x, hard)
                      [] x.kind = "possible" ->
                           \E n \in Nodes(graph) : /\ Distance(balls, n) = x.depth - 1
                                                   /\ x.node \in by(n, DOMAIN KindCode \ hard)
            /\ r.direct + r.transitive + r.possible = Cardinality(r.impacted)

\* Every caller at most depth calls away, or the first of them by name.
HopsAreExact ==
    Is("neighbourhood") /\ answer.result # None =>
        LET r == answer.result
            a == answer.args
            exact(seq, succ) ==
                LET all == Ball({r.target}, a.depth, succ) \ {r.target}
                IN  /\ ToSet(seq) \subseteq all
                    /\ Len(seq) = IF Cardinality(all) < a.limit THEN Cardinality(all) ELSE a.limit
                    /\ \A n \in ToSet(seq), m \in all \ ToSet(seq) : n < m
        IN  /\ exact(r.callers, [n \in Nodes(graph) |-> Starts(graph, n, {"calls"})])
            /\ exact(r.callees, [n \in Nodes(graph) |-> Ends(graph, n, {"calls"})])
            /\ exact(r.imports, [n \in Nodes(graph) |-> Ends(graph, n, {"imports"})])

\* A path is one of the shortest, whether the depth, the number of visits
\* or a cancellation ends the search; the impact of a change is everything
\* that depends on it up to the depth, each at its least distance and with
\* a kind and a path the edges justify; neighbours are exactly those within
\* the depth.  The three searches mark nodes at different moments.
QueriesAreExact == PathIsShortest /\ ImpactIsReach /\ HopsAreExact

\* However the tests in front are ordered and wherever the limit cuts the
\* five passes over the edges: no candidate is farther from the seeds than
\* one left out, and none within the depth is left out below the limit.
CandidatesAreClosest ==
    Is("context") =>
        LET r == answer.result
            a == answer.args
            tests == SeedTests(graph, r.seeds)
            succ == [n \in Nodes(graph) |-> {x.to : x \in Related(graph, n, 0)} \ tests]
            found == {c \in ToSet(r.candidates) : c.node \notin tests}
            kept == {c.node : c \in found}
            balls == Balls(r.seeds, succ)
            left == Ball(r.seeds, a.depth, succ) \ kept
        IN  /\ \A c \in found : c.depth = Distance(balls, c.node)
            /\ left # {} => Len(r.candidates) = a.limit
            /\ \A c \in found, n \in left : c.depth <= Distance(balls, n)
            /\ Cardinality(kept) = Cardinality(found)

\* What the context holds costs no more than the budget, or it is the one
\* item that is always taken; nothing left out would have fitted; and after
\* the slices are merged every item is still in one, and no slice is in
\* another.
BundleFitsAndKeeps ==
    Is("context") =>
        LET r == answer.result
            a == answer.args
            cost(n) == Cost(graph, a.unreadable, n)
        IN  /\ r.used <= a.budget \/ Cardinality(r.items) = 1
            /\ r.total <= r.used
            /\ r.used = Spent(graph, a.unreadable, r.items)
            /\ \A c \in ToSet(r.candidates) : c.node \in r.items \/ r.used + cost(c.node) > a.budget
            /\ \A n \in r.items : \E m \in r.slices : Encloses(graph, m, n)
            /\ \A n, m \in r.slices : n # m => ~ Encloses(graph, m, n)

\* The walks along the flows, from the sources: by one edge longer, and
\* those to a sink that pass no node twice.
OneFurther(edges, walks) ==
    UNION {{Append(p, [at |-> e.to, sure |-> e.sure]) : e \in {e \in edges : e.from = Last(p).at}} :
             p \in walks}

SimplePaths(edges, sources, sinks, depth) ==
    LET Walks[k \in 0 .. depth] ==
            IF k = 0 THEN {<<[at |-> s, sure |-> TRUE]>> : s \in sources}
            ELSE OneFurther(edges, Walks[k - 1])
        simple(p) == /\ \A i, j \in DOMAIN p : i # j => p[i].at # p[j].at
                     /\ Last(p).at \in sinks
    IN  UNION {{p \in Walks[k] : simple(p)} : k \in 1 .. depth}

\* The paths of a value from a source to a sink, through calls and what
\* they return, are all those without a repeated node, or as many as asked
\* for; each further sink may add one more.
FlowsAreSimplePaths ==
    Is("flows") =>
        LET a == answer.args
            all == SimplePaths(FlowEdges(graph, graph.flows), a.sources, a.sinks, a.depth)
            found == ToSet(answer.result)
        IN  /\ found \subseteq all
            /\ Len(answer.result) = Cardinality(found)
            /\ found # all => Len(answer.result) >= a.limit
            /\ Len(answer.result) <= a.limit + Cardinality(a.sinks)

\* The difference of two graphs leads from one to the other; read backwards
\* it is the difference of the two the other way round.  While no two
\* public symbols share file, name and kind, a changed signature is one
\* modification and never an addition with a removal.
DiffAccountsForAll ==
    Is("diff") =>
        LET old == answer.args
            g == answer.result.graph
            api == answer.result.api
            back == DiffGraphs(graph, old)
            public(G) == {n \in Nodes(G) : IsPublic(G, n, InTests(G))}
            symbol(G, n) == <<Node(G, n).file, Node(G, n).name, Node(G, n).kind>>
            symbols(G) == {symbol(G, n) : n \in public(G)}
            single(G) == Cardinality(symbols(G)) = Cardinality(public(G))
        IN  /\ (Keys(old) \ g.removed) \cup g.added = Keys(graph)
            /\ (EdgeKeys(old) \ g.removedEdges) \cup g.addedEdges = EdgeKeys(graph)
            /\ g.modified = back.modified /\ g.removed = back.added
            /\ single(old) /\ single(graph) =>
                 /\ {symbol(graph, n) : n \in api.added} = symbols(graph) \ symbols(old)
                 /\ {symbol(old, n) : n \in api.removed} = symbols(old) \ symbols(graph)
                 /\ \A m \in api.modified : symbol(old, m.old) = symbol(graph, m.new)
                 /\ \A m \in public(old), n \in public(graph) :
                      symbol(old, m) = symbol(graph, n) /\ Node(old, m).sig # Node(graph, n).sig
                        => [old |-> m, new |-> n, breaking |-> TRUE] \in api.modified
=============================================================================
