-------------------------- MODULE AdvancedAnalysis --------------------------
(***************************************************************************)
(* Advanced analysis (src/src/analysis/advanced): the flow of values       *)
(* through functions, calls through interfaces, unused symbols, forbidden  *)
(* dependencies, files that change together, and the difference of two     *)
(* graphs.                                                                 *)
(***************************************************************************)
EXTENDS RepoGraph

CONSTANT
    SegmentMatches(_, _)  \* wildcard_segment_matches: segment, pattern

---------------------------------------------------------------------------
(* Data flow.  flows[f] is what the syntax tree of function f shows, for   *)
(* the functions whose file can be read:                                   *)
(*     names        parameters and bindings, in the order of their names   *)
(*     params       a sequence of names                                    *)
(*     assigns      pairs <<from, to>>; from may be the name of a function *)
(*     returns      names returned; maybe the names of functions           *)
(*     args         arguments of calls, [call, index, name]                *)
(*     callReturns  names of functions whose result is returned            *)
(* A flow node is <<f, i>>: the i-th name of f, or, after the last, what   *)
(* f returns.                                                              *)

Local(flows, f, name) == {<<f, i>> : i \in {i \in DOMAIN flows[f].names : flows[f].names[i] = name}}
Returned(flows, f) == <<f, Len(flows[f].names) + 1>>

\* The first call edge to a node of the name decides, even if nothing is
\* known of that node.
Callee(G, flows, f, name) ==
    LET named == ById(G, {n \in Ends(G, f, {"calls"}) : Node(G, n).name = <<name>>})
    IN  IF named = <<>> THEN {} ELSE {Head(named)} \cap DOMAIN flows

AllFlows(from, to, sure) == [from : from, to : to, sure : {sure}]

FlowsWithin(flows, f) ==
    (UNION {AllFlows(Local(flows, f, p[1]), Local(flows, f, p[2]), TRUE) : p \in flows[f].assigns})
    \cup UNION {AllFlows(Local(flows, f, r), {Returned(flows, f)}, TRUE) : r \in flows[f].returns}

\* The parameter an argument is passed for.
Passed(flows, g, x) ==
    IF x.index \in DOMAIN flows[g].params THEN Local(flows, g, flows[g].params[x.index]) ELSE {}

FlowsBetween(G, flows, f) ==
    LET results(name) == {Returned(flows, g) : g \in Callee(G, flows, f, name)}
    IN  (UNION {AllFlows(Local(flows, f, x.name),
                         UNION {Passed(flows, g, x) : g \in Callee(G, flows, f, x.call)}, FALSE) :
                  x \in flows[f].args})
        \cup (UNION {AllFlows(results(p[1]), Local(flows, f, p[2]), FALSE) : p \in flows[f].assigns})
        \cup UNION {AllFlows(results(r), {Returned(flows, f)}, FALSE) :
                       r \in flows[f].returns \cup flows[f].callReturns}

FlowEdges(G, flows) ==
    UNION {FlowsWithin(flows, f) \cup FlowsBetween(G, flows, f) : f \in DOMAIN flows}

\* The nodes of the graph are listed before these; no flow edge is at one.
FlowNodes(flows) == UNION {{<<f, i>> : i \in 1 .. Len(flows[f].names) + 1} : f \in DOMAIN flows}

FlowsInOrder(G, edges) ==
    InOrder(edges, LAMBDA e : <<G.ids[e.to[1]], e.to[2], IF e.sure THEN 0 ELSE 1>>)

\* As it would be if a path could pass a node twice.
ExtendedAgain(G, edges, path) ==
    LET next == FlowsInOrder(G, {e \in edges : e.from = Last(path).at})
    IN  [i \in DOMAIN next |-> Append(path, [at |-> next[i].to, sure |-> next[i].sure])]

\* A path is a sequence of [at, sure].  Paths of one length are extended
\* to those of the next, edge by edge; a path that has reached the sink is
\* not extended.
Extended(G, edges, path) ==
    LET on == {e \in edges : /\ e.from = Last(path).at
                             /\ \A i \in DOMAIN path : path[i].at # e.to}
        next == FlowsInOrder(G, on)
    IN  [i \in DOMAIN next |-> Append(path, [at |-> next[i].to, sure |-> next[i].sure])]

Longer(G, edges, sink, paths) ==
    FlattenSeq([i \in DOMAIN paths |-> IF Last(paths[i]).at = sink THEN <<>>
                                       ELSE Extended(G, edges, paths[i])])

Arrivals(sink, paths) ==
    FlattenSeq([i \in DOMAIN paths |-> IF Last(paths[i]).at = sink THEN <<paths[i]>> ELSE <<>>])

\* trace_flow: at least one path is returned if there is one.
TraceFlow(G, edges, source, sink, depth, limit) ==
    LET OfLength[k \in 0 .. depth] ==
            IF k = 0 THEN << <<[at |-> source, sure |-> TRUE]>> >>
            ELSE Longer(G, edges, sink, OfLength[k - 1])
        arrived == FlattenSeq([k \in 1 .. depth + 1 |-> Arrivals(sink, OfLength[k - 1])])
    IN  Limited(arrived, IF limit = 0 THEN 1 ELSE limit)

\* What the paths to one more sink, or from one more source, are added to.
WithSink(G, edges, source, sink, depth, limit, paths) ==
    LET left == IF Len(paths) < limit THEN limit - Len(paths) ELSE 0
    IN  IF source = sink THEN paths
        ELSE paths \o TraceFlow(G, edges, source, sink, depth, left)

\* Only the loop over the sources ends when there are paths enough, and it
\* looks for that after each of them.
WithSource(G, edges, sources, i, sinks, depth, limit, paths) ==
    LET Upto[j \in 0 .. Len(sinks)] ==
            IF j = 0 THEN paths
            ELSE WithSink(G, edges, sources[i], sinks[j], depth, limit, Upto[j - 1])
    IN  IF i > 1 /\ Len(paths) >= limit THEN paths ELSE Upto[Len(sinks)]

\* The sort is stable.
ByLength(paths) ==
    LET order == InOrder(DOMAIN paths, LAMBDA i : <<Len(paths[i]), i>>)
    IN  [i \in DOMAIN order |-> paths[order[i]]]

\* find_source_sink_flows.
FindFlows(G, flows, sources, sinks, depth, limit) ==
    LET edges == FlowEdges(G, flows)
        Upto[i \in 0 .. Len(sources)] ==
            IF i = 0 THEN <<>>
            ELSE WithSource(G, edges, sources, i, sinks, depth, limit, Upto[i - 1])
    IN  ByLength(Upto[Len(sources)])

\* In the order of the nodes of the graph, then of the names.
Matching(G, flows, query) ==
    InOrder({x \in FlowNodes(flows) :
                Within(query, QualifiedName(G, x[1])
                                \o (IF x = Returned(flows, x[1]) THEN <<"return">>
                                    ELSE <<flows[x[1]].names[x[2]]>>))},
            LAMBDA x : x)

\* flow_path.
Confidence(path) == IF \A i \in DOMAIN path : path[i].sure THEN "extracted" ELSE "inferred"

---------------------------------------------------------------------------
(* Calls through an interface.  All names are of three letters or more.    *)

CallableKinds == {"method", "function"}

MethodsOf(G, kinds, t) ==
    IF Node(G, t).kind \in kinds
    THEN {m \in Ends(G, t, {"contains"}) : Node(G, m).kind \in CallableKinds} ELSE {}

ThroughInterface(G, target) ==
    UNION {UNION {{[target |-> m, sure |-> "inferred", via |-> t] :
                     m \in {m \in MethodsOf(G, {"struct", "class"}, s) :
                              Node(G, m).name = Node(G, target).name}} :
                    s \in Starts(G, t, {"implements", "inherits"})} :
             t \in {t \in Nodes(G) : target \in MethodsOf(G, {"trait", "interface"}, t)}}

SameNamed(G, target) ==
    {[target |-> m, sure |-> "possible", via |-> 0] :
       m \in {m \in Nodes(G) \ {target} : Node(G, m).name = Node(G, target).name
                                          /\ Node(G, m).kind = "method"}}

\* find_dispatch_targets: methods of the same name are only guessed while
\* nothing is known of any callee before.
DispatchTargets(G, sofar, target) ==
    LET through == ThroughInterface(G, target)
        new == IF sofar \cup through = {} THEN SameNamed(G, target) ELSE through
    IN  IF Node(G, target).kind \notin CallableKinds THEN sofar
        ELSE sofar \cup {x \in new : \A y \in sofar : y.target # x.target}

CallSites(G) ==
    LET callers == {n \in Nodes(G) : Node(G, n).kind \in CallableKinds
                                     /\ Ends(G, n, {"calls"}) # {}}
    IN  {[caller |-> n, direct |-> Ends(G, n, {"calls"}),
          candidates |-> FoldLeft(LAMBDA sofar, target : DispatchTargets(G, sofar, target),
                                  {}, ById(G, Ends(G, n, {"calls"})))] : n \in callers}

---------------------------------------------------------------------------
(* Unused symbols, forbidden dependencies, files that change together.     *)

DeadCode(G, exempt) ==
    {n \in Nodes(G) : /\ Node(G, n).kind \notin {"file", "module"}
                      /\ n \notin exempt
                      /\ ~ \E e \in G.edges : e.to = n /\ e.kind # "contains"}

\* A layer is [name, patterns, allowed]; its name is a number, as layers
\* are ordered by name.  A pattern is a sequence of segments, open if it
\* ends in "**".  One segment alone matches anywhere in a path.
PatternMatches(path, p) ==
    IF Len(p.segments) = 1 /\ ~ p.open
    THEN \E i \in DOMAIN path : SegmentMatches(path[i], p.segments[1])
    ELSE /\ IF p.open THEN Len(path) >= Len(p.segments) ELSE Len(path) = Len(p.segments)
         /\ \A i \in DOMAIN p.segments : SegmentMatches(path[i], p.segments[i])

\* The most exact pattern decides, then the name of the layer.
LayerOf(file, layers) ==
    LET matches == {m \in UNION {{[layer |-> l, score |-> Len(p.segments)] : p \in l.patterns} :
                                   l \in layers} :
                      \E p \in m.layer.patterns : /\ Len(p.segments) = m.score
                                                  /\ PatternMatches(file, p)}
    IN  {m.layer : m \in {m \in matches : \A k \in matches :
                            \/ k.score < m.score
                            \/ k.score = m.score /\ m.layer.name <= k.layer.name}}

Violations(G, layers) ==
    UNION {LET from == Node(G, e.from).file
               to == Node(G, e.to).file
           IN  {[from |-> from, to |-> to, layers |-> <<p[1].name, p[2].name>>, kind |-> e.kind] :
                   p \in {p \in LayerOf(from, layers) \X LayerOf(to, layers) :
                            p[1].name # p[2].name /\ p[2].name \notin p[1].allowed}} :
             e \in {e \in G.edges : e.kind # "contains"}}

\* commits is a sequence of [author, files]; the support asked for is in
\* hundredths.
CommitsWith(commits, files) == {i \in DOMAIN commits : files \subseteq commits[i].files}

ChangeCoupling(commits, support) ==
    {[files |-> pair, together |-> Cardinality(CommitsWith(commits, pair)),
      each |-> [f \in pair |-> Cardinality(CommitsWith(commits, {f}))]] :
        pair \in {pair \in SUBSET UNION {commits[i].files : i \in DOMAIN commits} :
                    /\ Cardinality(pair) = 2
                    /\ CommitsWith(commits, pair) # {}
                    /\ 100 * Cardinality(CommitsWith(commits, pair)) >= support * Len(commits)}}

\* analyze_git_history, of what git prints.
Churn(commits) ==
    {[file |-> f, count |-> Cardinality(CommitsWith(commits, {f})),
      authors |-> {commits[i].author : i \in CommitsWith(commits, {f})}] :
        f \in UNION {commits[i].files : i \in DOMAIN commits}}

---------------------------------------------------------------------------
(* The difference of two graphs.  A node has here further fields: sig,     *)
(* vis ("public", "private" or "unknown") and lines.                       *)

SemanticKey(G, n) ==
    [file |-> Node(G, n).file, kind |-> Node(G, n).kind, name |-> QualifiedName(G, n),
     sig |-> Node(G, n).sig]

Keys(G) == {SemanticKey(G, n) : n \in Nodes(G)}

\* Of several nodes with a key the last counts.
Keyed(G, key) ==
    LET with == {n \in Nodes(G) : SemanticKey(G, n) = key}
    IN  G.nodes[CHOOSE n \in with : \A m \in with : m <= n]

EdgeKeys(G) ==
    {[from |-> SemanticKey(G, e.from), to |-> SemanticKey(G, e.to), kind |-> e.kind] : e \in G.edges}

DiffGraphs(old, new) ==
    [added |-> Keys(new) \ Keys(old),
     removed |-> Keys(old) \ Keys(new),
     modified |-> {k \in Keys(old) \cap Keys(new) :
                     \/ Keyed(old, k).lines # Keyed(new, k).lines
                     \/ Keyed(old, k).vis # Keyed(new, k).vis},
     addedEdges |-> EdgeKeys(new) \ EdgeKeys(old),
     removedEdges |-> EdgeKeys(old) \ EdgeKeys(new)]

\* hidden: the nodes whose name or file speaks against it.
IsPublic(G, n, hidden) ==
    /\ Node(G, n).kind \notin {"file", "module"}
    /\ \/ Node(G, n).vis = "public"
       \/ Node(G, n).vis = "unknown" /\ n \notin hidden

\* api_node_map: the place of a public node among those of its name.  The
\* signatures are numbers, as they are ordered.
SameSymbol(G, m, n) ==
    /\ Node(G, m).file = Node(G, n).file /\ Node(G, m).name = Node(G, n).name
    /\ Node(G, m).kind = Node(G, n).kind

ApiSlot(G, public, n) ==
    LET before(m) == \/ Node(G, m).sig < Node(G, n).sig
                     \/ Node(G, m).sig = Node(G, n).sig /\ m < n
    IN  [file |-> Node(G, n).file, name |-> Node(G, n).name, kind |-> Node(G, n).kind,
         place |-> Cardinality({m \in public : SameSymbol(G, m, n) /\ before(m)})]

\* The map from slots to nodes; a key of the map is a slot and a signature,
\* and each slot has one.
Api(G, hidden) ==
    LET public == {n \in Nodes(G) : IsPublic(G, n, hidden)}
        slots == {ApiSlot(G, public, n) : n \in public}
    IN  [s \in slots |-> CHOOSE n \in public : ApiSlot(G, public, n) = s]

\* As it would be if a node were looked up with its signature alone.
DiffPublicApiBySignature(old, new, oldHidden, newHidden) ==
    LET was == Api(old, oldHidden)
        is == Api(new, newHidden)
        same(s) == Node(old, was[s]).sig = Node(new, is[s]).sig
        both == {s \in DOMAIN was \cap DOMAIN is : same(s)}
    IN  [added |-> {is[s] : s \in DOMAIN is \ both},
         removed |-> {was[s] : s \in DOMAIN was \ both},
         modified |-> {[old |-> was[s], new |-> is[s], breaking |-> FALSE] :
                         s \in {s \in both : Node(old, was[s]).vis # Node(new, is[s]).vis}}]

DiffPublicApi(old, new, oldHidden, newHidden) ==
    LET was == Api(old, oldHidden)
        is == Api(new, newHidden)
        both == DOMAIN was \cap DOMAIN is
        sigChanged(s) == Node(old, was[s]).sig # Node(new, is[s]).sig
        visChanged(s) == Node(old, was[s]).vis # Node(new, is[s]).vis
    IN  [added |-> {is[s] : s \in DOMAIN is \ both},
         removed |-> {was[s] : s \in DOMAIN was \ both},
         modified |-> {[old |-> was[s], new |-> is[s],
                        breaking |-> \/ sigChanged(s)
                                     \/ /\ Node(old, was[s]).vis = "public"
                                        /\ Node(new, is[s]).vis # "public"] :
                         s \in {s \in both : sigChanged(s) \/ visChanged(s)}}]
=============================================================================
