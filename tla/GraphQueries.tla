---------------------------- MODULE GraphQueries ----------------------------
(***************************************************************************)
(* Queries and repository intelligence (src/src/query.rs and               *)
(* src/src/intelligence): what a reader is told about a node, its          *)
(* neighbours, the nodes a change of it may reach, and its tests.          *)
(*                                                                         *)
(* Each search asks between two nodes whether its request was cancelled:   *)
(* `stop' is the number of the node before which the answer is yes, or     *)
(* more than there are nodes.                                              *)
(***************************************************************************)
EXTENDS RepoGraph

CONSTANTS
    None,          \* no answer
    TestPath(_),   \* is_test_file
    TestName(_),   \* the names is_test_symbol takes for tests
    TestishPath(_),\* file.contains("test"), a weaker test of the same kind
    MethodMain(_)  \* files in whose language main may be a method

---------------------------------------------------------------------------
(* Paths between two nodes.                                                *)

\* By the identifiers of their ends.
Outgoing(G, n) ==
    InOrder({[to |-> e.to, via |-> e.kind] : e \in {e \in G.edges : e.from = n}},
            LAMBDA x : <<G.ids[x.to], KindCode[x.via]>>)

\* As it would be if the node were visited when it is queued.
ShortestPathEager(G, from, to, depth, visits, stop) ==
    LET found == Search(G, <<Start(from)>>, depth, [n \in Nodes(G) |-> Outgoing(G, n)])
        reached == {i \in DOMAIN found : found[i].node = to}
        last == IF reached = {} THEN Len(found) ELSE CHOOSE i \in reached : TRUE
    IN  IF stop <= last /\ stop <= visits + 1 THEN [state |-> "none"]
        ELSE IF Len(found) > visits THEN [state |-> "limit"]
        ELSE IF reached = {} THEN [state |-> "none"]
        ELSE [state |-> "path", path |-> PathTo(found, to)]

\* The queue holds more nodes than are visited until the end is reached.
ShortestPath(G, from, to, depth, visits, stop) ==
    LET found == Search(G, <<Start(from)>>, depth, [n \in Nodes(G) |-> Outgoing(G, n)])
        reached == {i \in DOMAIN found : found[i].node = to}
        last == IF reached = {} THEN Len(found) ELSE CHOOSE i \in reached : TRUE
    IN  IF stop <= last /\ stop <= visits + 1 THEN [state |-> "none"]
        ELSE IF last > visits THEN [state |-> "limit"]
        ELSE IF reached = {} THEN [state |-> "none"]
        ELSE [state |-> "path", path |-> PathTo(found, to)]

---------------------------------------------------------------------------
(* Tests: a call or an import from a test, or a file with the same stem.   *)

IsTest(G, n) == TestPath(Node(G, n).file) \/ TestName(Node(G, n).name)

\* The last word of a path is its stem; no stem is part of another.
SameStem(f, g) == Last(f) = Last(g)

\* A test is [file, symbol]; symbol is 0 if only the file is known.
\* A mapping is [source, symbol, test].
Mappings(G) ==
    {[source |-> Node(G, e.to).file, symbol |-> QualifiedName(G, e.to),
      test |-> [file |-> Node(G, e.from).file, symbol |-> e.from]] :
        e \in {e \in G.edges : e.kind \in {"calls", "imports"} /\ IsTest(G, e.from)}}
    \cup
    {[source |-> Node(G, p[1]).file, symbol |-> <<>>,
      test |-> [file |-> Node(G, p[2]).file, symbol |-> 0]] :
        p \in {p \in Nodes(G) \X Nodes(G) :
                 /\ IsFile(G, p[1]) /\ ~ TestPath(Node(G, p[1]).file)
                 /\ IsFile(G, p[2]) /\ TestPath(Node(G, p[2]).file)
                 /\ SameStem(Node(G, p[1]).file, Node(G, p[2]).file)}}

\* map_source_to_tests.
TestsOf(G, term) ==
    {m.test : m \in {m \in Mappings(G) : \/ m.source = term \/ m.symbol = term
                                         \/ IsSuffix(term, m.symbol)
                                         \/ Within(term, m.source)}}

\* The node that stands for a test.
TestNodes(G, t) ==
    IF t.symbol # 0 THEN {t.symbol}
    ELSE {n \in Nodes(G) : IsFile(G, n) /\ Node(G, n).file = t.file}

\* The tests of a node, as the neighbourhood and the context take them.
RelatedTests(G, n) ==
    UNION {TestNodes(G, m.test) :
             m \in {m \in Mappings(G) : \/ m.source = Node(G, n).file
                                        \/ m.symbol \in {QualifiedName(G, n), Node(G, n).name}}}

---------------------------------------------------------------------------
(* The neighbourhood of the first node a term finds.                       *)

Neighbours(G, n, kind, outgoing) ==
    LET near == ById(G, IF outgoing THEN Ends(G, n, {kind}) ELSE Starts(G, n, {kind}))
    IN  [i \in DOMAIN near |-> [to |-> near[i], via |-> kind]]

\* collect_neighbors_k_hop: those nearby are cut by name, not by distance.
Hops(G, n, kind, outgoing, depth, limit) ==
    LET found == Search(G, <<Start(n)>>, depth,
                        [m \in Nodes(G) |-> Neighbours(G, m, kind, outgoing)])
    IN  Limited(ByName({found[i].node : i \in DOMAIN found} \ {n}), limit)

\* Of several containers the last edge decides.
LastContainer(G, n, kinds) ==
    LET holders == {m \in Starts(G, n, {"contains"}) : Node(G, m).kind \in kinds}
    IN  IF holders = {} THEN 0
        ELSE CHOOSE m \in holders : \A k \in holders : G.ids[k] <= G.ids[m]

Neighbourhood(G, term, depth, limit) ==
    IF Find(G, term) = <<>> THEN None
    ELSE LET n == Head(Find(G, term))
             callers == Hops(G, n, "calls", FALSE, depth, limit)
             callees == Hops(G, n, "calls", TRUE, depth, limit)
             imports == Hops(G, n, "imports", TRUE, depth, limit)
         IN  [target |-> n,
              container |-> LastContainer(G, n, {Node(G, m).kind : m \in Nodes(G)}),
              module |-> LastContainer(G, n, {"file", "module"}),
              children |-> Limited(ByName(Ends(G, n, {"contains"})), limit),
              callers |-> callers,
              callees |-> callees,
              imports |-> imports,
              exports |-> Hops(G, n, "imports", FALSE, depth, limit),
              types |-> Limited(ByName({m \in ToSet(callees) \cup ToSet(imports) :
                                          Node(G, m).kind \in TypeNodes}), limit),
              implementations |->
                  Limited(ByName(Ends(G, n, {"implements", "inherits"})
                                   \cup Starts(G, n, {"implements", "inherits"})), limit),
              tests |-> Limited(ByName(RelatedTests(G, n)
                                   \cup {m \in ToSet(callers) : \/ TestishPath(Node(G, m).file)
                                                                \/ TestName(Node(G, m).name)}),
                                limit)]

---------------------------------------------------------------------------
(* The nodes a change of a node may reach.                                 *)

\* By kind first.
Dependents(G, n) ==
    InOrder({[to |-> e.from, via |-> e.kind] :
               e \in {e \in G.edges : e.to = n /\ e.kind # "contains"}},
            LAMBDA x : <<KindCode[x.via], G.ids[x.to]>>)

ImpactKind(x) ==
    IF x.via \notin {"calls", "imports"} THEN "possible"
    ELSE IF x.depth = 1 THEN "direct" ELSE "transitive"

\* The first edge by which a node is found decides how it is affected.
Impact(G, term, depth, stop) ==
    IF Find(G, term) = <<>> THEN None
    ELSE LET n == Head(Find(G, term))
             found == Search(G, <<Start(n)>>, depth, [m \in Nodes(G) |-> Dependents(G, m)])
             impacted == Tail(found)
             ofKind(k) == Cardinality({i \in DOMAIN impacted : ImpactKind(impacted[i]) = k})
         IN  IF stop <= Len(found) THEN None
             ELSE [target |-> n,
                   impacted |-> {[node |-> impacted[i].node, depth |-> impacted[i].depth,
                                  kind |-> ImpactKind(impacted[i]),
                                  path |-> PathTo(found, impacted[i].node)] :
                                    i \in DOMAIN impacted},
                   direct |-> ofKind("direct"),
                   transitive |-> ofKind("transitive"),
                   possible |-> ofKind("possible"),
                   files |-> {Node(G, found[i].node).file : i \in DOMAIN found},
                   tests |-> {Node(G, impacted[i].node).file :
                                 i \in {i \in DOMAIN impacted : IsTest(G, impacted[i].node)}}
                               \cup {m.test.file : m \in {m \in Mappings(G) :
                                        \/ m.source = Node(G, n).file
                                        \/ m.symbol = QualifiedName(G, n)}}]

---------------------------------------------------------------------------
(* Everything about one symbol in one answer.                              *)

\* An exact qualified name before an exact name before anything found.
ExploreTarget(G, term) ==
    LET found == Find(G, term)
        first(P(_)) == {i \in DOMAIN found : P(found[i]) /\ \A j \in 1 .. i - 1 : ~ P(found[j])}
        qualified == first(LAMBDA n : QualifiedName(G, n) = term)
        named == first(LAMBDA n : Node(G, n).name = term)
    IN  found[IF qualified # {} THEN CHOOSE i \in qualified : TRUE
              ELSE IF named # {} THEN CHOOSE i \in named : TRUE ELSE 1]

\* The parts look the qualified name of the target up once more.  The
\* request is asked for after the impact too: cancelled before, it has no
\* answer at all.
Explore(G, term, depth, stop) ==
    IF Find(G, term) = <<>> THEN None
    ELSE LET n == ExploreTarget(G, term)
             again == QualifiedName(G, n)
             around == Neighbourhood(G, again, 1, 50)
             impact == Impact(G, again, depth, stop)
             tests == TestsOf(G, again)
         IN  IF impact = None THEN None
             ELSE [target |-> n,
                   container |-> around.container,
                   callers |-> around.callers,
                   callees |-> around.callees,
                   direct |-> impact.direct,
                   transitive |-> impact.transitive,
                   files |-> impact.files,
                   tests |-> IF tests # {} THEN tests ELSE TestsOf(G, Node(G, n).file)]

---------------------------------------------------------------------------
(* Search, entry points, the edges at a node.                              *)

\* score_relevance and search_graph.  The order of the matches depends on
\* the page rank as well and is left out.
Matches(G, n, term) ==
    \/ term = QualifiedName(G, n)
    \/ Within(term, Node(G, n).name)
    \/ Within(term, Node(G, n).file)

SearchGraph(G, term, kinds) ==
    {n \in Nodes(G) : Node(G, n).kind \in kinds /\ Matches(G, n, term)}

\* Only in some languages a method may be the main function.
EntryPoints(G) ==
    {n \in Nodes(G) : /\ ~ IsFile(G, n)
                      /\ Node(G, n).name = <<"main">>
                      /\ \/ Node(G, n).kind = "function"
                         \/ Node(G, n).kind = "method" /\ MethodMain(Node(G, n).file)}

Explanation(G, n) ==
    LET parents == ById(G, Starts(G, n, {"contains"}))
    IN  [parent |-> IF parents = <<>> THEN 0 ELSE parents[1],
         incoming |-> {e.from : e \in {e \in G.edges : e.to = n}},
         outgoing |-> {e.to : e \in {e \in G.edges : e.from = n}},
         callers |-> Starts(G, n, {"calls"}),
         callees |-> Ends(G, n, {"calls"}),
         imports |-> Ends(G, n, {"imports"})]
=============================================================================
