----------------------------- MODULE ToolsProofs -----------------------------
(***************************************************************************)
(* What is proved of the tools that answer about a finished graph.         *)
(***************************************************************************)
EXTENDS Tools, GraphAnalysisProofs

-----------------------------------------------------------------------------
(* The components of an analysis.                                          *)

LEMMA InitIsSearched == Init => Searched
<1> SUFFICES ASSUME Init
             PROVE  Searched
  OBVIOUS
<1>1. CASE \E a \in Analyses : Idle(a.graph, a.options, "project")
  <2>1. PICK a \in Analyses : Idle(a.graph, a.options, "project")
    BY <1>1
  <2> QED
    BY <2>1, AnalysesAssumption, IdleIsSearched
<1>2. CASE \E G \in Asked : Idle(G, [level |-> "symbol", filter |-> "none", limit |-> 0], "idle")
  <2>1. PICK G \in Asked : Idle(G, [level |-> "symbol", filter |-> "none", limit |-> 0], "idle")
    BY <1>2
  <2> QED
    BY <2>1, IdleIsSearched
<1> QED
  BY <1>1, <1>2 DEF Init

Answering ==
    \/ DependencyPath \/ FindImpact \/ FindNeighbourhood \/ ExploreSymbol
    \/ GetContext \/ Lookup \/ Architecture \/ TraceFlows \/ CheckCode \/ Compare

LEMMA AnsweringChangesTheAnswer ==
    ASSUME Answering
    PROVE  stage = "idle" /\ \E tool, args, result : Answers(tool, args, result)
<1>1. CASE DependencyPath
  BY <1>1, Zenon DEF DependencyPath
<1>2. CASE FindImpact
  BY <1>2, Zenon DEF FindImpact
<1>3. CASE FindNeighbourhood
  BY <1>3, Zenon DEF FindNeighbourhood
<1>4. CASE ExploreSymbol
  BY <1>4, Zenon DEF ExploreSymbol
<1>5. CASE GetContext
  BY <1>5, Zenon DEF GetContext
<1>6. CASE Lookup
  BY <1>6, Zenon DEF Lookup
<1>7. CASE Architecture
  BY <1>7, Zenon DEF Architecture
<1>8. CASE TraceFlows
  BY <1>8, Zenon DEF TraceFlows
<1>9. CASE CheckCode
  BY <1>9, Zenon DEF CheckCode
<1>10. CASE Compare
  BY <1>10, Zenon DEF Compare
<1> QED
  BY <1>1, <1>2, <1>3, <1>4, <1>5, <1>6, <1>7, <1>8, <1>9, <1>10 DEF Answering

LEMMA NextKeepsSearched == Searched /\ [Next]_<<vars, answer>> => Searched'
<1> SUFFICES ASSUME Searched, [Next]_<<vars, answer>>
             PROVE  Searched'
  OBVIOUS
<1>1. CASE Analyse
  BY <1>1, AnalyseKeeps
<1>2. CASE Answering
  <2>1. stage = "idle" /\ stage' = "done" /\ UNCHANGED <<graph, options, weight, tarjan>>
    BY <1>2, AnsweringChangesTheAnswer DEF Answers
  <2> QED
    BY <2>1 DEF Searched, Search1, Units
<1>3. CASE UNCHANGED <<vars, answer>>
  BY <1>3 DEF Searched, Search1, vars, Units
<1> QED
  BY <1>1, <1>2, <1>3 DEF Next, Answering

\* For every graph and level: whatever the order of nodes and edges, each
\* component that tarjan_scc closes is all the units that reach one
\* another, no unit it has met is lost between the stack and the
\* components, and at the end every unit is in one.
THEOREM ComponentsStayStrong == Spec => []ComponentsAreStrong
<1>1. Init => Searched
  BY InitIsSearched
<1>2. Searched /\ [Next]_<<vars, answer>> => Searched'
  BY NextKeepsSearched
<1>3. Searched => ComponentsAreStrong
  BY SearchedIsStrong
<1> QED
  BY <1>1, <1>2, <1>3, PTL DEF Spec

-----------------------------------------------------------------------------
(* The difference of two graphs.                                           *)

\* A context as GetContext makes it.
ContextGiven(G, args, result) ==
    \E depth \in Depths, limit \in Sizes, budget \in Budgets, unreadable \in Unreadables :
      \E request :
        \E tests \in SetToSeqs(SeedTests(G, Seeds(G, request))) :
          /\ args = [depth |-> depth, limit |-> limit, budget |-> budget, unreadable |-> unreadable]
          /\ result = Context(G, request, tests, depth, limit, unreadable, budget)

\* A path, an impact and a neighbourhood as the tools make them.
PathGiven(G, args, result) ==
    \E from, to \in Terms, depth \in Depths, visits \in Sizes, stop \in Stops :
      /\ Find(G, from) # <<>> /\ Find(G, to) # <<>>
      /\ args = [from |-> Find(G, from)[1], to |-> Find(G, to)[1], depth |-> depth,
                 visits |-> visits, stop |-> stop]
      /\ result = ShortestPath(G, Find(G, from)[1], Find(G, to)[1], depth, visits, stop)

ImpactGiven(G, args, result) ==
    \E term \in Terms, depth \in Depths, stop \in Stops :
      /\ args = [depth |-> depth, stop |-> stop]
      /\ result = Impact(G, term, depth, stop)

NeighbourhoodGiven(G, args, result) ==
    \E term \in Terms, depth \in Depths, limit \in Sizes :
      /\ args = [depth |-> depth, limit |-> limit]
      /\ result = Neighbourhood(G, term, depth, limit)

\* A trace of flows as TraceFlows makes it.
FlowsGiven(G, args, result) ==
    \E from, to \in Words, depth \in Depths, limit \in Sizes :
      /\ args = [sources |-> ToSet(Matching(G, G.flows, from)),
                 sinks |-> ToSet(Matching(G, G.flows, to)), depth |-> depth, limit |-> limit]
      /\ result = FindFlows(G, G.flows, Matching(G, G.flows, from), Matching(G, G.flows, to),
                            depth, limit)

\* What an answer is, as far as the theorems need it.
AnswerIsDerived ==
    /\ stage = "idle" => graph \in Asked
    /\ stage # "done" => answer = None
    /\ Is("diff") =>
         /\ graph \in Asked /\ answer.args \in Earlier(graph)
         /\ answer.result =
              [graph |-> DiffGraphs(answer.args, graph),
               api |-> DiffPublicApi(answer.args, graph, InTests(answer.args), InTests(graph))]
    /\ Is("context") => graph \in Asked /\ ContextGiven(graph, answer.args, answer.result)
    /\ Is("path") => graph \in Asked /\ PathGiven(graph, answer.args, answer.result)
    /\ Is("impact") => graph \in Asked /\ ImpactGiven(graph, answer.args, answer.result)
    /\ Is("neighbourhood") =>
         graph \in Asked /\ NeighbourhoodGiven(graph, answer.args, answer.result)
    /\ Is("flows") => graph \in Asked /\ FlowsGiven(graph, answer.args, answer.result)

LEMMA InitIsDerived == Init => AnswerIsDerived
<1> SUFFICES ASSUME Init
             PROVE  AnswerIsDerived
  OBVIOUS
<1>1. answer = None
  BY DEF Init
<1>2. CASE \E a \in Analyses : Idle(a.graph, a.options, "project")
  BY <1>1, <1>2 DEF AnswerIsDerived, Is, Idle
<1>3. CASE \E G \in Asked : Idle(G, [level |-> "symbol", filter |-> "none", limit |-> 0], "idle")
  BY <1>1, <1>3 DEF AnswerIsDerived, Is, Idle
<1> QED
  BY <1>2, <1>3 DEF Init

LEMMA AnalyseKeepsTheGraph ==
    ASSUME Analyse
    PROVE  /\ stage \notin {"idle", "done"} /\ graph' = graph
           /\ stage' # "idle"
BY DEF Analyse, Project, EnterRoot, FollowEdge, LeaveNode, ComponentsDone, SearchCycles, CyclesDone,
       PropagateLabels, Report

LEMMA NextKeepsTheAnswerDerived == AnswerIsDerived /\ [Next]_<<vars, answer>> => AnswerIsDerived'
<1> SUFFICES ASSUME AnswerIsDerived, [Next]_<<vars, answer>>
             PROVE  AnswerIsDerived'
  OBVIOUS
<1>1. CASE Analyse /\ UNCHANGED answer
  BY <1>1, AnalyseKeepsTheGraph DEF AnswerIsDerived, Is
<1>2. ASSUME NEW tool, NEW args, NEW result, stage = "idle", Answers(tool, args, result),
             tool = "diff" =>
               /\ args \in Earlier(graph)
               /\ result = [graph |-> DiffGraphs(args, graph),
                            api |-> DiffPublicApi(args, graph, InTests(args), InTests(graph))],
             tool = "context" => ContextGiven(graph, args, result),
             tool = "path" => PathGiven(graph, args, result),
             tool = "impact" => ImpactGiven(graph, args, result),
             tool = "neighbourhood" => NeighbourhoodGiven(graph, args, result),
             tool = "flows" => FlowsGiven(graph, args, result)
      PROVE  AnswerIsDerived'
  <2>1. stage' = "done" /\ graph' = graph /\ graph \in Asked
    BY <1>2 DEF Answers, AnswerIsDerived
  <2>2. answer' = [tool |-> tool, args |-> args, result |-> result]
    BY <1>2 DEF Answers
  <2>3. answer'.tool = tool /\ answer'.args = args /\ answer'.result = result
    BY <2>2
  <2>4. /\ (Is("diff")' => tool = "diff") /\ (Is("context")' => tool = "context")
        /\ (Is("path")' => tool = "path") /\ (Is("impact")' => tool = "impact")
        /\ (Is("neighbourhood")' => tool = "neighbourhood") /\ (Is("flows")' => tool = "flows")
    BY <2>3 DEF Is
  <2>5. InTests(graph)' = InTests(graph)
    BY <2>1 DEF InTests
  <2> QED
    BY <1>2, <2>1, <2>3, <2>4, <2>5 DEF AnswerIsDerived, InTests
<1>3. CASE Compare
  <2>1. stage = "idle" /\ \E old \in Earlier(graph) :
          Answers("diff", old,
                  [graph |-> DiffGraphs(old, graph),
                   api |-> DiffPublicApi(old, graph, InTests(old), InTests(graph))])
    BY <1>3, Zenon DEF Compare
  <2> QED
    BY <2>1, <1>2
<1>4. CASE DependencyPath
  <2>1. stage = "idle" /\ \E args, result : /\ Answers("path", args, result)
                                            /\ PathGiven(graph, args, result)
    <3>1. PICK from \in Terms, to \in Terms, depth \in Depths, visits \in Sizes, stop \in Stops :
            LET n == Find(graph, from)
                m == Find(graph, to)
            IN  /\ n # <<>> /\ m # <<>>
                /\ Answers("path", [from |-> n[1], to |-> m[1], depth |-> depth,
                                    visits |-> visits, stop |-> stop],
                           ShortestPath(graph, n[1], m[1], depth, visits, stop))
      BY <1>4, Zenon DEF DependencyPath
    <3>2. PathGiven(graph, [from |-> Find(graph, from)[1], to |-> Find(graph, to)[1],
                            depth |-> depth, visits |-> visits, stop |-> stop],
                    ShortestPath(graph, Find(graph, from)[1], Find(graph, to)[1],
                                 depth, visits, stop))
      BY <3>1, Zenon DEF PathGiven
    <3> QED
      BY <1>4, <3>1, <3>2, Zenon DEF DependencyPath
  <2> QED
    BY <2>1, <1>2
<1>5. CASE FindImpact
  <2>1. stage = "idle" /\ \E args, result : /\ Answers("impact", args, result)
                                            /\ ImpactGiven(graph, args, result)
    BY <1>5, Zenon DEF FindImpact, ImpactGiven
  <2> QED
    BY <2>1, <1>2
<1>6. CASE FindNeighbourhood
  <2>1. stage = "idle" /\ \E args, result : /\ Answers("neighbourhood", args, result)
                                            /\ NeighbourhoodGiven(graph, args, result)
    BY <1>6, Zenon DEF FindNeighbourhood, NeighbourhoodGiven
  <2> QED
    BY <2>1, <1>2
<1>7. CASE ExploreSymbol
  <2>1. stage = "idle" /\ \E args, result : Answers("explore", args, result)
    BY <1>7, Zenon DEF ExploreSymbol
  <2> QED
    BY <2>1, <1>2
<1>8. CASE GetContext
  <2>1. stage = "idle" /\ \E args, result : /\ Answers("context", args, result)
                                            /\ ContextGiven(graph, args, result)
    <3>1. PICK words \in Words, by \in {"symbol", "query", "file"}, depth \in Depths,
               limit \in Sizes, budget \in Budgets, unreadable \in Unreadables :
            LET request == [[symbol |-> <<>>, file |-> <<>>, query |-> <<>>, changed |-> {}]
                              EXCEPT ![by] = words]
            IN  \E tests \in SetToSeqs(SeedTests(graph, Seeds(graph, request))) :
                  Answers("context", [depth |-> depth, limit |-> limit, budget |-> budget,
                                      unreadable |-> unreadable],
                          Context(graph, request, tests, depth, limit, unreadable, budget))
      BY <1>8, Zenon DEF GetContext
    <3>2. PICK request :
            \E tests \in SetToSeqs(SeedTests(graph, Seeds(graph, request))) :
              Answers("context", [depth |-> depth, limit |-> limit, budget |-> budget,
                                  unreadable |-> unreadable],
                      Context(graph, request, tests, depth, limit, unreadable, budget))
      BY <3>1, Zenon
    <3>3. PICK tests \in SetToSeqs(SeedTests(graph, Seeds(graph, request))) :
            Answers("context", [depth |-> depth, limit |-> limit, budget |-> budget,
                                unreadable |-> unreadable],
                    Context(graph, request, tests, depth, limit, unreadable, budget))
      BY <3>2, Zenon
    <3>4. ContextGiven(graph, [depth |-> depth, limit |-> limit, budget |-> budget,
                               unreadable |-> unreadable],
                       Context(graph, request, tests, depth, limit, unreadable, budget))
      BY Zenon DEF ContextGiven
    <3> QED
      BY <1>8, <3>3, <3>4, Zenon DEF GetContext
  <2> QED
    BY <2>1, <1>2
<1>9. CASE Lookup
  <2>1. stage = "idle" /\ \/ \E args, result : Answers("symbol", args, result)
                          \/ \E args, result : Answers("search", args, result)
                          \/ \E args, result : Answers("tests", args, result)
                          \/ \E args, result : Answers("all tests", args, result)
    BY <1>9, Zenon DEF Lookup
  <2> QED
    BY <2>1, <1>2
<1>10. CASE Architecture
  <2>1. stage = "idle" /\ \E args, result : Answers("architecture", args, result)
    BY <1>10, Zenon DEF Architecture
  <2> QED
    BY <2>1, <1>2
<1>11. CASE TraceFlows
  <2>1. stage = "idle" /\ \E args, result : /\ Answers("flows", args, result)
                                            /\ FlowsGiven(graph, args, result)
    <3>1. PICK from \in Words, to \in Words, depth \in Depths, limit \in Sizes :
            LET sources == Matching(graph, graph.flows, from)
                sinks == Matching(graph, graph.flows, to)
            IN  Answers("flows", [sources |-> ToSet(sources), sinks |-> ToSet(sinks),
                                  depth |-> depth, limit |-> limit],
                        FindFlows(graph, graph.flows, sources, sinks, depth, limit))
      BY <1>11, Zenon DEF TraceFlows
    <3>2. FlowsGiven(graph, [sources |-> ToSet(Matching(graph, graph.flows, from)),
                             sinks |-> ToSet(Matching(graph, graph.flows, to)),
                             depth |-> depth, limit |-> limit],
                     FindFlows(graph, graph.flows, Matching(graph, graph.flows, from),
                               Matching(graph, graph.flows, to), depth, limit))
      BY Zenon DEF FlowsGiven
    <3> QED
      BY <1>11, <3>1, <3>2, Zenon DEF TraceFlows
  <2> QED
    BY <2>1, <1>2
<1>12. CASE CheckCode
  <2>1. stage = "idle" /\ \/ \E args, result : Answers("calls", args, result)
                          \/ \E args, result : Answers("unused", args, result)
                          \/ \E args, result : Answers("layers", args, result)
                          \/ \E args, result : Answers("history", args, result)
    BY <1>12, ZenonT(30) DEF CheckCode
  <2> QED
    BY <2>1, <1>2
<1>13. CASE UNCHANGED <<vars, answer>>
  BY <1>13 DEF AnswerIsDerived, Is, vars, InTests
<1> QED
  BY <1>1, <1>3, <1>4, <1>5, <1>6, <1>7, <1>8, <1>9, <1>10, <1>11, <1>12, <1>13 DEF Next

\* The public nodes of a graph, and what a reader of the interface sees of one.
Public(G, hidden) == {n \in Nodes(G) : IsPublic(G, n, hidden)}
Seen(G, n) == <<Node(G, n).file, Node(G, n).name, Node(G, n).kind>>
SeenOf(G, hidden) == {Seen(G, n) : n \in Public(G, hidden)}

SlotOf(G, n) ==
    [file |-> Node(G, n).file, name |-> Node(G, n).name, kind |-> Node(G, n).kind, place |-> 0]

Readable(G) == IsGraph(G) /\ \A n \in Nodes(G) : Node(G, n).sig \in Nat

\* No two public nodes look alike.
Singly(G, hidden) == Cardinality(SeenOf(G, hidden)) = Cardinality(Public(G, hidden))

LEMMA SingleNodesDiffer ==
    ASSUME NEW G, NEW hidden, Readable(G), Singly(G, hidden),
           NEW m \in Public(G, hidden), NEW n \in Public(G, hidden), Seen(G, m) = Seen(G, n)
    PROVE  m = n
<1> DEFINE P == Public(G, hidden)
           f == [x \in P |-> Seen(G, x)]
<1>1. IsFiniteSet(P)
  <2>1. IsFiniteSet(Nodes(G))
    BY FS_Interval DEF Readable, IsGraph, Nodes
  <2> QED
    BY <2>1, FS_Subset DEF Public
<1>2. f \in Surjection(P, SeenOf(G, hidden))
  BY DEF Surjection, SeenOf
<1>3. f \in Injection(P, SeenOf(G, hidden))
  <2> HIDE DEF f, P
  <2> QED
    BY <1>1, <1>2, FS_Surjection DEF Singly, P
<1>4. \A x, y \in P : f[x] = f[y] => x = y
  <2> HIDE DEF f, P
  <2> QED
    BY <1>3 DEF Injection, IsInjective
<1> QED
  BY <1>4

LEMMA SingleNodesHaveTheFirstPlace ==
    ASSUME NEW G, NEW hidden, Readable(G), Singly(G, hidden), NEW n \in Public(G, hidden)
    PROVE  ApiSlot(G, Public(G, hidden), n) = SlotOf(G, n)
<1> DEFINE before(m) == \/ Node(G, m).sig < Node(G, n).sig
                        \/ Node(G, m).sig = Node(G, n).sig /\ m < n
           S == {m \in Public(G, hidden) : SameSymbol(G, m, n) /\ before(m)}
<1>1. S = {}
  <2> SUFFICES ASSUME NEW m \in S
               PROVE  FALSE
    OBVIOUS
  <2>1. m \in Public(G, hidden) /\ Seen(G, m) = Seen(G, n) /\ before(m)
    BY DEF SameSymbol, Seen
  <2>2. m = n
    BY <2>1, SingleNodesDiffer
  <2>3. n \in Nat /\ Node(G, n).sig \in Nat
    BY DEF Public, Readable, IsGraph, Nodes
  <2> QED
    BY <2>1, <2>2, <2>3
<1>2. ApiSlot(G, Public(G, hidden), n)
        = [file |-> Node(G, n).file, name |-> Node(G, n).name, kind |-> Node(G, n).kind,
           place |-> Cardinality(S)]
  BY DEF ApiSlot
<1> HIDE DEF S
<1> QED
  BY <1>1, <1>2, FS_EmptySet DEF SlotOf

LEMMA ApiOfSingleNodes ==
    ASSUME NEW G, NEW hidden, Readable(G), Singly(G, hidden)
    PROVE  /\ DOMAIN Api(G, hidden) = {SlotOf(G, n) : n \in Public(G, hidden)}
           /\ \A n \in Public(G, hidden) : Api(G, hidden)[SlotOf(G, n)] = n
<1> DEFINE P == Public(G, hidden)
           slots == {ApiSlot(G, P, n) : n \in P}
<1>1. Api(G, hidden) = [s \in slots |-> CHOOSE n \in P : ApiSlot(G, P, n) = s]
  BY Zenon DEF Api, Public
<1>2. \A n \in P : ApiSlot(G, P, n) = SlotOf(G, n)
  BY SingleNodesHaveTheFirstPlace
<1>3. \A m, n \in P : SlotOf(G, m) = SlotOf(G, n) => m = n
  <2> TAKE m, n \in P
  <2> HAVE SlotOf(G, m) = SlotOf(G, n)
  <2>1. Seen(G, m) = Seen(G, n)
    BY DEF SlotOf, Seen
  <2> QED
    BY <2>1, SingleNodesDiffer
<1> HIDE DEF P
<1>4. slots = {SlotOf(G, n) : n \in P}
  BY <1>2
<1>5. ASSUME NEW n \in P
      PROVE  Api(G, hidden)[SlotOf(G, n)] = n
  <2>1. SlotOf(G, n) \in slots
    BY <1>4
  <2>2. Api(G, hidden)[SlotOf(G, n)] = CHOOSE m \in P : ApiSlot(G, P, m) = SlotOf(G, n)
    BY <2>1, <1>1
  <2>3. \A m \in P : ApiSlot(G, P, m) = SlotOf(G, n) => m = n
    BY <1>2, <1>3
  <2>4. ApiSlot(G, P, n) = SlotOf(G, n)
    BY <1>2
  <2> QED
    BY <2>2, <2>3, <2>4
<1> QED
  BY <1>1, <1>4, <1>5 DEF P

LEMMA DifferencesCancel ==
    ASSUME NEW old, NEW new
    PROVE  LET g == DiffGraphs(old, new)
               back == DiffGraphs(new, old)
           IN  /\ (Keys(old) \ g.removed) \cup g.added = Keys(new)
               /\ (EdgeKeys(old) \ g.removedEdges) \cup g.addedEdges = EdgeKeys(new)
               /\ g.modified = back.modified /\ g.removed = back.added
<1> DEFINE g == DiffGraphs(old, new)
           back == DiffGraphs(new, old)
           lines(k) == Keyed(old, k).lines # Keyed(new, k).lines
           vis(k) == Keyed(old, k).vis # Keyed(new, k).vis
<1>1. /\ g.added = Keys(new) \ Keys(old) /\ g.removed = Keys(old) \ Keys(new)
      /\ g.modified = {k \in Keys(old) \cap Keys(new) : lines(k) \/ vis(k)}
      /\ g.addedEdges = EdgeKeys(new) \ EdgeKeys(old)
      /\ g.removedEdges = EdgeKeys(old) \ EdgeKeys(new)
  BY DEF DiffGraphs
<1>2. /\ back.added = Keys(old) \ Keys(new)
      /\ back.modified = {k \in Keys(old) \cap Keys(new) : lines(k) \/ vis(k)}
  BY DEF DiffGraphs
<1> HIDE DEF g, back
<1>3. g.modified = back.modified /\ g.removed = back.added
  BY <1>1, <1>2
<1>4. (Keys(old) \ g.removed) \cup g.added = Keys(new)
  BY <1>1
<1>5. (EdgeKeys(old) \ g.removedEdges) \cup g.addedEdges = EdgeKeys(new)
  BY <1>1
<1> QED
  BY <1>3, <1>4, <1>5 DEF g, back

LEMMA SingleNodesAreCompared ==
    ASSUME NEW old, NEW new, NEW hidOld, NEW hidNew,
           Readable(old), Readable(new), Singly(old, hidOld), Singly(new, hidNew)
    PROVE  LET api == DiffPublicApi(old, new, hidOld, hidNew)
           IN  /\ {Seen(new, n) : n \in api.added} = SeenOf(new, hidNew) \ SeenOf(old, hidOld)
               /\ {Seen(old, n) : n \in api.removed} = SeenOf(old, hidOld) \ SeenOf(new, hidNew)
               /\ \A m \in api.modified : Seen(old, m.old) = Seen(new, m.new)
               /\ \A m \in Public(old, hidOld), n \in Public(new, hidNew) :
                    Seen(old, m) = Seen(new, n) /\ Node(old, m).sig # Node(new, n).sig
                      => [old |-> m, new |-> n, breaking |-> TRUE] \in api.modified
<1> DEFINE api == DiffPublicApi(old, new, hidOld, hidNew)
           was == Api(old, hidOld)
           is == Api(new, hidNew)
           both == DOMAIN was \cap DOMAIN is
           sigChanged(s) == Node(old, was[s]).sig # Node(new, is[s]).sig
           visChanged(s) == Node(old, was[s]).vis # Node(new, is[s]).vis
           breaking(s) == \/ sigChanged(s)
                          \/ /\ Node(old, was[s]).vis = "public"
                             /\ Node(new, is[s]).vis # "public"
           P == Public(old, hidOld)
           Q == Public(new, hidNew)
<1>1. /\ api.added = {is[s] : s \in DOMAIN is \ both}
      /\ api.removed = {was[s] : s \in DOMAIN was \ both}
      /\ api.modified = {[old |-> was[s], new |-> is[s], breaking |-> breaking(s)] :
                            s \in {s \in both : sigChanged(s) \/ visChanged(s)}}
  BY DEF DiffPublicApi
<1>2. /\ DOMAIN was = {SlotOf(old, n) : n \in P} /\ \A n \in P : was[SlotOf(old, n)] = n
      /\ DOMAIN is = {SlotOf(new, n) : n \in Q} /\ \A n \in Q : is[SlotOf(new, n)] = n
  BY ApiOfSingleNodes
<1>3. \A m, n : SlotOf(old, m) = SlotOf(new, n) <=> Seen(old, m) = Seen(new, n)
  BY DEF SlotOf, Seen
<1> HIDE DEF api, was, is, P, Q
<1>4. both = {SlotOf(old, m) : m \in {m \in P : \E n \in Q : Seen(old, m) = Seen(new, n)}}
  BY <1>2, <1>3
<1>5. {Seen(new, n) : n \in api.added} = SeenOf(new, hidNew) \ SeenOf(old, hidOld)
  <2>1. api.added = {n \in Q : \A m \in P : Seen(old, m) # Seen(new, n)}
    <3>1. \A n \in Q : SlotOf(new, n) \in both <=> \E m \in P : Seen(old, m) = Seen(new, n)
      BY <1>2, <1>3
    <3> HIDE DEF both
    <3> QED
      BY <3>1, <1>1, <1>2
  <2> QED
    BY <2>1 DEF SeenOf, P, Q
<1>6. {Seen(old, n) : n \in api.removed} = SeenOf(old, hidOld) \ SeenOf(new, hidNew)
  <2>1. api.removed = {m \in P : \A n \in Q : Seen(old, m) # Seen(new, n)}
    <3>1. \A m \in P : SlotOf(old, m) \in both <=> \E n \in Q : Seen(old, m) = Seen(new, n)
      BY <1>2, <1>3
    <3> HIDE DEF both
    <3> QED
      BY <3>1, <1>1, <1>2
  <2> QED
    BY <2>1 DEF SeenOf, P, Q
<1>7. ASSUME NEW x \in api.modified
      PROVE  Seen(old, x.old) = Seen(new, x.new)
  <2>1. PICK s \in both : x = [old |-> was[s], new |-> is[s], breaking |-> breaking(s)]
    <3> HIDE DEF both, breaking
    <3> QED
      BY <1>1
  <2>2. x.old = was[s] /\ x.new = is[s]
    BY <2>1
  <2>3. PICK m \in P : s = SlotOf(old, m)
    BY <1>2
  <2>4. PICK n \in Q : s = SlotOf(new, n)
    BY <1>2
  <2> QED
    BY <2>2, <2>3, <2>4, <1>2, <1>3
<1>8. ASSUME NEW m \in P, NEW n \in Q, Seen(old, m) = Seen(new, n),
             Node(old, m).sig # Node(new, n).sig
      PROVE  [old |-> m, new |-> n, breaking |-> TRUE] \in api.modified
  <2> DEFINE s == SlotOf(old, m)
  <2>1. s = SlotOf(new, n) /\ s \in both /\ was[s] = m /\ is[s] = n
    BY <1>2, <1>3, <1>8
  <2>2. sigChanged(s) /\ breaking(s) = TRUE
    BY <2>1, <1>8
  <2> HIDE DEF s, both, breaking
  <2>3. [old |-> was[s], new |-> is[s], breaking |-> breaking(s)] \in api.modified
    BY <2>1, <2>2, <1>1
  <2> QED
    BY <2>1, <2>2, <2>3
<1> QED
  BY <1>5, <1>6, <1>7, <1>8 DEF api, P, Q

LEMMA DerivedAccounts == AnswerIsDerived => DiffAccountsForAll
<1> SUFFICES ASSUME AnswerIsDerived, Is("diff")
             PROVE  DiffAccountsForAll
  BY Zenon DEF DiffAccountsForAll
<1> DEFINE old == answer.args
<1>1. /\ Readable(old) /\ Readable(graph)
      /\ answer.result.graph = DiffGraphs(old, graph)
      /\ answer.result.api = DiffPublicApi(old, graph, InTests(old), InTests(graph))
  BY QuestionsAssumption DEF AnswerIsDerived, Readable
<1>2. \A G : {n \in Nodes(G) : IsPublic(G, n, InTests(G))} = Public(G, InTests(G))
  BY DEF Public
<1>3. LET g == DiffGraphs(old, graph)
          back == DiffGraphs(graph, old)
      IN  /\ (Keys(old) \ g.removed) \cup g.added = Keys(graph)
          /\ (EdgeKeys(old) \ g.removedEdges) \cup g.addedEdges = EdgeKeys(graph)
          /\ g.modified = back.modified /\ g.removed = back.added
  BY DifferencesCancel
<1>4. Singly(old, InTests(old)) /\ Singly(graph, InTests(graph)) =>
          LET api == DiffPublicApi(old, graph, InTests(old), InTests(graph))
          IN  /\ {Seen(graph, n) : n \in api.added}
                     = SeenOf(graph, InTests(graph)) \ SeenOf(old, InTests(old))
              /\ {Seen(old, n) : n \in api.removed}
                     = SeenOf(old, InTests(old)) \ SeenOf(graph, InTests(graph))
              /\ \A m \in api.modified : Seen(old, m.old) = Seen(graph, m.new)
              /\ \A m \in Public(old, InTests(old)), n \in Public(graph, InTests(graph)) :
                   Seen(old, m) = Seen(graph, n) /\ Node(old, m).sig # Node(graph, n).sig
                     => [old |-> m, new |-> n, breaking |-> TRUE] \in api.modified
  BY <1>1, SingleNodesAreCompared
<1> HIDE DEF old
<1> QED
  BY <1>1, <1>2, <1>3, <1>4, Zenon DEF DiffAccountsForAll, Singly, SeenOf, Seen, Public, old

\* Whatever two graphs are compared: the difference leads from one to the
\* other, by nodes and by edges, and is the same read backwards; and while
\* no two public symbols of a graph look alike, no change of a signature is
\* taken for a removal and an addition.
THEOREM DifferencesAccountForAll == Spec => []DiffAccountsForAll
<1>1. Init => AnswerIsDerived
  BY InitIsDerived
<1>2. AnswerIsDerived /\ [Next]_<<vars, answer>> => AnswerIsDerived'
  BY NextKeepsTheAnswerDerived
<1>3. AnswerIsDerived => DiffAccountsForAll
  BY DerivedAccounts
<1> QED
  BY <1>1, <1>2, <1>3, PTL DEF Spec

-----------------------------------------------------------------------------
(* The slices.                                                             *)

Lined(G) ==
    \A n \in Nodes(G) : /\ First(G, n) \in Nat /\ Final(G, n) \in Nat
                        /\ First(G, n) <= Final(G, n)

LEMMA EnclosesIsOrder ==
    ASSUME NEW G, Lined(G), NEW l \in Nodes(G), NEW m \in Nodes(G), NEW n \in Nodes(G)
    PROVE  /\ Encloses(G, n, n)
           /\ Encloses(G, l, m) /\ Encloses(G, m, n) => Encloses(G, l, n)
<1>1. /\ First(G, l) \in Nat /\ Final(G, l) \in Nat
      /\ First(G, m) \in Nat /\ Final(G, m) \in Nat
      /\ First(G, n) \in Nat /\ Final(G, n) \in Nat
  BY DEF Lined
<1> QED
  BY <1>1 DEF Encloses

\* Slices that hold what was merged so far, none of them in another.
Merged(G, kept, seen) ==
    /\ kept \subseteq seen
    /\ \A n \in seen : \E m \in kept : Encloses(G, m, n)
    /\ \A m, n \in kept : m # n => ~ Encloses(G, m, n)

LEMMA MergeKeeps ==
    ASSUME NEW G, Lined(G), NEW seen, seen \subseteq Nodes(G), NEW kept, Merged(G, kept, seen),
           NEW n \in Nodes(G)
    PROVE  Merged(G, Merge(G, kept, n), seen \cup {n})
<1>1. kept \subseteq Nodes(G)
  BY DEF Merged
<1>2. CASE \E m \in kept : Encloses(G, m, n)
  BY <1>2 DEF Merged, Merge
<1>3. CASE ~ \E m \in kept : Encloses(G, m, n)
  <2> DEFINE new == {m \in kept : ~ Encloses(G, n, m)} \cup {n}
  <2>1. Merge(G, kept, n) = new
    BY <1>3 DEF Merge
  <2>2. ASSUME NEW x \in seen \cup {n}
        PROVE  \E m \in new : Encloses(G, m, x)
    <3>1. CASE x = n
      BY <3>1, EnclosesIsOrder
    <3>2. CASE x # n
      <4>1. PICK m \in kept : Encloses(G, m, x)
        BY <3>2 DEF Merged
      <4>2. CASE Encloses(G, n, m)
        <5>1. Encloses(G, n, x)
          BY <1>1, <4>1, <4>2, <3>2, EnclosesIsOrder
        <5> QED
          BY <5>1
      <4>3. CASE ~ Encloses(G, n, m)
        BY <4>1, <4>3
      <4> QED
        BY <4>2, <4>3
    <3> QED
      BY <3>1, <3>2
  <2>3. \A l, m \in new : l # m => ~ Encloses(G, l, m)
    BY <1>3 DEF Merged
  <2>4. new \subseteq seen \cup {n}
    BY DEF Merged
  <2> HIDE DEF new
  <2> QED
    BY <2>1, <2>2, <2>3, <2>4 DEF Merged
<1> QED
  BY <1>2, <1>3

LEMMA BundleMerges ==
    ASSUME NEW G, Lined(G), IsFiniteSet(Nodes(G)), Nodes(G) \subseteq Int,
           NEW items, items \subseteq Nodes(G)
    PROVE  Merged(G, Bundle(G, items), items)
<1> DEFINE key == [n \in items |-> <<First(G, n), 1000 - Final(G, n), n>>]
           sorted == ByKeys(key)
           N == Len(sorted)
           Stepped(g) == g = [k \in 0 .. N |-> IF k = 0 THEN {}
                                               ELSE Merge(G, g[k - 1], sorted[k])]
           kept == CHOOSE g : Stepped(g)
<1>1. DOMAIN key = items /\ IsFiniteSet(items)
  BY FS_Subset
<1>2. \A n \in items : key[n] \in [1 .. 3 -> Int]
  <2> TAKE n \in items
  <2>1. First(G, n) \in Int /\ 1000 - Final(G, n) \in Int /\ n \in Int
    BY DEF Lined
  <2> QED
    BY <2>1
<1>3. \A m, n \in items : key[m] = key[n] => m = n
  OBVIOUS
<1>4. /\ sorted \in Seq(items)
      /\ \A x \in items : \E i \in 1 .. N : sorted[i] = x
  <2> HIDE DEF key
  <2> QED
    BY <1>1, <1>2, <1>3, SortedIsASequence, ZenonT(30)
<1>5. Bundle(G, items) = kept[N]
  BY DEF Bundle, InOrder
<1> HIDE DEF key, sorted
<1>6. N \in Nat /\ \A k \in 1 .. N : sorted[k] \in items
  BY <1>4, LenProperties
<1> HIDE DEF N
<1>7. Stepped(kept)
  <2> DEFINE A == SUBSET items
             step == [p \in (1 .. N) \X A |-> Merge(G, p[2], sorted[p[1]])]
  <2>1. step \in [(1 .. N) \X A -> A]
    <3> SUFFICES ASSUME NEW k \in 1 .. N, NEW S \in A
                 PROVE  Merge(G, S, sorted[k]) \in A
      OBVIOUS
    <3> QED
      BY <1>6 DEF Merge
  <2>2. \A k \in 1 .. N : \A S \in A : step[<<k, S>>] = Merge(G, S, sorted[k])
    OBVIOUS
  <2>a. {} \in A
    OBVIOUS
  <2> HIDE DEF step, A
  <2>b. PICK f : Recurring(f, A, {}, N, step)
    BY <1>6, <2>1, <2>a, StepwiseExists DEF Mapping
  <2>3. f \in [0 .. N -> A] /\ f[0] = {} /\ \A k \in 1 .. N : f[k] = step[<<k, f[k - 1]>>]
    BY <2>b DEF Recurring
  <2>4. ASSUME NEW k \in 0 .. N
        PROVE  f[k] = IF k = 0 THEN {} ELSE Merge(G, f[k - 1], sorted[k])
    <3>1. CASE k = 0
      BY <2>3, <3>1
    <3>2. CASE k # 0
      <4>1. k \in 1 .. N /\ k - 1 \in 0 .. N
        BY <1>6, <3>2
      <4>2. f[k - 1] \in A
        BY <2>3, <4>1
      <4> QED
        BY <2>2, <2>3, <3>2, <4>1, <4>2
    <3> QED
      BY <3>1, <3>2
  <2>5. Stepped(f)
    BY <2>3, <2>4
  <2> QED
    BY <2>5
<1> HIDE DEF kept
<1> DEFINE Merging(k) == {sorted[i] : i \in 1 .. k}
           S == {k \in Nat : k <= N => Merged(G, kept[k], Merging(k))}
<1>8. 0 \in S
  <2>1. kept[0] = {} /\ Merging(0) = {}
    BY <1>6, <1>7
  <2> QED
    BY <2>1 DEF Merged
<1>9. ASSUME NEW k \in Nat, k \in S
      PROVE  k + 1 \in S
  <2> SUFFICES ASSUME k + 1 <= N
               PROVE  Merged(G, kept[k + 1], Merging(k + 1))
    OBVIOUS
  <2>1. k + 1 \in 0 .. N /\ k + 1 \in 1 .. N /\ k + 1 # 0 /\ (k + 1) - 1 = k
    BY <1>6
  <2>2. kept[k + 1] = Merge(G, kept[k], sorted[k + 1])
    <3> HIDE DEF Merging
    <3> QED
      BY <1>7, <2>1
  <2>3. Merging(k + 1) = Merging(k) \cup {sorted[k + 1]}
    <3>1. \A i \in 1 .. k + 1 : i \in 1 .. k \/ i = k + 1
      OBVIOUS
    <3>2. \A i \in 1 .. k : i \in 1 .. k + 1
      OBVIOUS
    <3> QED
      BY <2>1, <3>1, <3>2
  <2>4. Merging(k) \subseteq Nodes(G) /\ sorted[k + 1] \in Nodes(G)
    BY <1>6, <2>1
  <2>5. Merged(G, kept[k], Merging(k))
    BY <1>6, <1>9, <2>1
  <2> HIDE DEF Merging
  <2> QED
    BY <2>2, <2>3, <2>4, <2>5, MergeKeeps
<1>10. Merged(G, kept[N], Merging(N))
  <2>1. Nat \subseteq S
    <3> HIDE DEF S
    <3> QED
      BY <1>8, <1>9, NumbersByInduction
  <2>2. N \in S
    BY <1>6, <2>1
  <2> HIDE DEF Merging, N
  <2> QED
    BY <1>6, <2>2
<1>11. Merging(N) = items
  BY <1>4, <1>6 DEF N
<1> QED
  BY <1>5, <1>10, <1>11

-----------------------------------------------------------------------------
(* The budget.                                                             *)

LinesOf(G, n) == {n} \X (First(G, n) .. Final(G, n))

ReadLines(G, unreadable, items) ==
    UNION {LinesOf(G, n) : n \in {n \in items : Node(G, n).file \notin unreadable}}

LEMMA LinesAreCounted ==
    ASSUME NEW G, Lined(G), NEW n \in Nodes(G)
    PROVE  /\ IsFiniteSet(LinesOf(G, n))
           /\ Cardinality(LinesOf(G, n)) = Final(G, n) - First(G, n) + 1
<1> DEFINE a == First(G, n)
           b == Final(G, n)
<1>1. a \in Nat /\ b \in Nat /\ a <= b
  BY DEF Lined
<1> HIDE DEF a, b
<1>2. IsFiniteSet(a .. b) /\ Cardinality(a .. b) = b - a + 1
  <2>1. IsFiniteSet(a .. b) /\ Cardinality(a .. b) = IF a > b THEN 0 ELSE b - a + 1
    BY <1>1, FS_Interval
  <2> QED
    BY <1>1, <2>1
<1>3. IsFiniteSet({n}) /\ Cardinality({n}) = 1
  BY FS_Singleton
<1>4. IsFiniteSet({n} \X (a .. b))
      /\ Cardinality({n} \X (a .. b)) = Cardinality({n}) * Cardinality(a .. b)
  BY <1>2, <1>3, FS_Product
<1>5. Cardinality({n} \X (a .. b)) = b - a + 1
  BY <1>1, <1>2, <1>3, <1>4
<1> QED
  BY <1>4, <1>5 DEF LinesOf, a, b

LEMMA ReadLinesAreFinite ==
    ASSUME NEW G, Lined(G), IsFiniteSet(Nodes(G)), NEW unreadable,
           NEW items, items \subseteq Nodes(G)
    PROVE  IsFiniteSet(ReadLines(G, unreadable, items))
<1> DEFINE readable == {n \in items : Node(G, n).file \notin unreadable}
           lines == [n \in readable |-> LinesOf(G, n)]
<1>1. IsFiniteSet(readable)
  <2>1. readable \subseteq Nodes(G)
    OBVIOUS
  <2> QED
    BY <2>1, FS_Subset
<1>2. lines = [n \in readable |-> lines[n]]
  OBVIOUS
<1>3. \A n \in readable : lines[n] = LinesOf(G, n) /\ IsFiniteSet(lines[n])
  BY LinesAreCounted
<1>4. ReadLines(G, unreadable, items) = UNION {lines[n] : n \in readable}
  BY DEF ReadLines
<1> HIDE DEF readable, lines
<1>5. IsFiniteSet({lines[n] : n \in readable})
  BY <1>1, <1>2, FiniteImage
<1>6. IsFiniteSet(UNION {lines[n] : n \in readable})
  <2> DEFINE T == {lines[n] : n \in readable}
  <2>1. \A t \in T : IsFiniteSet(t)
    BY <1>3
  <2> HIDE DEF T
  <2>2. IsFiniteSet(UNION T)
    BY <1>5, <2>1, FS_UNION DEF T
  <2> QED
    BY <2>2 DEF T
<1> QED
  BY <1>4, <1>6

LEMMA SpentAddsUp ==
    ASSUME NEW G, Lined(G), IsFiniteSet(Nodes(G)), NEW unreadable,
           NEW items, items \subseteq Nodes(G), NEW n \in Nodes(G), n \notin items
    PROVE  Spent(G, unreadable, items \cup {n})
             = Spent(G, unreadable, items) + Cost(G, unreadable, n)
<1> DEFINE R(S) == ReadLines(G, unreadable, S)
<1>1. IsFiniteSet(R(items)) /\ Cardinality(R(items)) \in Nat
  BY ReadLinesAreFinite, FS_CardinalityType
<1>2. \A S : Spent(G, unreadable, S) = Cardinality(R(S))
  BY DEF Spent, ReadLines, LinesOf
<1>3. CASE Node(G, n).file \in unreadable
  <2>1. R(items \cup {n}) = R(items)
    BY <1>3 DEF ReadLines
  <2>2. Cost(G, unreadable, n) = 0
    BY <1>3 DEF Cost
  <2> HIDE DEF R
  <2> QED
    BY <1>1, <1>2, <2>1, <2>2
<1>4. CASE Node(G, n).file \notin unreadable
  <2>1. R(items \cup {n}) = R(items) \cup LinesOf(G, n)
    BY <1>4 DEF ReadLines
  <2>2. R(items) \cap LinesOf(G, n) = {}
    BY DEF ReadLines, LinesOf
  <2>3. Cost(G, unreadable, n) = Final(G, n) - First(G, n) + 1
    BY <1>4 DEF Cost
  <2>4. IsFiniteSet(LinesOf(G, n)) /\ Cardinality(LinesOf(G, n)) = Cost(G, unreadable, n)
    BY <2>3, LinesAreCounted
  <2> HIDE DEF R
  <2>5. Cardinality(R(items) \cup LinesOf(G, n))
          = Cardinality(R(items)) + Cardinality(LinesOf(G, n))
              - Cardinality(R(items) \cap LinesOf(G, n))
    BY <1>1, <2>4, FS_Union
  <2>6. Cardinality(LinesOf(G, n)) \in Nat
    BY <2>4, FS_CardinalityType
  <2>7. Cardinality(R(items) \cap LinesOf(G, n)) = 0
    BY <2>2, FS_EmptySet
  <2>8. Cardinality(R(items \cup {n})) = Cardinality(R(items)) + Cost(G, unreadable, n)
    <3>1. Cardinality(R(items) \cup LinesOf(G, n))
            = Cardinality(R(items)) + Cardinality(LinesOf(G, n))
      BY <1>1, <2>5, <2>6, <2>7
    <3> QED
      BY <2>1, <2>4, <3>1
  <2> QED
    BY <1>2, <2>8
<1> QED
  BY <1>3, <1>4

LEMMA SpentGrows ==
    ASSUME NEW G, Lined(G), IsFiniteSet(Nodes(G)), NEW unreadable,
           NEW items, items \subseteq Nodes(G), NEW some, some \subseteq items
    PROVE  /\ Spent(G, unreadable, items) \in Nat
           /\ Spent(G, unreadable, some) <= Spent(G, unreadable, items)
           /\ Spent(G, unreadable, {}) = 0
<1> DEFINE R(S) == ReadLines(G, unreadable, S)
<1>1. IsFiniteSet(R(items)) /\ Cardinality(R(items)) \in Nat
  BY ReadLinesAreFinite, FS_CardinalityType
<1>2. \A S : Spent(G, unreadable, S) = Cardinality(R(S))
  BY DEF Spent, ReadLines, LinesOf
<1>3. R(some) \subseteq R(items)
  BY DEF ReadLines
<1>4. R({}) = {}
  BY DEF ReadLines
<1> HIDE DEF R
<1>5. Cardinality(R(some)) <= Cardinality(R(items))
  BY <1>1, <1>3, FS_Subset
<1>6. Cardinality(R({})) = 0
  BY <1>4, FS_EmptySet
<1> QED
  BY <1>1, <1>2, <1>5, <1>6

\* What was taken of the items seen: it fits, and what was left did not.
Fitting(G, unreadable, limit, taken, seen) ==
    /\ taken.items \subseteq seen
    /\ taken.used = Spent(G, unreadable, taken.items)
    /\ taken.used <= limit \/ Cardinality(taken.items) = 1
    /\ \A n \in seen : n \in taken.items \/ taken.used + Cost(G, unreadable, n) > limit

LEMMA CostIsNumber ==
    ASSUME NEW G, Lined(G), NEW unreadable, NEW n \in Nodes(G)
    PROVE  Cost(G, unreadable, n) \in Nat
<1>1. First(G, n) \in Nat /\ Final(G, n) \in Nat /\ First(G, n) <= Final(G, n)
  BY DEF Lined
<1> QED
  BY <1>1 DEF Cost

LEMMA TakeKeeps ==
    ASSUME NEW G, Lined(G), IsFiniteSet(Nodes(G)), NEW unreadable, NEW limit \in Nat,
           NEW seen, seen \subseteq Nodes(G), NEW taken,
           Fitting(G, unreadable, limit, taken, seen), NEW n \in Nodes(G), n \notin seen
    PROVE  Fitting(G, unreadable, limit, Take(G, taken, n, unreadable, limit), seen \cup {n})
<1> DEFINE cost(m) == Cost(G, unreadable, m)
<1>1. taken.items \subseteq Nodes(G) /\ n \notin taken.items
  BY DEF Fitting
<1>2. taken.used \in Nat /\ taken.used = Spent(G, unreadable, taken.items)
  BY <1>1, SpentGrows DEF Fitting
<1>3. \A m \in Nodes(G) : cost(m) \in Nat
  BY CostIsNumber
<1>4. CASE taken.used + cost(n) <= limit \/ taken.items = {}
  <2> DEFINE new == [items |-> taken.items \cup {n}, used |-> taken.used + cost(n)]
  <2>1. Take(G, taken, n, unreadable, limit) = new
    BY <1>4 DEF Take
  <2>2. new.items = taken.items \cup {n} /\ new.used = taken.used + cost(n)
    OBVIOUS
  <2> HIDE DEF new
  <2>3. new.items \subseteq seen \cup {n}
    BY <2>2 DEF Fitting
  <2>4. new.used = Spent(G, unreadable, new.items)
    BY <1>1, <1>2, <2>2, SpentAddsUp
  <2>5. new.used <= limit \/ Cardinality(new.items) = 1
    <3>1. CASE taken.items = {}
      <4>1. new.items = {n}
        BY <2>2, <3>1
      <4> QED
        BY <4>1, FS_Singleton
    <3>2. CASE taken.items # {}
      BY <1>4, <2>2, <3>2
    <3> QED
      BY <3>1, <3>2
  <2>6. ASSUME NEW m \in seen \cup {n}
        PROVE  m \in new.items \/ new.used + cost(m) > limit
    <3>1. CASE m \in new.items
      BY <3>1
    <3>2. CASE m \notin new.items
      <4>1. m \in seen /\ m \notin taken.items
        BY <2>2, <3>2
      <4>2. taken.used + cost(m) > limit
        BY <4>1 DEF Fitting
      <4>3. cost(m) \in Nat /\ cost(n) \in Nat
        BY <1>3, <4>1
      <4> HIDE DEF cost
      <4> QED
        BY <1>2, <2>2, <4>2, <4>3
    <3> QED
      BY <3>1, <3>2
  <2> QED
    BY <2>1, <2>3, <2>4, <2>5, <2>6 DEF Fitting
<1>5. CASE ~ (taken.used + cost(n) <= limit \/ taken.items = {})
  <2>1. Take(G, taken, n, unreadable, limit) = taken
    BY <1>5 DEF Take
  <2>2. taken.used + cost(n) > limit
    <3>1. cost(n) \in Nat
      BY <1>3
    <3> HIDE DEF cost
    <3> QED
      BY <1>2, <1>5, <3>1
  <2> QED
    BY <2>1, <2>2 DEF Fitting
<1> QED
  BY <1>4, <1>5

LEMMA AllocationFits ==
    ASSUME NEW G, Lined(G), IsFiniteSet(Nodes(G)), NEW unreadable, NEW limit \in Nat,
           NEW N \in Nat, NEW ranked, Len(ranked) = N,
           \A i \in 1 .. N : ranked[i].node \in Nodes(G),
           \A i, j \in 1 .. N : ranked[i].node = ranked[j].node => i = j,
           NEW seen, seen = {ranked[i].node : i \in 1 .. N}
    PROVE  Fitting(G, unreadable, limit, Allocate(G, ranked, unreadable, limit), seen)
<1> DEFINE Stepped(g) == g = [k \in 0 .. N |->
                                IF k = 0 THEN [items |-> {}, used |-> 0]
                                ELSE Take(G, g[k - 1], ranked[k].node, unreadable, limit)]
           taken == CHOOSE g : Stepped(g)
           nothing == [items |-> {}, used |-> 0]
<1>1. Allocate(G, ranked, unreadable, limit) = taken[N]
  BY DEF Allocate
<1>2. \A n \in Nodes(G) : Cost(G, unreadable, n) \in Nat
  BY CostIsNumber
<1>3. Stepped(taken)
  <2> DEFINE A == [items : SUBSET Nodes(G), used : Nat]
             step == [p \in (1 .. N) \X A |-> Take(G, p[2], ranked[p[1]].node, unreadable, limit)]
  <2>1. step \in [(1 .. N) \X A -> A]
    <3> SUFFICES ASSUME NEW k \in 1 .. N, NEW t \in A
                 PROVE  Take(G, t, ranked[k].node, unreadable, limit) \in A
      OBVIOUS
    <3>1. ranked[k].node \in Nodes(G) /\ Cost(G, unreadable, ranked[k].node) \in Nat
      BY <1>2
    <3> QED
      BY <3>1 DEF Take
  <2>2. \A k \in 1 .. N : \A t \in A :
           step[<<k, t>>] = Take(G, t, ranked[k].node, unreadable, limit)
    OBVIOUS
  <2>a. nothing \in A
    OBVIOUS
  <2> HIDE DEF step, A, nothing
  <2>b. PICK f : Recurring(f, A, nothing, N, step)
    BY <2>1, <2>a, StepwiseExists DEF Mapping
  <2>3. /\ f \in [0 .. N -> A] /\ f[0] = nothing
        /\ \A k \in 1 .. N : f[k] = step[<<k, f[k - 1]>>]
    BY <2>b DEF Recurring
  <2>4. ASSUME NEW k \in 0 .. N
        PROVE  f[k] = IF k = 0 THEN nothing
                      ELSE Take(G, f[k - 1], ranked[k].node, unreadable, limit)
    <3>1. CASE k = 0
      BY <2>3, <3>1
    <3>2. CASE k # 0
      <4>1. k \in 1 .. N /\ k - 1 \in 0 .. N
        BY <3>2
      <4>2. f[k - 1] \in A
        BY <2>3, <4>1
      <4> QED
        BY <2>2, <2>3, <3>2, <4>1, <4>2
    <3> QED
      BY <3>1, <3>2
  <2>5. Stepped(f)
    BY <2>3, <2>4 DEF nothing
  <2> HIDE DEF Stepped
  <2> QED
    BY <2>5
<1> HIDE DEF taken
<1> DEFINE Ranked(k) == {ranked[i].node : i \in 1 .. k}
           S == {k \in Nat : k <= N => Fitting(G, unreadable, limit, taken[k], Ranked(k))}
<1>8. 0 \in S
  <2>1. taken[0] = nothing
    BY <1>3
  <2>2. Ranked(0) = {}
    OBVIOUS
  <2>3. Spent(G, unreadable, {}) = 0
    BY SpentGrows
  <2>4. nothing.items = {} /\ nothing.used = 0
    OBVIOUS
  <2> HIDE DEF nothing
  <2>5. Fitting(G, unreadable, limit, nothing, {})
    BY <2>3, <2>4 DEF Fitting
  <2> QED
    BY <2>1, <2>2, <2>5
<1>9. ASSUME NEW k \in Nat, k \in S
      PROVE  k + 1 \in S
  <2> SUFFICES ASSUME k + 1 <= N
               PROVE  Fitting(G, unreadable, limit, taken[k + 1], Ranked(k + 1))
    OBVIOUS
  <2>1. k + 1 \in 0 .. N /\ k + 1 \in 1 .. N /\ k + 1 # 0 /\ (k + 1) - 1 = k /\ k <= N
    OBVIOUS
  <2> DEFINE n == ranked[k + 1].node
  <2>2. taken[k + 1] = Take(G, taken[k], n, unreadable, limit)
    <3> HIDE DEF Ranked
    <3> QED
      BY <1>3, <2>1
  <2>3. Ranked(k + 1) = Ranked(k) \cup {n}
    <3>1. \A i \in 1 .. k + 1 : i \in 1 .. k \/ i = k + 1
      OBVIOUS
    <3>2. \A i \in 1 .. k : i \in 1 .. k + 1
      OBVIOUS
    <3> QED
      BY <2>1, <3>1, <3>2
  <2>4. Ranked(k) \subseteq Nodes(G) /\ n \in Nodes(G)
    BY <2>1
  <2>5. n \notin Ranked(k)
    <3>1. \A i \in 1 .. k : i \in 1 .. N /\ i # k + 1
      BY <2>1
    <3> QED
      BY <2>1, <3>1
  <2>6. Fitting(G, unreadable, limit, taken[k], Ranked(k))
    BY <1>9, <2>1
  <2> HIDE DEF Ranked, n
  <2> QED
    BY <2>2, <2>3, <2>4, <2>5, <2>6, TakeKeeps
<1>10. Fitting(G, unreadable, limit, taken[N], Ranked(N))
  <2>1. Nat \subseteq S
    <3> HIDE DEF S
    <3> QED
      BY <1>8, <1>9, NumbersByInduction
  <2>2. N \in S
    BY <2>1
  <2> HIDE DEF Ranked
  <2> QED
    BY <2>2
<1> QED
  BY <1>1, <1>10

-----------------------------------------------------------------------------
(* What a candidate leads to.                                              *)

Roles == {"seed", "container", "callee", "caller", "test", "indirect", "implementation", "type"}

Candidates(G) == [node : Nodes(G), role : Roles, depth : Nat, queued : BOOLEAN]

OrderOf(G, number, e) == <<number>> \o EdgeKey(G, e)

LEMMA EdgeOrders ==
    ASSUME NEW G, IsGraph(G), NEW m \in Nat, NEW n \in Nat, NEW e \in G.edges, NEW f \in G.edges
    PROVE  /\ OrderOf(G, m, e) \in [1 .. 4 -> Int]
           /\ OrderOf(G, m, e) = OrderOf(G, n, f) =>
                m = n /\ e.kind = f.kind /\ e.from = f.from /\ e.to = f.to
<1>1. \A x \in DOMAIN KindCode : KindCode[x] \in Nat
  BY DEF KindCode
<1>2. \A x, y \in DOMAIN KindCode : KindCode[x] = KindCode[y] => x = y
  BY DEF KindCode
<1>3. /\ e.kind \in DOMAIN KindCode /\ e.from \in Nodes(G) /\ e.to \in Nodes(G)
      /\ f.kind \in DOMAIN KindCode /\ f.from \in Nodes(G) /\ f.to \in Nodes(G)
  BY DEF IsGraph
<1>4. \A x \in Nodes(G) : G.ids[x] \in Nat /\ \A y \in Nodes(G) : G.ids[y] = G.ids[x] => y = x
  BY DEF IsGraph
<1>5. ASSUME NEW a, NEW b, NEW c, NEW d
      PROVE  <<a>> \o <<b, c, d>> = <<a, b, c, d>>
  <2> DEFINE S == {a, b, c, d}
             s == <<a>>
             t == <<b, c, d>>
             u == <<a, b, c, d>>
  <2>1. /\ s \in Seq(S) /\ Len(s) = 1 /\ s[1] = a
        /\ t \in Seq(S) /\ Len(t) = 3 /\ t[1] = b /\ t[2] = c /\ t[3] = d
        /\ u \in Seq(S) /\ Len(u) = 4 /\ u[1] = a /\ u[2] = b /\ u[3] = c /\ u[4] = d
    OBVIOUS
  <2> HIDE DEF S, s, t, u
  <2>r. PICK r : r = s \o t
    OBVIOUS
  <2>2. /\ r \in Seq(S) /\ Len(r) = Len(s) + Len(t)
        /\ \A i \in 1 .. Len(s) + Len(t) : r[i] = IF i <= Len(s) THEN s[i] ELSE t[i - Len(s)]
    BY <2>1, <2>r, ConcatProperties, Zenon
  <2>x. \A i \in 1 .. 1 + 3 : r[i] = IF i <= 1 THEN s[i] ELSE t[i - 1]
    BY <2>1, <2>2
  <2>3. r[1] = s[1] /\ r[2] = t[1] /\ r[3] = t[2] /\ r[4] = t[3]
    BY <2>x
  <2>4. \A i \in 1 .. Len(u) : r[i] = u[i]
    BY <2>1, <2>3
  <2>y. Len(r) = Len(u)
    BY <2>1, <2>2
  <2>5. s \o t = u
    BY <2>1, <2>2, <2>4, <2>r, <2>y, SeqEqual
  <2> QED
    BY <2>5 DEF s, t, u
<1>6. /\ OrderOf(G, m, e) = <<m, KindCode[e.kind], G.ids[e.from], G.ids[e.to]>>
      /\ OrderOf(G, n, f) = <<n, KindCode[f.kind], G.ids[f.from], G.ids[f.to]>>
  BY <1>5 DEF OrderOf, EdgeKey
<1>7. <<m, KindCode[e.kind], G.ids[e.from], G.ids[e.to]>> \in [1 .. 4 -> Int]
  <2>1. KindCode[e.kind] \in Int /\ G.ids[e.from] \in Int /\ G.ids[e.to] \in Int
    BY <1>1, <1>3, <1>4
  <2> QED
    BY <2>1
<1>8. ASSUME <<m, KindCode[e.kind], G.ids[e.from], G.ids[e.to]>>
               = <<n, KindCode[f.kind], G.ids[f.from], G.ids[f.to]>>
      PROVE  m = n /\ e.kind = f.kind /\ e.from = f.from /\ e.to = f.to
  <2>1. /\ m = n /\ KindCode[e.kind] = KindCode[f.kind]
        /\ G.ids[e.from] = G.ids[f.from] /\ G.ids[e.to] = G.ids[f.to]
    BY <1>8
  <2> QED
    BY <2>1, <1>2, <1>3, <1>4
<1> QED
  BY <1>6, <1>7, <1>8

LEMMA PassIsFinite ==
    ASSUME NEW G, IsGraph(G), NEW edges, edges \subseteq G.edges, NEW number, NEW end, NEW role
    PROVE  IsFiniteSet(Pass(G, edges, number, end, role))
<1> DEFINE f == [e \in edges |-> [to |-> e[end], role |-> role,
                                  order |-> <<number>> \o EdgeKey(G, e)]]
<1>1. IsFiniteSet(edges)
  BY FS_Subset DEF IsGraph
<1>2. f = [e \in edges |-> f[e]]
  OBVIOUS
<1>3. Pass(G, edges, number, end, role) = {f[e] : e \in edges}
  BY DEF Pass
<1> HIDE DEF f
<1> QED
  BY <1>1, <1>2, <1>3, FiniteImage

\* The edges a node is looked at by, as Related names them.
OutBy(G, n, kinds) == {e \in G.edges : e.from = n /\ e.kind \in kinds}
InBy(G, n, kinds) == {e \in G.edges : e.to = n /\ e.kind \in kinds}
TestCalls(G, n) ==
    {e \in InBy(G, n, {"calls"}) : \/ TestishPath(Node(G, e.from).file)
                                   \/ TestName(Node(G, e.from).name)}
ToTypes(G, n) ==
    {e \in OutBy(G, n, {"imports", "calls"}) : Node(G, e.to).kind \in TypeNodes}
Near(depth, role) == IF depth = 0 THEN role ELSE "indirect"

LEMMA RelatedByPasses ==
    ASSUME NEW G, NEW n, NEW depth
    PROVE  Related(G, n, depth) =
             Pass(G, InBy(G, n, {"contains"}), 1, "from", "container")
               \cup Pass(G, OutBy(G, n, {"calls"}), 2, "to", Near(depth, "callee"))
               \cup Pass(G, InBy(G, n, {"calls"}) \ TestCalls(G, n), 3, "from", Near(depth, "caller"))
               \cup Pass(G, TestCalls(G, n), 3, "from", "test")
               \cup Pass(G, OutBy(G, n, {"implements", "inherits"}), 4, "to", "implementation")
               \cup Pass(G, InBy(G, n, {"implements", "inherits"}), 4, "from", "implementation")
               \cup Pass(G, ToTypes(G, n), 5, "to", "type")
BY DEF Related, OutBy, InBy, TestCalls, ToTypes, Near

\* A related node is named by an edge and the number of a pass.
ToBy(n, e, number) ==
    IF number \in {1, 3} \/ (number = 4 /\ e.from # n) THEN e.from ELSE e.to

RoleBy(G, depth, e, number) ==
    IF number = 1 THEN "container"
    ELSE IF number = 2 THEN Near(depth, "callee")
    ELSE IF number = 3
    THEN IF TestishPath(Node(G, e.from).file) \/ TestName(Node(G, e.from).name)
         THEN "test" ELSE Near(depth, "caller")
    ELSE IF number = 4 THEN "implementation"
    ELSE "type"

Named(G, n, depth, x, e, number) ==
    x = [to |-> ToBy(n, e, number), role |-> RoleBy(G, depth, e, number),
         order |-> OrderOf(G, number, e)]

LEMMA RelatedIsNamed ==
    ASSUME NEW G, IsGraph(G), NEW n, NEW depth, NEW x \in Related(G, n, depth)
    PROVE  \E e \in G.edges, number \in Nat : Named(G, n, depth, x, e, number)
<1>1. CASE x \in Pass(G, InBy(G, n, {"contains"}), 1, "from", "container")
  <2>1. PICK e \in InBy(G, n, {"contains"}) :
          x = [to |-> e.from, role |-> "container", order |-> <<1>> \o EdgeKey(G, e)]
    BY <1>1 DEF Pass
  <2>2. e \in G.edges /\ e.to = n
    BY DEF InBy
  <2>4. ToBy(n, e, 1) = x.to /\ RoleBy(G, depth, e, 1) = x.role
    BY <2>1, <2>2 DEF ToBy, RoleBy
  <2>5. Named(G, n, depth, x, e, 1)
    BY <2>1, <2>4 DEF Named, OrderOf
  <2> QED
    BY <2>2, <2>5
<1>2. CASE x \in Pass(G, OutBy(G, n, {"calls"}), 2, "to", Near(depth, "callee"))
  <2>1. PICK e \in OutBy(G, n, {"calls"}) :
          x = [to |-> e.to, role |-> Near(depth, "callee"), order |-> <<2>> \o EdgeKey(G, e)]
    BY <1>2 DEF Pass
  <2>2. e \in G.edges /\ e.from = n
    BY DEF OutBy
  <2>4. ToBy(n, e, 2) = x.to /\ RoleBy(G, depth, e, 2) = x.role
    BY <2>1, <2>2 DEF ToBy, RoleBy
  <2>5. Named(G, n, depth, x, e, 2)
    BY <2>1, <2>4 DEF Named, OrderOf
  <2> QED
    BY <2>2, <2>5
<1>3. CASE x \in Pass(G, InBy(G, n, {"calls"}) \ TestCalls(G, n), 3, "from", Near(depth, "caller"))
  <2>1. PICK e \in InBy(G, n, {"calls"}) \ TestCalls(G, n) :
          x = [to |-> e.from, role |-> Near(depth, "caller"), order |-> <<3>> \o EdgeKey(G, e)]
    BY <1>3 DEF Pass
  <2>2. e \in G.edges /\ e.to = n
    BY DEF InBy
  <2>3. ~ (TestishPath(Node(G, e.from).file) \/ TestName(Node(G, e.from).name))
    BY DEF TestCalls
  <2>4. ToBy(n, e, 3) = x.to /\ RoleBy(G, depth, e, 3) = x.role
    BY <2>1, <2>2, <2>3 DEF ToBy, RoleBy
  <2>5. Named(G, n, depth, x, e, 3)
    BY <2>1, <2>4 DEF Named, OrderOf
  <2> QED
    BY <2>2, <2>5
<1>4. CASE x \in Pass(G, TestCalls(G, n), 3, "from", "test")
  <2>1. PICK e \in TestCalls(G, n) :
          x = [to |-> e.from, role |-> "test", order |-> <<3>> \o EdgeKey(G, e)]
    BY <1>4 DEF Pass
  <2>2. e \in G.edges /\ e.to = n
    BY DEF InBy, TestCalls
  <2>3. TestishPath(Node(G, e.from).file) \/ TestName(Node(G, e.from).name)
    BY DEF TestCalls
  <2>4. ToBy(n, e, 3) = x.to /\ RoleBy(G, depth, e, 3) = x.role
    BY <2>1, <2>2, <2>3 DEF ToBy, RoleBy
  <2>5. Named(G, n, depth, x, e, 3)
    BY <2>1, <2>4 DEF Named, OrderOf
  <2> QED
    BY <2>2, <2>5
<1>5. CASE x \in Pass(G, OutBy(G, n, {"implements", "inherits"}), 4, "to", "implementation")
  <2>1. PICK e \in OutBy(G, n, {"implements", "inherits"}) :
          x = [to |-> e.to, role |-> "implementation", order |-> <<4>> \o EdgeKey(G, e)]
    BY <1>5 DEF Pass
  <2>2. e \in G.edges /\ e.from = n
    BY DEF OutBy
  <2>4. ToBy(n, e, 4) = x.to /\ RoleBy(G, depth, e, 4) = x.role
    BY <2>1, <2>2 DEF ToBy, RoleBy
  <2>5. Named(G, n, depth, x, e, 4)
    BY <2>1, <2>4 DEF Named, OrderOf
  <2> QED
    BY <2>2, <2>5
<1>6. CASE x \in Pass(G, InBy(G, n, {"implements", "inherits"}), 4, "from", "implementation")
  <2>1. PICK e \in InBy(G, n, {"implements", "inherits"}) :
          x = [to |-> e.from, role |-> "implementation", order |-> <<4>> \o EdgeKey(G, e)]
    BY <1>6 DEF Pass
  <2>2. e \in G.edges /\ e.to = n
    BY DEF InBy
  <2>4. ToBy(n, e, 4) = x.to /\ RoleBy(G, depth, e, 4) = x.role
    BY <2>1, <2>2 DEF ToBy, RoleBy
  <2>5. Named(G, n, depth, x, e, 4)
    BY <2>1, <2>4 DEF Named, OrderOf
  <2> QED
    BY <2>2, <2>5
<1>7. CASE x \in Pass(G, ToTypes(G, n), 5, "to", "type")
  <2>1. PICK e \in ToTypes(G, n) :
          x = [to |-> e.to, role |-> "type", order |-> <<5>> \o EdgeKey(G, e)]
    BY <1>7 DEF Pass
  <2>2. e \in G.edges /\ e.from = n
    BY DEF OutBy, ToTypes
  <2>4. ToBy(n, e, 5) = x.to /\ RoleBy(G, depth, e, 5) = x.role
    BY <2>1, <2>2 DEF ToBy, RoleBy
  <2>5. Named(G, n, depth, x, e, 5)
    BY <2>1, <2>4 DEF Named, OrderOf
  <2> QED
    BY <2>2, <2>5
<1> QED
  BY <1>1, <1>2, <1>3, <1>4, <1>5, <1>6, <1>7, RelatedByPasses

LEMMA RelatedIsTyped ==
    ASSUME NEW G, IsGraph(G), NEW n, NEW depth
    PROVE  /\ IsFiniteSet(Related(G, n, depth))
           /\ \A x \in Related(G, n, depth) :
                x.to \in Nodes(G) /\ x.role \in Roles /\ x.order \in [1 .. 4 -> Int]
           /\ \A x, y \in Related(G, n, depth) : x.order = y.order => x = y
<1>1. IsFiniteSet(Related(G, n, depth))
  <2>1. /\ InBy(G, n, {"contains"}) \subseteq G.edges
        /\ OutBy(G, n, {"calls"}) \subseteq G.edges
        /\ InBy(G, n, {"calls"}) \ TestCalls(G, n) \subseteq G.edges
        /\ TestCalls(G, n) \subseteq G.edges
        /\ OutBy(G, n, {"implements", "inherits"}) \subseteq G.edges
        /\ InBy(G, n, {"implements", "inherits"}) \subseteq G.edges
        /\ ToTypes(G, n) \subseteq G.edges
    BY DEF InBy, OutBy, TestCalls, ToTypes
  <2>2. /\ IsFiniteSet(Pass(G, InBy(G, n, {"contains"}), 1, "from", "container"))
        /\ IsFiniteSet(Pass(G, OutBy(G, n, {"calls"}), 2, "to", Near(depth, "callee")))
        /\ IsFiniteSet(Pass(G, InBy(G, n, {"calls"}) \ TestCalls(G, n), 3, "from",
                            Near(depth, "caller")))
        /\ IsFiniteSet(Pass(G, TestCalls(G, n), 3, "from", "test"))
        /\ IsFiniteSet(Pass(G, OutBy(G, n, {"implements", "inherits"}), 4, "to", "implementation"))
        /\ IsFiniteSet(Pass(G, InBy(G, n, {"implements", "inherits"}), 4, "from",
                            "implementation"))
        /\ IsFiniteSet(Pass(G, ToTypes(G, n), 5, "to", "type"))
    BY <2>1, PassIsFinite
  <2> QED
    BY <2>2, RelatedByPasses, FS_Union
<1>2. ASSUME NEW x \in Related(G, n, depth)
      PROVE  x.to \in Nodes(G) /\ x.role \in Roles /\ x.order \in [1 .. 4 -> Int]
  <2>1. PICK e \in G.edges, number \in Nat : Named(G, n, depth, x, e, number)
    BY RelatedIsNamed
  <2>2. /\ x.to = ToBy(n, e, number) /\ x.role = RoleBy(G, depth, e, number)
        /\ x.order = OrderOf(G, number, e)
    BY <2>1 DEF Named
  <2>3. x.order \in [1 .. 4 -> Int]
    <3>1. OrderOf(G, number, e) \in [1 .. 4 -> Int]
      BY EdgeOrders
    <3> QED
      BY <2>2, <3>1
  <2>4. x.to \in Nodes(G)
    BY <2>2 DEF IsGraph, ToBy
  <2>5. x.role \in Roles
    BY <2>2 DEF Roles, Near, RoleBy
  <2> QED
    BY <2>3, <2>4, <2>5
<1>3. ASSUME NEW x \in Related(G, n, depth), NEW y \in Related(G, n, depth), x.order = y.order
      PROVE  x = y
  <2>1. PICK e \in G.edges, number \in Nat : Named(G, n, depth, x, e, number)
    BY RelatedIsNamed
  <2>2. PICK f \in G.edges, other \in Nat : Named(G, n, depth, y, f, other)
    BY RelatedIsNamed
  <2>3. x.order = OrderOf(G, number, e) /\ y.order = OrderOf(G, other, f)
    BY <2>1, <2>2 DEF Named
  <2>0. OrderOf(G, number, e) = OrderOf(G, other, f)
    BY <1>3, <2>3
  <2>4. number = other /\ e.from = f.from /\ e.to = f.to
    <3>1. OrderOf(G, number, e) = OrderOf(G, other, f) =>
            number = other /\ e.kind = f.kind /\ e.from = f.from /\ e.to = f.to
      BY EdgeOrders
    <3> QED
      BY <2>0, <3>1
  <2>5. ToBy(n, e, number) = ToBy(n, f, other)
    BY <2>4 DEF ToBy
  <2>6. RoleBy(G, depth, e, number) = RoleBy(G, depth, f, other)
    BY <2>4, Zenon DEF RoleBy
  <2>7. OrderOf(G, number, e) = OrderOf(G, other, f)
    BY <1>3, <2>3
  <2> QED
    BY <2>1, <2>2, <2>5, <2>6, <2>7 DEF Named
<1> QED
  BY <1>1, <1>2, <1>3

Distinct(s) == \A i, j \in 1 .. Len(s) : s[i].node = s[j].node => i = j

LEMMA FreshIsOrdered ==
    ASSUME NEW G, IsGraph(G), NEW sofar, NEW n, NEW depth
    PROVE  LET related == Related(G, n, depth)
               fresh == Fresh(sofar, related)
           IN  /\ IsFiniteSet(fresh) /\ fresh \subseteq related
               /\ \A x \in fresh : x.order \in [1 .. 4 -> Int]
               /\ \A x, y \in fresh : x.order = y.order => x = y
               /\ \A x, y \in fresh : x.to = y.to => x = y
               /\ \A x \in related : \/ \E i \in DOMAIN sofar : sofar[i].node = x.to
                                     \/ \E y \in fresh : y.to = x.to
<1> DEFINE related == Related(G, n, depth)
           fresh == Fresh(sofar, related)
<1>1. /\ IsFiniteSet(related)
      /\ \A x \in related : x.order \in [1 .. 4 -> Int]
      /\ \A x, y \in related : x.order = y.order => x = y
  BY RelatedIsTyped
<1> HIDE DEF related
<1>2. fresh \subseteq related /\ IsFiniteSet(fresh)
  <2>1. fresh \subseteq related
    BY DEF Fresh
  <2> HIDE DEF fresh
  <2> QED
    BY <1>1, <2>1, FS_Subset
<1>3. ASSUME NEW x \in fresh, NEW y \in fresh, x.to = y.to
      PROVE  x = y
  <2>1. ~ Before(x.order, y.order) /\ ~ Before(y.order, x.order)
    BY <1>2, <1>3 DEF Fresh
  <2>2. x.order \in [1 .. 4 -> Int] /\ y.order \in [1 .. 4 -> Int] /\ 4 \in Nat
    BY <1>1, <1>2
  <2>3. x.order = y.order
    BY <2>1, <2>2, BeforeIsOrder
  <2> QED
    BY <1>1, <1>2, <2>3
<1>4. ASSUME NEW x \in related, ~ \E i \in DOMAIN sofar : sofar[i].node = x.to
      PROVE  \E y \in fresh : y.to = x.to
  <2> DEFINE same == {y \in related : y.to = x.to}
             key == [y \in same |-> y.order]
  <2>1. same \subseteq related /\ x \in same
    OBVIOUS
  <2>2. IsFiniteSet(same)
    BY <1>1, <2>1, FS_Subset
  <2>3. /\ DOMAIN key = same /\ 4 \in Nat
        /\ \A y \in same : key[y] = y.order /\ key[y] \in [1 .. 4 -> Int]
        /\ \A y, z \in same : key[y] = key[z] => y = z
    BY <1>1, <2>1
  <2> HIDE DEF same, key
  <2>4. /\ Cardinality(same) \in Nat
        /\ ByKeys(key) \in [1 .. Cardinality(same) -> same]
        /\ \A i, j \in 1 .. Cardinality(same) :
             i < j => Before(key[ByKeys(key)[i]], key[ByKeys(key)[j]])
        /\ \A y \in same : \E i \in 1 .. Cardinality(same) : ByKeys(key)[i] = y
    BY <2>2, <2>3, SortedByKeys, ZenonT(30)
  <2> DEFINE o == ByKeys(key)
             m == Cardinality(same)
  <2> HIDE DEF o, m
  <2>5. m \in Nat /\ o \in [1 .. m -> same] /\ 1 \in 1 .. m
    <3>1. \E i \in 1 .. m : o[i] = x
      BY <2>1, <2>4 DEF o, m
    <3> QED
      BY <2>4, <3>1 DEF o, m
  <2>6. ASSUME NEW y \in same
        PROVE  ~ Before(y.order, o[1].order)
    <3>1. PICK i \in 1 .. m : o[i] = y
      BY <2>4 DEF o, m
    <3>2. o[1] \in same
      BY <2>5
    <3>3. y.order \in [1 .. 4 -> Int] /\ o[1].order \in [1 .. 4 -> Int]
      BY <2>3, <3>2
    <3>4. CASE i = 1
      BY <3>1, <3>3, <3>4, <2>3, BeforeIsOrder
    <3>5. CASE i # 1
      <4>1. 1 < i
        BY <2>5, <3>5
      <4>2. Before(key[o[1]], key[o[i]])
        BY <2>4, <2>5, <4>1 DEF o, m
      <4>3. Before(o[1].order, y.order)
        <5>1. key[o[1]] = o[1].order /\ key[o[i]] = y.order
          BY <2>3, <3>1, <3>2
        <5> QED
          BY <4>2, <5>1
      <4>4. 4 \in Nat
        OBVIOUS
      <4>5. Before(o[1].order, y.order) => ~ Before(y.order, o[1].order)
        BY <3>3, <4>4, BeforeIsOrder
      <4> QED
        BY <4>3, <4>5
    <3> QED
      BY <3>4, <3>5
  <2>7. o[1] \in same
    BY <2>5
  <2>8. o[1] \in related /\ o[1].to = x.to
    BY <2>7 DEF same
  <2>9. \A y \in related : y.to = o[1].to => ~ Before(y.order, o[1].order)
    BY <2>6, <2>8 DEF same
  <2>10. \A i \in DOMAIN sofar : sofar[i].node # o[1].to
    BY <1>4, <2>8
  <2>11. o[1] \in fresh
    BY <2>8, <2>9, <2>10 DEF Fresh
  <2> QED
    BY <2>8, <2>11
<1> QED
  BY <1>1, <1>2, <1>3, <1>4 DEF related

\* What a candidate leads to: of the nodes next to it those that no candidate
\* is yet.
LeadsOn(G, sofar, c, led, next) ==
    /\ led \in Seq(Candidates(G)) /\ Distinct(led)
    /\ \A i \in 1 .. Len(led) :
         /\ led[i].depth = c.depth + 1 /\ led[i].queued
         /\ led[i].node \in next
         /\ \A j \in 1 .. Len(sofar) : led[i].node # sofar[j].node
    /\ \A n \in next : \/ \E j \in 1 .. Len(sofar) : sofar[j].node = n
                       \/ \E i \in 1 .. Len(led) : led[i].node = n

RelatedNodes(G, c) == {x.to : x \in Related(G, c.node, c.depth)}

LEMMA LedLeads ==
    ASSUME NEW G, IsGraph(G), NEW sofar \in Seq(Candidates(G)), NEW c \in Candidates(G)
    PROVE  LeadsOn(G, sofar, c, Led(G, sofar, c), RelatedNodes(G, c))
<1> DEFINE related == Related(G, c.node, c.depth)
           fresh == Fresh(sofar, related)
           key == [x \in fresh |-> x.order]
           next == ByKeys(key)
           led == [i \in DOMAIN next |-> Candidate(next[i].to, next[i].role, c.depth + 1, TRUE)]
<1>1. Led(G, sofar, c) = led
  BY DEF Led, InOrder
<1>2. DOMAIN sofar = 1 .. Len(sofar) /\ c.depth \in Nat
  BY LenProperties DEF Candidates
<1>3. /\ IsFiniteSet(fresh) /\ fresh \subseteq related
      /\ \A x \in fresh : x.order \in [1 .. 4 -> Int]
      /\ \A x, y \in fresh : x.order = y.order => x = y
      /\ \A x, y \in fresh : x.to = y.to => x = y
      /\ \A x \in related : \/ \E i \in DOMAIN sofar : sofar[i].node = x.to
                            \/ \E y \in fresh : y.to = x.to
  BY FreshIsOrdered
<1>4. \A x \in fresh : \A i \in DOMAIN sofar : sofar[i].node # x.to
  BY DEF Fresh
<1>5. \A x \in related : x.to \in Nodes(G) /\ x.role \in Roles
  BY RelatedIsTyped
<1> HIDE DEF related, fresh
<1>6. /\ DOMAIN key = fresh /\ 4 \in Nat
      /\ \A x \in fresh : key[x] \in [1 .. 4 -> Int]
      /\ \A x, y \in fresh : key[x] = key[y] => x = y
  BY <1>3
<1> HIDE DEF key
<1>7. /\ next \in Seq(fresh)
      /\ \A x \in fresh : \E i \in 1 .. Len(next) : next[i] = x
      /\ \A i, j \in 1 .. Len(next) : next[i] = next[j] => i = j
  BY <1>3, <1>6, SortedIsASequence, ZenonT(30)
<1> HIDE DEF next
<1>8. Len(next) \in Nat /\ DOMAIN next = 1 .. Len(next) /\ \A i \in 1 .. Len(next) : next[i] \in fresh
  BY <1>7, LenProperties
<1>9. \A i \in 1 .. Len(next) : led[i] \in Candidates(G)
  <2> TAKE i \in 1 .. Len(next)
  <2>1. next[i].to \in Nodes(G) /\ next[i].role \in Roles /\ c.depth + 1 \in Nat
    BY <1>2, <1>3, <1>5, <1>8
  <2> QED
    BY <1>8, <2>1 DEF Candidate, Candidates
<1>10. /\ led \in [1 .. Len(next) -> Candidates(G)]
       /\ \A i \in 1 .. Len(next) : /\ led[i].node = next[i].to /\ led[i].depth = c.depth + 1
                                    /\ led[i].queued
  BY <1>8, <1>9 DEF Candidate
<1> HIDE DEF led
<1>11. led \in Seq(Candidates(G)) /\ Len(led) = Len(next)
  <2>1. led \in Seq(Candidates(G))
    BY <1>8, <1>10, PlacesMakeASequence
  <2> QED
    BY <1>8, <1>10, <2>1, LenProperties
<1>12. Distinct(led)
  BY <1>3, <1>7, <1>8, <1>10, <1>11 DEF Distinct
<1>13. ASSUME NEW i \in 1 .. Len(led)
       PROVE  /\ \E x \in related : x.to = led[i].node
              /\ \A j \in 1 .. Len(sofar) : led[i].node # sofar[j].node
  <2>1. next[i] \in fresh /\ next[i] \in related /\ led[i].node = next[i].to
    BY <1>3, <1>8, <1>10, <1>11
  <2> QED
    BY <1>2, <1>4, <2>1
<1>14. ASSUME NEW x \in related
       PROVE  \/ \E j \in 1 .. Len(sofar) : sofar[j].node = x.to
              \/ \E i \in 1 .. Len(led) : led[i].node = x.to
  <2>1. CASE \E i \in DOMAIN sofar : sofar[i].node = x.to
    BY <1>2, <2>1
  <2>2. CASE \E y \in fresh : y.to = x.to
    <3>1. PICK y \in fresh : y.to = x.to
      BY <2>2
    <3>2. PICK i \in 1 .. Len(next) : next[i] = y
      BY <1>7
    <3> QED
      BY <1>10, <1>11, <3>1, <3>2
  <2> QED
    BY <1>3, <2>1, <2>2
<1> QED
  BY <1>1, <1>10, <1>11, <1>12, <1>13, <1>14 DEF related, LeadsOn, RelatedNodes

-----------------------------------------------------------------------------
(* The search for candidates.                                              *)

Steps(G, T) == [n \in Nodes(G) |-> {x.to : x \in Related(G, n, 0)} \ T]

\* What Balls computes, as far as it matters.
Growing(ball, N, seeds, succ) ==
    /\ ball[1] = seeds
    /\ \A k \in 1 .. N : ball[k + 1] = ball[k] \cup UNION {succ[n] : n \in ball[k]}

Found(s, n, d) == \E i \in 1 .. Len(s) : s[i].node = n /\ s[i].queued /\ s[i].depth <= d

\* The queue of the first k of whose candidates each was looked at: a node
\* once, nearer ones first, tests of the seeds aside.
Queue(G, T, k, s) ==
    /\ s \in Seq(Candidates(G)) /\ Distinct(s)
    /\ \A i \in 1 .. Len(s) : s[i].queued <=> s[i].node \notin T
    /\ \A t \in T : \E i \in 1 .. Len(s) : s[i].node = t
    /\ \A i, j \in 1 .. Len(s) :
         i < j /\ s[i].queued /\ s[j].queued => s[i].depth <= s[j].depth
    /\ \A i, j \in 1 .. Len(s) :
         k < i /\ s[i].queued /\ s[j].queued => s[j].depth <= s[i].depth + 1
    /\ \A i \in 1 .. Len(s) : s[i].queued => s[i].depth < i

\* Each is as far away as it says; what is nearer than one in the queue is
\* there; and below the limit what was looked at has led on.
Reached(ball, succ, seeds, D, limit, k, s) ==
    /\ \A n \in seeds : Found(s, n, 0)
    /\ \A i \in 1 .. Len(s) : s[i].queued => s[i].node \in ball[s[i].depth + 1]
    /\ \A i \in 1 .. Len(s) : s[i].queued =>
         \A m \in Nat : m < s[i].depth => \A n \in ball[m + 1] : Found(s, n, m)
    /\ Len(s) < limit =>
         \A i \in 1 .. Len(s) : i <= k /\ s[i].queued /\ s[i].depth < D =>
           \A n \in succ[s[i].node] : Found(s, n, s[i].depth + 1)

LEMMA RelatedWhereverFrom ==
    ASSUME NEW G, NEW n, NEW c, NEW d, NEW x \in Related(G, n, c)
    PROVE  \E y \in Related(G, n, d) : y.to = x.to
<1>1. ASSUME NEW edges, NEW number, NEW end, NEW r, NEW q, NEW z \in Pass(G, edges, number, end, r)
      PROVE  \E y \in Pass(G, edges, number, end, q) : y.to = z.to
  <2>1. PICK e \in edges : z = [to |-> e[end], role |-> r, order |-> <<number>> \o EdgeKey(G, e)]
    BY DEF Pass
  <2> DEFINE y == [to |-> e[end], role |-> q, order |-> <<number>> \o EdgeKey(G, e)]
  <2>2. y \in Pass(G, edges, number, end, q)
    BY DEF Pass
  <2>3. y.to = z.to
    BY <2>1
  <2> QED
    BY <2>2, <2>3
<1>2. CASE x \in Pass(G, OutBy(G, n, {"calls"}), 2, "to", Near(c, "callee"))
  <2>1. \E y \in Pass(G, OutBy(G, n, {"calls"}), 2, "to", Near(d, "callee")) : y.to = x.to
    BY <1>1, <1>2
  <2> QED
    BY <2>1, RelatedByPasses
<1>3. CASE x \in Pass(G, InBy(G, n, {"calls"}) \ TestCalls(G, n), 3, "from", Near(c, "caller"))
  <2>1. \E y \in Pass(G, InBy(G, n, {"calls"}) \ TestCalls(G, n), 3, "from", Near(d, "caller")) :
           y.to = x.to
    BY <1>1, <1>3
  <2> QED
    BY <2>1, RelatedByPasses
<1>4. CASE \/ x \in Pass(G, InBy(G, n, {"contains"}), 1, "from", "container")
           \/ x \in Pass(G, TestCalls(G, n), 3, "from", "test")
           \/ x \in Pass(G, OutBy(G, n, {"implements", "inherits"}), 4, "to", "implementation")
           \/ x \in Pass(G, InBy(G, n, {"implements", "inherits"}), 4, "from", "implementation")
           \/ x \in Pass(G, ToTypes(G, n), 5, "to", "type")
  <2>1. x \in Related(G, n, d)
    BY <1>4, RelatedByPasses
  <2> QED
    BY <2>1
<1> QED
  BY <1>2, <1>3, <1>4, RelatedByPasses

LEMMA CandidatesAreTyped ==
    ASSUME NEW G, NEW s \in Seq(Candidates(G)), NEW i \in 1 .. Len(s)
    PROVE  /\ s[i] \in Candidates(G)
           /\ s[i].node \in Nodes(G) /\ s[i].depth \in Nat /\ s[i].queued \in BOOLEAN
<1>1. s[i] \in Candidates(G)
  BY LenProperties
<1> QED
  BY <1>1 DEF Candidates

\* There is room for every node once.
LEMMA QueueIsBounded ==
    ASSUME NEW G, IsGraph(G), NEW s \in Seq(Candidates(G)), Distinct(s)
    PROVE  Len(s) <= Len(G.nodes)
<1> DEFINE f == [i \in 1 .. Len(s) |-> s[i].node]
<1>1. Len(s) \in Nat /\ Len(G.nodes) \in Nat /\ Nodes(G) = 1 .. Len(G.nodes)
  BY LenProperties DEF IsGraph, Nodes
<1>2. f \in Injection(1 .. Len(s), Nodes(G))
  <2>1. f \in [1 .. Len(s) -> Nodes(G)]
    BY CandidatesAreTyped
  <2> QED
    BY <2>1 DEF Injection, IsInjective, Distinct
<1> HIDE DEF f
<1>3. ASSUME NEW n \in Nat
      PROVE  IsFiniteSet(1 .. n) /\ Cardinality(1 .. n) = n
  <2>1. IsFiniteSet(1 .. n) /\ Cardinality(1 .. n) = IF 1 > n THEN 0 ELSE n - 1 + 1
    BY FS_Interval
  <2> QED
    BY <2>1
<1>4. Cardinality(1 .. Len(s)) <= Cardinality(Nodes(G))
  BY <1>1, <1>2, <1>3, FS_Injection
<1> QED
  BY <1>1, <1>3, <1>4

LEMMA FoundStays ==
    ASSUME NEW G, NEW s \in Seq(Candidates(G)), NEW led, NEW t, Joined(s, led, t),
           NEW n, NEW d \in Nat, Found(s, n, d)
    PROVE  Found(t, n, d)
<1>1. PICK i \in 1 .. Len(s) : s[i].node = n /\ s[i].queued /\ s[i].depth <= d
  BY DEF Found
<1>2. t[i] = s[i] /\ i \in 1 .. Len(t)
  BY DEF Joined
<1> QED
  BY <1>1, <1>2 DEF Found

LEMMA FoundLater ==
    ASSUME NEW G, NEW s \in Seq(Candidates(G)),
           NEW n, NEW d \in Nat, NEW e \in Nat, d <= e, Found(s, n, d)
    PROVE  Found(s, n, e)
<1>1. PICK i \in 1 .. Len(s) : s[i].node = n /\ s[i].queued /\ s[i].depth <= d
  BY DEF Found
<1>2. s[i].depth \in Nat
  BY CandidatesAreTyped
<1>3. s[i].depth <= e
  BY <1>1, <1>2
<1> QED
  BY <1>1, <1>3 DEF Found

LEMMA LeadingKeepsQueue ==
    ASSUME NEW G, IsGraph(G), NEW T, NEW k \in Nat, NEW s, Queue(G, T, k, s),
           k + 1 <= Len(s), s[k + 1].queued, NEW led, NEW next, LeadsOn(G, s, s[k + 1], led, next),
           NEW t, t \in Seq(Candidates(G)), Joined(s, led, t)
    PROVE  Queue(G, T, k + 1, t)
<1> DEFINE q == Len(s)
           d == s[k + 1].depth
<1>1. s \in Seq(Candidates(G)) /\ q \in Nat /\ k + 1 \in 1 .. q
  BY LenProperties DEF Queue
<1>2. s[k + 1] \in Candidates(G) /\ d \in Nat
  BY <1>1, CandidatesAreTyped
<1>3. /\ led \in Seq(Candidates(G)) /\ Distinct(led)
      /\ \A i \in 1 .. Len(led) :
           /\ led[i].depth = d + 1 /\ led[i].queued
           /\ \A j \in 1 .. q : led[i].node # s[j].node
  BY DEF LeadsOn
<1>4. /\ Len(led) \in Nat /\ Len(t) = q + Len(led)
      /\ \A i \in 1 .. q : t[i] = s[i] /\ i \in 1 .. Len(t)
      /\ \A i \in 1 .. Len(led) : t[q + i] = led[i] /\ q + i \in 1 .. Len(t)
      /\ \A i \in 1 .. Len(t) : i \in 1 .. q \/ \E j \in 1 .. Len(led) : i = q + j
  BY DEF Joined
<1> HIDE DEF q
<1>5. \A i \in 1 .. q : s[i].depth \in Nat
  BY <1>1, CandidatesAreTyped DEF q
<1>6. /\ Distinct(s)
      /\ \A i \in 1 .. q : s[i].queued <=> s[i].node \notin T
      /\ \A x \in T : \E i \in 1 .. q : s[i].node = x
      /\ \A i, j \in 1 .. q : i < j /\ s[i].queued /\ s[j].queued => s[i].depth <= s[j].depth
      /\ \A i, j \in 1 .. q : k < i /\ s[i].queued /\ s[j].queued => s[j].depth <= s[i].depth + 1
      /\ \A i \in 1 .. q : s[i].queued => s[i].depth < i
  BY DEF Queue, q
\* A later element is one of led: it is a step farther than the one looked at.
<1>7. \A i \in 1 .. Len(t) : \/ i \in 1 .. q /\ t[i] = s[i]
                             \/ /\ i > q /\ t[i].depth = d + 1 /\ t[i].queued
                                /\ \E j \in 1 .. Len(led) : i = q + j /\ t[i] = led[j]
  <2> TAKE i \in 1 .. Len(t)
  <2>1. CASE i \in 1 .. q
    BY <1>4, <2>1
  <2>2. CASE \E j \in 1 .. Len(led) : i = q + j
    <3>1. PICK j \in 1 .. Len(led) : i = q + j
      BY <2>2
    <3>2. t[i] = led[j] /\ i > q
      BY <1>1, <1>4, <3>1
    <3> QED
      BY <1>3, <3>1, <3>2
  <2> QED
    BY <1>4, <2>1, <2>2
<1>8. Distinct(t)
  <2> SUFFICES ASSUME NEW i \in 1 .. Len(t), NEW j \in 1 .. Len(t), t[i].node = t[j].node
               PROVE  i = j
    BY DEF Distinct
  <2>1. CASE i \in 1 .. q /\ j \in 1 .. q
    <3>1. t[i] = s[i] /\ t[j] = s[j]
      BY <1>4, <2>1
    <3> QED
      BY <1>6, <2>1, <3>1 DEF Distinct, q
  <2>2. CASE i \notin 1 .. q /\ j \in 1 .. q
    <3>1. PICK x \in 1 .. Len(led) : t[i] = led[x]
      BY <1>7, <2>2
    <3>2. led[x].node # s[j].node /\ t[j] = s[j]
      BY <1>3, <1>4, <2>2
    <3> QED
      BY <3>1, <3>2
  <2>3. CASE i \in 1 .. q /\ j \notin 1 .. q
    <3>1. PICK x \in 1 .. Len(led) : t[j] = led[x]
      BY <1>7, <2>3
    <3>2. led[x].node # s[i].node /\ t[i] = s[i]
      BY <1>3, <1>4, <2>3
    <3> QED
      BY <3>1, <3>2
  <2>4. CASE i \notin 1 .. q /\ j \notin 1 .. q
    <3>1. PICK x \in 1 .. Len(led) : i = q + x /\ t[i] = led[x]
      BY <1>7, <2>4
    <3>2. PICK y \in 1 .. Len(led) : j = q + y /\ t[j] = led[y]
      BY <1>7, <2>4
    <3> QED
      BY <1>3, <3>1, <3>2 DEF Distinct
  <2> QED
    BY <2>1, <2>2, <2>3, <2>4
<1>9. \A x \in T : \E i \in 1 .. Len(t) : t[i].node = x
  BY <1>4, <1>6
<1>10. \A i \in 1 .. Len(t) : t[i].queued <=> t[i].node \notin T
  <2> TAKE i \in 1 .. Len(t)
  <2>1. CASE i \in 1 .. q
    BY <1>4, <1>6, <2>1
  <2>2. CASE i \notin 1 .. q
    <3>1. PICK j \in 1 .. Len(led) : t[i] = led[j]
      BY <1>7, <2>2
    <3>2. t[i].queued /\ \A m \in 1 .. q : t[i].node # s[m].node
      BY <1>3, <3>1
    <3> QED
      BY <1>6, <3>2
  <2> QED
    BY <2>1, <2>2
<1> HIDE DEF d
<1>11. \A i \in 1 .. Len(t) : t[i].depth \in Nat
  <2> TAKE i \in 1 .. Len(t)
  <2> QED
    BY CandidatesAreTyped
<1>12. ASSUME NEW i \in 1 .. Len(t), NEW j \in 1 .. Len(t), t[i].queued, t[j].queued
       PROVE  /\ i < j => t[i].depth <= t[j].depth
              /\ k + 1 < i => t[j].depth <= t[i].depth + 1
  <2>0. /\ s[k + 1].depth = d
        /\ \A m \in 1 .. q : k + 1 < m /\ s[m].queued => d <= s[m].depth
        /\ \A m \in 1 .. q : s[m].queued => s[m].depth <= d + 1
    BY <1>1, <1>6 DEF d
  <2>1. CASE i \in 1 .. q /\ j \in 1 .. q
    <3>1. t[i] = s[i] /\ t[j] = s[j]
      BY <1>4, <2>1
    <3>2. k + 1 < i => k < i
      OBVIOUS
    <3> QED
      BY <1>6, <1>12, <2>1, <3>1, <3>2
  <2>2. CASE i \in 1 .. q /\ j \notin 1 .. q
    <3>1. t[i] = s[i] /\ t[j].depth = d + 1 /\ s[i].depth \in Nat
      BY <1>4, <1>5, <1>7, <2>2
    <3>2. s[i].depth <= d + 1 /\ (k + 1 < i => d <= s[i].depth)
      BY <1>12, <2>0, <2>2, <3>1
    <3> QED
      BY <1>2, <3>1, <3>2
  <2>3. CASE i \notin 1 .. q /\ j \in 1 .. q
    <3>1. t[j] = s[j] /\ t[i].depth = d + 1 /\ s[j].depth \in Nat /\ i > q
      BY <1>4, <1>5, <1>7, <2>3
    <3>2. s[j].depth <= d + 1
      BY <1>12, <2>0, <2>3, <3>1
    <3>3. ~ (i < j)
      BY <1>1, <2>3, <3>1
    <3> QED
      BY <1>2, <3>1, <3>2, <3>3
  <2>4. CASE i \notin 1 .. q /\ j \notin 1 .. q
    <3>1. t[i].depth = d + 1 /\ t[j].depth = d + 1
      BY <1>7, <2>4
    <3> QED
      BY <1>2, <3>1
  <2> QED
    BY <2>1, <2>2, <2>3, <2>4
<1>13. ASSUME NEW i \in 1 .. Len(t), t[i].queued
       PROVE  t[i].depth < i
  <2>1. CASE i \in 1 .. q
    BY <1>4, <1>6, <1>13, <2>1
  <2>2. CASE i \notin 1 .. q
    <3>1. i > q /\ t[i].depth = d + 1
      BY <1>7, <2>2
    <3>2. d < k + 1
      BY <1>1, <1>6 DEF d
    <3> QED
      BY <1>1, <1>2, <3>1, <3>2
  <2> QED
    BY <2>1, <2>2
<1> QED
  BY <1>8, <1>9, <1>10, <1>12, <1>13 DEF Queue

\* What is nearer than the candidate looked at was found before it.
LEMMA NearerIsFound ==
    ASSUME NEW G, IsGraph(G), NEW T, NEW ball, NEW succ, NEW seeds, NEW D \in Nat, NEW limit \in Nat,
           Growing(ball, Len(G.nodes), seeds, succ), NEW k \in Nat, NEW s, Queue(G, T, k, s),
           Reached(ball, succ, seeds, D, limit, k, s), NEW j \in 1 .. Len(s), j <= k + 1,
           s[j].queued, s[j].depth < D, Len(s) < limit, NEW n \in ball[s[j].depth + 1]
    PROVE  Found(s, n, s[j].depth)
<1> DEFINE d == s[j].depth
<1>1. s \in Seq(Candidates(G)) /\ Len(s) \in Nat
  BY LenProperties DEF Queue
<1>2. \A i \in 1 .. Len(s) : s[i].depth \in Nat
  BY <1>1, CandidatesAreTyped
<1>3. CASE d = 0
  <2>1. n \in seeds
    BY <1>3 DEF Growing
  <2> QED
    BY <1>3, <2>1 DEF Reached
<1>4. CASE d # 0
  <2>1. d \in Nat /\ d < j /\ d - 1 \in Nat /\ (d - 1) + 1 = d
    BY <1>2, <1>4 DEF Queue
  <2>2. Len(s) <= Len(G.nodes) /\ Len(G.nodes) \in Nat
    BY <1>1, QueueIsBounded DEF Queue, IsGraph
  <2>3. d \in 1 .. Len(G.nodes)
    <3>1. j \in Nat /\ j <= Len(s)
      BY <1>1
    <3> HIDE DEF d
    <3> QED
      BY <1>1, <1>4, <2>1, <2>2, <3>1
  <2>4. ball[d + 1] = ball[d] \cup UNION {succ[m] : m \in ball[d]}
    BY <2>3 DEF Growing
  <2>5. ASSUME NEW m \in ball[d]
        PROVE  Found(s, m, d - 1)
    <3>1. \A e \in Nat : e < d => \A x \in ball[e + 1] : Found(s, x, e)
      BY DEF Reached
    <3>2. d - 1 < d
      BY <2>1
    <3> HIDE DEF d
    <3> QED
      BY <2>1, <2>5, <3>1, <3>2
  <2>6. CASE n \in ball[d]
    <3>1. Found(s, n, d - 1) /\ d - 1 <= d
      BY <2>1, <2>5, <2>6
    <3> HIDE DEF d
    <3>2. Found(s, n, d)
      BY <1>1, <2>1, <3>1, FoundLater
    <3> QED
      BY <3>2 DEF d
  <2>7. CASE \E m \in ball[d] : n \in succ[m]
    <3>1. PICK m \in ball[d] : n \in succ[m]
      BY <2>7
    <3>2. PICK i \in 1 .. Len(s) : s[i].node = m /\ s[i].queued /\ s[i].depth <= d - 1
      BY <2>5 DEF Found
    <3>3. s[i].depth \in Nat /\ s[i].depth < d
      BY <1>2, <2>1, <3>2
    <3>4. i < j
      <4>1. \A a, b \in 1 .. Len(s) :
              a < b /\ s[a].queued /\ s[b].queued => s[a].depth <= s[b].depth
        BY DEF Queue
      <4>2. j < i => d <= s[i].depth
        BY <3>2, <4>1
      <4>3. i # j
        BY <3>3
      <4> HIDE DEF d
      <4> QED
        BY <1>1, <2>1, <3>2, <3>3, <4>2, <4>3
    <3>5. i <= k /\ s[i].depth < D
      <4>1. d < D
        OBVIOUS
      <4> HIDE DEF d
      <4>2. i \in Nat /\ j \in Nat
        BY <1>1
      <4>3. i <= k
        BY <3>4, <4>2
      <4> QED
        BY <2>1, <3>3, <4>1, <4>3
    <3>6. \A x \in succ[s[i].node] : Found(s, x, s[i].depth + 1)
      BY <3>2, <3>5 DEF Reached
    <3>7. Found(s, n, s[i].depth + 1) /\ s[i].depth + 1 <= d
      BY <2>1, <3>1, <3>2, <3>3, <3>6
    <3> HIDE DEF d
    <3>8. Found(s, n, d)
      BY <1>1, <2>1, <3>3, <3>7, FoundLater
    <3> QED
      BY <3>8 DEF d
  <2> QED
    <3>1. n \in ball[d + 1]
      OBVIOUS
    <3> QED
      BY <2>4, <2>6, <2>7, <3>1
<1> QED
  BY <1>3, <1>4

LEMMA LeadingKeepsReached ==
    ASSUME NEW G, IsGraph(G), NEW T, NEW ball, NEW succ, NEW seeds, NEW D \in Nat, NEW limit \in Nat,
           Growing(ball, Len(G.nodes), seeds, succ),
           NEW k \in Nat, k + 1 <= Len(G.nodes), NEW s, Queue(G, T, k, s),
           Reached(ball, succ, seeds, D, limit, k, s),
           k + 1 <= Len(s), s[k + 1].queued, s[k + 1].depth < D, Len(s) < limit,
           NEW led, NEW next, LeadsOn(G, s, s[k + 1], led, next),
           succ[s[k + 1].node] = next \ T,
           NEW t, t \in Seq(Candidates(G)), Joined(s, led, t)
    PROVE  Reached(ball, succ, seeds, D, limit, k + 1, t)
<1> DEFINE q == Len(s)
           c == s[k + 1]
           d == s[k + 1].depth
<1>1. s \in Seq(Candidates(G)) /\ q \in Nat /\ k + 1 \in 1 .. q
  BY LenProperties DEF Queue
<1>2. c \in Candidates(G) /\ c.node \in Nodes(G) /\ d \in Nat /\ c.depth = d
  BY <1>1, CandidatesAreTyped
<1>3. /\ led \in Seq(Candidates(G))
      /\ \A i \in 1 .. Len(led) :
           /\ led[i].depth = d + 1 /\ led[i].queued
           /\ led[i].node \in next
           /\ \A j \in 1 .. q : led[i].node # s[j].node
      /\ \A n \in next : \/ \E j \in 1 .. q : s[j].node = n
                         \/ \E i \in 1 .. Len(led) : led[i].node = n
  BY DEF LeadsOn
<1>4. /\ Len(led) \in Nat /\ Len(t) = q + Len(led)
      /\ \A i \in 1 .. q : t[i] = s[i] /\ i \in 1 .. Len(t)
      /\ \A i \in 1 .. Len(led) : t[q + i] = led[i] /\ q + i \in 1 .. Len(t)
      /\ \A i \in 1 .. Len(t) : i \in 1 .. q \/ \E j \in 1 .. Len(led) : i = q + j
  BY DEF Joined
<1>5. \A i \in 1 .. q : s[i].depth \in Nat
  BY <1>1, CandidatesAreTyped
<1>6. \A n : \A e \in Nat : Found(s, n, e) => Found(t, n, e)
  BY <1>1, FoundStays
<1>7. \A i \in 1 .. Len(t) : (i \in 1 .. q /\ t[i] = s[i]) \/ \E j \in 1 .. Len(led) : t[i] = led[j]
  <2> HIDE DEF q
  <2> TAKE i \in 1 .. Len(t)
  <2>1. CASE i \in 1 .. q
    <3>1. t[i] = s[i]
      BY <1>4, <2>1
    <3> QED
      BY <2>1, <3>1
  <2>2. ASSUME NEW j \in 1 .. Len(led), i = q + j
        PROVE  t[i] = led[j]
    BY <1>4, <2>2
  <2> QED
    BY <1>4, <2>1, <2>2, Zenon
<1>8. succ[c.node] = next \ T
  OBVIOUS
<1>9. \A n \in seeds : Found(t, n, 0)
  BY <1>6 DEF Reached
<1> HIDE DEF q, c
<1>10. ASSUME NEW i \in 1 .. Len(t), t[i].queued
       PROVE  t[i].node \in ball[t[i].depth + 1]
  <2>1. CASE i \in 1 .. q /\ t[i] = s[i]
    BY <1>10, <2>1 DEF Reached, q
  <2>2. CASE \E j \in 1 .. Len(led) : t[i] = led[j]
    <3>1. PICK j \in 1 .. Len(led) : t[i] = led[j]
      BY <2>2
    <3>2. led[j].node \in next
      BY <1>3
    <3>4. led[j].node \notin T
      <4>1. \A z \in T : \E m \in 1 .. q : s[m].node = z
        BY DEF Queue, q
      <4> QED
        BY <1>3, <4>1
    <3>5. led[j].node \in succ[c.node]
      BY <1>8, <3>2, <3>4
    <3>6. c.node \in ball[d + 1]
      BY <1>1 DEF Reached, q, c
    <3>7. d + 1 \in 1 .. Len(G.nodes)
      <4>1. d < k + 1
        BY <1>1 DEF Queue, q
      <4>2. Len(G.nodes) \in Nat
        BY DEF IsGraph
      <4> HIDE DEF d
      <4> QED
        BY <1>2, <4>1, <4>2
    <3> HIDE DEF d
    <3>8. ball[(d + 1) + 1] = ball[d + 1] \cup UNION {succ[n] : n \in ball[d + 1]}
      BY <3>7 DEF Growing
    <3>9. led[j].node \in ball[(d + 1) + 1]
      BY <3>5, <3>6, <3>8
    <3> QED
      BY <1>3, <3>1, <3>9
  <2> QED
    BY <1>7, <2>1, <2>2
<1>11. ASSUME NEW i \in 1 .. Len(t), t[i].queued, NEW m \in Nat, m < t[i].depth,
              NEW n \in ball[m + 1]
       PROVE  Found(t, n, m)
  <2>1. CASE i \in 1 .. q /\ t[i] = s[i]
    <3>1. Found(s, n, m)
      BY <1>11, <2>1 DEF Reached, q
    <3> QED
      BY <1>6, <3>1
  <2>2. CASE \E j \in 1 .. Len(led) : t[i] = led[j]
    <3>1. m < d + 1
      BY <1>3, <1>11, <2>2
    <3>2. CASE m < d
      <4>1. Found(s, n, m)
        BY <1>1, <1>11, <3>2 DEF Reached, q
      <4> QED
        BY <1>6, <4>1
    <3>3. CASE m = d
      <4>1. k + 1 \in 1 .. Len(s) /\ k + 1 <= k + 1 /\ n \in ball[s[k + 1].depth + 1]
        BY <1>1, <1>11, <3>3 DEF q
      <4>2. Found(s, n, d)
        BY <4>1, NearerIsFound
      <4> QED
        BY <1>6, <3>3, <4>2
    <3> HIDE DEF d
    <3> QED
      BY <1>2, <3>1, <3>2, <3>3
  <2> QED
    BY <1>7, <2>1, <2>2
<1>12. ASSUME Len(t) < limit, NEW i \in 1 .. Len(t), i <= k + 1, t[i].queued, t[i].depth < D,
              NEW n \in succ[t[i].node]
       PROVE  Found(t, n, t[i].depth + 1)
  <2>1. i \in 1 .. q /\ t[i] = s[i] /\ Len(s) < limit
    BY <1>1, <1>4, <1>12
  <2>2. CASE i <= k
    <3>0. \A j \in 1 .. Len(s) : j <= k /\ s[j].queued /\ s[j].depth < D =>
            \A x \in succ[s[j].node] : Found(s, x, s[j].depth + 1)
      BY <2>1 DEF Reached
    <3>1. Found(s, n, s[i].depth + 1) /\ s[i].depth + 1 \in Nat
      BY <1>5, <1>12, <2>1, <2>2, <3>0 DEF q
    <3> QED
      BY <1>6, <2>1, <3>1
  <2>3. CASE i = k + 1
    <3>1. t[i] = c /\ n \in succ[c.node] /\ t[i].depth = d
      BY <1>12, <2>1, <2>3 DEF c
    <3>2. n \in next /\ n \notin T
      BY <1>8, <3>1
    <3>4. CASE \E j \in 1 .. q : s[j].node = n
      <4>1. PICK j \in 1 .. q : s[j].node = n
        BY <3>4
      <4>2. s[j].queued
        BY <3>2, <4>1 DEF Queue, q
      <4>3. s[j].depth <= d + 1
        BY <1>1, <4>2 DEF Queue, q
      <4>4. t[j] = s[j] /\ j \in 1 .. Len(t)
        BY <1>4
      <4> QED
        BY <3>1, <4>1, <4>2, <4>3, <4>4 DEF Found
    <3>5. CASE \E j \in 1 .. Len(led) : led[j].node = n
      <4>1. PICK j \in 1 .. Len(led) : led[j].node = n
        BY <3>5
      <4>2. t[q + j] = led[j] /\ q + j \in 1 .. Len(t)
        BY <1>4
      <4>3. led[j].queued /\ led[j].depth <= d + 1
        BY <1>2, <1>3
      <4> QED
        BY <3>1, <4>1, <4>2, <4>3 DEF Found
    <3> QED
      BY <1>3, <3>2, <3>4, <3>5
  <2> QED
    BY <1>12, <2>1, <2>2, <2>3
<1> QED
  BY <1>9, <1>10, <1>11, <1>12 DEF Reached

LEMMA LookIsTyped ==
    ASSUME NEW G, IsGraph(G), NEW s \in Seq(Candidates(G)), NEW k \in Nat, k # 0, NEW D, NEW limit
    PROVE  Look(G, s, k, D, limit) \in Seq(Candidates(G))
<1> DEFINE stays == \/ k > Len(s) \/ ~ s[k].queued \/ s[k].depth >= D \/ Len(s) >= limit
<1>1. CASE stays
  BY <1>1 DEF Look
<1>2. CASE ~ stays
  <2>1. k \in 1 .. Len(s)
    BY <1>2, LenProperties
  <2>2. s[k] \in Candidates(G)
    BY <2>1, CandidatesAreTyped
  <2>3. Led(G, s, s[k]) \in Seq(Candidates(G))
    BY <2>2, LedLeads DEF LeadsOn
  <2>4. s \o Led(G, s, s[k]) \in Seq(Candidates(G))
    BY <2>3, ConcatProperties
  <2> QED
    BY <1>2, <2>4 DEF Look
<1> QED
  BY <1>1, <1>2

\* Looking at one more candidate keeps what the search relies on.
LEMMA LookKeeps ==
    ASSUME NEW G, IsGraph(G), NEW T, NEW ball, NEW seeds, NEW D \in Nat, NEW limit \in Nat,
           Growing(ball, Len(G.nodes), seeds, Steps(G, T)),
           NEW k \in Nat, k + 1 <= Len(G.nodes), NEW s, Queue(G, T, k, s),
           Reached(ball, Steps(G, T), seeds, D, limit, k, s)
    PROVE  /\ Queue(G, T, k + 1, Look(G, s, k + 1, D, limit))
           /\ Reached(ball, Steps(G, T), seeds, D, limit, k + 1, Look(G, s, k + 1, D, limit))
<1> DEFINE stays == \/ k + 1 > Len(s) \/ ~ s[k + 1].queued \/ s[k + 1].depth >= D
                    \/ Len(s) >= limit
<1>1. s \in Seq(Candidates(G)) /\ Len(s) \in Nat
  BY LenProperties DEF Queue
<1>2. \A i \in 1 .. Len(s) : s[i].depth \in Nat
  BY <1>1, CandidatesAreTyped
<1>3. CASE stays
  <2>1. Look(G, s, k + 1, D, limit) = s
    BY <1>3 DEF Look
  <2>2. Queue(G, T, k + 1, s)
    BY <1>1 DEF Queue
  <2>3. Reached(ball, Steps(G, T), seeds, D, limit, k + 1, s)
    <3> SUFFICES ASSUME Len(s) < limit, NEW i \in 1 .. Len(s), i <= k + 1, s[i].queued, s[i].depth < D,
                        NEW n \in Steps(G, T)[s[i].node]
                 PROVE  Found(s, n, s[i].depth + 1)
      BY DEF Reached
    <3>1. i # k + 1
      BY <1>1, <1>2, <1>3
    <3>2. i <= k
      BY <3>1
    <3> QED
      BY <3>2 DEF Reached
  <2> QED
    BY <2>1, <2>2, <2>3
<1>4. CASE ~ stays
  <2>1. k + 1 \in 1 .. Len(s) /\ k + 1 <= Len(s)
    BY <1>1, <1>4
  <2>2. s[k + 1].queued /\ s[k + 1].depth < D /\ Len(s) < limit
    BY <1>1, <1>2, <1>4, <2>1
  <2>3. s[k + 1] \in Candidates(G)
    BY <1>1, <2>1, CandidatesAreTyped
  <2>4. PICK led : led = Led(G, s, s[k + 1])
    OBVIOUS
  <2>5. PICK t : t = s \o led
    OBVIOUS
  <2>6. Look(G, s, k + 1, D, limit) = t
    BY <1>4, <2>4, <2>5 DEF Look
  <2> DEFINE next == RelatedNodes(G, s[k + 1])
  <2>7. LeadsOn(G, s, s[k + 1], led, next)
    BY <1>1, <2>3, <2>4, LedLeads
  <2>n. Steps(G, T)[s[k + 1].node] = next \ T
    <3> DEFINE n == s[k + 1].node
               d == s[k + 1].depth
    <3>1. n \in Nodes(G) /\ d \in Nat /\ 0 \in Nat
      BY <1>1, <2>1, CandidatesAreTyped
    <3>2. \A a, b \in Nat : \A x \in Related(G, n, a) : \E y \in Related(G, n, b) : y.to = x.to
      BY RelatedWhereverFrom
    <3> HIDE DEF n, d
    <3>3. {x.to : x \in Related(G, n, 0)} = {x.to : x \in Related(G, n, d)}
      <4> DEFINE near == Related(G, n, 0)
                 far == Related(G, n, d)
      <4>1. /\ \A x \in near : \E y \in far : y.to = x.to
            /\ \A x \in far : \E y \in near : y.to = x.to
        BY <3>1, <3>2
      <4> HIDE DEF near, far
      <4> QED
        BY <4>1 DEF near, far
    <3> QED
      BY <3>1, <3>3 DEF Steps, RelatedNodes, n, d
  <2> HIDE DEF next
  <2>8. t \in Seq(Candidates(G)) /\ Joined(s, led, t)
    <3>1. led \in Seq(Candidates(G))
      BY <2>7 DEF LeadsOn
    <3> QED
      BY <1>1, <2>5, <3>1, Appended
  <2>9. Queue(G, T, k + 1, t)
    BY <2>1, <2>2, <2>7, <2>8, LeadingKeepsQueue
  <2>10. Reached(ball, Steps(G, T), seeds, D, limit, k + 1, t)
    BY <2>1, <2>2, <2>7, <2>8, <2>n, LeadingKeepsReached
  <2> QED
    BY <2>6, <2>9, <2>10
<1> QED
  BY <1>3, <1>4

LEMMA SeedTestsAreNodes ==
    ASSUME NEW G, IsGraph(G), NEW seeds
    PROVE  SeedTests(G, seeds) \subseteq Nodes(G) /\ SeedTests(G, seeds) \cap seeds = {}
<1>1. ASSUME NEW m \in Mappings(G)
      PROVE  TestNodes(G, m.test) \subseteq Nodes(G)
  <2>1. m.test.symbol = 0 \/ m.test.symbol \in Nodes(G)
    <3>1. CASE \E e \in G.edges :
                 m = [source |-> Node(G, e.to).file, symbol |-> QualifiedName(G, e.to),
                      test |-> [file |-> Node(G, e.from).file, symbol |-> e.from]]
      BY <3>1 DEF IsGraph
    <3>2. CASE \E p \in Nodes(G) \X Nodes(G) :
                 m = [source |-> Node(G, p[1]).file, symbol |-> <<>>,
                      test |-> [file |-> Node(G, p[2]).file, symbol |-> 0]]
      BY <3>2
    <3> QED
      BY <3>1, <3>2 DEF Mappings
  <2> QED
    BY <2>1 DEF TestNodes
<1>2. \A n : RelatedTests(G, n) \subseteq Nodes(G)
  BY <1>1 DEF RelatedTests
<1> QED
  BY <1>2 DEF SeedTests

LEMMA NodesAreFinite ==
    ASSUME NEW G, IsGraph(G)
    PROVE  /\ IsFiniteSet(Nodes(G)) /\ Nodes(G) \subseteq Int /\ Nodes(G) = 1 .. Len(G.nodes)
           /\ Cardinality(Nodes(G)) = Len(G.nodes)
<1>1. Nodes(G) = 1 .. Len(G.nodes) /\ Len(G.nodes) \in Nat
  BY DEF IsGraph, Nodes
<1>2. PICK n : n = Len(G.nodes)
  OBVIOUS
<1>3. n \in Nat /\ 1 \in Int /\ n \in Int
  BY <1>1, <1>2
<1>4. IsFiniteSet(1 .. n) /\ Cardinality(1 .. n) = IF 1 > n THEN 0 ELSE n - 1 + 1
  BY <1>3, FS_Interval, Zenon
<1>5. Cardinality(1 .. n) = n /\ 1 .. n \subseteq Int
  BY <1>3, <1>4
<1> QED
  BY <1>1, <1>2, <1>4, <1>5

\* The elements of a set, one after another.
Lists(list, S) ==
    /\ list \in Seq(S) /\ DOMAIN list = 1 .. Len(list)
    /\ \A i, j \in 1 .. Len(list) : list[i] = list[j] => i = j
    /\ \A x \in S : \E i \in 1 .. Len(list) : list[i] = x

LEMMA AnyOrderLists ==
    ASSUME NEW S, IsFiniteSet(S), NEW list \in SetToSeqs(S)
    PROVE  Lists(list, S) /\ Len(list) = Cardinality(S)
<1>1. PICK n \in Nat : n = Cardinality(S)
  BY FS_CardinalityType
<1>2. list \in [1 .. n -> S] /\ \A i, j \in 1 .. n : i # j => list[i] # list[j]
  BY <1>1 DEF SetToSeqs
<1>3. list \in Injection(1 .. n, S)
  BY <1>2 DEF Injection, IsInjective
<1>4. Cardinality(1 .. n) = n
  <2>1. Cardinality(1 .. n) = IF 1 > n THEN 0 ELSE n - 1 + 1
    BY FS_Interval
  <2> QED
    BY <2>1
<1>5. list \in Surjection(1 .. n, S)
  BY <1>1, <1>3, <1>4, FS_Injection
<1>6. \A x \in S : \E i \in 1 .. n : list[i] = x
  BY <1>5 DEF Surjection
<1>7. list \in Seq(S) /\ Len(list) = n
  BY <1>2, SeqDef, LenProperties
<1> QED
  BY <1>1, <1>2, <1>6, <1>7 DEF Lists

LEMMA NamesList ==
    ASSUME NEW G, IsGraph(G), NEW S, S \subseteq Nodes(G)
    PROVE  Lists(ByName(S), S) /\ Len(ByName(S)) = Cardinality(S)
<1> DEFINE key == [n \in S |-> <<n>>]
<1>1. IsFiniteSet(S) /\ S \subseteq Int
  BY NodesAreFinite, FS_Subset
<1>2. ByName(S) = ByKeys(key)
  BY DEF ByName, InOrder
<1>3. /\ DOMAIN key = S /\ 1 \in Nat
      /\ \A n \in S : key[n] \in [1 .. 1 -> Int]
      /\ \A m, n \in S : key[m] = key[n] => m = n
  BY <1>1
<1> HIDE DEF key
<1>4. /\ ByKeys(key) \in Seq(S) /\ Len(ByKeys(key)) = Cardinality(S)
      /\ \A x \in S : \E i \in 1 .. Len(ByKeys(key)) : ByKeys(key)[i] = x
      /\ \A i, j \in 1 .. Len(ByKeys(key)) : ByKeys(key)[i] = ByKeys(key)[j] => i = j
  BY <1>1, <1>3, SortedIsASequence
<1> QED
  BY <1>2, <1>4, LenProperties DEF Lists

\* The search starts with the seeds in front and the tests behind them.
LEMMA FirstAreQueued ==
    ASSUME NEW G, IsGraph(G), NEW seeds, seeds \subseteq Nodes(G), NEW T, T \subseteq Nodes(G),
           T \cap seeds = {}, NEW tests \in SetToSeqs(T), NEW ball, NEW succ, NEW D \in Nat,
           NEW limit \in Nat, NEW N, Growing(ball, N, seeds, succ)
    PROVE  /\ Queue(G, T, 0, FirstCandidates(G, seeds, tests))
           /\ Reached(ball, succ, seeds, D, limit, 0, FirstCandidates(G, seeds, tests))
<1> DEFINE names == ByName(seeds)
           front == [i \in 1 .. Cardinality(seeds) |-> Candidate(names[i], "seed", 0, TRUE)]
           back == [i \in DOMAIN tests |-> Candidate(tests[i], "test", 1, FALSE)]
<1>1. PICK s : s = FirstCandidates(G, seeds, tests)
  OBVIOUS
<1>2. s = front \o back
  BY <1>1 DEF FirstCandidates
<1>3. Lists(names, seeds) /\ Len(names) = Cardinality(seeds)
  BY NamesList
<1>4. Lists(tests, T)
  <2>1. IsFiniteSet(T)
    BY NodesAreFinite, FS_Subset
  <2> QED
    BY <2>1, AnyOrderLists
<1> HIDE DEF names
<1>5. /\ names \in Seq(seeds) /\ Len(names) \in Nat /\ \A i \in 1 .. Len(names) : names[i] \in seeds
      /\ tests \in Seq(T) /\ Len(tests) \in Nat /\ \A i \in 1 .. Len(tests) : tests[i] \in T
      /\ DOMAIN tests = 1 .. Len(tests)
  BY <1>3, <1>4, LenProperties DEF Lists
<1>6. /\ front \in [1 .. Len(names) -> Candidates(G)]
      /\ \A i \in 1 .. Len(names) : /\ front[i].node = names[i] /\ front[i].depth = 0
                                    /\ front[i].queued
  BY <1>3, <1>5 DEF Candidate, Candidates, Roles
<1>7. /\ back \in [1 .. Len(tests) -> Candidates(G)]
      /\ \A i \in 1 .. Len(tests) : /\ back[i].node = tests[i] /\ ~ back[i].queued
  BY <1>5 DEF Candidate, Candidates, Roles
<1> HIDE DEF front, back
<1>8. /\ front \in Seq(Candidates(G)) /\ Len(front) = Len(names)
      /\ back \in Seq(Candidates(G)) /\ Len(back) = Len(tests)
  <2>1. front \in Seq(Candidates(G)) /\ Len(front) = Len(names)
    BY <1>5, <1>6, PlacesMakeASequence
  <2>2. back \in Seq(Candidates(G)) /\ Len(back) = Len(tests)
    BY <1>5, <1>7, PlacesMakeASequence
  <2> QED
    BY <2>1, <2>2
<1>9. s \in Seq(Candidates(G)) /\ Joined(front, back, s)
  BY <1>2, <1>8, Appended
<1> DEFINE p == Len(names)
           q == Len(tests)
<1>10. /\ p \in Nat /\ q \in Nat /\ Len(s) = p + q
       /\ \A i \in 1 .. p : s[i] = front[i] /\ i \in 1 .. Len(s)
       /\ \A i \in 1 .. q : s[p + i] = back[i] /\ p + i \in 1 .. Len(s)
       /\ \A i \in 1 .. Len(s) : i \in 1 .. p \/ \E j \in 1 .. q : i = p + j
  BY <1>5, <1>8, <1>9 DEF Joined
<1> HIDE DEF p, q
<1>11. \A i \in 1 .. p : s[i].node = names[i] /\ s[i].depth = 0 /\ s[i].queued /\ names[i] \in seeds
  BY <1>5, <1>6, <1>10 DEF p
<1>12. \A j \in 1 .. q : s[p + j].node = tests[j] /\ ~ s[p + j].queued /\ tests[j] \in T
  BY <1>5, <1>7, <1>10 DEF q
<1>13. \A i \in 1 .. Len(s) : s[i].queued => i \in 1 .. p /\ s[i].depth = 0 /\ s[i].node \in seeds
  <2> TAKE i \in 1 .. Len(s)
  <2>1. CASE i \in 1 .. p
    BY <1>11, <2>1
  <2>2. CASE \E j \in 1 .. q : i = p + j
    BY <1>12, <2>2
  <2> QED
    BY <1>10, <2>1, <2>2
<1>14. Distinct(s)
  <2> SUFFICES ASSUME NEW i \in 1 .. Len(s), NEW j \in 1 .. Len(s), s[i].node = s[j].node
               PROVE  i = j
    BY DEF Distinct
  <2>1. CASE i \in 1 .. p /\ j \in 1 .. p
    BY <1>3, <1>11, <2>1 DEF Lists, p
  <2>2. CASE \E a, b \in 1 .. q : i = p + a /\ j = p + b
    <3>1. PICK a, b \in 1 .. q : i = p + a /\ j = p + b
      BY <2>2
    <3>2. tests[a] = tests[b]
      BY <1>12, <3>1
    <3>3. a = b
      BY <1>4, <3>2 DEF Lists, q
    <3> QED
      BY <3>1, <3>3
  <2>3. CASE (i \in 1 .. p /\ \E b \in 1 .. q : j = p + b) \/ (j \in 1 .. p /\ \E b \in 1 .. q : i = p + b)
    BY <1>11, <1>12, <2>3
  <2> QED
    BY <1>10, <2>1, <2>2, <2>3
<1>15. \A i \in 1 .. Len(s) : s[i].queued <=> s[i].node \notin T
  BY <1>10, <1>11, <1>12
<1>16. \A t \in T : \E i \in 1 .. Len(s) : s[i].node = t
  <2> TAKE t \in T
  <2>1. PICK j \in 1 .. q : tests[j] = t
    BY <1>4 DEF Lists, q
  <2> QED
    BY <1>10, <1>12, <2>1
<1>17. Queue(G, T, 0, s)
  BY <1>9, <1>13, <1>14, <1>15, <1>16 DEF Queue
<1>18. \A n \in seeds : Found(s, n, 0)
  <2> TAKE n \in seeds
  <2>1. PICK i \in 1 .. p : names[i] = n
    BY <1>3 DEF Lists, p
  <2> QED
    BY <1>10, <1>11, <2>1 DEF Found
<1>19. \A i \in 1 .. Len(s) : s[i].queued => s[i].node \in ball[s[i].depth + 1]
  BY <1>13 DEF Growing
<1>20. Reached(ball, succ, seeds, D, limit, 0, s)
  BY <1>13, <1>18, <1>19 DEF Reached
<1> QED
  BY <1>1, <1>17, <1>20

\* What the search ends with, the limit not yet applied.
Ended(G, T, ball, seeds, D, limit, s) ==
    /\ Queue(G, T, Len(G.nodes), s)
    /\ Reached(ball, Steps(G, T), seeds, D, limit, Len(G.nodes), s)

Expanded(G, T, ball, seeds, D, limit, r) ==
    \E s : Ended(G, T, ball, seeds, D, limit, s) /\ r = Limited(s, limit)

LEMMA ExpandSearches ==
    ASSUME NEW G, IsGraph(G), NEW seeds, seeds \subseteq Nodes(G), NEW T, T \subseteq Nodes(G),
           T \cap seeds = {}, NEW tests \in SetToSeqs(T), NEW ball, NEW D \in Nat,
           NEW limit \in Nat, Growing(ball, Len(G.nodes), seeds, Steps(G, T))
    PROVE  Expanded(G, T, ball, seeds, D, limit, Expand(G, seeds, tests, D, limit))
<1> DEFINE N == Len(G.nodes)
           first == FirstCandidates(G, seeds, tests)
           Stepped(g) == g = [k \in 0 .. N |-> IF k = 0 THEN first
                                              ELSE Look(G, g[k - 1], k, D, limit)]
           looked == CHOOSE g : Stepped(g)
<1>1. Expand(G, seeds, tests, D, limit) = Limited(looked[N], limit)
  BY DEF Expand
<1>2. N \in Nat
  BY DEF IsGraph
<1>3. Queue(G, T, 0, first) /\ Reached(ball, Steps(G, T), seeds, D, limit, 0, first)
  BY FirstAreQueued
<1> HIDE DEF first, N
<1>4. Stepped(looked)
  <2> DEFINE A == Seq(Candidates(G))
             step == [p \in (1 .. N) \X A |-> Look(G, p[2], p[1], D, limit)]
  <2>1. step \in [(1 .. N) \X A -> A]
    <3> SUFFICES ASSUME NEW k \in 1 .. N, NEW s \in A
                 PROVE  Look(G, s, k, D, limit) \in A
      OBVIOUS
    <3>1. k \in Nat /\ k # 0
      BY <1>2
    <3> QED
      BY <3>1, LookIsTyped
  <2>2. \A k \in 1 .. N : \A s \in A : step[<<k, s>>] = Look(G, s, k, D, limit)
    OBVIOUS
  <2>3. first \in A
    BY <1>3 DEF Queue
  <2> HIDE DEF step, A
  <2>a. PICK f : Recurring(f, A, first, N, step)
    BY <1>2, <2>1, <2>3, StepwiseExists DEF Mapping
  <2>4. f \in [0 .. N -> A] /\ f[0] = first /\ \A k \in 1 .. N : f[k] = step[<<k, f[k - 1]>>]
    BY <2>a DEF Recurring
  <2>5. ASSUME NEW k \in 0 .. N
        PROVE  f[k] = IF k = 0 THEN first ELSE Look(G, f[k - 1], k, D, limit)
    <3>1. CASE k = 0
      BY <2>4, <3>1
    <3>2. CASE k # 0
      <4>1. k \in 1 .. N /\ k - 1 \in 0 .. N
        BY <1>2, <3>2
      <4>2. f[k - 1] \in A
        BY <2>4, <4>1
      <4> QED
        BY <2>2, <2>4, <3>2, <4>1, <4>2
    <3> QED
      BY <3>1, <3>2
  <2>6. Stepped(f)
    BY <2>4, <2>5
  <2> HIDE DEF Stepped
  <2> QED
    BY <2>6
<1> HIDE DEF looked
<1> DEFINE S == {k \in Nat : k <= N => /\ Queue(G, T, k, looked[k])
                                       /\ Reached(ball, Steps(G, T), seeds, D, limit, k, looked[k])}
<1>5. 0 \in S
  <2>1. looked[0] = first
    BY <1>2, <1>4
  <2> QED
    BY <1>3, <2>1
<1>6. ASSUME NEW k \in Nat, k \in S
      PROVE  k + 1 \in S
  <2> SUFFICES ASSUME k + 1 <= N
               PROVE  /\ Queue(G, T, k + 1, looked[k + 1])
                      /\ Reached(ball, Steps(G, T), seeds, D, limit, k + 1, looked[k + 1])
    OBVIOUS
  <2>1. k + 1 \in 0 .. N /\ k + 1 # 0 /\ (k + 1) - 1 = k /\ k <= N
    BY <1>2
  <2>2. looked[k + 1] = Look(G, looked[k], k + 1, D, limit)
    BY <1>4, <2>1
  <2>3. Queue(G, T, k, looked[k]) /\ Reached(ball, Steps(G, T), seeds, D, limit, k, looked[k])
    BY <1>6, <2>1
  <2>4. k + 1 <= Len(G.nodes)
    BY DEF N
  <2> QED
    BY <2>2, <2>3, <2>4, LookKeeps
<1> HIDE DEF S, Stepped
<1>7. N \in S
  BY <1>2, <1>5, <1>6, NumbersByInduction
<1>8. Ended(G, T, ball, seeds, D, limit, looked[N])
  BY <1>2, <1>7 DEF S, Ended, N
<1> QED
  BY <1>1, <1>8 DEF Expanded

-----------------------------------------------------------------------------
(* Distances.                                                              *)

LEMMA StepsAreTyped ==
    ASSUME NEW G, IsGraph(G), NEW T
    PROVE  Steps(G, T) \in [Nodes(G) -> SUBSET Nodes(G)]
<1>1. \A n \in Nodes(G) : \A x \in Related(G, n, 0) : x.to \in Nodes(G)
  BY RelatedIsTyped
<1> QED
  BY <1>1 DEF Steps

LEMMA BallsGrow ==
    ASSUME IsGraph(graph), NEW S, S \subseteq Nodes(graph),
           NEW succ, Mapping(succ, Nodes(graph), SUBSET Nodes(graph))
    PROVE  /\ Growing(Balls(S, succ), Len(graph.nodes), S, succ)
           /\ DOMAIN Balls(S, succ) = 1 .. Len(graph.nodes) + 1
           /\ \A k \in DOMAIN Balls(S, succ) : Balls(S, succ)[k] \subseteq Nodes(graph)
<1> DEFINE N == Len(graph.nodes)
           V == SUBSET Nodes(graph)
           one == <<S>>
           next(k, balls) == Append(balls, balls[k] \cup UNION {succ[n] : n \in balls[k]})
           Stepped(g) == g = [k \in 0 .. N |-> IF k = 0 THEN one ELSE next(k, g[k - 1])]
           upTo == CHOOSE g : Stepped(g)
<1>1. Balls(S, succ) = upTo[N]
  BY DEF Balls
<1>2. N \in Nat
  BY DEF IsGraph
<1>3. one \in Seq(V) /\ Len(one) = 1 /\ one[1] = S
  OBVIOUS
<1>4. ASSUME NEW k, NEW b, b \in V
      PROVE  b \cup UNION {succ[n] : n \in b} \in V
  BY <1>4 DEF Mapping
\* What the k-th step makes of a sequence of k sets.
<1>5. ASSUME NEW k \in Nat, k # 0, NEW b \in Seq(V), Len(b) = k
      PROVE  /\ next(k, b) \in Seq(V) /\ Len(next(k, b)) = k + 1
             /\ \A i \in 1 .. k : next(k, b)[i] = b[i]
             /\ next(k, b)[k + 1] = b[k] \cup UNION {succ[n] : n \in b[k]}
  <2>1. b[k] \in V
    BY <1>5, LenProperties
  <2>2. PICK v \in V : v = b[k] \cup UNION {succ[n] : n \in b[k]}
    BY <1>4, <2>1
  <2>3. next(k, b) = Append(b, v)
    BY <2>2
  <2> HIDE DEF next, V
  <2>4. /\ Append(b, v) \in Seq(V) /\ Len(Append(b, v)) = Len(b) + 1
        /\ \A i \in 1 .. Len(b) : Append(b, v)[i] = b[i]
        /\ Append(b, v)[Len(b) + 1] = v
    BY AppendProperties
  <2> QED
    BY <1>5, <2>2, <2>3, <2>4
<1> HIDE DEF next, V, N, one
<1>6. Stepped(upTo)
  <2> DEFINE B == Seq(V)
             step == [p \in (1 .. N) \X B |-> IF Len(p[2]) = p[1] THEN next(p[1], p[2]) ELSE <<>>]
  <2>1. step \in [(1 .. N) \X B -> B]
    <3> SUFFICES ASSUME NEW k \in 1 .. N, NEW b \in B, Len(b) = k
                 PROVE  next(k, b) \in B
      BY EmptySeq
    <3>1. k \in Nat /\ k # 0
      BY <1>2
    <3> QED
      BY <1>5, <3>1
  <2>2. \A k \in 1 .. N : \A b \in B : Len(b) = k => step[<<k, b>>] = next(k, b)
    OBVIOUS
  <2>3. one \in B
    BY <1>3
  <2>4. B = Seq(V)
    BY Zenon
  <2> HIDE DEF step, B
  <2>a. Mapping(step, (1 .. N) \X B, B)
    BY <2>1 DEF Mapping
  <2>b. PICK f : Recurring(f, B, one, N, step)
    BY <1>2, <2>3, <2>a, StepwiseExists
  <2>5. f \in [0 .. N -> B] /\ f[0] = one /\ \A k \in 1 .. N : f[k] = step[<<k, f[k - 1]>>]
    BY <2>b DEF Recurring
  <2> DEFINE L == {k \in Nat : k <= N => f[k] \in Seq(V) /\ Len(f[k]) = k + 1}
  <2>6. 0 \in L
    BY <1>3, <2>5
  <2>7. ASSUME NEW k \in Nat, k \in L
        PROVE  k + 1 \in L
    <3> SUFFICES ASSUME k + 1 <= N
                 PROVE  f[k + 1] \in Seq(V) /\ Len(f[k + 1]) = (k + 1) + 1
      OBVIOUS
    <3>1. k + 1 \in 1 .. N /\ (k + 1) - 1 = k /\ k <= N /\ k + 1 # 0 /\ k + 1 \in Nat
      BY <1>2
    <3>2. f[k] \in Seq(V) /\ Len(f[k]) = k + 1
      BY <2>7, <3>1
    <3>3. f[k + 1] = step[<<k + 1, f[k]>>]
      BY <2>5, <3>1
    <3>4. step[<<k + 1, f[k]>>] = next(k + 1, f[k])
      BY <2>2, <2>4, <3>1, <3>2
    <3> QED
      BY <1>5, <3>1, <3>2, <3>3, <3>4
  <2> HIDE DEF L
  <2>8. Nat \subseteq L
    BY <2>6, <2>7, NumbersByInduction
  <2>9. ASSUME NEW k \in 0 .. N
        PROVE  f[k] = IF k = 0 THEN one ELSE next(k, f[k - 1])
    <3>1. CASE k = 0
      BY <2>5, <3>1
    <3>2. CASE k # 0
      <4>1. k \in 1 .. N /\ k - 1 \in Nat /\ k - 1 <= N /\ (k - 1) + 1 = k
        BY <1>2, <3>2
      <4>2. f[k - 1] \in Seq(V) /\ Len(f[k - 1]) = k
        BY <2>8, <4>1 DEF L
      <4>3. f[k] = step[<<k, f[k - 1]>>]
        BY <2>5, <4>1
      <4>4. step[<<k, f[k - 1]>>] = next(k, f[k - 1])
        BY <2>2, <2>4, <4>1, <4>2
      <4> QED
        BY <3>2, <4>3, <4>4
    <3> QED
      BY <3>1, <3>2
  <2>10. Stepped(f)
    BY <2>5, <2>9
  <2> HIDE DEF Stepped
  <2> QED
    BY <2>10
<1> HIDE DEF upTo
<1> HIDE DEF Stepped
<1>a. \A k \in 0 .. N : upTo[k] = IF k = 0 THEN one ELSE next(k, upTo[k - 1])
  BY <1>6 DEF Stepped
<1> DEFINE Good(k, b) == /\ b \in Seq(V) /\ Len(b) = k + 1 /\ b[1] = S
                         /\ \A i \in 1 .. k : b[i + 1] = b[i] \cup UNION {succ[n] : n \in b[i]}
           M == {k \in Nat : k <= N => Good(k, upTo[k])}
<1> HIDE DEF Good
<1>7. 0 \in M
  <2>1. upTo[0] = one
    BY <1>2, <1>a
  <2>2. Good(0, one)
    BY <1>3 DEF Good
  <2> QED
    BY <2>1, <2>2
<1>8. ASSUME NEW k \in Nat, k \in M
      PROVE  k + 1 \in M
  <2> SUFFICES ASSUME k + 1 <= N
               PROVE  Good(k + 1, upTo[k + 1])
    OBVIOUS
  <2>1. k + 1 \in 0 .. N /\ k + 1 \in Nat /\ k + 1 # 0 /\ (k + 1) - 1 = k /\ k <= N
    BY <1>2
  <2>2. PICK b : b = upTo[k]
    OBVIOUS
  <2>3. Good(k, b)
    BY <1>8, <2>1, <2>2
  <2>4. PICK c : c = next(k + 1, b)
    OBVIOUS
  <2>5. upTo[k + 1] = c
    BY <1>a, <2>1, <2>2, <2>4
  <2>6. /\ c \in Seq(V) /\ Len(c) = (k + 1) + 1
        /\ \A i \in 1 .. k + 1 : c[i] = b[i]
        /\ c[(k + 1) + 1] = b[k + 1] \cup UNION {succ[n] : n \in b[k + 1]}
    <3>1. b \in Seq(V) /\ Len(b) = k + 1
      BY <2>3 DEF Good
    <3>2. \A j \in Nat : j # 0 => \A d \in Seq(V) : Len(d) = j =>
            /\ next(j, d) \in Seq(V) /\ Len(next(j, d)) = j + 1
            /\ \A i \in 1 .. j : next(j, d)[i] = d[i]
            /\ next(j, d)[j + 1] = d[j] \cup UNION {succ[n] : n \in d[j]}
      BY <1>5, Zenon
    <3> QED
      BY <2>1, <2>4, <3>1, <3>2, ZenonT(30)
  <2>7. c[1] = S
    <3>1. 1 \in 1 .. k + 1
      BY <2>1
    <3> QED
      BY <2>3, <2>6, <3>1 DEF Good
  <2>8. ASSUME NEW i \in 1 .. k + 1
        PROVE  c[i + 1] = c[i] \cup UNION {succ[n] : n \in c[i]}
    <3>1. c[i] = b[i]
      BY <2>6
    <3>2. CASE i = k + 1
      BY <2>6, <3>1, <3>2
    <3>3. CASE i # k + 1
      <4>1. i \in 1 .. k /\ i + 1 \in 1 .. k + 1
        BY <3>3
      <4>2. c[i + 1] = b[i + 1]
        BY <2>6, <4>1
      <4> QED
        BY <2>3, <3>1, <4>1, <4>2 DEF Good
    <3> QED
      BY <3>2, <3>3
  <2>9. Good(k + 1, c)
    BY <2>6, <2>7, <2>8 DEF Good
  <2> QED
    BY <2>5, <2>9
<1> HIDE DEF M
<1>9. N \in M
  BY <1>2, <1>7, <1>8, NumbersByInduction
<1>10. Good(N, upTo[N])
  BY <1>2, <1>9 DEF M
<1>11. PICK r : r = upTo[N]
  OBVIOUS
<1>12. /\ DOMAIN r = 1 .. N + 1
       /\ \A k \in 1 .. N + 1 : r[k] \in V
  BY <1>2, <1>10, <1>11, LenProperties DEF Good
<1>13. Growing(r, N, S, succ)
  BY <1>10, <1>11 DEF Growing, Good
<1> QED
  BY <1>1, <1>11, <1>12, <1>13 DEF N, V

LEMMA DistanceIsLeast ==
    ASSUME NEW N \in Nat, NEW ball, DOMAIN ball = 1 .. N + 1, NEW n, NEW k \in 0 .. N,
           n \in ball[k + 1], \A m \in Nat : m < k => n \notin ball[m + 1]
    PROVE  Distance(ball, n) = k
<1> DEFINE within == {i \in DOMAIN ball : n \in ball[i]}
           least == CHOOSE i \in within : \A j \in within : i <= j
<1>1. k + 1 \in within
  OBVIOUS
<1>2. ASSUME NEW j \in within
      PROVE  k + 1 <= j
  <2>1. j \in 1 .. N + 1 /\ j - 1 \in Nat /\ (j - 1) + 1 = j /\ n \in ball[j]
    OBVIOUS
  <2>2. ~ (j - 1 < k)
    BY <2>1
  <2> QED
    BY <2>1, <2>2
<1>3. within \subseteq Nat
  OBVIOUS
<1> HIDE DEF within
<1>4. least \in within /\ \A j \in within : least <= j
  BY <1>1, <1>2
<1> HIDE DEF least
<1>5. least = k + 1
  BY <1>1, <1>2, <1>3, <1>4
<1>6. Distance(ball, n) = least - 1
  BY <1>1 DEF Distance, least, within
<1> QED
  BY <1>5, <1>6

\* What the search has found below the limit: all there is.
LEMMA BelowTheLimitAllIsFound ==
    ASSUME NEW G, IsGraph(G), NEW T, NEW ball, NEW succ, NEW seeds, NEW D \in Nat, NEW limit \in Nat,
           Growing(ball, Len(G.nodes), seeds, succ),
           NEW s, Queue(G, T, Len(G.nodes), s),
           Reached(ball, succ, seeds, D, limit, Len(G.nodes), s), Len(s) < limit,
           NEW m \in Nat, m <= D, m <= Len(G.nodes)
    PROVE  \A n \in ball[m + 1] : Found(s, n, m)
<1> DEFINE N == Len(G.nodes)
           A == {k \in Nat : k <= D /\ k <= N => \A n \in ball[k + 1] : Found(s, n, k)}
<1>1. N \in Nat
  BY DEF IsGraph
<1>2. s \in Seq(Candidates(G)) /\ Len(s) \in Nat /\ Len(s) <= N
  BY QueueIsBounded, LenProperties DEF Queue
<1>3. \A i \in 1 .. Len(s) : s[i].queued /\ s[i].depth < D =>
        \A n \in succ[s[i].node] : Found(s, n, s[i].depth + 1)
  <2> SUFFICES ASSUME NEW i \in 1 .. Len(s), s[i].queued, s[i].depth < D
               PROVE  \A n \in succ[s[i].node] : Found(s, n, s[i].depth + 1)
    OBVIOUS
  <2>1. i <= Len(G.nodes)
    BY <1>1, <1>2
  <2> QED
    BY <2>1 DEF Reached
<1>4. \A k \in 1 .. N : ball[k + 1] = ball[k] \cup UNION {succ[n] : n \in ball[k]}
  BY DEF Growing
<1>5. ball[1] = seeds
  BY DEF Growing
<1> HIDE DEF N
<1>6. 0 \in A
  BY <1>5 DEF Reached
<1>7. ASSUME NEW k \in Nat, k \in A
      PROVE  k + 1 \in A
  <2> SUFFICES ASSUME k + 1 <= D, k + 1 <= N, NEW n \in ball[(k + 1) + 1]
               PROVE  Found(s, n, k + 1)
    OBVIOUS
  <2>1. k <= D /\ k <= N /\ k + 1 \in 1 .. N /\ k < D /\ k <= k + 1 /\ k + 1 \in Nat
    BY <1>1
  <2>2. \A x \in ball[k + 1] : Found(s, x, k)
    BY <1>7, <2>1
  <2>3. CASE n \in ball[k + 1]
    BY <1>2, <2>1, <2>2, <2>3, FoundLater
  <2>4. CASE \E x \in ball[k + 1] : n \in succ[x]
    <3>1. PICK x \in ball[k + 1] : n \in succ[x]
      BY <2>4
    <3>2. PICK i \in 1 .. Len(s) : s[i].node = x /\ s[i].queued /\ s[i].depth <= k
      BY <2>2 DEF Found
    <3>3. s[i].depth \in Nat
      BY <1>2, CandidatesAreTyped
    <3>4. s[i].depth < D /\ s[i].depth + 1 <= k + 1 /\ s[i].depth + 1 \in Nat
      BY <2>1, <3>2, <3>3
    <3>5. Found(s, n, s[i].depth + 1)
      BY <1>3, <3>1, <3>2, <3>4
    <3> QED
      BY <1>2, <2>1, <3>4, <3>5, FoundLater
  <2>5. n \in ball[k + 1] \/ \E x \in ball[k + 1] : n \in succ[x]
    BY <1>4, <2>1
  <2> QED
    BY <2>3, <2>4, <2>5
<1> HIDE DEF A
<1>8. m \in A
  BY <1>6, <1>7, NumbersByInduction
<1> QED
  BY <1>8 DEF A, N

\* The property CandidatesAreClosest, of a sequence of candidates.
Closest(G, T, ball, D, limit, r) ==
    LET found == {c \in ToSet(r) : c.node \notin T}
        kept == {c.node : c \in found}
        left == ball[IF D < Len(G.nodes) THEN D + 1 ELSE Len(G.nodes) + 1] \ kept
    IN  /\ \A c \in found : c.depth = Distance(ball, c.node)
        /\ left # {} => Len(r) = limit
        /\ \A c \in found, n \in left : c.depth <= Distance(ball, n)
        /\ Cardinality(kept) = Cardinality(found)

LEMMA CutIsClosest ==
    ASSUME NEW G, IsGraph(G), NEW T, NEW ball, NEW succ, NEW seeds, NEW D \in Nat, NEW limit \in Nat,
           Growing(ball, Len(G.nodes), seeds, succ), DOMAIN ball = 1 .. Len(G.nodes) + 1,
           NEW s, Queue(G, T, Len(G.nodes), s),
           Reached(ball, succ, seeds, D, limit, Len(G.nodes), s), NEW r, Cut(s, limit, r)
    PROVE  Closest(G, T, ball, D, limit, r)
<1> DEFINE N == Len(G.nodes)
           found == {c \in ToSet(r) : c.node \notin T}
           kept == {c.node : c \in found}
           last == IF D < N THEN D ELSE N
           left == ball[IF D < N THEN D + 1 ELSE N + 1] \ kept
<1>1. N \in Nat /\ last \in Nat /\ last <= N /\ last <= D
  BY DEF IsGraph
<1>2. (IF D < N THEN D + 1 ELSE N + 1) = last + 1
  OBVIOUS
<1>3. s \in Seq(Candidates(G)) /\ Len(s) \in Nat /\ Len(s) <= N
  BY QueueIsBounded, LenProperties DEF Queue
<1>4. \A i \in 1 .. Len(s) : s[i].depth \in Nat
  BY <1>3, CandidatesAreTyped
<1>5. \A i \in 1 .. Len(s) : s[i].queued <=> s[i].node \notin T
  BY DEF Queue
<1>6. /\ Len(r) \in Nat /\ DOMAIN r = 1 .. Len(r)
      /\ Len(r) = (IF Len(s) < limit THEN Len(s) ELSE limit)
      /\ \A i \in 1 .. Len(r) : r[i] = s[i] /\ i \in 1 .. Len(s)
  BY DEF Cut
<1>7. \A c : c \in found <=> \E i \in 1 .. Len(r) : c = s[i] /\ s[i].queued
  BY <1>5, <1>6 DEF ToSet
<1>8. \A n : n \in kept <=> \E i \in 1 .. Len(r) : n = s[i].node /\ s[i].queued
  BY <1>7
<1> HIDE DEF N, found, last
<1>9. ASSUME NEW i \in 1 .. Len(s), s[i].queued
      PROVE  Distance(ball, s[i].node) = s[i].depth
  <2> DEFINE d == s[i].depth
  <2>1. d \in Nat /\ d < i
    BY <1>4, <1>9 DEF Queue
  <2>2. s[i].node \in ball[d + 1]
    BY <1>9 DEF Reached
  <2>3. ASSUME NEW m \in Nat, m < d, s[i].node \in ball[m + 1]
        PROVE  FALSE
    <3>1. Found(s, s[i].node, m)
      BY <1>9, <2>3 DEF Reached
    <3>2. PICK j \in 1 .. Len(s) : s[j].node = s[i].node /\ s[j].depth <= m
      BY <3>1 DEF Found
    <3>3. j = i
      BY <3>2 DEF Queue, Distinct
    <3>4. d <= m
      BY <3>2, <3>3
    <3> HIDE DEF d
    <3> QED
      BY <2>1, <2>3, <3>4
  <2> HIDE DEF d
  <2>4. d \in 0 .. N
    BY <1>1, <1>3, <2>1
  <2>5. DOMAIN ball = 1 .. N + 1
    BY DEF N
  <2>6. Distance(ball, s[i].node) = d
    BY <1>1, <2>2, <2>3, <2>4, <2>5, DistanceIsLeast
  <2> QED
    BY <2>6 DEF d
<1>10. \A c \in found : c.depth = Distance(ball, c.node)
  BY <1>6, <1>7, <1>9
<1>11. ASSUME NEW n \in left
       PROVE  Len(r) = limit
  <2> SUFFICES ASSUME Len(s) < limit
               PROVE  FALSE
    BY <1>6
  <2>1. n \in ball[last + 1] /\ n \notin kept
    BY <1>2
  <2>2. last <= Len(G.nodes)
    BY <1>1 DEF N
  <2>3. Found(s, n, last)
    BY <1>1, <2>1, <2>2, BelowTheLimitAllIsFound
  <2>4. Len(r) = Len(s)
    BY <1>6
  <2> QED
    BY <1>8, <2>1, <2>3, <2>4 DEF Found
<1>12. ASSUME NEW c \in found, NEW n \in left
       PROVE  c.depth <= Distance(ball, n)
  <2>1. PICK p \in 1 .. Len(r) : c = s[p] /\ s[p].queued
    BY <1>7
  <2>2. p \in 1 .. Len(s) /\ s[p].depth \in Nat
    BY <1>4, <1>6
  <2>3. n \in ball[last + 1] /\ n \notin kept
    BY <1>2
  <2> DEFINE R == {k \in Nat : k <= last /\ n \in ball[k + 1]}
  <2>4. R \subseteq Nat /\ R # {}
    <3>1. last \in R
      BY <1>1, <2>3
    <3> QED
      BY <3>1
  <2>5. PICK k \in R : \A l \in R : k <= l
    <3> HIDE DEF R
    <3> QED
      BY <2>4, LeastNumber
  <2>6. k \in Nat /\ k <= last /\ n \in ball[k + 1]
    BY <2>5
  <2>7. ASSUME NEW m \in Nat, m < k
        PROVE  n \notin ball[m + 1]
    <3>1. m <= last /\ ~ (k <= m)
      BY <1>1, <2>6, <2>7
    <3> QED
      BY <2>5, <3>1
  <2> HIDE DEF R
  <2>8. Distance(ball, n) = k
    <3>1. k \in 0 .. N
      BY <1>1, <2>6
    <3>2. DOMAIN ball = 1 .. N + 1
      BY DEF N
    <3> QED
      BY <1>1, <2>6, <2>7, <3>1, <3>2, DistanceIsLeast
  <2>9. ASSUME k < s[p].depth
        PROVE  FALSE
    <3>1. Found(s, n, k)
      BY <2>1, <2>2, <2>6, <2>9 DEF Reached
    <3>2. PICK i \in 1 .. Len(s) : s[i].node = n /\ s[i].queued /\ s[i].depth <= k
      BY <3>1 DEF Found
    <3>3. s[i].depth \in Nat /\ s[i].depth < s[p].depth
      BY <1>4, <2>2, <2>6, <2>9, <3>2
    <3>4. \A a, b \in 1 .. Len(s) :
            a < b /\ s[a].queued /\ s[b].queued => s[a].depth <= s[b].depth
      BY DEF Queue
    <3>5. ~ (p < i)
      BY <2>1, <2>2, <3>2, <3>3, <3>4
    <3>6. i \in 1 .. Len(r)
      BY <1>6, <2>2, <3>2, <3>5
    <3> QED
      BY <1>8, <2>3, <3>2, <3>6
  <2> QED
    BY <2>1, <2>2, <2>6, <2>8, <2>9
<1>13. Cardinality(kept) = Cardinality(found)
  <2> DEFINE f == [c \in found |-> c.node]
             at == [i \in 1 .. Len(r) |-> r[i]]
  <2>1. IsFiniteSet(found)
    <3>1. ToSet(r) = {at[i] : i \in 1 .. Len(r)}
      BY <1>6 DEF ToSet
    <3>2. IsFiniteSet(1 .. Len(r))
      <4>1. Len(r) \in Int /\ 1 \in Int
        BY <1>6
      <4> QED
        BY <4>1, FS_Interval
    <3>3. at = [i \in 1 .. Len(r) |-> at[i]]
      OBVIOUS
    <3> HIDE DEF at
    <3>4. IsFiniteSet(ToSet(r))
      BY <3>1, <3>2, <3>3, FiniteImage
    <3> QED
      BY <3>4, FS_Subset DEF found
  <2>2. f \in Surjection(found, kept)
    BY DEF Surjection
  <2>3. \A c, e \in found : c.node = e.node => c = e
    <3> TAKE c, e \in found
    <3>1. PICK i \in 1 .. Len(r) : c = s[i]
      BY <1>7
    <3>2. PICK j \in 1 .. Len(r) : e = s[j]
      BY <1>7
    <3>3. i \in 1 .. Len(s) /\ j \in 1 .. Len(s)
      BY <1>6
    <3>4. s[i].node = s[j].node => i = j
      BY <3>3 DEF Queue, Distinct
    <3> QED
      BY <3>1, <3>2, <3>4
  <2>4. f \in Injection(found, kept)
    BY <2>2, <2>3 DEF Injection, IsInjective, Surjection
  <2> HIDE DEF f, kept
  <2> QED
    BY <2>1, <2>2, <2>4, FS_Surjection
<1> QED
  BY <1>10, <1>11, <1>12, <1>13 DEF Closest, found, N

-----------------------------------------------------------------------------
(* The ranking, and what comes of it.                                      *)

LEMMA ScoreIsNumber ==
    ASSUME NEW G, NEW c \in Candidates(G)
    PROVE  Score(c) \in Nat
<1>1. c.role \in Roles
  BY DEF Candidates
<1> QED
  BY <1>1 DEF Score, Roles

LEMMA RankingKeepsNodes ==
    ASSUME NEW G, IsGraph(G), NEW r \in Seq(Candidates(G)), Distinct(r)
    PROVE  /\ Len(Rank(r)) \in Nat
           /\ \A i \in 1 .. Len(Rank(r)) : Rank(r)[i] \in ToSet(r) /\ Rank(r)[i].node \in Nodes(G)
           /\ \A i, j \in 1 .. Len(Rank(r)) : Rank(r)[i].node = Rank(r)[j].node => i = j
           /\ \A c \in ToSet(r) : \E i \in 1 .. Len(Rank(r)) : Rank(r)[i] = c
<1> DEFINE C == ToSet(r)
           key == [c \in C |-> <<1000 - Score(c), c.depth, c.node>>]
           at == [i \in 1 .. Len(r) |-> r[i]]
<1>1. Rank(r) = ByKeys(key)
  BY DEF Rank, InOrder
<1>2. Len(r) \in Nat /\ DOMAIN r = 1 .. Len(r)
  BY LenProperties
<1>3. \A c : c \in C <=> \E i \in 1 .. Len(r) : c = r[i]
  BY <1>2 DEF ToSet
<1>4. IsFiniteSet(C)
  <2>1. C = {at[i] : i \in 1 .. Len(r)}
    BY <1>3
  <2>2. IsFiniteSet(1 .. Len(r))
    <3>1. Len(r) \in Int /\ 1 \in Int
      BY <1>2
    <3> QED
      BY <3>1, FS_Interval
  <2>3. at = [i \in 1 .. Len(r) |-> at[i]]
    OBVIOUS
  <2> HIDE DEF at, C
  <2> QED
    BY <2>1, <2>2, <2>3, FiniteImage
<1>5. \A c \in C : c \in Candidates(G) /\ c.node \in Nodes(G) /\ c.depth \in Nat
  BY <1>3, CandidatesAreTyped
<1>6. ASSUME NEW c \in C, NEW e \in C, c.node = e.node
      PROVE  c = e
  BY <1>3, <1>6 DEF Distinct
<1> HIDE DEF C
<1>7. ASSUME NEW c \in C
      PROVE  key[c] \in [1 .. 3 -> Int]
  <2>1. Score(c) \in Nat /\ c.depth \in Nat
    BY <1>5, ScoreIsNumber
  <2>2. c.node \in Int
    BY <1>5, NodesAreFinite
  <2>3. 1000 - Score(c) \in Int /\ c.depth \in Int
    BY <2>1
  <2>4. <<1000 - Score(c), c.depth, c.node>> \in [1 .. 3 -> Int]
    BY <2>2, <2>3
  <2> QED
    BY <2>4
<1>8. ASSUME NEW c \in C, NEW e \in C, key[c] = key[e]
      PROVE  c = e
  <2>1. key[c] = <<1000 - Score(c), c.depth, c.node>> /\ key[e] = <<1000 - Score(e), e.depth, e.node>>
    OBVIOUS
  <2>2. c.node = e.node
    BY <1>8, <2>1
  <2> QED
    BY <1>6, <2>2
<1>9. DOMAIN key = C /\ 3 \in Nat
  OBVIOUS
<1> HIDE DEF key
<1>10. /\ ByKeys(key) \in Seq(C)
       /\ \A c \in C : \E i \in 1 .. Len(ByKeys(key)) : ByKeys(key)[i] = c
       /\ \A i, j \in 1 .. Len(ByKeys(key)) : ByKeys(key)[i] = ByKeys(key)[j] => i = j
  BY <1>4, <1>7, <1>8, <1>9, SortedIsASequence
<1>11. PICK s : s = Rank(r)
  OBVIOUS
<1>12. /\ s \in Seq(C)
       /\ \A c \in C : \E i \in 1 .. Len(s) : s[i] = c
       /\ \A i, j \in 1 .. Len(s) : s[i] = s[j] => i = j
  BY <1>1, <1>10, <1>11
<1>13. Len(s) \in Nat /\ \A i \in 1 .. Len(s) : s[i] \in C
  BY <1>12, LenProperties
<1>14. \A i, j \in 1 .. Len(s) : s[i].node = s[j].node => i = j
  BY <1>6, <1>12, <1>13
<1> QED
  BY <1>5, <1>11, <1>12, <1>13, <1>14 DEF C

\* The property BundleFitsAndKeeps, of what is taken of the candidates.
LEMMA TakenFitsAndIsKept ==
    ASSUME NEW G, IsGraph(G), Lined(G), NEW r \in Seq(Candidates(G)), Distinct(r),
           NEW unreadable, NEW budget \in Nat,
           NEW taken, taken = Allocate(G, Rank(r), unreadable, budget)
    PROVE  /\ Fitting(G, unreadable, budget, taken, {c.node : c \in ToSet(r)})
           /\ Merged(G, Bundle(G, taken.items), taken.items)
           /\ Spent(G, unreadable, Bundle(G, taken.items)) <= taken.used
<1>1. PICK s : s = Rank(r)
  OBVIOUS
<1>2. PICK n : n = Len(s)
  OBVIOUS
<1>3. /\ n \in Nat
      /\ \A i \in 1 .. n : s[i] \in ToSet(r) /\ s[i].node \in Nodes(G)
      /\ \A i, j \in 1 .. n : s[i].node = s[j].node => i = j
      /\ \A c \in ToSet(r) : \E i \in 1 .. n : s[i] = c
  BY <1>1, <1>2, RankingKeepsNodes
<1>4. {s[i].node : i \in 1 .. n} = {c.node : c \in ToSet(r)}
  BY <1>3
<1>5. IsFiniteSet(Nodes(G)) /\ Nodes(G) \subseteq Int
  BY NodesAreFinite
<1>a. PICK seen : seen = {s[i].node : i \in 1 .. n}
  OBVIOUS
<1>6. Fitting(G, unreadable, budget, taken, seen)
  <2>1. Len(s) = n
    BY <1>2
  <2>2. \A i \in 1 .. n : s[i].node \in Nodes(G)
    BY <1>3
  <2>3. \A i, j \in 1 .. n : s[i].node = s[j].node => i = j
    BY <1>3
  <2>4. n \in Nat /\ IsFiniteSet(Nodes(G))
    BY <1>3, <1>5
  <2>5. Fitting(G, unreadable, budget, Allocate(G, s, unreadable, budget), seen)
    BY <1>a, <2>1, <2>2, <2>3, <2>4, AllocationFits
  <2> QED
    BY <1>1, <2>5
<1>7. taken.items \subseteq Nodes(G)
  BY <1>a, <1>3, <1>6 DEF Fitting
<1>8. Merged(G, Bundle(G, taken.items), taken.items)
  BY <1>5, <1>7, BundleMerges
<1>9. Bundle(G, taken.items) \subseteq taken.items
  BY <1>8 DEF Merged
<1>10. Spent(G, unreadable, Bundle(G, taken.items)) <= Spent(G, unreadable, taken.items)
  BY <1>5, <1>7, <1>9, SpentGrows
<1> QED
  BY <1>a, <1>4, <1>6, <1>8, <1>10 DEF Fitting

\* Without a seed there is nothing near one.
LEMMA NothingIsNearNothing ==
    ASSUME NEW G, IsGraph(G), NEW T, NEW ball, NEW succ, NEW D \in Nat, NEW limit,
           Growing(ball, Len(G.nodes), {}, succ)
    PROVE  Closest(G, T, ball, D, limit, <<>>)
<1> DEFINE N == Len(G.nodes)
           S == {k \in Nat : k <= N => ball[k + 1] = {}}
<1>1. N \in Nat
  BY DEF IsGraph
<1>2. ball[1] = {} /\ \A k \in 1 .. N : ball[k + 1] = ball[k] \cup UNION {succ[n] : n \in ball[k]}
  BY DEF Growing
<1> HIDE DEF N
<1>3. 0 \in S
  BY <1>2
<1>4. ASSUME NEW k \in Nat, k \in S
      PROVE  k + 1 \in S
  <2> SUFFICES ASSUME k + 1 <= N
               PROVE  ball[(k + 1) + 1] = {}
    OBVIOUS
  <2>1. k <= N /\ k + 1 \in 1 .. N
    BY <1>1
  <2>2. ball[k + 1] = {}
    BY <1>4, <2>1
  <2>3. ball[(k + 1) + 1] = ball[k + 1] \cup UNION {succ[n] : n \in ball[k + 1]}
    BY <1>2, <2>1
  <2>4. UNION {succ[n] : n \in ball[k + 1]} = {}
    BY <2>2
  <2> QED
    BY <2>2, <2>3, <2>4
<1> HIDE DEF S
<1>5. Nat \subseteq S
  BY <1>3, <1>4, NumbersByInduction
<1>6. ball[IF D < N THEN D + 1 ELSE N + 1] = {}
  BY <1>1, <1>5 DEF S
<1>7. ToSet(<<>>) = {}
  BY DEF ToSet
<1> QED
  BY <1>6, <1>7 DEF Closest, N

-----------------------------------------------------------------------------
(* The contexts.                                                           *)

LEMMA ContextIsClosest ==
    ASSUME IsGraph(graph), NEW seeds, seeds \subseteq Nodes(graph),
           NEW T, T = SeedTests(graph, seeds), NEW tests \in SetToSeqs(T),
           NEW D \in Nat, NEW limit \in Nat,
           NEW r, r = IF seeds = {} THEN <<>> ELSE Expand(graph, seeds, tests, D, limit)
    PROVE  /\ r \in Seq(Candidates(graph)) /\ Distinct(r)
           /\ Closest(graph, T, Balls(seeds, Steps(graph, T)), D, limit, r)
<1> DEFINE N == Len(graph.nodes)
<1>1. PICK succ : succ = Steps(graph, T)
  OBVIOUS
<1>2. PICK ball : ball = Balls(seeds, succ)
  OBVIOUS
<1>3. Growing(ball, N, seeds, succ) /\ DOMAIN ball = 1 .. N + 1
  <2>1. Mapping(succ, Nodes(graph), SUBSET Nodes(graph))
    BY <1>1, StepsAreTyped DEF Mapping
  <2> QED
    BY <1>2, <2>1, BallsGrow
<1>4. T \subseteq Nodes(graph) /\ T \cap seeds = {}
  BY SeedTestsAreNodes
<1>5. CASE seeds = {}
  <2>1. r = <<>>
    BY <1>5
  <2>2. r \in Seq(Candidates(graph)) /\ Distinct(r)
    <3>1. <<>> \in Seq(Candidates(graph)) /\ Len(<<>>) = 0
      BY EmptySeq
    <3>2. \A i \in 1 .. Len(<<>>) : FALSE
      BY <3>1
    <3>3. Distinct(<<>>)
      BY <3>2 DEF Distinct
    <3> QED
      BY <2>1, <3>1, <3>3
  <2>3. Growing(ball, N, {}, succ)
    BY <1>3, <1>5
  <2>4. Closest(graph, T, ball, D, limit, <<>>)
    BY <2>3, NothingIsNearNothing
  <2> QED
    BY <1>1, <1>2, <2>1, <2>2, <2>4
<1>6. CASE seeds # {}
  <2>1. r = Expand(graph, seeds, tests, D, limit)
    BY <1>6
  <2>2. PICK s : /\ Ended(graph, T, ball, seeds, D, limit, s)
                 /\ Expand(graph, seeds, tests, D, limit) = Limited(s, limit)
    <3>1. Growing(ball, Len(graph.nodes), seeds, Steps(graph, T))
      BY <1>1, <1>3
    <3>2. Expanded(graph, T, ball, seeds, D, limit, Expand(graph, seeds, tests, D, limit))
      BY <1>4, <3>1, ExpandSearches
    <3> QED
      BY <3>2 DEF Expanded
  <2>3. /\ Queue(graph, T, N, s) /\ Reached(ball, succ, seeds, D, limit, N, s)
        /\ s \in Seq(Candidates(graph)) /\ Distinct(s)
    BY <1>1, <2>2 DEF Ended, Queue
  <2>4. r \in Seq(Candidates(graph)) /\ Cut(s, limit, r)
    <3>1. Limited(s, limit) \in Seq(Candidates(graph)) /\ Cut(s, limit, Limited(s, limit))
      BY <2>3, LimitCuts
    <3> QED
      BY <2>1, <2>2, <3>1
  <2>5. Distinct(r)
    BY <2>3, <2>4 DEF Distinct, Cut
  <2>6. Closest(graph, T, ball, D, limit, r)
    BY <1>3, <2>3, <2>4, CutIsClosest
  <2> QED
    BY <1>1, <1>2, <2>4, <2>5, <2>6
<1> QED
  BY <1>5, <1>6

\* What an answer about a context consists of.
LEMMA ContextConsists ==
    ASSUME AnswerIsDerived, Is("context")
    PROVE  /\ IsGraph(graph) /\ Lined(graph)
           /\ answer.args.depth \in Nat /\ answer.args.limit \in Nat /\ answer.args.budget \in Nat
           /\ answer.result.seeds \subseteq Nodes(graph)
           /\ \E tests \in SetToSeqs(SeedTests(graph, answer.result.seeds)) :
                answer.result.candidates =
                  IF answer.result.seeds = {} THEN <<>>
                  ELSE Expand(graph, answer.result.seeds, tests, answer.args.depth,
                              answer.args.limit)
           /\ \E taken :
                /\ taken = Allocate(graph, Rank(answer.result.candidates), answer.args.unreadable,
                                    answer.args.budget)
                /\ answer.result.items = taken.items /\ answer.result.used = taken.used
                /\ answer.result.slices = Bundle(graph, taken.items)
                /\ answer.result.total = Spent(graph, answer.args.unreadable,
                                               Bundle(graph, taken.items))
<1>1. graph \in Asked /\ ContextGiven(graph, answer.args, answer.result)
  BY DEF AnswerIsDerived
<1>2. IsGraph(graph) /\ Lined(graph)
  BY <1>1, QuestionsAssumption DEF Lined
<1>3. PICK depth \in Depths, limit \in Sizes, budget \in Budgets, unreadable \in Unreadables :
        \E request :
          \E tests \in SetToSeqs(SeedTests(graph, Seeds(graph, request))) :
            /\ answer.args = [depth |-> depth, limit |-> limit, budget |-> budget,
                              unreadable |-> unreadable]
            /\ answer.result = Context(graph, request, tests, depth, limit, unreadable, budget)
  BY <1>1, Zenon DEF ContextGiven
<1>4. PICK request :
        \E tests \in SetToSeqs(SeedTests(graph, Seeds(graph, request))) :
          /\ answer.args = [depth |-> depth, limit |-> limit, budget |-> budget,
                            unreadable |-> unreadable]
          /\ answer.result = Context(graph, request, tests, depth, limit, unreadable, budget)
  BY <1>3, Zenon
<1>5. PICK tests \in SetToSeqs(SeedTests(graph, Seeds(graph, request))) :
        /\ answer.args = [depth |-> depth, limit |-> limit, budget |-> budget,
                          unreadable |-> unreadable]
        /\ answer.result = Context(graph, request, tests, depth, limit, unreadable, budget)
  BY <1>4, Zenon
<1>6. /\ answer.args.depth = depth /\ answer.args.limit = limit /\ answer.args.budget = budget
      /\ answer.args.unreadable = unreadable
      /\ depth \in Nat /\ limit \in Nat /\ budget \in Nat
  BY <1>5, LimitsAssumption
<1> DEFINE seeds == Seeds(graph, request)
           candidates == IF seeds = {} THEN <<>> ELSE Expand(graph, seeds, tests, depth, limit)
           taken == Allocate(graph, Rank(candidates), unreadable, budget)
<1>7. seeds \subseteq Nodes(graph)
  BY DEF Seeds
<1>8. answer.result = [seeds |-> seeds, candidates |-> candidates, items |-> taken.items,
                       used |-> taken.used,
                       omitted |-> Len(candidates) - Cardinality(taken.items),
                       slices |-> Bundle(graph, taken.items),
                       total |-> Spent(graph, unreadable, Bundle(graph, taken.items))]
  BY <1>5, Zenon DEF Context
<1> HIDE DEF seeds, taken, candidates
<1>9. /\ answer.result.seeds = seeds /\ answer.result.candidates = candidates
      /\ answer.result.items = taken.items /\ answer.result.used = taken.used
      /\ answer.result.slices = Bundle(graph, taken.items)
      /\ answer.result.total = Spent(graph, unreadable, Bundle(graph, taken.items))
  BY <1>8
<1>10. tests \in SetToSeqs(SeedTests(graph, answer.result.seeds))
  BY <1>9 DEF seeds
<1>11. answer.result.candidates =
         IF answer.result.seeds = {} THEN <<>>
         ELSE Expand(graph, answer.result.seeds, tests, answer.args.depth, answer.args.limit)
  BY <1>6, <1>9 DEF candidates
<1>12. taken = Allocate(graph, Rank(answer.result.candidates), answer.args.unreadable,
                        answer.args.budget)
  BY <1>6, <1>9 DEF taken
<1> QED
  BY <1>2, <1>6, <1>7, <1>9, <1>10, <1>11, <1>12

LEMMA DerivedIsClosest == AnswerIsDerived => CandidatesAreClosest
<1> SUFFICES ASSUME AnswerIsDerived, Is("context")
             PROVE  CandidatesAreClosest
  BY Zenon DEF CandidatesAreClosest
<1> DEFINE r == answer.result
           a == answer.args
           T == SeedTests(graph, r.seeds)
<1>1. Closest(graph, T, Balls(r.seeds, Steps(graph, T)), a.depth, a.limit, r.candidates)
  <2>1. /\ IsGraph(graph) /\ r.seeds \subseteq Nodes(graph) /\ a.depth \in Nat /\ a.limit \in Nat
        /\ \E tests \in SetToSeqs(T) :
             r.candidates = IF r.seeds = {} THEN <<>>
                            ELSE Expand(graph, r.seeds, tests, a.depth, a.limit)
    BY ContextConsists
  <2> HIDE DEF r, a
  <2> QED
    BY <2>1, ContextIsClosest
<1> QED
  BY <1>1, Zenon DEF CandidatesAreClosest, Closest, Steps, Ball

LEMMA DerivedFits == AnswerIsDerived => BundleFitsAndKeeps
<1> SUFFICES ASSUME AnswerIsDerived, Is("context")
             PROVE  BundleFitsAndKeeps
  BY Zenon DEF BundleFitsAndKeeps
<1> DEFINE r == answer.result
           a == answer.args
           T == SeedTests(graph, r.seeds)
<1>1. /\ IsGraph(graph) /\ Lined(graph) /\ r.seeds \subseteq Nodes(graph)
      /\ a.depth \in Nat /\ a.limit \in Nat /\ a.budget \in Nat
      /\ \E tests \in SetToSeqs(T) :
           r.candidates = IF r.seeds = {} THEN <<>>
                          ELSE Expand(graph, r.seeds, tests, a.depth, a.limit)
  BY ContextConsists
<1>2. PICK taken : /\ taken = Allocate(graph, Rank(r.candidates), a.unreadable, a.budget)
                   /\ r.items = taken.items /\ r.used = taken.used
                   /\ r.slices = Bundle(graph, taken.items)
                   /\ r.total = Spent(graph, a.unreadable, Bundle(graph, taken.items))
  BY ContextConsists
<1> HIDE DEF r, a
<1>3. r.candidates \in Seq(Candidates(graph)) /\ Distinct(r.candidates)
  BY <1>1, ContextIsClosest
<1>4. /\ Fitting(graph, a.unreadable, a.budget, taken, {c.node : c \in ToSet(r.candidates)})
      /\ Merged(graph, Bundle(graph, taken.items), taken.items)
      /\ Spent(graph, a.unreadable, Bundle(graph, taken.items)) <= taken.used
  BY <1>1, <1>2, <1>3, TakenFitsAndIsKept
<1>5. /\ r.used <= a.budget \/ Cardinality(r.items) = 1
      /\ r.total <= r.used
      /\ r.used = Spent(graph, a.unreadable, r.items)
      /\ \A c \in ToSet(r.candidates) :
           c.node \in r.items \/ r.used + Cost(graph, a.unreadable, c.node) > a.budget
  BY <1>2, <1>4 DEF Fitting
<1>6. /\ \A n \in r.items : \E m \in r.slices : Encloses(graph, m, n)
      /\ \A n, m \in r.slices : n # m => ~ Encloses(graph, m, n)
  BY <1>2, <1>4 DEF Merged
<1> QED
  BY <1>5, <1>6, Zenon DEF BundleFitsAndKeeps, r, a

\* Whatever nodes a context starts from and however the edges lie around
\* them: the candidates are the nodes nearest to the seeds, each as far away
\* as it says, and only the limit keeps out one within the depth.
THEOREM CandidatesStayClosest == Spec => []CandidatesAreClosest
<1>1. Init => AnswerIsDerived
  BY InitIsDerived
<1>2. AnswerIsDerived /\ [Next]_<<vars, answer>> => AnswerIsDerived'
  BY NextKeepsTheAnswerDerived
<1>3. AnswerIsDerived => CandidatesAreClosest
  BY DerivedIsClosest
<1> QED
  BY <1>1, <1>2, <1>3, PTL DEF Spec

\* Whatever the budget: what a context holds fits it or is the one item
\* that is always taken, nothing that was left out would have fitted, and
\* merging the slices loses no item and leaves no slice in another.
THEOREM BundlesFitAndKeep == Spec => []BundleFitsAndKeeps
<1>1. Init => AnswerIsDerived
  BY InitIsDerived
<1>2. AnswerIsDerived /\ [Next]_<<vars, answer>> => AnswerIsDerived'
  BY NextKeepsTheAnswerDerived
<1>3. AnswerIsDerived => BundleFitsAndKeeps
  BY DerivedFits
<1> QED
  BY <1>1, <1>2, <1>3, PTL DEF Spec

-----------------------------------------------------------------------------
(* What the state of an analysis holds.                                    *)

LEMMA InitIsShaped == Init => Shaped
<1> SUFFICES ASSUME Init
             PROVE  Shaped
  OBVIOUS
<1>1. CASE \E a \in Analyses : Idle(a.graph, a.options, "project")
  BY <1>1, IdleIsShaped
<1>2. CASE \E G \in Asked : Idle(G, [level |-> "symbol", filter |-> "none", limit |-> 0], "idle")
  BY <1>2, IdleIsShaped
<1> QED
  BY <1>1, <1>2 DEF Init

LEMMA NextShapes == Searched /\ Shaped /\ [Next]_<<vars, answer>> => Shaped'
<1> SUFFICES ASSUME Searched, Shaped, [Next]_<<vars, answer>>
             PROVE  Shaped'
  OBVIOUS
<1>1. CASE Analyse
  BY <1>1, AnalyseShapes
<1>2. CASE Answering
  <2>1. stage' = "done" /\ UNCHANGED <<weight, tarjan, starts, labels, round>>
    BY <1>2, AnsweringChangesTheAnswer DEF Answers
  <2> QED
    BY <2>1 DEF Shaped, Units
<1>3. CASE UNCHANGED <<vars, answer>>
  BY <1>3 DEF Shaped, vars, Units
<1> QED
  BY <1>1, <1>2, <1>3 DEF Next, Answering

LEMMA ShapedIsTyped == Searched /\ Shaped /\ AnswerIsDerived => TypeOK
<1> SUFFICES ASSUME Searched, Shaped, AnswerIsDerived
             PROVE  TypeOK
  OBVIOUS
<1>1. ASSUME NEW u \in Units
      PROVE  tarjan.low[u] <= tarjan.index[u] /\ tarjan.index[u] <= Cardinality(Units)
  <2>1. CASE stage = "project"
    BY <2>1 DEF Shaped
  <2>2. CASE stage # "project"
    <3>1. Typed(weight, tarjan) /\ Numbered(weight, tarjan)
      BY <2>2 DEF Searched, Search1, Searching
    <3>2. /\ tarjan.index[u] <= Cardinality(Met(weight, tarjan)) /\ tarjan.low[u] <= tarjan.index[u]
          /\ tarjan.index[u] \in Nat
      BY <3>1, UnitsAreUnits DEF Numbered, Typed
    <3>3. Met(weight, tarjan) \subseteq Units /\ IsFiniteSet(Units)
      BY <3>1, UnitsAreUnits DEF Typed, Met
    <3>4. /\ Cardinality(Met(weight, tarjan)) <= Cardinality(Units)
          /\ Cardinality(Met(weight, tarjan)) \in Nat /\ Cardinality(Units) \in Nat
      BY <3>3, FS_Subset, FS_CardinalityType
    <3> QED
      BY <3>2, <3>4
  <2> QED
    BY <2>1, <2>2
<1>2. ToSet(starts) \subseteq Units
  BY DEF Shaped, ToSet
<1>3. answer # None => stage = "done"
  BY DEF AnswerIsDerived
<1> QED
  BY <1>1, <1>2, <1>3 DEF TypeOK, Shaped

\* For every graph and level: the numbers of Tarjan's algorithm stay within
\* the number of units and no low number is above its unit's own, the cycle
\* search starts from units, the labels stay units whatever the votes, the
\* rounds end, and only a finished request has an answer.
THEOREM TypesHold == Spec => []TypeOK
<1>1. Init => Searched /\ Shaped /\ AnswerIsDerived
  BY InitIsSearched, InitIsShaped, InitIsDerived
<1>2. Searched /\ Shaped /\ AnswerIsDerived /\ [Next]_<<vars, answer>>
        => (Searched /\ Shaped /\ AnswerIsDerived)'
  BY NextKeepsSearched, NextShapes, NextKeepsTheAnswerDerived
<1>3. Searched /\ Shaped /\ AnswerIsDerived => TypeOK
  BY ShapedIsTyped
<1> QED
  BY <1>1, <1>2, <1>3, PTL DEF Spec

-----------------------------------------------------------------------------
(* The cycles of an analysis.                                              *)

LEMMA InitIsCycling == Init => Cycling
<1> SUFFICES ASSUME Init
             PROVE  Cycling
  OBVIOUS
<1>1. CASE \E a \in Analyses : Idle(a.graph, a.options, "project")
  BY <1>1, IdleIsCycling
<1>2. CASE \E G \in Asked : Idle(G, [level |-> "symbol", filter |-> "none", limit |-> 0], "idle")
  BY <1>2, IdleIsCycling
<1> QED
  BY <1>1, <1>2 DEF Init

LEMMA NextCycles == Searched /\ Shaped /\ Cycling /\ [Next]_<<vars, answer>> => Cycling'
<1> SUFFICES ASSUME Searched, Shaped, Cycling, [Next]_<<vars, answer>>
             PROVE  Cycling'
  OBVIOUS
<1>1. CASE Analyse
  BY <1>1, AnalyseCycles
<1>2. CASE Answering
  <2>1. stage = "idle" /\ stage' = "done" /\ UNCHANGED <<weight, cycles>>
    BY <1>2, AnsweringChangesTheAnswer DEF Answers
  <2>2. Units = {} /\ cycles = {}
    BY <2>1 DEF Cycling
  <2>3. SimpleCycles' = {}
    BY <2>1, <2>2, NoUnitsNoCycles, SameWeightSameCycles
  <2>4. CyclesAreComplete'
    <3>1. Cardinality({}) = 0 /\ MaxCycles \in Nat \ {0}
      BY FS_EmptySet, BoundsAssumption
    <3> QED
      BY <2>1, <2>2, <2>3, <3>1 DEF CyclesAreComplete
  <2> QED
    BY <2>1, <2>4 DEF Cycling
<1>3. CASE UNCHANGED <<vars, answer>>
  <2>1. UNCHANGED <<stage, weight, tarjan, starts, cycles>>
    BY <1>3 DEF vars
  <2>2. SimpleCycles' = SimpleCycles /\ Units' = Units
    BY <2>1, SameWeightSameCycles DEF Units
  <2>3. Parted => Parted'
    BY <2>1 DEF Parted, Units
  <2>4. Between => Between'
    BY <2>1, <2>2 DEF Between
  <2>5. CyclesAreComplete'
    BY <2>1, <2>2 DEF Cycling, CyclesAreComplete
  <2> QED
    BY <2>1, <2>2, <2>3, <2>4, <2>5 DEF Cycling
<1> QED
  BY <1>1, <1>2, <1>3 DEF Next, Answering

\* For every graph, level and pair of limits: the search for cycles, from
\* each unit of each component of several and over greater units alone,
\* finds every simple cycle of at most MaxLength units once, or MaxCycles
\* of them, and nothing that is not one.
THEOREM CyclesStayComplete == Spec => []CyclesAreComplete
<1>1. Init => Searched /\ Shaped /\ Cycling
  BY InitIsSearched, InitIsShaped, InitIsCycling
<1>2. Searched /\ Shaped /\ Cycling /\ [Next]_<<vars, answer>> => (Searched /\ Shaped /\ Cycling)'
  BY NextKeepsSearched, NextShapes, NextCycles
<1>3. Cycling => CyclesAreComplete
  BY DEF Cycling
<1> QED
  BY <1>1, <1>2, <1>3, PTL DEF Spec

-----------------------------------------------------------------------------
(* The searches of the queries.                                            *)

\* What a search finds, and the edges it follows.
Marks(G) == [node : Nodes(G), depth : Nat, from : Nodes(G), via : DOMAIN KindCode \cup {""}]
Links(G) == [to : Nodes(G), via : DOMAIN KindCode]

Edge(on, m, n, kind) == \E x \in 1 .. Len(on[m]) : on[m][x].to = n /\ on[m][x].via = kind

\* One step along the edges of on leads to the nodes of succ.
LeadsAlong(G, on, succ) ==
    \A m \in Nodes(G) : /\ on[m] \in Seq(Links(G))
                        /\ succ[m] = {on[m][x].to : x \in 1 .. Len(on[m])}

LEMMA MarksAreTyped ==
    ASSUME NEW G, NEW f \in Seq(Marks(G)), NEW i \in 1 .. Len(f)
    PROVE  /\ f[i] \in Marks(G) /\ f[i].node \in Nodes(G) /\ f[i].depth \in Nat
           /\ f[i].from \in Nodes(G) /\ f[i].via \in DOMAIN KindCode \cup {""}
<1>1. f[i] \in Marks(G)
  BY LenProperties
<1> QED
  BY <1>1 DEF Marks

\* What the k-th node found leads to.
LedFrom(G, f, k, next, led) ==
    /\ led \in Seq(Marks(G)) /\ Distinct(led)
    /\ \A i \in 1 .. Len(led) :
         /\ led[i].depth = f[k].depth + 1 /\ led[i].from = f[k].node
         /\ \E x \in 1 .. Len(next) : next[x].to = led[i].node /\ next[x].via = led[i].via
         /\ \A j \in 1 .. Len(f) : led[i].node # f[j].node
    /\ \A x \in 1 .. Len(next) : \/ \E j \in 1 .. Len(f) : f[j].node = next[x].to
                                 \/ \E i \in 1 .. Len(led) : led[i].node = next[x].to

LEMMA OnwardLeads ==
    ASSUME NEW G, NEW f \in Seq(Marks(G)), NEW k \in 1 .. Len(f), NEW next \in Seq(Links(G))
    PROVE  LedFrom(G, f, k, next, Onward(f, k, next))
<1> DEFINE S == {i \in DOMAIN next : /\ \A j \in DOMAIN f : f[j].node # next[i].to
                                     /\ \A j \in 1 .. i - 1 : next[j].to # next[i].to}
           new == ByName(S)
           led == [i \in DOMAIN new |-> [node |-> next[new[i]].to, depth |-> f[k].depth + 1,
                                         from |-> f[k].node, via |-> next[new[i]].via]]
<1>1. Onward(f, k, next) = led
  BY DEF Onward
<1>2. /\ DOMAIN f = 1 .. Len(f) /\ DOMAIN next = 1 .. Len(next) /\ Len(next) \in Nat
      /\ \A x \in 1 .. Len(next) : next[x] \in Links(G)
  BY LenProperties
<1>3. \A x \in 1 .. Len(next) : next[x].to \in Nodes(G) /\ next[x].via \in DOMAIN KindCode
  BY <1>2 DEF Links
<1>4. f[k].depth \in Nat /\ f[k].node \in Nodes(G)
  BY MarksAreTyped
<1>5. /\ S \subseteq 1 .. Len(next)
      /\ \A x \in S : /\ \A j \in 1 .. Len(f) : f[j].node # next[x].to
                      /\ \A j \in 1 .. x - 1 : next[j].to # next[x].to
      /\ \A x \in 1 .. Len(next) :
           (/\ \A j \in 1 .. Len(f) : f[j].node # next[x].to
            /\ \A j \in 1 .. x - 1 : next[j].to # next[x].to) => x \in S
  BY <1>2
<1> HIDE DEF S
<1>6. IsFiniteSet(S) /\ S \subseteq Int
  <2>1. IsFiniteSet(1 .. Len(next)) /\ 1 .. Len(next) \subseteq Int
    BY <1>2, FS_Interval
  <2> QED
    BY <2>1, <1>5, FS_Subset
<1>7. /\ new \in Seq(S)
      /\ \A x \in S : \E i \in 1 .. Len(new) : new[i] = x
      /\ \A i, j \in 1 .. Len(new) : i < j => new[i] < new[j]
  BY <1>6, NamesInOrder
<1> HIDE DEF new
<1>8. Len(new) \in Nat /\ DOMAIN new = 1 .. Len(new) /\ \A i \in 1 .. Len(new) : new[i] \in S
  BY <1>7, LenProperties
<1>9. \A i \in 1 .. Len(new) : led[i] \in Marks(G)
  <2> TAKE i \in 1 .. Len(new)
  <2>1. next[new[i]].to \in Nodes(G) /\ next[new[i]].via \in DOMAIN KindCode
    BY <1>3, <1>5, <1>8
  <2>2. PICK to : to = next[new[i]].to
    OBVIOUS
  <2>3. PICK via : via = next[new[i]].via
    OBVIOUS
  <2>4. PICK d : d = f[k].depth + 1
    OBVIOUS
  <2>5. led[i] = [node |-> to, depth |-> d, from |-> f[k].node, via |-> via]
    BY <1>8, <2>2, <2>3, <2>4
  <2> HIDE DEF led
  <2>6. d \in Nat
    BY <1>4, <2>4
  <2>7. to \in Nodes(G) /\ via \in DOMAIN KindCode \cup {""}
    BY <2>1, <2>2, <2>3
  <2>8. [node |-> to, depth |-> d, from |-> f[k].node, via |-> via] \in Marks(G)
    BY <1>4, <2>6, <2>7 DEF Marks
  <2> QED
    BY <2>5, <2>8
<1>10. /\ led \in [1 .. Len(new) -> Marks(G)]
       /\ \A i \in 1 .. Len(new) :
            /\ led[i].node = next[new[i]].to /\ led[i].depth = f[k].depth + 1
            /\ led[i].from = f[k].node /\ led[i].via = next[new[i]].via
  BY <1>8, <1>9
<1> HIDE DEF led
<1>11. led \in Seq(Marks(G)) /\ Len(led) = Len(new)
  BY <1>8, <1>10, PlacesMakeASequence
\* Of two edges to one node the later is left out.
<1>12. Distinct(led)
  <2> SUFFICES ASSUME NEW i \in 1 .. Len(new), NEW j \in 1 .. Len(new), led[i].node = led[j].node
               PROVE  i = j
    BY <1>11 DEF Distinct
  <2>1. ASSUME NEW a \in 1 .. Len(new), NEW b \in 1 .. Len(new), a < b
        PROVE  led[a].node # led[b].node
    <3>1. new[a] < new[b] /\ new[a] \in S /\ new[b] \in S
      BY <1>7, <1>8, <2>1
    <3>2. new[a] \in 1 .. new[b] - 1
      <4>1. new[a] \in 1 .. Len(next) /\ new[b] \in 1 .. Len(next)
        BY <1>5, <3>1
      <4> QED
        BY <1>2, <3>1, <4>1
    <3>3. next[new[a]].to # next[new[b]].to
      BY <1>5, <3>1, <3>2
    <3> QED
      BY <1>10, <3>3
  <2>2. ~ (i < j) /\ ~ (j < i)
    BY <2>1
  <2> QED
    BY <1>8, <2>2
<1>13. ASSUME NEW i \in 1 .. Len(led)
       PROVE  /\ led[i].depth = f[k].depth + 1 /\ led[i].from = f[k].node
              /\ \E x \in 1 .. Len(next) : next[x].to = led[i].node /\ next[x].via = led[i].via
              /\ \A j \in 1 .. Len(f) : led[i].node # f[j].node
  <2>1. new[i] \in S /\ i \in 1 .. Len(new)
    BY <1>8, <1>11
  <2>2. \A j \in 1 .. Len(f) : next[new[i]].to # f[j].node
    BY <1>5, <2>1
  <2> QED
    BY <1>5, <1>10, <2>1, <2>2
<1>14. ASSUME NEW x \in 1 .. Len(next)
       PROVE  \/ \E j \in 1 .. Len(f) : f[j].node = next[x].to
              \/ \E i \in 1 .. Len(led) : led[i].node = next[x].to
  <2> SUFFICES ASSUME \A j \in 1 .. Len(f) : f[j].node # next[x].to
               PROVE  \E i \in 1 .. Len(led) : led[i].node = next[x].to
    OBVIOUS
  <2> DEFINE T == {y \in 1 .. Len(next) : next[y].to = next[x].to}
  <2>1. T \subseteq Nat /\ x \in T
    OBVIOUS
  <2> HIDE DEF T
  <2>2. PICK y \in T : \A z \in T : y <= z
    BY <2>1, LeastNumber
  <2>3. y \in 1 .. Len(next) /\ next[y].to = next[x].to
    BY <2>2 DEF T
  <2>4. ASSUME NEW j \in 1 .. y - 1
        PROVE  next[j].to # next[y].to
    <3>1. j \in 1 .. Len(next) /\ ~ (y <= j)
      BY <1>2, <2>3
    <3>2. j \notin T
      BY <2>2, <3>1
    <3> QED
      BY <2>3, <3>1, <3>2 DEF T
  <2>5. y \in S
    BY <1>5, <2>3, <2>4
  <2>6. PICK i \in 1 .. Len(new) : new[i] = y
    BY <1>7, <2>5
  <2>7. led[i].node = next[x].to /\ i \in 1 .. Len(led)
    BY <1>10, <1>11, <2>3, <2>6
  <2> QED
    BY <2>7
<1> QED
  BY <1>1, <1>11, <1>12, <1>13, <1>14 DEF LedFrom

\* The nodes found by a search as candidates of a context without tests,
\* whose search is the same otherwise.
Plain(f) == [i \in 1 .. Len(f) |->
               [node |-> f[i].node, role |-> "seed", depth |-> f[i].depth, queued |-> TRUE]]

LEMMA PlainIsTyped ==
    ASSUME NEW G, NEW f \in Seq(Marks(G))
    PROVE  /\ Plain(f) \in Seq(Candidates(G)) /\ Len(Plain(f)) = Len(f)
           /\ \A i \in 1 .. Len(f) : /\ Plain(f)[i].node = f[i].node
                                     /\ Plain(f)[i].depth = f[i].depth
                                     /\ Plain(f)[i].queued
<1>1. PICK p : p = Plain(f)
  OBVIOUS
<1>2. Len(f) \in Nat
  BY LenProperties
<1>3. ASSUME NEW i \in 1 .. Len(f)
      PROVE  /\ p[i] \in Candidates(G)
             /\ p[i].node = f[i].node /\ p[i].depth = f[i].depth /\ p[i].queued
  <2>1. f[i].node \in Nodes(G) /\ f[i].depth \in Nat
    BY MarksAreTyped
  <2>2. p[i] = [node |-> f[i].node, role |-> "seed", depth |-> f[i].depth, queued |-> TRUE]
    BY <1>1 DEF Plain
  <2>3. "seed" \in Roles
    BY DEF Roles
  <2>4. [node |-> f[i].node, role |-> "seed", depth |-> f[i].depth, queued |-> TRUE] \in Candidates(G)
    BY <2>1, <2>3 DEF Candidates
  <2> QED
    BY <2>2, <2>4
<1>4. p \in [1 .. Len(f) -> Candidates(G)]
  <2>1. p = [i \in 1 .. Len(f) |-> p[i]]
    BY <1>1 DEF Plain
  <2> QED
    BY <1>3, <2>1
<1>5. p \in Seq(Candidates(G)) /\ Len(p) = Len(f)
  BY <1>2, <1>4, PlacesMakeASequence
<1> QED
  BY <1>1, <1>3, <1>5

\* The i-th node found was reached from the j-th, along an edge.
Came(on, D, f, i, j) ==
    /\ f[i].from = f[j].node /\ f[i].depth = f[j].depth + 1 /\ f[j].depth < D
    /\ Edge(on, f[j].node, f[i].node, f[i].via)

\* The search after k of the nodes found: D is the depth, ball the sets of
\* nodes within each distance.
Swept(G, on, succ, ball, start, D, k, f) ==
    /\ f \in Seq(Marks(G)) /\ 1 \in 1 .. Len(f) /\ f[1] = Start(start)
    /\ Queue(G, {}, k, Plain(f))
    /\ Reached(ball, succ, {start}, D, Len(G.nodes) + 1, k, Plain(f))
    /\ \A i \in 1 .. Len(f) : i # 1 => \E j \in 1 .. Len(f) : Came(on, D, f, i, j)

LEMMA StartIsSwept ==
    ASSUME NEW G, IsGraph(G), NEW on, NEW succ, NEW ball, NEW start \in Nodes(G), NEW D \in Nat,
           Growing(ball, Len(G.nodes), {start}, succ)
    PROVE  Swept(G, on, succ, ball, start, D, 0, <<Start(start)>>)
<1>1. PICK m : m = Start(start)
  OBVIOUS
<1>2. m \in Marks(G) /\ m.node = start /\ m.depth = 0
  BY <1>1 DEF Marks, Start
<1>3. PICK f : f = <<m>>
  OBVIOUS
<1>4. f \in Seq(Marks(G)) /\ Len(f) = 1 /\ f[1] = m
  BY <1>2, <1>3
<1>5. PICK p : p = Plain(f)
  OBVIOUS
<1>6. /\ p \in Seq(Candidates(G)) /\ Len(p) = 1
      /\ p[1].node = start /\ p[1].depth = 0 /\ p[1].queued
      /\ \A i \in 1 .. Len(p) : i = 1
  <2>1. Len(f) = 1 /\ 1 \in 1 .. Len(f)
    BY <1>4
  <2> QED
    BY <1>2, <1>4, <1>5, <2>1, PlainIsTyped
<1>7. Queue(G, {}, 0, p)
  BY <1>6 DEF Queue, Distinct
<1>8. Reached(ball, succ, {start}, D, Len(G.nodes) + 1, 0, p)
  <2>1. Found(p, start, 0)
    BY <1>6 DEF Found
  <2>2. ball[1] = {start}
    BY DEF Growing
  <2>3. \A i \in 1 .. Len(p) : p[i].node \in ball[p[i].depth + 1]
    BY <1>6, <2>2
  <2>4. \A i \in 1 .. Len(p) : \A x \in Nat : ~ (x < p[i].depth)
    BY <1>6
  <2>5. \A i \in 1 .. Len(p) : ~ (i <= 0)
    BY <1>6
  <2> QED
    BY <2>1, <2>3, <2>4, <2>5 DEF Reached
<1>9. 1 \in 1 .. Len(f) /\ \A i \in 1 .. Len(f) : i = 1
  BY <1>4
<1> QED
  BY <1>1, <1>3, <1>4, <1>5, <1>7, <1>8, <1>9 DEF Swept

LEMMA JoinedIsPlain ==
    ASSUME NEW G, NEW f \in Seq(Marks(G)), NEW led \in Seq(Marks(G)),
           NEW g \in Seq(Marks(G)), Joined(f, led, g)
    PROVE  Joined(Plain(f), Plain(led), Plain(g))
<1>1. /\ Len(f) \in Nat /\ Len(led) \in Nat /\ Len(g) = Len(f) + Len(led)
      /\ \A i \in 1 .. Len(f) : g[i] = f[i] /\ i \in 1 .. Len(g)
      /\ \A i \in 1 .. Len(led) : g[Len(f) + i] = led[i] /\ Len(f) + i \in 1 .. Len(g)
      /\ \A i \in 1 .. Len(g) : i \in 1 .. Len(f) \/ \E j \in 1 .. Len(led) : i = Len(f) + j
  BY DEF Joined
<1>2. Len(Plain(f)) = Len(f) /\ Len(Plain(led)) = Len(led) /\ Len(Plain(g)) = Len(g)
  BY PlainIsTyped
<1>3. \A i \in 1 .. Len(f) : Plain(g)[i] = Plain(f)[i]
  BY <1>1 DEF Plain
<1>4. \A i \in 1 .. Len(led) : Plain(g)[Len(f) + i] = Plain(led)[i]
  BY <1>1 DEF Plain
<1> QED
  BY <1>1, <1>2, <1>3, <1>4 DEF Joined

LEMMA AdvancingKeeps ==
    ASSUME NEW G, IsGraph(G), NEW on, NEW succ, LeadsAlong(G, on, succ), NEW ball,
           NEW start \in Nodes(G), NEW D \in Nat, Growing(ball, Len(G.nodes), {start}, succ),
           NEW k \in Nat, k + 1 <= Len(G.nodes), NEW f, Swept(G, on, succ, ball, start, D, k, f)
    PROVE  Swept(G, on, succ, ball, start, D, k + 1, Advanced(f, k + 1, D, on))
<1> DEFINE N == Len(G.nodes)
           stays == k + 1 > Len(f) \/ f[k + 1].depth >= D
           s == Plain(f)
<1>1. /\ f \in Seq(Marks(G)) /\ 1 \in 1 .. Len(f) /\ f[1] = Start(start)
      /\ Queue(G, {}, k, s) /\ Reached(ball, succ, {start}, D, N + 1, k, s)
      /\ \A i \in 1 .. Len(f) : i # 1 => \E j \in 1 .. Len(f) : Came(on, D, f, i, j)
  BY DEF Swept
<1>2. Len(f) \in Nat /\ N \in Nat /\ \A i \in 1 .. Len(f) : f[i].depth \in Nat
  BY <1>1, MarksAreTyped, LenProperties DEF IsGraph
<1>3. /\ s \in Seq(Candidates(G)) /\ Len(s) = Len(f)
      /\ \A i \in 1 .. Len(f) : s[i].node = f[i].node /\ s[i].depth = f[i].depth /\ s[i].queued
  BY <1>1, PlainIsTyped
<1>4. Len(s) <= N /\ Len(s) < N + 1
  <2>1. Len(s) <= Len(G.nodes)
    BY <1>1, QueueIsBounded DEF Queue
  <2> HIDE DEF s
  <2> QED
    BY <1>2, <1>3, <2>1
<1> HIDE DEF N, s
<1>5. CASE stays
  <2>1. Advanced(f, k + 1, D, on) = f
    BY <1>5 DEF Advanced
  <2>2. Queue(G, {}, k + 1, s)
    BY <1>1, <1>2, <1>3 DEF Queue
  <2>3. Reached(ball, succ, {start}, D, N + 1, k + 1, s)
    <3> SUFFICES ASSUME NEW i \in 1 .. Len(s), i <= k + 1, s[i].depth < D, NEW n \in succ[s[i].node]
                 PROVE  Found(s, n, s[i].depth + 1)
      BY <1>1 DEF Reached
    <3>1. i # k + 1
      BY <1>2, <1>3, <1>5
    <3>2. i <= k
      BY <3>1
    <3> QED
      BY <1>1, <1>3, <1>4, <3>2 DEF Reached
  <2> QED
    BY <1>1, <2>1, <2>2, <2>3 DEF Swept, s, N
<1>6. CASE ~ stays
  <2>1. k + 1 \in 1 .. Len(f) /\ k + 1 <= Len(f) /\ f[k + 1].depth < D
    BY <1>2, <1>6
  <2>2. PICK m : m = f[k + 1].node
    OBVIOUS
  <2>3. m \in Nodes(G)
    BY <1>1, <2>1, <2>2, MarksAreTyped
  <2>4. PICK next : next = on[m]
    OBVIOUS
  <2>5. next \in Seq(Links(G)) /\ succ[m] = {next[x].to : x \in 1 .. Len(next)}
    BY <2>3, <2>4 DEF LeadsAlong
  <2>6. PICK led : led = Onward(f, k + 1, next)
    OBVIOUS
  <2>7. LedFrom(G, f, k + 1, next, led)
    BY <1>1, <2>1, <2>5, <2>6, OnwardLeads
  <2>8. PICK g : g = f \o led
    OBVIOUS
  <2>9. Advanced(f, k + 1, D, on) = g
    BY <1>6, <2>2, <2>4, <2>6, <2>8 DEF Advanced
  <2>10. /\ led \in Seq(Marks(G)) /\ Distinct(led)
         /\ \A i \in 1 .. Len(led) :
              /\ led[i].depth = f[k + 1].depth + 1 /\ led[i].from = m
              /\ \E x \in 1 .. Len(next) : next[x].to = led[i].node /\ next[x].via = led[i].via
              /\ \A j \in 1 .. Len(f) : led[i].node # f[j].node
         /\ \A x \in 1 .. Len(next) : \/ \E j \in 1 .. Len(f) : f[j].node = next[x].to
                                      \/ \E i \in 1 .. Len(led) : led[i].node = next[x].to
    BY <2>2, <2>7 DEF LedFrom
  <2>11. g \in Seq(Marks(G)) /\ Joined(f, led, g)
    BY <1>1, <2>8, <2>10, Appended
  <2>12. PICK t : t = Plain(g)
    OBVIOUS
  <2>13. PICK l : l = Plain(led)
    OBVIOUS
  <2>14. Joined(s, l, t) /\ t \in Seq(Candidates(G))
    <3>1. Joined(Plain(f), Plain(led), Plain(g))
      BY <1>1, <2>10, <2>11, JoinedIsPlain
    <3> QED
      BY <2>11, <2>12, <2>13, <3>1, PlainIsTyped DEF s
  <2>15. LeadsOn(G, s, s[k + 1], l, succ[m])
    <3>1. /\ l \in Seq(Candidates(G)) /\ Len(l) = Len(led)
          /\ \A i \in 1 .. Len(led) : /\ l[i].node = led[i].node /\ l[i].depth = led[i].depth
                                      /\ l[i].queued
      <4>1. led \in Seq(Marks(G))
        BY <2>10
      <4>2. /\ Plain(led) \in Seq(Candidates(G)) /\ Len(Plain(led)) = Len(led)
            /\ \A i \in 1 .. Len(led) : /\ Plain(led)[i].node = led[i].node
                                        /\ Plain(led)[i].depth = led[i].depth
                                        /\ Plain(led)[i].queued
        BY <4>1, PlainIsTyped
      <4> QED
        BY <2>13, <4>2
    <3>2. Distinct(l)
      BY <2>10, <3>1 DEF Distinct
    <3>3. s[k + 1].depth = f[k + 1].depth
      BY <1>3, <2>1
    <3>4. ASSUME NEW i \in 1 .. Len(l)
          PROVE  /\ l[i].depth = s[k + 1].depth + 1 /\ l[i].queued
                 /\ l[i].node \in succ[m]
                 /\ \A j \in 1 .. Len(s) : l[i].node # s[j].node
      <4>0. i \in 1 .. Len(led)
        BY <3>1
      <4>1. led[i].node \in succ[m]
        <5>1. PICK x \in 1 .. Len(next) : next[x].to = led[i].node
          BY <2>10, <4>0
        <5> QED
          BY <2>5, <5>1
      <4> QED
        BY <1>3, <2>10, <3>1, <3>3, <4>1
    <3>5. ASSUME NEW n \in succ[m]
          PROVE  \/ \E j \in 1 .. Len(s) : s[j].node = n
                 \/ \E i \in 1 .. Len(l) : l[i].node = n
      <4>1. PICK x \in 1 .. Len(next) : n = next[x].to
        BY <2>5
      <4> QED
        BY <1>3, <2>10, <3>1, <4>1
    <3> QED
      BY <3>1, <3>2, <3>4, <3>5 DEF LeadsOn
  <2>16. /\ k + 1 <= Len(s) /\ s[k + 1].queued /\ s[k + 1].depth < D /\ Len(s) < N + 1
         /\ s[k + 1].node = m /\ succ[s[k + 1].node] = succ[m] \ {}
    BY <1>3, <1>4, <2>1, <2>2
  <2>17. Queue(G, {}, k + 1, t)
    BY <1>1, <2>14, <2>15, <2>16, LeadingKeepsQueue
  <2>18. N + 1 \in Nat /\ k + 1 <= Len(G.nodes) /\ Growing(ball, Len(G.nodes), {start}, succ)
    BY <1>2
  <2>19. Reached(ball, succ, {start}, D, N + 1, k + 1, t)
    BY <1>1, <2>14, <2>15, <2>16, <2>18, LeadingKeepsReached
  <2>20. /\ Len(led) \in Nat /\ Len(g) = Len(f) + Len(led)
         /\ \A i \in 1 .. Len(f) : g[i] = f[i] /\ i \in 1 .. Len(g)
         /\ \A i \in 1 .. Len(led) : g[Len(f) + i] = led[i] /\ Len(f) + i \in 1 .. Len(g)
         /\ \A i \in 1 .. Len(g) : i \in 1 .. Len(f) \/ \E j \in 1 .. Len(led) : i = Len(f) + j
    BY <2>11 DEF Joined
  <2>21. 1 \in 1 .. Len(g) /\ g[1] = Start(start)
    BY <1>1, <2>20
  <2>22. ASSUME NEW i \in 1 .. Len(g), i # 1
         PROVE  \E j \in 1 .. Len(g) : Came(on, D, g, i, j)
    <3>1. CASE i \in 1 .. Len(f)
      <4>1. PICK j \in 1 .. Len(f) : Came(on, D, f, i, j)
        BY <1>1, <2>22, <3>1
      <4>2. g[i] = f[i] /\ g[j] = f[j] /\ j \in 1 .. Len(g)
        BY <2>20, <3>1
      <4> QED
        BY <4>1, <4>2 DEF Came
    <3>2. CASE \E j \in 1 .. Len(led) : i = Len(f) + j
      <4>1. PICK j \in 1 .. Len(led) : i = Len(f) + j
        BY <3>2
      <4>2. g[i] = led[j] /\ g[k + 1] = f[k + 1] /\ k + 1 \in 1 .. Len(g)
        BY <2>1, <2>20, <4>1
      <4>3. Edge(on, m, led[j].node, led[j].via)
        BY <2>4, <2>10 DEF Edge
      <4>4. led[j].depth = f[k + 1].depth + 1 /\ led[j].from = m
        BY <2>10
      <4>5. Came(on, D, g, i, k + 1)
        BY <2>1, <2>2, <4>2, <4>3, <4>4 DEF Came
      <4> QED
        BY <4>2, <4>5
    <3> QED
      BY <2>20, <3>1, <3>2
  <2> QED
    BY <2>9, <2>11, <2>12, <2>17, <2>19, <2>21, <2>22 DEF Swept, N
<1> QED
  BY <1>5, <1>6

LEMMA AdvancedIsTyped ==
    ASSUME NEW G, NEW on, NEW succ, LeadsAlong(G, on, succ), NEW f \in Seq(Marks(G)),
           NEW k \in Nat, k # 0, NEW D
    PROVE  Advanced(f, k, D, on) \in Seq(Marks(G))
<1>1. CASE k > Len(f) \/ f[k].depth >= D
  BY <1>1 DEF Advanced
<1>2. CASE ~ (k > Len(f) \/ f[k].depth >= D)
  <2>1. k \in 1 .. Len(f)
    BY <1>2, LenProperties
  <2>2. f[k].node \in Nodes(G)
    BY <2>1, MarksAreTyped
  <2>3. PICK next : next = on[f[k].node]
    OBVIOUS
  <2>4. next \in Seq(Links(G))
    BY <2>2, <2>3 DEF LeadsAlong
  <2>5. LedFrom(G, f, k, next, Onward(f, k, next))
    BY <2>1, <2>4, OnwardLeads
  <2>6. f \o Onward(f, k, next) \in Seq(Marks(G))
    BY <2>5, ConcatProperties DEF LedFrom
  <2> QED
    BY <1>2, <2>3, <2>6 DEF Advanced
<1> QED
  BY <1>1, <1>2

LEMMA SearchSweeps ==
    ASSUME NEW G, IsGraph(G), NEW on, NEW succ, LeadsAlong(G, on, succ), NEW ball,
           NEW start \in Nodes(G), NEW D \in Nat, Growing(ball, Len(G.nodes), {start}, succ)
    PROVE  Swept(G, on, succ, ball, start, D, Len(G.nodes), Search(G, <<Start(start)>>, D, on))
<1> DEFINE N == Len(G.nodes)
           first == <<Start(start)>>
           Stepped(g) == g = [k \in 0 .. N |-> IF k = 0 THEN first
                                              ELSE Advanced(g[k - 1], k, D, on)]
           swept == CHOOSE g : Stepped(g)
<1>1. Search(G, first, D, on) = swept[N]
  BY DEF Search
<1>2. N \in Nat
  BY DEF IsGraph
<1>3. Swept(G, on, succ, ball, start, D, 0, first)
  BY StartIsSwept
<1> HIDE DEF first, N
<1>4. Stepped(swept)
  <2> DEFINE A == Seq(Marks(G))
             step == [p \in (1 .. N) \X A |-> Advanced(p[2], p[1], D, on)]
  <2>1. step \in [(1 .. N) \X A -> A]
    <3> SUFFICES ASSUME NEW k \in 1 .. N, NEW f \in A
                 PROVE  Advanced(f, k, D, on) \in A
      OBVIOUS
    <3>1. k \in Nat /\ k # 0
      BY <1>2
    <3> QED
      BY <3>1, AdvancedIsTyped
  <2>2. \A k \in 1 .. N : \A f \in A : step[<<k, f>>] = Advanced(f, k, D, on)
    OBVIOUS
  <2>3. first \in A
    BY <1>3 DEF Swept
  <2> HIDE DEF step, A
  <2>a. PICK f : Recurring(f, A, first, N, step)
    BY <1>2, <2>1, <2>3, StepwiseExists DEF Mapping
  <2>4. f \in [0 .. N -> A] /\ f[0] = first /\ \A k \in 1 .. N : f[k] = step[<<k, f[k - 1]>>]
    BY <2>a DEF Recurring
  <2>5. ASSUME NEW k \in 0 .. N
        PROVE  f[k] = IF k = 0 THEN first ELSE Advanced(f[k - 1], k, D, on)
    <3>1. CASE k = 0
      BY <2>4, <3>1
    <3>2. CASE k # 0
      <4>1. k \in 1 .. N /\ k - 1 \in 0 .. N
        BY <1>2, <3>2
      <4>2. f[k - 1] \in A
        BY <2>4, <4>1
      <4> QED
        BY <2>2, <2>4, <3>2, <4>1, <4>2
    <3> QED
      BY <3>1, <3>2
  <2>6. Stepped(f)
    BY <2>4, <2>5
  <2> HIDE DEF Stepped
  <2> QED
    BY <2>6
<1> HIDE DEF swept
<1> DEFINE S == {k \in Nat : k <= N => Swept(G, on, succ, ball, start, D, k, swept[k])}
<1>5. 0 \in S
  <2>1. swept[0] = first
    BY <1>2, <1>4
  <2> QED
    BY <1>3, <2>1
<1>6. ASSUME NEW k \in Nat, k \in S
      PROVE  k + 1 \in S
  <2> SUFFICES ASSUME k + 1 <= N
               PROVE  Swept(G, on, succ, ball, start, D, k + 1, swept[k + 1])
    OBVIOUS
  <2>1. k + 1 \in 0 .. N /\ k + 1 # 0 /\ (k + 1) - 1 = k /\ k <= N
    BY <1>2
  <2>2. swept[k + 1] = Advanced(swept[k], k + 1, D, on)
    BY <1>4, <2>1
  <2>3. Swept(G, on, succ, ball, start, D, k, swept[k])
    BY <1>6, <2>1
  <2>4. k + 1 <= Len(G.nodes)
    BY DEF N
  <2> QED
    BY <2>2, <2>3, <2>4, AdvancingKeeps
<1> HIDE DEF S, Stepped
<1>7. N \in S
  BY <1>2, <1>5, <1>6, NumbersByInduction
<1>8. Swept(G, on, succ, ball, start, D, N, swept[N])
  BY <1>2, <1>7 DEF S
<1> QED
  BY <1>1, <1>8 DEF N, first

\* All that a search has found, as its callers need it.
Surveyed(G, on, ball, start, D, f) ==
    /\ f \in Seq(Marks(G)) /\ Distinct(f)
    /\ 1 \in 1 .. Len(f) /\ Len(f) <= Len(G.nodes) /\ f[1] = Start(start)
    /\ \A i, j \in 1 .. Len(f) : i < j => f[i].depth <= f[j].depth
    /\ \A i \in 1 .. Len(f) : /\ f[i].depth <= D /\ f[i].depth < Len(G.nodes)
                              /\ f[i].node \in ball[f[i].depth + 1]
                              /\ \A m \in Nat : m < f[i].depth => f[i].node \notin ball[m + 1]
    /\ \A m \in Nat : m <= D /\ m <= Len(G.nodes) =>
         \A n \in ball[m + 1] : \E i \in 1 .. Len(f) : f[i].node = n /\ f[i].depth <= m
    /\ \A i \in 1 .. Len(f) : i # 1 => \E j \in 1 .. Len(f) : Came(on, D, f, i, j)

LEMMA SearchSurveys ==
    ASSUME NEW G, IsGraph(G), NEW on, NEW succ, LeadsAlong(G, on, succ), NEW ball,
           NEW start \in Nodes(G), NEW D \in Nat, Growing(ball, Len(G.nodes), {start}, succ)
    PROVE  Surveyed(G, on, ball, start, D, Search(G, <<Start(start)>>, D, on))
<1> DEFINE N == Len(G.nodes)
<1>1. PICK f : f = Search(G, <<Start(start)>>, D, on)
  OBVIOUS
<1>2. Swept(G, on, succ, ball, start, D, N, f)
  BY <1>1, SearchSweeps
<1>3. PICK s : s = Plain(f)
  OBVIOUS
<1>4. /\ f \in Seq(Marks(G)) /\ 1 \in 1 .. Len(f) /\ f[1] = Start(start)
      /\ Queue(G, {}, N, s) /\ Reached(ball, succ, {start}, D, N + 1, N, s)
      /\ \A i \in 1 .. Len(f) : i # 1 => \E j \in 1 .. Len(f) : Came(on, D, f, i, j)
  BY <1>2, <1>3 DEF Swept
<1>5. Len(f) \in Nat /\ N \in Nat /\ \A i \in 1 .. Len(f) : f[i].depth \in Nat
  BY <1>4, MarksAreTyped, LenProperties DEF IsGraph
<1>6. /\ s \in Seq(Candidates(G)) /\ Len(s) = Len(f)
      /\ \A i \in 1 .. Len(f) : s[i].node = f[i].node /\ s[i].depth = f[i].depth /\ s[i].queued
  BY <1>3, <1>4, PlainIsTyped
<1>7. Distinct(s)
  BY <1>4 DEF Queue
<1>8. Len(s) <= N /\ Len(s) < N + 1 /\ N + 1 \in Nat
  <2>1. Len(s) <= N
    BY <1>6, <1>7, QueueIsBounded
  <2> QED
    BY <1>5, <1>6, <2>1
<1>9. Distinct(f)
  BY <1>6, <1>7 DEF Distinct
<1>10. \A i, j \in 1 .. Len(f) : i < j => f[i].depth <= f[j].depth
  BY <1>4, <1>6 DEF Queue
<1>11. \A n, d : Found(s, n, d) => \E i \in 1 .. Len(f) : f[i].node = n /\ f[i].depth <= d
  BY <1>6 DEF Found
<1>12. ASSUME NEW m \in Nat, m <= D, m <= N, NEW n \in ball[m + 1]
       PROVE  \E i \in 1 .. Len(f) : f[i].node = n /\ f[i].depth <= m
  <2>1. \A x \in ball[m + 1] : Found(s, x, m)
    <3>1. PICK limit \in Nat : limit = N + 1
      BY <1>8
    <3>2. /\ Queue(G, {}, Len(G.nodes), s) /\ Len(s) < limit
          /\ Reached(ball, succ, {start}, D, limit, Len(G.nodes), s)
      BY <1>4, <1>8, <3>1
    <3>3. m \in Nat /\ m <= D /\ m <= Len(G.nodes)
      BY <1>12
    <3> QED
      BY <3>1, <3>2, <3>3, BelowTheLimitAllIsFound
  <2> QED
    BY <1>11, <2>1
<1>13. ASSUME NEW i \in 1 .. Len(f)
       PROVE  /\ f[i].depth <= D /\ f[i].depth < N
              /\ f[i].node \in ball[f[i].depth + 1]
              /\ \A m \in Nat : m < f[i].depth => f[i].node \notin ball[m + 1]
  <2>1. f[i].depth <= D
    <3>1. CASE i = 1
      <4>1. f[1] = Start(start)
        BY <1>4
      <4>2. Start(start).depth = 0
        BY DEF Start
      <4> QED
        BY <3>1, <4>1, <4>2
    <3>2. CASE i # 1
      <4>1. PICK j \in 1 .. Len(f) : Came(on, D, f, i, j)
        BY <1>4, <3>2
      <4>2. f[i].depth = f[j].depth + 1 /\ f[j].depth < D
        BY <4>1 DEF Came
      <4> QED
        BY <1>5, <4>2
    <3> QED
      BY <3>1, <3>2
  <2>2. f[i].depth < N
    <3>1. s[i].depth < i
      BY <1>4, <1>6 DEF Queue
    <3> HIDE DEF N
    <3> QED
      BY <1>5, <1>6, <1>8, <3>1
  <2>3. f[i].node \in ball[f[i].depth + 1]
    BY <1>4, <1>6 DEF Reached
  <2>4. ASSUME NEW m \in Nat, m < f[i].depth, f[i].node \in ball[m + 1]
        PROVE  FALSE
    <3>1. Found(s, f[i].node, m)
      BY <1>4, <1>6, <2>4 DEF Reached
    <3>2. PICK j \in 1 .. Len(f) : f[j].node = f[i].node /\ f[j].depth <= m
      BY <1>11, <3>1
    <3>3. j = i
      BY <1>9, <3>2 DEF Distinct
    <3> QED
      BY <1>5, <2>4, <3>2, <3>3
  <2> QED
    BY <2>1, <2>2, <2>3, <2>4
<1>14. Len(f) <= N
  BY <1>6, <1>8
<1>15. Surveyed(G, on, ball, start, D, f)
  BY <1>4, <1>9, <1>10, <1>12, <1>13, <1>14 DEF Surveyed
<1> QED
  BY <1>1, <1>15

LEMMA EdgeIsStep ==
    ASSUME NEW G, NEW on, NEW succ, LeadsAlong(G, on, succ), NEW m \in Nodes(G), NEW n, NEW kind,
           Edge(on, m, n, kind)
    PROVE  n \in succ[m]
<1>1. PICK x \in 1 .. Len(on[m]) : on[m][x].to = n
  BY DEF Edge
<1>2. succ[m] = {on[m][y].to : y \in 1 .. Len(on[m])}
  BY DEF LeadsAlong
<1> QED
  BY <1>1, <1>2

\* The place of a node among those found.
PlaceOf(f, m) == CHOOSE i \in DOMAIN f : f[i].node = m

LEMMA PlaceIsOne ==
    ASSUME NEW G, NEW f \in Seq(Marks(G)), Distinct(f), NEW i \in 1 .. Len(f)
    PROVE  PlaceOf(f, f[i].node) = i
<1>1. DOMAIN f = 1 .. Len(f)
  BY LenProperties
<1>2. PlaceOf(f, f[i].node) \in 1 .. Len(f) /\ f[PlaceOf(f, f[i].node)].node = f[i].node
  BY <1>1 DEF PlaceOf
<1> QED
  BY <1>2 DEF Distinct

\* A path from the start to the i-th node found, along the edges.
Routed(G, succ, start, f, i, p) ==
    /\ p \in Seq(Nodes(G)) /\ Len(p) = f[i].depth + 1
    /\ p[1] = start /\ p[Len(p)] = f[i].node
    /\ \A j \in 1 .. Len(p) - 1 : p[j + 1] \in succ[p[j]]
    /\ f[i].depth > 0 => p[Len(p) - 1] = f[i].from

LEMMA PathLeadsTo ==
    ASSUME NEW G, NEW on, NEW succ, LeadsAlong(G, on, succ), NEW ball, NEW start, NEW D,
           NEW f, Surveyed(G, on, ball, start, D, f), NEW i \in 1 .. Len(f)
    PROVE  Routed(G, succ, start, f, i, PathTo(f, f[i].node))
<1> DEFINE n == f[i].node
           far == f[PlaceOf(f, n)].depth
           Stepped(g) == g = [k \in 0 .. far |-> IF k = 0 THEN n ELSE f[PlaceOf(f, g[k - 1])].from]
           back == CHOOSE g : Stepped(g)
           p == [j \in 1 .. far + 1 |-> back[far + 1 - j]]
<1>1. PathTo(f, n) = p
  BY DEF PathTo, PlaceOf
<1>2. /\ f \in Seq(Marks(G)) /\ Distinct(f) /\ 1 \in 1 .. Len(f) /\ f[1] = Start(start)
      /\ \A j \in 1 .. Len(f) : j # 1 => \E l \in 1 .. Len(f) : Came(on, D, f, j, l)
  BY DEF Surveyed
<1>3. \A j \in 1 .. Len(f) : PlaceOf(f, f[j].node) = j
  BY <1>2, PlaceIsOne
<1>4. far = f[i].depth
  BY <1>3
<1>5. \A j \in 1 .. Len(f) : f[j].node \in Nodes(G) /\ f[j].depth \in Nat
  BY <1>2, MarksAreTyped
<1>6. f[1].node = start /\ f[1].from = start /\ f[1].depth = 0
  <2>1. f[1] = Start(start)
    BY <1>2
  <2>2. Start(start).node = start /\ Start(start).from = start /\ Start(start).depth = 0
    BY DEF Start
  <2> QED
    BY <2>1, <2>2
\* Whence each node but the start was reached.
<1>7. ASSUME NEW j \in 1 .. Len(f), j # 1
      PROVE  \E l \in 1 .. Len(f) : /\ f[j].from = f[l].node /\ f[j].depth = f[l].depth + 1
                                    /\ f[j].node \in succ[f[l].node]
  <2>1. PICK l \in 1 .. Len(f) : Came(on, D, f, j, l)
    BY <1>2, <1>7
  <2>2. /\ f[j].from = f[l].node /\ f[j].depth = f[l].depth + 1
        /\ Edge(on, f[l].node, f[j].node, f[j].via)
    BY <2>1 DEF Came
  <2>3. f[j].node \in succ[f[l].node]
    BY <1>5, <2>2, EdgeIsStep
  <2> QED
    BY <2>2, <2>3
<1>8. far \in Nat
  BY <1>4, <1>5
<1> HIDE DEF far, n
<1>9. Stepped(back)
  <2> DEFINE A == {f[j].node : j \in 1 .. Len(f)}
             step == [q \in (1 .. far) \X A |-> f[PlaceOf(f, q[2])].from]
  <2>1. step \in [(1 .. far) \X A -> A]
    <3> SUFFICES ASSUME NEW m \in A
                 PROVE  f[PlaceOf(f, m)].from \in A
      OBVIOUS
    <3>1. PICK j \in 1 .. Len(f) : m = f[j].node
      OBVIOUS
    <3>2. PlaceOf(f, m) = j
      BY <1>3, <3>1
    <3>3. f[j].from \in A
      <4>1. CASE j = 1
        BY <1>2, <1>6, <4>1
      <4>2. CASE j # 1
        BY <1>7, <4>2
      <4> QED
        BY <4>1, <4>2
    <3> QED
      BY <3>2, <3>3
  <2>2. \A k \in 1 .. far : \A m \in A : step[<<k, m>>] = f[PlaceOf(f, m)].from
    OBVIOUS
  <2>3. n \in A
    BY DEF n
  <2> HIDE DEF step, A
  <2>a. PICK g : Recurring(g, A, n, far, step)
    BY <1>8, <2>1, <2>3, StepwiseExists DEF Mapping
  <2>4. g \in [0 .. far -> A] /\ g[0] = n /\ \A k \in 1 .. far : g[k] = step[<<k, g[k - 1]>>]
    BY <2>a DEF Recurring
  <2>5. ASSUME NEW k \in 0 .. far
        PROVE  g[k] = IF k = 0 THEN n ELSE f[PlaceOf(f, g[k - 1])].from
    <3>1. CASE k = 0
      BY <2>4, <3>1
    <3>2. CASE k # 0
      <4>1. k \in 1 .. far /\ k - 1 \in 0 .. far
        BY <1>8, <3>2
      <4>2. g[k - 1] \in A
        BY <2>4, <4>1
      <4> QED
        BY <2>2, <2>4, <3>2, <4>1, <4>2
    <3> QED
      BY <3>1, <3>2
  <2>6. Stepped(g)
    BY <2>4, <2>5
  <2> HIDE DEF Stepped
  <2> QED
    BY <2>6
<1> HIDE DEF back
<1>10. /\ back[0] = n
       /\ \A k \in 1 .. far : back[k] = f[PlaceOf(f, back[k - 1])].from
  <2>1. \A k \in 0 .. far : back[k] = IF k = 0 THEN n ELSE f[PlaceOf(f, back[k - 1])].from
    BY <1>9
  <2> HIDE DEF Stepped
  <2>2. 0 \in 0 .. far /\ \A k \in 1 .. far : k \in 0 .. far /\ k # 0
    BY <1>8
  <2> QED
    BY <2>1, <2>2
<1> HIDE DEF Stepped
\* The k-th node before n is k steps nearer to the start.
<1> DEFINE At(k) == \E j \in 1 .. Len(f) : f[j].node = back[k] /\ f[j].depth = far - k
           S == {k \in Nat : k <= far => At(k)}
<1>11. 0 \in S
  <2>1. back[0] = f[i].node /\ f[i].depth = far - 0
    BY <1>4, <1>8, <1>10 DEF n
  <2> QED
    BY <2>1
<1>12. ASSUME NEW k \in Nat, k + 1 <= far, NEW j \in 1 .. Len(f), f[j].node = back[k],
              f[j].depth = far - k
       PROVE  /\ back[k + 1] = f[j].from /\ j # 1
  <2>1. k + 1 \in 1 .. far /\ (k + 1) - 1 = k /\ far - k # 0
    BY <1>8, <1>12
  <2>2. back[k + 1] = f[PlaceOf(f, back[k])].from
    BY <1>10, <2>1
  <2> QED
    BY <1>3, <1>6, <1>12, <2>1, <2>2
<1>13. ASSUME NEW k \in Nat, k \in S
       PROVE  k + 1 \in S
  <2> SUFFICES ASSUME k + 1 <= far
               PROVE  At(k + 1)
    OBVIOUS
  <2>1. At(k)
    BY <1>8, <1>13
  <2>2. PICK j \in 1 .. Len(f) : f[j].node = back[k] /\ f[j].depth = far - k
    BY <2>1
  <2>3. back[k + 1] = f[j].from /\ j # 1
    BY <1>12, <2>2
  <2>4. PICK l \in 1 .. Len(f) : f[j].from = f[l].node /\ f[j].depth = f[l].depth + 1
    BY <1>7, <2>3
  <2>5. f[l].depth \in Nat
    BY <1>5
  <2>6. f[l].depth = far - (k + 1)
    BY <1>8, <2>2, <2>4, <2>5
  <2> QED
    BY <2>3, <2>4, <2>6
<1> HIDE DEF S, At
<1>14. \A k \in 0 .. far : At(k)
  <2>1. Nat \subseteq S
    BY <1>11, <1>13, NumbersByInduction
  <2>2. \A k \in 0 .. far : k \in Nat /\ k <= far
    BY <1>8
  <2> QED
    BY <2>1, <2>2 DEF S
<1>15. \A k \in 0 .. far : back[k] \in Nodes(G)
  BY <1>5, <1>14 DEF At
<1>16. /\ p \in [1 .. far + 1 -> Nodes(G)] /\ far + 1 \in Nat
       /\ \A j \in 1 .. far + 1 : p[j] = back[far + 1 - j]
  <2>1. \A j \in 1 .. far + 1 : far + 1 - j \in 0 .. far
    BY <1>8
  <2> QED
    BY <1>8, <1>15, <2>1
<1> HIDE DEF p
<1>17. p \in Seq(Nodes(G)) /\ Len(p) = far + 1
  BY <1>16, PlacesMakeASequence
<1>18. p[1] = start
  <2>1. p[1] = back[far]
    <3>1. 1 \in 1 .. far + 1 /\ far + 1 - 1 = far
      BY <1>8
    <3> QED
      BY <1>16, <3>1
  <2>2. PICK j \in 1 .. Len(f) : f[j].node = back[far] /\ f[j].depth = far - far
    <3>1. far \in 0 .. far
      BY <1>8
    <3> QED
      BY <1>14, <3>1 DEF At
  <2>3. f[j].depth = 0
    BY <1>8, <2>2
  <2>4. j = 1
    <3> SUFFICES ASSUME j # 1
                 PROVE  FALSE
      OBVIOUS
    <3>1. PICK l \in 1 .. Len(f) : f[j].depth = f[l].depth + 1
      BY <1>7
    <3>2. f[l].depth \in Nat
      BY <1>5
    <3> QED
      BY <2>3, <3>1, <3>2
  <2> QED
    BY <1>6, <2>1, <2>2, <2>4
<1>19. p[far + 1] = n
  <2>1. far + 1 \in 1 .. far + 1 /\ far + 1 - (far + 1) = 0
    BY <1>8
  <2> QED
    BY <1>10, <1>16, <2>1
<1>20. ASSUME NEW j \in 1 .. far
       PROVE  p[j + 1] \in succ[p[j]]
  <2>1. PICK k \in 0 .. far : k = far - j
    BY <1>8
  <2>2. /\ k \in Nat /\ k + 1 <= far /\ j + 1 \in 1 .. far + 1 /\ j \in 1 .. far + 1
        /\ far + 1 - (j + 1) = k /\ far + 1 - j = k + 1
    BY <1>8, <2>1
  <2>3. p[j + 1] = back[k] /\ p[j] = back[k + 1]
    BY <1>16, <2>2
  <2>4. PICK m \in 1 .. Len(f) : f[m].node = back[k] /\ f[m].depth = far - k
    BY <1>14 DEF At
  <2>5. back[k + 1] = f[m].from /\ m # 1
    BY <1>12, <2>2, <2>4
  <2>6. f[m].node \in succ[f[m].from]
    BY <1>7, <2>5
  <2> QED
    BY <2>3, <2>4, <2>5, <2>6
<1>21. far > 0 => p[far] = f[i].from
  <2> SUFFICES ASSUME far > 0
               PROVE  p[far] = f[i].from
    OBVIOUS
  <2>1. 0 \in Nat /\ 0 + 1 <= far /\ far \in 1 .. far + 1 /\ far + 1 - far = 0 + 1 /\ far = far - 0
    BY <1>8
  <2>2. f[i].node = back[0] /\ f[i].depth = far - 0
    BY <1>4, <1>10, <2>1 DEF n
  <2>3. back[0 + 1] = f[i].from
    BY <1>12, <2>1, <2>2
  <2> QED
    BY <1>16, <2>1, <2>3
<1>22. Len(p) - 1 = far
  BY <1>8, <1>17
<1>23. Routed(G, succ, start, f, i, p)
  BY <1>4, <1>17, <1>18, <1>19, <1>20, <1>21, <1>22 DEF Routed, n
<1> QED
  BY <1>1, <1>23 DEF n

-----------------------------------------------------------------------------
(* The edges each of them follows.                                         *)

\* A sequence of exactly the links of a set.
Arranged(G, S, list) ==
    /\ list \in Seq(Links(G))
    /\ \A i \in 1 .. Len(list) : list[i] \in S
    /\ \A x \in S : \E i \in 1 .. Len(list) : list[i] = x

LEMMA LinksInOrder ==
    ASSUME NEW G, NEW S, IsFiniteSet(S), \A x \in S : x \in Links(G), NEW key, DOMAIN key = S,
           \A x \in S : key[x] \in [1 .. 2 -> Int],
           \A x, y \in S : key[x] = key[y] => x = y
    PROVE  Arranged(G, S, ByKeys(key))
<1>1. PICK list : list = ByKeys(key)
  OBVIOUS
<1>2. PICK K \in Nat : K = 2
  OBVIOUS
<1>3. IsFiniteSet(DOMAIN key) /\ \A x \in DOMAIN key : key[x] \in [1 .. K -> Int]
  BY <1>2
<1>4. list \in Seq(S) /\ \A x \in S : \E i \in 1 .. Len(list) : list[i] = x
  BY <1>1, <1>3, SortedIsASequence
<1>5. Len(list) \in Nat /\ \A i \in 1 .. Len(list) : list[i] \in S
  BY <1>4, LenProperties
<1>6. list \in Seq(Links(G))
  <2>1. list \in [1 .. Len(list) -> Links(G)]
    BY <1>4, <1>5, LenProperties
  <2> QED
    BY <1>5, <2>1, PlacesMakeASequence
<1> QED
  BY <1>1, <1>4, <1>5, <1>6 DEF Arranged

LEMMA IdsInOrder ==
    ASSUME NEW G, IsGraph(G), NEW S, S \subseteq Nodes(G)
    PROVE  Lists(ById(G, S), S)
<1> DEFINE key == [n \in S |-> <<G.ids[n]>>]
<1>1. IsFiniteSet(S)
  BY NodesAreFinite, FS_Subset
<1>2. ById(G, S) = ByKeys(key)
  BY DEF ById, InOrder
<1>3. \A n \in S : G.ids[n] \in Int /\ \A m \in S : G.ids[m] = G.ids[n] => m = n
  BY DEF IsGraph
<1>4. /\ DOMAIN key = S /\ 1 \in Nat
      /\ \A n \in S : key[n] \in [1 .. 1 -> Int]
      /\ \A m, n \in S : key[m] = key[n] => m = n
  BY <1>3
<1> HIDE DEF key
<1>5. /\ ByKeys(key) \in Seq(S)
      /\ \A x \in S : \E i \in 1 .. Len(ByKeys(key)) : ByKeys(key)[i] = x
      /\ \A i, j \in 1 .. Len(ByKeys(key)) : ByKeys(key)[i] = ByKeys(key)[j] => i = j
  BY <1>1, <1>4, SortedIsASequence
<1> QED
  BY <1>2, <1>5, LenProperties DEF Lists

LEMMA KindsAreNumbered ==
    /\ \A x \in DOMAIN KindCode : KindCode[x] \in Int
    /\ \A x, y \in DOMAIN KindCode : KindCode[x] = KindCode[y] => x = y
BY DEF KindCode

\* The edges from and to a node.
OutLinks(G, n) == {[to |-> e.to, via |-> e.kind] : e \in {e \in G.edges : e.from = n}}
InLinks(G, n) ==
    {[to |-> e.from, via |-> e.kind] : e \in {e \in G.edges : e.to = n /\ e.kind # "contains"}}

LEMMA OutLinksAreTyped ==
    ASSUME NEW G, IsGraph(G), NEW n
    PROVE  /\ IsFiniteSet(OutLinks(G, n)) /\ \A x \in OutLinks(G, n) : x \in Links(G)
           /\ {x.to : x \in OutLinks(G, n)} = Ends(G, n, DOMAIN KindCode)
<1> DEFINE E == {e \in G.edges : e.from = n}
           L == OutLinks(G, n)
           link == [e \in E |-> [to |-> e.to, via |-> e.kind]]
<1>1. IsFiniteSet(E)
  BY FS_Subset DEF IsGraph
<1>2. \A e \in G.edges : e.kind \in DOMAIN KindCode /\ e.to \in Nodes(G)
  BY DEF IsGraph
<1>3. L = {link[e] : e \in E}
  BY DEF OutLinks
<1>4. \A e \in E : /\ link[e] \in Links(G) /\ link[e].to = e.to
                   /\ e \in G.edges /\ e.from = n /\ e.kind \in DOMAIN KindCode
  BY <1>2 DEF Links
<1>5. Ends(G, n, DOMAIN KindCode) = {e.to : e \in E}
  BY <1>2 DEF Ends
<1>d. link = [e \in E |-> link[e]]
  OBVIOUS
<1> HIDE DEF E, L, link
<1>7. IsFiniteSet({link[e] : e \in E})
  BY <1>1, <1>d, FiniteImage
<1>8. \A x \in L : \E e \in E : x = link[e]
  BY <1>3
<1>9. \A e \in E : link[e] \in L
  BY <1>3
<1>10. {x.to : x \in L} = {e.to : e \in E}
  BY <1>4, <1>8, <1>9
<1>11. IsFiniteSet(L) /\ \A x \in L : x \in Links(G)
  BY <1>3, <1>4, <1>7, <1>8
<1> QED
  BY <1>5, <1>10, <1>11 DEF L

LEMMA InLinksAreTyped ==
    ASSUME NEW G, IsGraph(G), NEW n
    PROVE  /\ IsFiniteSet(InLinks(G, n)) /\ \A x \in InLinks(G, n) : x \in Links(G)
           /\ {x.to : x \in InLinks(G, n)} = Starts(G, n, DOMAIN KindCode \ {"contains"})
<1> DEFINE E == {e \in G.edges : e.to = n /\ e.kind # "contains"}
           L == InLinks(G, n)
           link == [e \in E |-> [to |-> e.from, via |-> e.kind]]
<1>1. IsFiniteSet(E)
  BY FS_Subset DEF IsGraph
<1>2. \A e \in G.edges : e.kind \in DOMAIN KindCode /\ e.from \in Nodes(G)
  BY DEF IsGraph
<1>3. L = {link[e] : e \in E}
  BY DEF InLinks
<1>4. \A e \in E : /\ link[e] \in Links(G) /\ link[e].to = e.from
                   /\ e \in G.edges /\ e.to = n /\ e.kind \in DOMAIN KindCode
  BY <1>2 DEF Links
<1>5. Starts(G, n, DOMAIN KindCode \ {"contains"}) = {e.from : e \in E}
  BY <1>2 DEF Starts
<1>d. link = [e \in E |-> link[e]]
  OBVIOUS
<1> HIDE DEF E, L, link
<1>7. IsFiniteSet({link[e] : e \in E})
  BY <1>1, <1>d, FiniteImage
<1>8. \A x \in L : \E e \in E : x = link[e]
  BY <1>3
<1>9. \A e \in E : link[e] \in L
  BY <1>3
<1>10. {x.to : x \in L} = {e.from : e \in E}
  BY <1>4, <1>8, <1>9
<1>11. IsFiniteSet(L) /\ \A x \in L : x \in Links(G)
  BY <1>3, <1>4, <1>7, <1>8
<1> QED
  BY <1>5, <1>10, <1>11 DEF L

LEMMA OutgoingIsArranged ==
    ASSUME NEW G, IsGraph(G), NEW n
    PROVE  Arranged(G, OutLinks(G, n), Outgoing(G, n))
<1> DEFINE S == OutLinks(G, n)
           key == [x \in S |-> <<G.ids[x.to], KindCode[x.via]>>]
<1>1. Outgoing(G, n) = ByKeys(key)
  BY DEF Outgoing, OutLinks, InOrder
<1>2. IsFiniteSet(S) /\ \A x \in S : x \in Links(G)
  BY OutLinksAreTyped
<1> HIDE DEF S
<1>3. \A x \in S : /\ x = [to |-> x.to, via |-> x.via] /\ x.to \in Nodes(G) /\ x.via \in DOMAIN KindCode
                   /\ G.ids[x.to] \in Int /\ KindCode[x.via] \in Int
  <2>1. \A x \in S : x = [to |-> x.to, via |-> x.via] /\ x.to \in Nodes(G) /\ x.via \in DOMAIN KindCode
    BY <1>2 DEF Links
  <2> QED
    BY <2>1, KindsAreNumbered DEF IsGraph
<1>4. DOMAIN key = S /\ \A x \in S : key[x] = <<G.ids[x.to], KindCode[x.via]>>
  OBVIOUS
<1> HIDE DEF key
<1>5. \A x \in S : key[x] \in [1 .. 2 -> Int]
  BY <1>3, <1>4
<1>6. ASSUME NEW x \in S, NEW y \in S, key[x] = key[y]
      PROVE  x = y
  <2>1. G.ids[x.to] = G.ids[y.to] /\ KindCode[x.via] = KindCode[y.via]
    BY <1>4, <1>6
  <2>2. x.to = y.to
    BY <1>3, <2>1 DEF IsGraph
  <2>3. x.via = y.via
    BY <1>3, <2>1, KindsAreNumbered
  <2> QED
    BY <1>3, <2>2, <2>3
<1>7. Arranged(G, S, ByKeys(key))
  BY <1>2, <1>4, <1>5, <1>6, LinksInOrder
<1> QED
  BY <1>1, <1>7 DEF S

LEMMA DependentsAreArranged ==
    ASSUME NEW G, IsGraph(G), NEW n
    PROVE  Arranged(G, InLinks(G, n), Dependents(G, n))
<1> DEFINE S == InLinks(G, n)
           key == [x \in S |-> <<KindCode[x.via], G.ids[x.to]>>]
<1>1. Dependents(G, n) = ByKeys(key)
  BY DEF Dependents, InLinks, InOrder
<1>2. IsFiniteSet(S) /\ \A x \in S : x \in Links(G)
  BY InLinksAreTyped
<1> HIDE DEF S
<1>3. \A x \in S : /\ x = [to |-> x.to, via |-> x.via] /\ x.to \in Nodes(G) /\ x.via \in DOMAIN KindCode
                   /\ G.ids[x.to] \in Int /\ KindCode[x.via] \in Int
  <2>1. \A x \in S : x = [to |-> x.to, via |-> x.via] /\ x.to \in Nodes(G) /\ x.via \in DOMAIN KindCode
    BY <1>2 DEF Links
  <2> QED
    BY <2>1, KindsAreNumbered DEF IsGraph
<1>4. DOMAIN key = S /\ \A x \in S : key[x] = <<KindCode[x.via], G.ids[x.to]>>
  OBVIOUS
<1> HIDE DEF key
<1>5. \A x \in S : key[x] \in [1 .. 2 -> Int]
  BY <1>3, <1>4
<1>6. ASSUME NEW x \in S, NEW y \in S, key[x] = key[y]
      PROVE  x = y
  <2>1. G.ids[x.to] = G.ids[y.to] /\ KindCode[x.via] = KindCode[y.via]
    BY <1>4, <1>6
  <2>2. x.to = y.to
    BY <1>3, <2>1 DEF IsGraph
  <2>3. x.via = y.via
    BY <1>3, <2>1, KindsAreNumbered
  <2> QED
    BY <1>3, <2>2, <2>3
<1>7. Arranged(G, S, ByKeys(key))
  BY <1>2, <1>4, <1>5, <1>6, LinksInOrder
<1> QED
  BY <1>1, <1>7 DEF S

\* What the nodes one step away are, for each of the searches.
AnyEnds(G) == [n \in Nodes(G) |-> Ends(G, n, DOMAIN KindCode)]
AnyStarts(G) == [n \in Nodes(G) |-> Starts(G, n, DOMAIN KindCode \ {"contains"})]
OneKind(G, kind, outgoing) ==
    [n \in Nodes(G) |-> IF outgoing THEN Ends(G, n, {kind}) ELSE Starts(G, n, {kind})]

LEMMA EndsAreNodes ==
    ASSUME NEW G, IsGraph(G), NEW n, NEW kinds
    PROVE  Ends(G, n, kinds) \subseteq Nodes(G) /\ Starts(G, n, kinds) \subseteq Nodes(G)
<1>1. \A e \in G.edges : e.to \in Nodes(G) /\ e.from \in Nodes(G)
  BY DEF IsGraph
<1> QED
  BY <1>1 DEF Ends, Starts

LEMMA OutgoingLeads ==
    ASSUME NEW G, IsGraph(G), NEW on, on = [n \in Nodes(G) |-> Outgoing(G, n)]
    PROVE  /\ LeadsAlong(G, on, AnyEnds(G))
           /\ Mapping(AnyEnds(G), Nodes(G), SUBSET Nodes(G))
<1>1. ASSUME NEW n \in Nodes(G)
      PROVE  /\ on[n] \in Seq(Links(G))
             /\ AnyEnds(G)[n] = {on[n][x].to : x \in 1 .. Len(on[n])}
  <2>1. on[n] = Outgoing(G, n) /\ AnyEnds(G)[n] = Ends(G, n, DOMAIN KindCode)
    BY DEF AnyEnds
  <2>2. Arranged(G, OutLinks(G, n), on[n])
    BY <2>1, OutgoingIsArranged
  <2>4. {x.to : x \in OutLinks(G, n)} = {on[n][x].to : x \in 1 .. Len(on[n])}
    BY <2>2 DEF Arranged
  <2>5. on[n] \in Seq(Links(G))
    BY <2>2 DEF Arranged
  <2>3. {x.to : x \in OutLinks(G, n)} = Ends(G, n, DOMAIN KindCode)
    BY OutLinksAreTyped
  <2> QED
    BY <2>1, <2>2, <2>3, <2>4, <2>5
<1>2. AnyEnds(G) \in [Nodes(G) -> SUBSET Nodes(G)]
  BY EndsAreNodes DEF AnyEnds
<1> QED
  BY <1>1, <1>2 DEF LeadsAlong, Mapping

LEMMA DependentsLead ==
    ASSUME NEW G, IsGraph(G), NEW on, on = [n \in Nodes(G) |-> Dependents(G, n)]
    PROVE  /\ LeadsAlong(G, on, AnyStarts(G))
           /\ Mapping(AnyStarts(G), Nodes(G), SUBSET Nodes(G))
           /\ \A m \in Nodes(G) : \A n, kind :
                Edge(on, m, n, kind) => kind \in DOMAIN KindCode \ {"contains"}
                                        /\ \A kinds : kind \in kinds => n \in Starts(G, m, kinds)
<1>1. ASSUME NEW n \in Nodes(G)
      PROVE  /\ on[n] \in Seq(Links(G))
             /\ AnyStarts(G)[n] = {on[n][x].to : x \in 1 .. Len(on[n])}
             /\ Arranged(G, InLinks(G, n), on[n])
  <2>1. on[n] = Dependents(G, n) /\ AnyStarts(G)[n] = Starts(G, n, DOMAIN KindCode \ {"contains"})
    BY DEF AnyStarts
  <2>2. Arranged(G, InLinks(G, n), on[n])
    BY <2>1, DependentsAreArranged
  <2>4. {x.to : x \in InLinks(G, n)} = {on[n][x].to : x \in 1 .. Len(on[n])}
    BY <2>2 DEF Arranged
  <2>5. on[n] \in Seq(Links(G))
    BY <2>2 DEF Arranged
  <2>3. {x.to : x \in InLinks(G, n)} = Starts(G, n, DOMAIN KindCode \ {"contains"})
    BY InLinksAreTyped
  <2> QED
    BY <2>1, <2>2, <2>3, <2>4, <2>5
<1>2. AnyStarts(G) \in [Nodes(G) -> SUBSET Nodes(G)]
  BY EndsAreNodes DEF AnyStarts
<1>3. ASSUME NEW m \in Nodes(G), NEW n, NEW kind, Edge(on, m, n, kind)
      PROVE  /\ kind \in DOMAIN KindCode \ {"contains"}
             /\ \A kinds : kind \in kinds => n \in Starts(G, m, kinds)
  <2>1. PICK x \in 1 .. Len(on[m]) : on[m][x].to = n /\ on[m][x].via = kind
    BY <1>3 DEF Edge
  <2>2. on[m][x] \in InLinks(G, m)
    BY <1>1, <2>1 DEF Arranged
  <2>3. PICK e \in G.edges : /\ e.to = m /\ e.kind # "contains"
                             /\ on[m][x] = [to |-> e.from, via |-> e.kind]
    BY <2>2 DEF InLinks
  <2>4. e.from = n /\ e.kind = kind
    BY <2>1, <2>3
  <2>5. kind \in DOMAIN KindCode
    BY <2>4 DEF IsGraph
  <2>6. \A kinds : kind \in kinds => n \in Starts(G, m, kinds)
    BY <2>3, <2>4 DEF Starts
  <2> QED
    BY <2>3, <2>4, <2>5, <2>6
<1> QED
  BY <1>1, <1>2, <1>3 DEF LeadsAlong, Mapping

LEMMA NeighboursLead ==
    ASSUME NEW G, IsGraph(G), NEW kind \in DOMAIN KindCode, NEW outgoing \in BOOLEAN,
           NEW on, on = [n \in Nodes(G) |-> Neighbours(G, n, kind, outgoing)]
    PROVE  /\ LeadsAlong(G, on, OneKind(G, kind, outgoing))
           /\ Mapping(OneKind(G, kind, outgoing), Nodes(G), SUBSET Nodes(G))
<1>1. ASSUME NEW n \in Nodes(G)
      PROVE  /\ on[n] \in Seq(Links(G))
             /\ OneKind(G, kind, outgoing)[n] = {on[n][x].to : x \in 1 .. Len(on[n])}
  <2> DEFINE S == IF outgoing THEN Ends(G, n, {kind}) ELSE Starts(G, n, {kind})
             near == ById(G, S)
  <2>1. on[n] = [i \in DOMAIN near |-> [to |-> near[i], via |-> kind]]
    BY DEF Neighbours
  <2>2. OneKind(G, kind, outgoing)[n] = S
    BY DEF OneKind
  <2>3. S \subseteq Nodes(G)
    BY EndsAreNodes
  <2> HIDE DEF S
  <2>4. Lists(near, S)
    BY <2>3, IdsInOrder
  <2> HIDE DEF near
  <2>5. /\ Len(near) \in Nat /\ DOMAIN near = 1 .. Len(near)
        /\ \A i \in 1 .. Len(near) : near[i] \in S
        /\ \A x \in S : \E i \in 1 .. Len(near) : near[i] = x
    BY <2>4, LenProperties DEF Lists
  <2>6. \A i \in 1 .. Len(near) : [to |-> near[i], via |-> kind] \in Links(G)
    BY <2>3, <2>5 DEF Links
  <2>7. on[n] \in [1 .. Len(near) -> Links(G)]
    BY <2>1, <2>5, <2>6
  <2>8. \A i \in 1 .. Len(near) : on[n][i].to = near[i]
    BY <2>1, <2>5
  <2>9. on[n] \in Seq(Links(G)) /\ Len(on[n]) = Len(near)
    BY <2>5, <2>7, PlacesMakeASequence
  <2>10. S = {on[n][x].to : x \in 1 .. Len(on[n])}
    BY <2>5, <2>8, <2>9
  <2> QED
    BY <2>2, <2>9, <2>10
<1>2. OneKind(G, kind, outgoing) \in [Nodes(G) -> SUBSET Nodes(G)]
  BY EndsAreNodes DEF OneKind
<1> QED
  BY <1>1, <1>2 DEF LeadsAlong, Mapping

LEMMA FindFindsNodes ==
    ASSUME NEW G, IsGraph(G), NEW term, Find(G, term) # <<>>
    PROVE  Find(G, term)[1] \in Nodes(G) /\ Head(Find(G, term)) = Find(G, term)[1]
<1>1. PICK S : S \subseteq Nodes(G) /\ Find(G, term) \in Seq(S)
  <2>1. Exact(G, term) \subseteq Nodes(G)
    BY DEF Exact
  <2>2. CASE Exact(G, term) # {}
    <3>1. Find(G, term) = ById(G, Exact(G, term))
      BY <2>2 DEF Find
    <3> QED
      BY <2>1, <3>1, IdsInOrder DEF Lists
  <2>3. CASE Exact(G, term) = {}
    <3> DEFINE T == {n \in Nodes(G) : \/ Within(term, Node(G, n).name)
                                      \/ Within(term, QualifiedName(G, n))}
    <3>1. Find(G, term) = ByName(T) /\ T \subseteq Nodes(G)
      BY <2>3 DEF Find
    <3> HIDE DEF T
    <3> QED
      BY <3>1, NamesList DEF Lists
  <2> QED
    BY <2>2, <2>3
<1>2. PICK s \in Seq(S) : s = Find(G, term)
  BY <1>1
<1>3. 1 \in 1 .. Len(s) /\ Head(s) = s[1]
  BY <1>2
<1>4. s[1] \in S
  BY <1>3, LenProperties
<1> QED
  BY <1>1, <1>2, <1>3, <1>4

-----------------------------------------------------------------------------
(* What a search finds, by the distances from its start.                   *)

\* A node within one distance is within every greater one.
LEMMA BallsAreNested ==
    ASSUME NEW N \in Nat, NEW ball, NEW S, NEW succ, Growing(ball, N, S, succ),
           NEW k \in Nat, NEW m \in Nat, k <= m, m <= N
    PROVE  ball[k + 1] \subseteq ball[m + 1]
<1> DEFINE P == {d \in Nat : k + d <= N => ball[k + 1] \subseteq ball[k + d + 1]}
<1>1. 0 \in P
  OBVIOUS
<1>2. ASSUME NEW d \in Nat, d \in P
      PROVE  d + 1 \in P
  <2> SUFFICES ASSUME k + (d + 1) <= N
               PROVE  ball[k + 1] \subseteq ball[k + (d + 1) + 1]
    OBVIOUS
  <2>1. PICK j \in 1 .. N : j = k + d + 1
    OBVIOUS
  <2>2. ball[k + 1] \subseteq ball[j]
    <3>1. k + d <= N /\ k + d + 1 = j
      BY <2>1
    <3> QED
      BY <1>2, <3>1
  <2>3. ball[j] \subseteq ball[j + 1]
    BY DEF Growing
  <2>4. k + (d + 1) + 1 = j + 1
    BY <2>1
  <2> QED
    BY <2>2, <2>3, <2>4
<1>3. m - k \in Nat /\ k + (m - k) = m
  OBVIOUS
<1> HIDE DEF P
<1>4. m - k \in P
  BY <1>1, <1>2, <1>3, NumbersByInduction
<1> QED
  BY <1>3, <1>4 DEF P

\* What a search finds, told by the distances from its start.
Exactly(start, D, succ, f) ==
    /\ \A i \in 1 .. Len(f) : Distance(Balls({start}, succ), f[i].node) = f[i].depth
    /\ \A i \in 1 .. Len(f) : f[i].node \in Ball({start}, D, succ)
    /\ \A n \in Ball({start}, D, succ) : \E i \in 1 .. Len(f) : f[i].node = n
    /\ \A k \in 0 .. Len(f) : \A d \in Nat :
         (\A i \in 1 .. k : f[i].depth <= d) => k <= Cardinality(Ball({start}, d, succ))

LEMMA BallsAreSets ==
    ASSUME IsGraph(graph), NEW start \in Nodes(graph), NEW d \in Nat,
           NEW succ, Mapping(succ, Nodes(graph), SUBSET Nodes(graph))
    PROVE  /\ Ball({start}, d, succ) \subseteq Nodes(graph)
           /\ IsFiniteSet(Ball({start}, d, succ))
           /\ \E m \in Nat : /\ m <= d /\ m <= Len(graph.nodes)
                             /\ m = (IF d < Len(graph.nodes) THEN d ELSE Len(graph.nodes))
                             /\ Ball({start}, d, succ) = Balls({start}, succ)[m + 1]
<1>1. PICK N \in Nat : N = Len(graph.nodes)
  BY DEF IsGraph
<1>2. PICK ball : ball = Balls({start}, succ)
  OBVIOUS
<1>3. {start} \subseteq Nodes(graph)
  OBVIOUS
<1>4. DOMAIN ball = 1 .. N + 1 /\ \A k \in DOMAIN ball : ball[k] \subseteq Nodes(graph)
  BY <1>1, <1>2, <1>3, BallsGrow
<1>5. PICK m : m = IF d < N THEN d ELSE N
  OBVIOUS
<1>6. m \in Nat /\ m <= d /\ m <= N /\ m + 1 \in 1 .. N + 1
  BY <1>5
<1>7. Ball({start}, d, succ) = ball[m + 1]
  <2>1. Ball({start}, d, succ) = ball[IF d < N THEN d + 1 ELSE N + 1]
    BY <1>1, <1>2 DEF Ball
  <2>2. m + 1 = IF d < N THEN d + 1 ELSE N + 1
    BY <1>5
  <2> QED
    BY <2>1, <2>2
<1>8. ball[m + 1] \subseteq Nodes(graph)
  BY <1>4, <1>6
<1>9. IsFiniteSet(ball[m + 1])
  BY <1>8, NodesAreFinite, FS_Subset
<1> QED
  BY <1>1, <1>2, <1>5, <1>6, <1>7, <1>8, <1>9

LEMMA SurveyedIsExact ==
    ASSUME IsGraph(graph), NEW on, NEW start \in Nodes(graph), NEW D \in Nat,
           NEW succ, Mapping(succ, Nodes(graph), SUBSET Nodes(graph)),
           NEW f, Surveyed(graph, on, Balls({start}, succ), start, D, f)
    PROVE  Exactly(start, D, succ, f)
<1>1. PICK N \in Nat : N = Len(graph.nodes)
  BY DEF IsGraph
<1>2. PICK ball : ball = Balls({start}, succ)
  OBVIOUS
<1>3. {start} \subseteq Nodes(graph)
  OBVIOUS
<1>4. Growing(ball, N, {start}, succ) /\ DOMAIN ball = 1 .. N + 1
  BY <1>1, <1>2, <1>3, BallsGrow
<1>5. /\ f \in Seq(Marks(graph)) /\ Distinct(f)
      /\ \A i \in 1 .. Len(f) : /\ f[i].depth <= D /\ f[i].depth < N
                                /\ f[i].node \in ball[f[i].depth + 1]
                                /\ \A m \in Nat : m < f[i].depth => f[i].node \notin ball[m + 1]
      /\ \A m \in Nat : m <= D /\ m <= N =>
           \A n \in ball[m + 1] : \E i \in 1 .. Len(f) : f[i].node = n /\ f[i].depth <= m
  BY <1>1, <1>2 DEF Surveyed
<1>6. Len(f) \in Nat /\ \A i \in 1 .. Len(f) : f[i].depth \in Nat /\ f[i].node \in Nodes(graph)
  BY <1>5, MarksAreTyped, LenProperties
<1>7. ASSUME NEW i \in 1 .. Len(f)
      PROVE  Distance(ball, f[i].node) = f[i].depth
  <2>1. PICK k \in 0 .. N : k = f[i].depth
    BY <1>5, <1>6
  <2>2. f[i].node \in ball[k + 1] /\ \A m \in Nat : m < k => f[i].node \notin ball[m + 1]
    BY <1>5, <2>1
  <2> QED
    BY <1>4, <2>1, <2>2, DistanceIsLeast
\* A node within a distance that is no less than its own.
<1>8. ASSUME NEW i \in 1 .. Len(f), NEW d \in Nat, f[i].depth <= d
      PROVE  f[i].node \in Ball({start}, d, succ)
  <2>1. PICK m \in Nat : /\ m <= d /\ m <= N /\ m = (IF d < N THEN d ELSE N)
                         /\ Ball({start}, d, succ) = ball[m + 1]
    BY <1>1, <1>2, BallsAreSets
  <2>2. PICK k \in Nat : k = f[i].depth
    BY <1>6
  <2>3. k <= m
    BY <1>5, <1>8, <2>1, <2>2
  <2>4. ball[k + 1] \subseteq ball[m + 1]
    BY <1>4, <2>1, <2>3, BallsAreNested
  <2> QED
    BY <1>5, <2>1, <2>2, <2>4
<1>9. ASSUME NEW n \in Ball({start}, D, succ)
      PROVE  \E i \in 1 .. Len(f) : f[i].node = n
  <2>1. PICK m \in Nat : m <= D /\ m <= N /\ Ball({start}, D, succ) = ball[m + 1]
    BY <1>1, <1>2, BallsAreSets
  <2>2. n \in ball[m + 1]
    BY <2>1
  <2>3. \E i \in 1 .. Len(f) : f[i].node = n /\ f[i].depth <= m
    BY <1>5, <2>1, <2>2, Zenon
  <2> QED
    BY <2>3
<1>10. ASSUME NEW k \in 0 .. Len(f), NEW d \in Nat, \A i \in 1 .. k : f[i].depth <= d
       PROVE  k <= Cardinality(Ball({start}, d, succ))
  <2> DEFINE B == Ball({start}, d, succ)
             g == [i \in 1 .. k |-> f[i].node]
  <2>1. k \in Nat /\ \A i \in 1 .. k : i \in 1 .. Len(f)
    BY <1>6
  <2>2. IsFiniteSet(B)
    BY BallsAreSets
  <2>3. \A i \in 1 .. k : f[i].node \in B
    BY <1>8, <1>10, <2>1
  <2> HIDE DEF B
  <2>4. g \in Injection(1 .. k, B)
    <3>1. g \in [1 .. k -> B]
      BY <2>3
    <3> QED
      BY <1>5, <2>1, <3>1 DEF Injection, IsInjective, Distinct
  <2> HIDE DEF g
  <2>5. IsFiniteSet(1 .. k) /\ Cardinality(1 .. k) = k
    <3>1. IsFiniteSet(1 .. k) /\ Cardinality(1 .. k) = IF 1 > k THEN 0 ELSE k - 1 + 1
      BY <2>1, FS_Interval
    <3> QED
      BY <2>1, <3>1
  <2>6. Cardinality(1 .. k) <= Cardinality(B)
    BY <2>2, <2>4, <2>5, FS_Injection
  <2> QED
    BY <2>5, <2>6 DEF B
<1>11. \A i \in 1 .. Len(f) : f[i].node \in Ball({start}, D, succ)
  BY <1>5, <1>8
<1> QED
  BY <1>2, <1>7, <1>9, <1>10, <1>11 DEF Exactly

\* All a question needs of its search.
Answered(on, start, D, succ, f) ==
    /\ Surveyed(graph, on, Balls({start}, succ), start, D, f)
    /\ Exactly(start, D, succ, f)
    /\ \A i \in 1 .. Len(f) : Routed(graph, succ, start, f, i, PathTo(f, f[i].node))

LEMMA SearchAnswers ==
    ASSUME IsGraph(graph), NEW on, NEW start \in Nodes(graph), NEW D \in Nat,
           NEW succ, Mapping(succ, Nodes(graph), SUBSET Nodes(graph)), LeadsAlong(graph, on, succ)
    PROVE  Answered(on, start, D, succ, Search(graph, <<Start(start)>>, D, on))
<1>1. PICK ball : ball = Balls({start}, succ)
  OBVIOUS
<1>2. PICK f : f = Search(graph, <<Start(start)>>, D, on)
  OBVIOUS
<1>3. {start} \subseteq Nodes(graph)
  OBVIOUS
<1>4. Growing(ball, Len(graph.nodes), {start}, succ)
  BY <1>1, <1>3, BallsGrow
<1>5. Surveyed(graph, on, ball, start, D, f)
  BY <1>2, <1>4, SearchSurveys
<1>6. Exactly(start, D, succ, f)
  BY <1>1, <1>5, SurveyedIsExact
<1>7. \A i \in 1 .. Len(f) : Routed(graph, succ, start, f, i, PathTo(f, f[i].node))
  BY <1>5, PathLeadsTo
<1> QED
  BY <1>1, <1>2, <1>5, <1>6, <1>7 DEF Answered

-----------------------------------------------------------------------------
(* The questions.                                                          *)

ShortestAs(from, to, D, visits, stop, r, succ) ==
    LET near == to \in Ball({from}, D, succ)
        far == Distance(Balls({from}, succ), to)
        upTo(k) == Cardinality(Ball({from}, k, succ))
    IN  /\ r.state = "path" =>
             /\ r.path[1] = from /\ Last(r.path) = to
             /\ \A i \in 1 .. Len(r.path) - 1 : r.path[i + 1] \in succ[r.path[i]]
             /\ Len(r.path) - 1 = far /\ far <= D
        /\ r.state = "limit" => upTo(IF near THEN far ELSE D) > visits
        /\ r.state = "none" => ~ near \/ stop <= upTo(far)

LEMMA PathIsRight ==
    ASSUME IsGraph(graph), PathGiven(graph, answer.args, answer.result)
    PROVE  PathIsShortest
<1>0. PICK term \in Terms, other \in Terms, D \in Depths, visits \in Sizes, stop \in Stops :
        /\ Find(graph, term) # <<>> /\ Find(graph, other) # <<>>
        /\ answer.args = [from |-> Find(graph, term)[1], to |-> Find(graph, other)[1],
                          depth |-> D, visits |-> visits, stop |-> stop]
        /\ answer.result = ShortestPath(graph, Find(graph, term)[1], Find(graph, other)[1],
                                        D, visits, stop)
  BY Zenon DEF PathGiven
<1>1. PICK from \in Nodes(graph), to \in Nodes(graph) :
        /\ answer.args = [from |-> from, to |-> to, depth |-> D, visits |-> visits, stop |-> stop]
        /\ answer.result = ShortestPath(graph, from, to, D, visits, stop)
  BY <1>0, FindFindsNodes
<1>2. D \in Nat /\ visits \in Nat /\ stop \in Nat
  BY LimitsAssumption
<1> DEFINE succ == AnyEnds(graph)
           a == answer.args
           r == answer.result
           near == to \in Ball({from}, D, succ)
           far == Distance(Balls({from}, succ), to)
           upTo(k) == Cardinality(Ball({from}, k, succ))
<1>3. a.from = from /\ a.to = to /\ a.depth = D /\ a.visits = visits /\ a.stop = stop
  BY <1>1
<1>4. PICK on : on = [n \in Nodes(graph) |-> Outgoing(graph, n)]
  OBVIOUS
<1>5. LeadsAlong(graph, on, succ) /\ Mapping(succ, Nodes(graph), SUBSET Nodes(graph))
  BY <1>4, OutgoingLeads
<1>6. PICK f : f = Search(graph, <<Start(from)>>, D, on)
  OBVIOUS
<1> HIDE DEF succ
<1>7. Answered(on, from, D, succ, f)
  BY <1>2, <1>5, <1>6, SearchAnswers
<1>8. /\ f \in Seq(Marks(graph)) /\ Distinct(f)
      /\ \A i, j \in 1 .. Len(f) : i < j => f[i].depth <= f[j].depth
      /\ \A i \in 1 .. Len(f) : f[i].depth <= D
  BY <1>7 DEF Answered, Surveyed
<1>9. DOMAIN f = 1 .. Len(f) /\ Len(f) \in Nat /\ \A i \in 1 .. Len(f) : f[i].depth \in Nat
  BY <1>8, MarksAreTyped, LenProperties
<1>10. /\ \A i \in 1 .. Len(f) : Distance(Balls({from}, succ), f[i].node) = f[i].depth
       /\ \A i \in 1 .. Len(f) : f[i].node \in Ball({from}, D, succ)
       /\ \A n \in Ball({from}, D, succ) : \E i \in 1 .. Len(f) : f[i].node = n
       /\ \A k \in 0 .. Len(f) : \A d \in Nat :
            (\A i \in 1 .. k : f[i].depth <= d) => k <= upTo(d)
  BY <1>7 DEF Answered, Exactly
<1>11. ASSUME NEW d \in Nat
       PROVE  upTo(d) \in Nat
  BY <1>5, <1>11, BallsAreSets, FS_CardinalityType
<1> DEFINE reached == {i \in DOMAIN f : f[i].node = to}
           last == IF reached = {} THEN Len(f) ELSE CHOOSE i \in reached : TRUE
<1>12. r = IF stop <= last /\ stop <= visits + 1 THEN [state |-> "none"]
           ELSE IF last > visits THEN [state |-> "limit"]
           ELSE IF reached = {} THEN [state |-> "none"]
           ELSE [state |-> "path", path |-> PathTo(f, to)]
  BY <1>1, <1>4, <1>6 DEF ShortestPath
<1>13. ASSUME reached = {}
       PROVE  ShortestAs(from, to, D, visits, stop, r, succ)
  <2>1. ~ near
    BY <1>9, <1>10, <1>13
  <2>2. last = Len(f)
    BY <1>13
  <2>3. Len(f) <= upTo(D)
    <3>1. Len(f) \in 0 .. Len(f) /\ D \in Nat
      BY <1>2, <1>9
    <3> HIDE DEF upTo
    <3> QED
      BY <1>8, <1>10, <3>1
  <2> HIDE DEF last, upTo, near, far
  <2>4. r.state \in {"none", "limit"} /\ (r.state = "limit" => last > visits)
    BY <1>12, <1>13
  <2>5. r.state = "limit" => upTo(IF near THEN far ELSE D) > visits
    BY <1>2, <1>9, <1>11, <2>1, <2>2, <2>3, <2>4
  <2> HIDE DEF reached, r
  <2>6. /\ r.state # "path"
        /\ r.state = "limit" => upTo(IF near THEN far ELSE D) > visits
        /\ r.state = "none" => ~ near \/ stop <= upTo(far)
    BY <2>1, <2>4, <2>5
  <2> QED
    BY <2>6, Zenon DEF ShortestAs, near, far, upTo
<1>14. ASSUME reached # {}
       PROVE  ShortestAs(from, to, D, visits, stop, r, succ)
  <2>1. last \in 1 .. Len(f) /\ f[last].node = to
    BY <1>9, <1>14
  <2>2. near /\ far = f[last].depth
    BY <1>10, <2>1
  <2>3. far \in Nat /\ far <= D
    BY <1>8, <1>9, <2>1, <2>2
  <2>4. last <= upTo(far)
    <3>1. last \in 0 .. Len(f)
      BY <1>9, <2>1
    <3>2. ASSUME NEW i \in 1 .. last
          PROVE  f[i].depth <= far
      <4>1. CASE i = last
        BY <2>2, <2>3, <4>1
      <4>2. CASE i # last
        <5>1. i \in 1 .. Len(f) /\ i < last
          BY <1>9, <2>1, <4>2
        <5> QED
          BY <1>8, <2>1, <2>2, <5>1
      <4> QED
        BY <4>1, <4>2
    <3> HIDE DEF last
    <3> QED
      BY <1>10, <2>3, <3>1, <3>2
  <2>5. PICK p : p = PathTo(f, to)
    OBVIOUS
  <2>6. Routed(graph, succ, from, f, last, p)
    BY <1>7, <2>1, <2>5 DEF Answered
  <2>7. /\ p[1] = from /\ p[Len(p)] = to /\ Len(p) = far + 1
        /\ \A i \in 1 .. Len(p) - 1 : p[i + 1] \in succ[p[i]]
    BY <2>1, <2>2, <2>6 DEF Routed
  <2>8. /\ r.state \in {"none", "limit", "path"}
        /\ r.state = "path" => r.path = p
        /\ r.state = "limit" => last > visits
        /\ r.state = "none" => stop <= last
    BY <1>12, <1>14, <2>5
  <2> HIDE DEF last, upTo, near, far, reached, r
  <2>9. upTo(far) \in Nat /\ last \in Nat
    BY <1>9, <1>11, <2>1, <2>3
  <2>10. r.state = "path" =>
           /\ r.path[1] = from /\ Last(r.path) = to
           /\ \A i \in 1 .. Len(r.path) - 1 : r.path[i + 1] \in succ[r.path[i]]
           /\ Len(r.path) - 1 = far /\ far <= D
    <3> SUFFICES ASSUME r.state = "path"
                 PROVE  /\ r.path[1] = from /\ Last(r.path) = to
                        /\ \A i \in 1 .. Len(r.path) - 1 : r.path[i + 1] \in succ[r.path[i]]
                        /\ Len(r.path) - 1 = far /\ far <= D
      OBVIOUS
    <3>1. PICK q : q = r.path
      OBVIOUS
    <3>2. q = p
      BY <2>8, <3>1
    <3>3. Len(q) - 1 = far
      BY <2>3, <2>7, <3>2
    <3>4. q[1] = from /\ Last(q) = to /\ \A i \in 1 .. Len(q) - 1 : q[i + 1] \in succ[q[i]]
      BY <2>7, <3>2 DEF Last
    <3> QED
      BY <2>3, <3>1, <3>3, <3>4
  <2>11. r.state = "limit" => upTo(IF near THEN far ELSE D) > visits
    BY <1>2, <2>2, <2>4, <2>8, <2>9
  <2>12. r.state = "none" => ~ near \/ stop <= upTo(far)
    BY <1>2, <2>4, <2>8, <2>9
  <2> QED
    BY <2>10, <2>11, <2>12, Zenon DEF ShortestAs, near, far, upTo
<1>15. ShortestAs(from, to, D, visits, stop, r, succ)
  BY <1>13, <1>14
<1> HIDE DEF near, far, upTo, last, reached
<1>16. ShortestAs(a.from, a.to, a.depth, a.visits, a.stop, r, AnyEnds(graph))
  BY <1>3, <1>15 DEF succ
<1> QED
  BY <1>16, Zenon DEF PathIsShortest, ShortestAs, AnyEnds

ExactlyCut(n, D, limit, seq, succ) ==
    LET all == Ball({n}, D, succ) \ {n}
    IN  /\ ToSet(seq) \subseteq all
        /\ Len(seq) = IF Cardinality(all) < limit THEN Cardinality(all) ELSE limit
        /\ \A x \in ToSet(seq), y \in all \ ToSet(seq) : x < y

LEMMA HopsAreCut ==
    ASSUME IsGraph(graph), NEW n \in Nodes(graph), NEW kind \in DOMAIN KindCode,
           NEW outgoing \in BOOLEAN, NEW D \in Nat, NEW limit \in Nat
    PROVE  ExactlyCut(n, D, limit, Hops(graph, n, kind, outgoing, D, limit),
                      OneKind(graph, kind, outgoing))
<1>1. PICK succ : succ = OneKind(graph, kind, outgoing)
  OBVIOUS
<1>2. PICK on : on = [m \in Nodes(graph) |-> Neighbours(graph, m, kind, outgoing)]
  OBVIOUS
<1>3. LeadsAlong(graph, on, succ) /\ Mapping(succ, Nodes(graph), SUBSET Nodes(graph))
  BY <1>1, <1>2, NeighboursLead
<1>4. PICK f : f = Search(graph, <<Start(n)>>, D, on)
  OBVIOUS
<1>5. Answered(on, n, D, succ, f)
  BY <1>3, <1>4, SearchAnswers
<1>6. f \in Seq(Marks(graph))
  BY <1>5 DEF Answered, Surveyed
<1>7. DOMAIN f = 1 .. Len(f)
  BY <1>6, LenProperties
<1>8. PICK all : all = Ball({n}, D, succ) \ {n}
  OBVIOUS
<1>9. {f[i].node : i \in DOMAIN f} \ {n} = all
  <2>1. /\ \A i \in 1 .. Len(f) : f[i].node \in Ball({n}, D, succ)
        /\ \A m \in Ball({n}, D, succ) : \E i \in 1 .. Len(f) : f[i].node = m
    BY <1>5 DEF Answered, Exactly
  <2> QED
    BY <1>7, <1>8, <2>1
<1>10. IsFiniteSet(all) /\ all \subseteq Int
  <2>1. Ball({n}, D, succ) \subseteq Nodes(graph)
    BY <1>3, BallsAreSets
  <2>2. all \subseteq Nodes(graph)
    BY <1>8, <2>1
  <2> QED
    BY <2>2, NodesAreFinite, FS_Subset
<1>11. PICK s : s = ByName(all)
  OBVIOUS
<1>12. /\ s \in Seq(all) /\ Len(s) = Cardinality(all)
       /\ \A x \in all : \E i \in 1 .. Len(s) : s[i] = x
       /\ \A i, j \in 1 .. Len(s) : i < j => s[i] < s[j]
  BY <1>10, <1>11, NamesInOrder
<1>13. PICK r : r = Limited(s, limit)
  OBVIOUS
<1>14. r \in Seq(all) /\ Cut(s, limit, r)
  BY <1>12, <1>13, LimitCuts
<1>15. /\ Len(r) \in Nat /\ DOMAIN r = 1 .. Len(r)
       /\ Len(r) = IF Len(s) < limit THEN Len(s) ELSE limit
       /\ \A i \in 1 .. Len(r) : r[i] = s[i] /\ i \in 1 .. Len(s)
  BY <1>14 DEF Cut
<1>16. \A i \in 1 .. Len(s) : s[i] \in all
  BY <1>12, LenProperties
<1>17. ToSet(r) = {r[i] : i \in 1 .. Len(r)}
  BY <1>15 DEF ToSet
<1>18. ToSet(r) \subseteq all
  BY <1>15, <1>16, <1>17
<1>19. ASSUME NEW x \in ToSet(r), NEW y \in all \ ToSet(r)
       PROVE  x < y
  <2>1. PICK i \in 1 .. Len(r) : x = r[i]
    BY <1>17
  <2>2. PICK j \in 1 .. Len(s) : y = s[j]
    BY <1>12
  <2>3. j \notin 1 .. Len(r)
    BY <1>15, <1>17, <1>19, <2>2
  <2>4. i \in 1 .. Len(s) /\ x = s[i]
    BY <1>15, <2>1
  <2>5. i < j
    BY <1>15, <2>1, <2>2, <2>3
  <2> QED
    BY <1>12, <2>2, <2>4, <2>5
<1>20. Hops(graph, n, kind, outgoing, D, limit) = r
  <2>1. Hops(graph, n, kind, outgoing, D, limit)
          = Limited(ByName({f[i].node : i \in DOMAIN f} \ {n}), limit)
    BY <1>2, <1>4 DEF Hops
  <2> QED
    BY <1>9, <1>11, <1>13, <2>1
<1>21. ExactlyCut(n, D, limit, r, succ)
  BY <1>8, <1>12, <1>15, <1>18, <1>19 DEF ExactlyCut
<1> QED
  BY <1>1, <1>20, <1>21

LEMMA HopsAreRight ==
    ASSUME IsGraph(graph), NeighbourhoodGiven(graph, answer.args, answer.result)
    PROVE  HopsAreExact
<1> SUFFICES ASSUME answer.result # None
             PROVE  HopsAreExact
  BY DEF HopsAreExact
<1>1. PICK term \in Terms, D \in Depths, limit \in Sizes :
        /\ answer.args = [depth |-> D, limit |-> limit]
        /\ answer.result = Neighbourhood(graph, term, D, limit)
  BY DEF NeighbourhoodGiven
<1>2. D \in Nat /\ limit \in Nat
  BY LimitsAssumption
<1>3. Find(graph, term) # <<>>
  BY <1>1 DEF Neighbourhood
<1>4. PICK n : n = Head(Find(graph, term))
  OBVIOUS
<1>5. n \in Nodes(graph)
  BY <1>3, <1>4, FindFindsNodes
<1>6. PICK a : a = answer.args
  OBVIOUS
<1>7. a.depth = D /\ a.limit = limit
  BY <1>1, <1>6
<1>8. PICK r : r = answer.result
  OBVIOUS
<1>9. /\ r.target = n
      /\ r.callers = Hops(graph, n, "calls", FALSE, D, limit)
      /\ r.callees = Hops(graph, n, "calls", TRUE, D, limit)
      /\ r.imports = Hops(graph, n, "imports", TRUE, D, limit)
  BY <1>1, <1>3, <1>4, <1>8 DEF Neighbourhood
<1>10. "calls" \in DOMAIN KindCode /\ "imports" \in DOMAIN KindCode
  BY DEF KindCode
<1>11. /\ ExactlyCut(n, D, limit, r.callers, OneKind(graph, "calls", FALSE))
       /\ ExactlyCut(n, D, limit, r.callees, OneKind(graph, "calls", TRUE))
       /\ ExactlyCut(n, D, limit, r.imports, OneKind(graph, "imports", TRUE))
  <2>1. FALSE \in BOOLEAN /\ TRUE \in BOOLEAN
    OBVIOUS
  <2> QED
    BY <1>2, <1>5, <1>9, <1>10, <2>1, HopsAreCut
<1>12. /\ OneKind(graph, "calls", FALSE) = [m \in Nodes(graph) |-> Starts(graph, m, {"calls"})]
       /\ OneKind(graph, "calls", TRUE) = [m \in Nodes(graph) |-> Ends(graph, m, {"calls"})]
       /\ OneKind(graph, "imports", TRUE) = [m \in Nodes(graph) |-> Ends(graph, m, {"imports"})]
  BY DEF OneKind
<1>13. /\ ExactlyCut(r.target, a.depth, a.limit, r.callers,
                     [m \in Nodes(graph) |-> Starts(graph, m, {"calls"})])
       /\ ExactlyCut(r.target, a.depth, a.limit, r.callees,
                     [m \in Nodes(graph) |-> Ends(graph, m, {"calls"})])
       /\ ExactlyCut(r.target, a.depth, a.limit, r.imports,
                     [m \in Nodes(graph) |-> Ends(graph, m, {"imports"})])
  BY <1>7, <1>9, <1>11, <1>12
<1> QED
  BY <1>6, <1>8, <1>13, Zenon DEF HopsAreExact, ExactlyCut

Hard == {"calls", "imports"}

\* What is said of a node that a change may reach.
Justified(x, target, balls, succ) ==
    /\ x.node # target
    /\ x.depth = Distance(balls, x.node)
    /\ Len(x.path) = x.depth + 1 /\ x.path[1] = target /\ Last(x.path) = x.node
    /\ \A i \in 1 .. x.depth : x.path[i + 1] \in succ[x.path[i]]
    /\ CASE x.kind = "direct" ->
              x.depth = 1 /\ \E m \in Starts(graph, x.path[Len(x.path) - 1], Hard) : m = x.node
         [] x.kind = "transitive" ->
              x.depth > 1 /\ \E m \in Starts(graph, x.path[Len(x.path) - 1], Hard) : m = x.node
         [] x.kind = "possible" ->
              \E n \in Nodes(graph) : /\ Distance(balls, n) = x.depth - 1
                                      /\ x.node \in Starts(graph, n, DOMAIN KindCode \ Hard)

\* A node found, as it is reported.
Shown(f, m) == [node |-> m.node, depth |-> m.depth, kind |-> ImpactKind(m),
                path |-> PathTo(f, m.node)]

LEMMA ShownIsJustified ==
    ASSUME IsGraph(graph), NEW target \in Nodes(graph), NEW D \in Nat,
           NEW on, on = [n \in Nodes(graph) |-> Dependents(graph, n)],
           NEW f, Answered(on, target, D, AnyStarts(graph), f), NEW i \in 1 .. Len(f), i # 1
    PROVE  Justified(Shown(f, f[i]), target, Balls({target}, AnyStarts(graph)), AnyStarts(graph))
<1>1. PICK succ : succ = AnyStarts(graph)
  OBVIOUS
<1>2. PICK balls : balls = Balls({target}, succ)
  OBVIOUS
<1>3. /\ f \in Seq(Marks(graph)) /\ Distinct(f) /\ 1 \in 1 .. Len(f) /\ f[1] = Start(target)
      /\ \E j \in 1 .. Len(f) : Came(on, D, f, i, j)
  BY DEF Answered, Surveyed
<1>4. PICK j \in 1 .. Len(f) : Came(on, D, f, i, j)
  BY <1>3
<1>5. PICK d \in Nat : d = f[i].depth
  BY <1>3, MarksAreTyped
<1>6. /\ f[j].depth \in Nat /\ f[j].node \in Nodes(graph) /\ f[i].node \in Nodes(graph)
  BY <1>3, MarksAreTyped
<1>7. /\ f[i].from = f[j].node /\ d = f[j].depth + 1
      /\ Edge(on, f[j].node, f[i].node, f[i].via)
  BY <1>4, <1>5 DEF Came
<1>8. /\ Distance(balls, f[i].node) = d /\ Distance(balls, f[j].node) = f[j].depth
  <2>1. Exactly(target, D, succ, f)
    BY <1>1 DEF Answered
  <2>2. \A k \in 1 .. Len(f) : Distance(balls, f[k].node) = f[k].depth
    BY <1>2, <2>1 DEF Exactly
  <2> QED
    BY <1>5, <2>2
<1>9. PICK p : p = PathTo(f, f[i].node)
  OBVIOUS
<1>10. Routed(graph, succ, target, f, i, p)
  <2>1. \A k \in 1 .. Len(f) : Routed(graph, succ, target, f, k, PathTo(f, f[k].node))
    BY <1>1 DEF Answered
  <2> QED
    BY <1>9, <2>1, Zenon
<1>11. /\ Len(p) = d + 1 /\ p[1] = target /\ p[Len(p)] = f[i].node
       /\ \A k \in 1 .. Len(p) - 1 : p[k + 1] \in succ[p[k]]
       /\ d > 0 => p[Len(p) - 1] = f[i].from
  BY <1>5, <1>10 DEF Routed
<1>12. d > 0 /\ d - 1 = f[j].depth /\ Len(p) - 1 = d
  <2>1. PICK e \in Nat : e = f[j].depth
    BY <1>6
  <2>2. d = e + 1 /\ Len(p) = d + 1
    BY <1>7, <1>11, <2>1
  <2> QED
    BY <2>1, <2>2
<1>13. f[i].node # target
  <2>1. Start(target).node = target
    BY DEF Start
  <2>2. f[1].node = target
    BY <1>3, <2>1
  <2> QED
    BY <1>3, <2>2 DEF Distinct
<1>14. PICK via : via = f[i].via
  OBVIOUS
<1>15. /\ via \in DOMAIN KindCode
       /\ \A kinds : via \in kinds => f[i].node \in Starts(graph, f[j].node, kinds)
  BY <1>6, <1>7, <1>14, DependentsLead
<1>16. PICK x : x = Shown(f, f[i])
  OBVIOUS
<1>17. /\ x.node = f[i].node /\ x.depth = d /\ x.kind = ImpactKind(f[i]) /\ x.path = p
  BY <1>5, <1>9, <1>16 DEF Shown
<1>18. x.path[Len(x.path) - 1] = f[j].node
  BY <1>7, <1>11, <1>12, <1>17
<1>19. /\ x.node # target /\ x.depth = Distance(balls, x.node)
       /\ Len(x.path) = x.depth + 1 /\ x.path[1] = target /\ Last(x.path) = x.node
  BY <1>8, <1>11, <1>13, <1>17 DEF Last
<1>20. \A k \in 1 .. x.depth : x.path[k + 1] \in succ[x.path[k]]
  BY <1>11, <1>12, <1>17
<1>21. x.kind = IF via \notin Hard THEN "possible" ELSE IF d = 1 THEN "direct" ELSE "transitive"
  BY <1>5, <1>14, <1>17 DEF ImpactKind, Hard
<1>22. CASE via \notin Hard
  <2>1. x.kind = "possible"
    BY <1>21, <1>22
  <2>2. x.node \in Starts(graph, f[j].node, DOMAIN KindCode \ Hard)
    BY <1>15, <1>17, <1>22
  <2>3. Distance(balls, f[j].node) = x.depth - 1
    BY <1>8, <1>12, <1>17
  <2>4. \E n \in Nodes(graph) : /\ Distance(balls, n) = x.depth - 1
                                /\ x.node \in Starts(graph, n, DOMAIN KindCode \ Hard)
    BY <1>6, <2>2, <2>3
  <2>5. Justified(x, target, balls, succ)
    BY <1>19, <1>20, <2>1, <2>4 DEF Justified
  <2> QED
    BY <1>1, <1>2, <1>16, <2>5
<1>23. CASE via \in Hard /\ d = 1
  <2>1. x.kind = "direct"
    BY <1>21, <1>23
  <2>2. x.node \in Starts(graph, x.path[Len(x.path) - 1], Hard)
    BY <1>15, <1>17, <1>18, <1>23
  <2>3. x.depth = 1 /\ \E m \in Starts(graph, x.path[Len(x.path) - 1], Hard) : m = x.node
    BY <1>17, <1>23, <2>2
  <2>4. Justified(x, target, balls, succ)
    BY <1>19, <1>20, <2>1, <2>3 DEF Justified
  <2> QED
    BY <1>1, <1>2, <1>16, <2>4
<1>24. CASE via \in Hard /\ d # 1
  <2>1. x.kind = "transitive"
    BY <1>21, <1>24
  <2>2. x.node \in Starts(graph, x.path[Len(x.path) - 1], Hard)
    BY <1>15, <1>17, <1>18, <1>24
  <2>3. x.depth > 1
    BY <1>12, <1>17, <1>24
  <2>4. x.depth > 1 /\ \E m \in Starts(graph, x.path[Len(x.path) - 1], Hard) : m = x.node
    BY <2>2, <2>3
  <2>5. Justified(x, target, balls, succ)
    BY <1>19, <1>20, <2>1, <2>4 DEF Justified
  <2> QED
    BY <1>1, <1>2, <1>16, <2>5
<1> QED
  BY <1>22, <1>23, <1>24

\* The places of one kind.
Sharing(n, kind, k) == {i \in 1 .. n : kind[i] = k}

LEMMA PartsAddUp ==
    ASSUME NEW n \in Nat, NEW kind, \A i \in 1 .. n : kind[i] \in {"direct", "transitive", "possible"}
    PROVE  Cardinality(Sharing(n, kind, "direct")) + Cardinality(Sharing(n, kind, "transitive"))
             + Cardinality(Sharing(n, kind, "possible")) = n
<1> DEFINE A == Sharing(n, kind, "direct")
           B == Sharing(n, kind, "transitive")
           C == Sharing(n, kind, "possible")
<1>1. IsFiniteSet(1 .. n) /\ Cardinality(1 .. n) = n
  <2>1. IsFiniteSet(1 .. n) /\ Cardinality(1 .. n) = IF 1 > n THEN 0 ELSE n - 1 + 1
    BY FS_Interval
  <2> QED
    BY <2>1
<1>2. /\ A \cap B = {} /\ (A \cup B) \cap C = {} /\ (A \cup B) \cup C = 1 .. n
      /\ A \subseteq 1 .. n /\ B \subseteq 1 .. n /\ C \subseteq 1 .. n
  BY DEF Sharing
<1> HIDE DEF A, B, C
<1>3. IsFiniteSet(A) /\ IsFiniteSet(B) /\ IsFiniteSet(C)
  BY <1>1, <1>2, FS_Subset
<1>4. Cardinality(A) \in Nat /\ Cardinality(B) \in Nat /\ Cardinality(C) \in Nat
  BY <1>3, FS_CardinalityType
<1>5. Cardinality({}) = 0
  BY FS_EmptySet
<1>6. IsFiniteSet(A \cup B) /\ Cardinality(A \cup B) = Cardinality(A) + Cardinality(B)
  <2>1. /\ IsFiniteSet(A \cup B)
        /\ Cardinality(A \cup B) = Cardinality(A) + Cardinality(B) - Cardinality(A \cap B)
    BY <1>3, FS_Union
  <2>2. Cardinality(A \cap B) = 0
    BY <1>2, <1>5
  <2> QED
    BY <1>4, <2>1, <2>2
<1>7. Cardinality((A \cup B) \cup C) = Cardinality(A \cup B) + Cardinality(C)
  <2>1. Cardinality((A \cup B) \cup C)
          = Cardinality(A \cup B) + Cardinality(C) - Cardinality((A \cup B) \cap C)
    BY <1>3, <1>6, FS_Union
  <2>2. Cardinality((A \cup B) \cap C) = 0
    BY <1>2, <1>5
  <2> QED
    BY <1>4, <1>6, <2>1, <2>2
<1>8. Cardinality(A) + Cardinality(B) + Cardinality(C) = n
  BY <1>1, <1>2, <1>6, <1>7
<1> QED
  BY <1>8 DEF A, B, C

\* What is said of a change of target.
Reaches(r, D, balls, succ) ==
    /\ {x.node : x \in r.impacted} \cup {r.target} = Ball({r.target}, D, succ)
    /\ \A x \in r.impacted : Justified(x, r.target, balls, succ)
    /\ r.direct + r.transitive + r.possible = Cardinality(r.impacted)

\* A report of all that was found but the start.
ReportsAll(f, rest, r) ==
    /\ \A x \in r.impacted : \E i \in DOMAIN rest : x = Shown(f, rest[i])
    /\ \A i \in DOMAIN rest : Shown(f, rest[i]) \in r.impacted
    /\ \A k \in {"direct", "transitive", "possible"} :
         r[k] = Cardinality({i \in DOMAIN rest : ImpactKind(rest[i]) = k})

LEMMA ReportReaches ==
    ASSUME IsGraph(graph), NEW target \in Nodes(graph), NEW D \in Nat,
           NEW on, on = [n \in Nodes(graph) |-> Dependents(graph, n)],
           NEW f, Answered(on, target, D, AnyStarts(graph), f),
           NEW rest, rest = Tail(f), NEW r, r.target = target, ReportsAll(f, rest, r)
    PROVE  Reaches(r, D, Balls({target}, AnyStarts(graph)), AnyStarts(graph))
<1>1. PICK succ : succ = AnyStarts(graph)
  OBVIOUS
<1>2. PICK balls : balls = Balls({target}, succ)
  OBVIOUS
<1>3. /\ f \in Seq(Marks(graph)) /\ Distinct(f) /\ 1 \in 1 .. Len(f) /\ f[1] = Start(target)
  BY DEF Answered, Surveyed
<1>4. PICK n \in Nat : n = Len(f) - 1
  BY <1>3
<1>5. DOMAIN rest = 1 .. n /\ \A i \in 1 .. n : rest[i] = f[i + 1]
  <2>1. f # <<>> /\ Len(f) - 1 = n
    BY <1>3, <1>4
  <2>2. PICK M : M = Marks(graph)
    OBVIOUS
  <2>3. rest \in Seq(M) /\ Len(rest) = Len(f) - 1 /\ \A i \in 1 .. Len(rest) : rest[i] = f[i + 1]
    BY <1>3, <2>1, <2>2, HeadTailProperties
  <2> QED
    BY <1>4, <2>3, LenProperties
<1>6. \A i \in 1 .. n : i + 1 \in 1 .. Len(f) /\ i + 1 # 1
  BY <1>4
<1>7. \A j \in 1 .. Len(f) : j # 1 => \E i \in 1 .. n : j = i + 1
  <2> TAKE j \in 1 .. Len(f)
  <2> SUFFICES ASSUME j # 1
               PROVE  \E i \in 1 .. n : j = i + 1
    OBVIOUS
  <2>1. j - 1 \in 1 .. n /\ j = (j - 1) + 1
    BY <1>4
  <2> QED
    BY <2>1
<1> DEFINE at == [i \in 1 .. n |-> Shown(f, f[i + 1])]
<1>8. /\ \A x \in r.impacted : \E i \in 1 .. n : x = at[i]
      /\ \A i \in 1 .. n : at[i] \in r.impacted
  <2>1. \A i \in 1 .. n : at[i] = Shown(f, rest[i])
    BY <1>5
  <2> HIDE DEF at
  <2> QED
    <3>1. /\ \A x \in r.impacted : \E i \in 1 .. n : x = Shown(f, rest[i])
          /\ \A i \in 1 .. n : Shown(f, rest[i]) \in r.impacted
      BY <1>5 DEF ReportsAll
    <3>2. \A i \in 1 .. n : at[i] \in r.impacted
      BY <2>1, <3>1
    <3>3. ASSUME NEW x \in r.impacted
          PROVE  \E i \in 1 .. n : x = at[i]
      <4>1. PICK i \in 1 .. n : x = Shown(f, rest[i])
        BY <3>1
      <4> QED
        BY <2>1, <4>1
    <3> QED
      BY <3>2, <3>3
<1>9. \A i \in 1 .. n : at[i] = Shown(f, f[i + 1]) /\ at[i].node = f[i + 1].node
  BY DEF Shown
<1>a. at = [i \in 1 .. n |-> at[i]]
  OBVIOUS
<1> HIDE DEF at
<1>10. ASSUME NEW x \in r.impacted
       PROVE  Justified(x, target, balls, succ)
  <2>1. PICK i \in 1 .. n : x = at[i]
    BY <1>8
  <2>2. PICK j \in 1 .. Len(f) : j = i + 1 /\ j # 1
    BY <1>6
  <2>3. Justified(Shown(f, f[j]), target, balls, succ)
    BY <1>1, <1>2, <2>2, ShownIsJustified
  <2> QED
    BY <1>9, <2>1, <2>2, <2>3
<1>11. {x.node : x \in r.impacted} \cup {target} = Ball({target}, D, succ)
  <2>1. /\ \A j \in 1 .. Len(f) : f[j].node \in Ball({target}, D, succ)
        /\ \A m \in Ball({target}, D, succ) : \E j \in 1 .. Len(f) : f[j].node = m
    BY <1>1 DEF Answered, Exactly
  <2>2. f[1].node = target
    <3>1. Start(target).node = target
      BY DEF Start
    <3> QED
      BY <1>3, <3>1
  <2>3. target \in Ball({target}, D, succ)
    BY <1>3, <2>1, <2>2
  <2>4. \A x \in r.impacted : \E i \in 1 .. n : x.node = f[i + 1].node
    BY <1>8, <1>9
  <2>5. \A i \in 1 .. n : \E x \in r.impacted : x.node = f[i + 1].node
    BY <1>8, <1>9
  <2>6. ASSUME NEW x \in r.impacted
        PROVE  x.node \in Ball({target}, D, succ)
    BY <1>6, <2>1, <2>4
  <2>7. ASSUME NEW m \in Ball({target}, D, succ), m # target
        PROVE  \E x \in r.impacted : x.node = m
    <3>1. PICK j \in 1 .. Len(f) : f[j].node = m
      BY <2>1
    <3>2. j # 1
      BY <2>2, <2>7, <3>1
    <3>3. PICK i \in 1 .. n : j = i + 1
      BY <1>7, <3>2
    <3> QED
      BY <2>5, <3>1, <3>3
  <2> QED
    BY <2>3, <2>6, <2>7
<1>12. IsFiniteSet(1 .. n) /\ Cardinality(1 .. n) = n
  <2>1. IsFiniteSet(1 .. n) /\ Cardinality(1 .. n) = IF 1 > n THEN 0 ELSE n - 1 + 1
    BY FS_Interval
  <2> QED
    BY <2>1
<1>13. Cardinality(r.impacted) = n
  <2>2. at \in Surjection(1 .. n, r.impacted)
    BY <1>8, <1>a DEF Surjection
  <2>3. ASSUME NEW i \in 1 .. n, NEW j \in 1 .. n, at[i] = at[j]
        PROVE  i = j
    <3>1. f[i + 1].node = f[j + 1].node
      BY <1>9, <2>3
    <3>2. i + 1 \in 1 .. Len(f) /\ j + 1 \in 1 .. Len(f)
      BY <1>6
    <3>3. i + 1 = j + 1
      BY <1>3, <3>1, <3>2 DEF Distinct
    <3> QED
      BY <3>3
  <2>4. at \in Injection(1 .. n, r.impacted)
    BY <2>2, <2>3 DEF Injection, IsInjective, Surjection
  <2> QED
    BY <1>12, <2>2, <2>4, FS_Surjection
<1>14. r.direct + r.transitive + r.possible = n
  <2> DEFINE kind == [i \in 1 .. n |-> ImpactKind(rest[i])]
  <2>1. \A i \in 1 .. n : kind[i] = ImpactKind(rest[i])
    OBVIOUS
  <2>2. \A i \in 1 .. n : kind[i] \in {"direct", "transitive", "possible"}
    BY <2>1 DEF ImpactKind
  <2> HIDE DEF kind
  <2>3. Cardinality(Sharing(n, kind, "direct")) + Cardinality(Sharing(n, kind, "transitive"))
          + Cardinality(Sharing(n, kind, "possible")) = n
    BY <2>2, PartsAddUp
  <2>4. ASSUME NEW k \in {"direct", "transitive", "possible"}
        PROVE  r[k] = Cardinality(Sharing(n, kind, k))
    <3>1. {i \in DOMAIN rest : ImpactKind(rest[i]) = k} = Sharing(n, kind, k)
      BY <1>5, <2>1 DEF Sharing
    <3>2. r[k] = Cardinality({i \in DOMAIN rest : ImpactKind(rest[i]) = k})
      BY <2>4 DEF ReportsAll
    <3> QED
      BY <3>1, <3>2
  <2>5. /\ r["direct"] = r.direct /\ r["transitive"] = r.transitive
        /\ r["possible"] = r.possible
    OBVIOUS
  <2>6. /\ r.direct = Cardinality(Sharing(n, kind, "direct"))
        /\ r.transitive = Cardinality(Sharing(n, kind, "transitive"))
        /\ r.possible = Cardinality(Sharing(n, kind, "possible"))
    BY <2>4, <2>5
  <2> QED
    BY <2>3, <2>6
<1>15. Reaches(r, D, balls, succ)
  BY <1>10, <1>11, <1>13, <1>14 DEF Reaches
<1> QED
  BY <1>1, <1>2, <1>15

\* The answer as the search makes it.
WholeImpact(n, found, rest) ==
    [target |-> n,
     impacted |-> {[node |-> rest[i].node, depth |-> rest[i].depth,
                    kind |-> ImpactKind(rest[i]),
                    path |-> PathTo(found, rest[i].node)] : i \in DOMAIN rest},
     direct |-> Cardinality({i \in DOMAIN rest : ImpactKind(rest[i]) = "direct"}),
     transitive |-> Cardinality({i \in DOMAIN rest : ImpactKind(rest[i]) = "transitive"}),
     possible |-> Cardinality({i \in DOMAIN rest : ImpactKind(rest[i]) = "possible"}),
     files |-> {Node(graph, found[i].node).file : i \in DOMAIN found},
     tests |-> {Node(graph, rest[i].node).file :
                  i \in {i \in DOMAIN rest : IsTest(graph, rest[i].node)}}
                 \cup {m.test.file : m \in {m \in Mappings(graph) :
                          \/ m.source = Node(graph, n).file
                          \/ m.symbol = QualifiedName(graph, n)}}]

LEMMA WholeImpactReports ==
    ASSUME NEW n, NEW found, NEW rest
    PROVE  WholeImpact(n, found, rest).target = n /\ ReportsAll(found, rest, WholeImpact(n, found, rest))
<1> DEFINE impacted == {Shown(found, rest[i]) : i \in DOMAIN rest}
           Of(k) == Cardinality({i \in DOMAIN rest : ImpactKind(rest[i]) = k})
<1>1. PICK r : r = WholeImpact(n, found, rest)
  OBVIOUS
<1>2. PICK files, tests :
        r = [target |-> n, impacted |-> impacted, direct |-> Of("direct"),
             transitive |-> Of("transitive"), possible |-> Of("possible"),
             files |-> files, tests |-> tests]
  BY <1>1, Zenon DEF WholeImpact, Shown
<1> HIDE DEF Of, impacted
<1>3. /\ r.target = n /\ r.impacted = impacted
      /\ r["direct"] = Of("direct") /\ r["transitive"] = Of("transitive")
      /\ r["possible"] = Of("possible")
  BY <1>2
<1>4. \A k \in {"direct", "transitive", "possible"} : r[k] = Of(k)
  BY <1>3
<1>5. ReportsAll(found, rest, r)
  BY <1>3, <1>4 DEF ReportsAll, impacted, Of
<1> QED
  BY <1>1, <1>3, <1>5

LEMMA ImpactIsRight ==
    ASSUME IsGraph(graph), ImpactGiven(graph, answer.args, answer.result)
    PROVE  ImpactIsReach
<1> SUFFICES ASSUME answer.result # None
             PROVE  ImpactIsReach
  BY DEF ImpactIsReach
<1>1. PICK term \in Terms, D \in Depths, stop \in Stops :
        /\ answer.args = [depth |-> D, stop |-> stop]
        /\ answer.result = Impact(graph, term, D, stop)
  BY DEF ImpactGiven
<1>2. D \in Nat
  BY LimitsAssumption
<1>3. Find(graph, term) # <<>>
  BY <1>1 DEF Impact
<1>4. PICK target : target = Head(Find(graph, term))
  OBVIOUS
<1>5. target \in Nodes(graph)
  BY <1>3, <1>4, FindFindsNodes
<1>6. PICK on : on = [n \in Nodes(graph) |-> Dependents(graph, n)]
  OBVIOUS
<1>7. PICK f : f = Search(graph, <<Start(target)>>, D, on)
  OBVIOUS
<1>8. Answered(on, target, D, AnyStarts(graph), f)
  <2>1. /\ LeadsAlong(graph, on, AnyStarts(graph))
        /\ Mapping(AnyStarts(graph), Nodes(graph), SUBSET Nodes(graph))
    BY <1>6, DependentsLead
  <2> QED
    BY <1>2, <1>5, <1>7, <2>1, SearchAnswers
<1>9. PICK rest : rest = Tail(f)
  OBVIOUS
<1>10. PICK r : r = answer.result
  OBVIOUS
<1>11. r.target = target /\ ReportsAll(f, rest, r)
  <2>1. r = IF stop <= Len(f) THEN None ELSE WholeImpact(target, f, rest)
    <3> DEFINE n == Head(Find(graph, term))
               found == Search(graph, <<Start(n)>>, D, [m \in Nodes(graph) |-> Dependents(graph, m)])
    <3>1. r = IF stop <= Len(found) THEN None ELSE WholeImpact(n, found, Tail(found))
      BY <1>1, <1>3, <1>10, Zenon DEF Impact, WholeImpact
    <3>2. n = target /\ found = f
      BY <1>4, <1>6, <1>7
    <3> HIDE DEF n, found
    <3> QED
      BY <1>9, <3>1, <3>2
  <2>2. r = WholeImpact(target, f, rest)
    BY <1>10, <2>1
  <2> QED
    BY <2>2, WholeImpactReports
<1>12. Reaches(r, D, Balls({target}, AnyStarts(graph)), AnyStarts(graph))
  BY <1>2, <1>5, <1>6, <1>8, <1>9, <1>11, ReportReaches
<1>13. PICK a : a = answer.args
  OBVIOUS
<1>14. a.depth = D
  BY <1>1, <1>13
<1>15. Reaches(r, a.depth, Balls({r.target}, AnyStarts(graph)), AnyStarts(graph))
  BY <1>11, <1>12, <1>14
<1> QED
  BY <1>10, <1>13, <1>15, Zenon DEF ImpactIsReach, Reaches, Justified, Hard, AnyStarts

LEMMA DerivedIsExact == AnswerIsDerived => QueriesAreExact
<1> SUFFICES ASSUME AnswerIsDerived
             PROVE  QueriesAreExact
  OBVIOUS
<1>1. ASSUME graph \in Asked
      PROVE  IsGraph(graph)
  BY <1>1, QuestionsAssumption
<1>2. PathIsShortest
  <2>1. CASE Is("path")
    <3>1. IsGraph(graph) /\ PathGiven(graph, answer.args, answer.result)
      BY <1>1, <2>1 DEF AnswerIsDerived
    <3> QED
      BY <3>1, PathIsRight
  <2>2. CASE ~ Is("path")
    BY <2>2 DEF PathIsShortest
  <2> QED
    BY <2>1, <2>2
<1>3. ImpactIsReach
  <2>1. CASE Is("impact")
    <3>1. IsGraph(graph) /\ ImpactGiven(graph, answer.args, answer.result)
      BY <1>1, <2>1 DEF AnswerIsDerived
    <3> QED
      BY <3>1, ImpactIsRight
  <2>2. CASE ~ Is("impact")
    BY <2>2 DEF ImpactIsReach
  <2> QED
    BY <2>1, <2>2
<1>4. HopsAreExact
  <2>1. CASE Is("neighbourhood")
    <3>1. IsGraph(graph) /\ NeighbourhoodGiven(graph, answer.args, answer.result)
      BY <1>1, <2>1 DEF AnswerIsDerived
    <3> QED
      BY <3>1, HopsAreRight
  <2>2. CASE ~ Is("neighbourhood")
    BY <2>2 DEF HopsAreExact
  <2> QED
    BY <2>1, <2>2
<1> QED
  BY <1>2, <1>3, <1>4 DEF QueriesAreExact

\* Whatever graph is asked about and whatever the limits: a path that is
\* found is one of the shortest, and none is missed but for the depth, the
\* visits or a cancellation; the impact of a change is everything that
\* depends on it up to the depth, each node at its least distance and with
\* a kind and a path that edges justify; the callers, callees and imports
\* within the depth are all listed, or as many as asked for, by name.
THEOREM QueriesStayExact == Spec => []QueriesAreExact
<1>1. Init => AnswerIsDerived
  BY InitIsDerived
<1>2. AnswerIsDerived /\ [Next]_<<vars, answer>> => AnswerIsDerived'
  BY NextKeepsTheAnswerDerived
<1>3. AnswerIsDerived => QueriesAreExact
  BY DerivedIsExact
<1> QED
  BY <1>1, <1>2, <1>3, PTL DEF Spec

-----------------------------------------------------------------------------
(* Flows.                                                                  *)

\* Sequences end to end.
Apart(n, seqs) ==
    \A k, l \in 1 .. n : \A i \in 1 .. Len(seqs[k]), j \in 1 .. Len(seqs[l]) :
        seqs[k][i] = seqs[l][j] => k = l /\ i = j
Joins(A, n, seqs, r) ==
    /\ r \in Seq(A)
    /\ \A x : Holds(r, x) <=> \E k \in 1 .. n : Holds(seqs[k], x)
    /\ Apart(n, seqs) => Injective(r)

LEMMA OneMoreJoins ==
    ASSUME NEW A, NEW seqs, NEW m \in Nat, NEW r, Joins(A, m, seqs, r), seqs[m + 1] \in Seq(A)
    PROVE  Joins(A, m + 1, seqs, r \o seqs[m + 1])
<1>1. PICK s : s = seqs[m + 1]
  OBVIOUS
<1>2. PICK t : t = r \o s
  OBVIOUS
<1>3. r \in Seq(A) /\ s \in Seq(A)
  BY <1>1 DEF Joins
<1>4. t \in Seq(A) /\ Joined(r, s, t)
  BY <1>2, <1>3, Appended
<1>5. \A x : Holds(t, x) <=> Holds(r, x) \/ Holds(s, x)
  BY <1>4, JoinedHolds
<1>6. m + 1 \in 1 .. m + 1 /\ \A k \in 1 .. m : k \in 1 .. m + 1 /\ k # m + 1
  OBVIOUS
<1>7. \A k \in 1 .. m + 1 : k \in 1 .. m \/ k = m + 1
  OBVIOUS
<1>8. ASSUME NEW x
      PROVE  Holds(t, x) <=> \E k \in 1 .. m + 1 : Holds(seqs[k], x)
  <2>1. Holds(r, x) <=> \E k \in 1 .. m : Holds(seqs[k], x)
    BY DEF Joins
  <2> QED
    BY <1>1, <1>5, <1>6, <1>7, <2>1
<1>9. ASSUME Apart(m + 1, seqs)
      PROVE  Injective(t)
  <2>1. Apart(m, seqs)
    BY <1>6, <1>9 DEF Apart
  <2>2. Injective(r)
    BY <2>1 DEF Joins
  <2>3. Injective(s)
    BY <1>1, <1>6, <1>9 DEF Apart, Injective
  <2>4. ASSUME NEW x, Holds(r, x), Holds(s, x)
        PROVE  FALSE
    <3>1. PICK k \in 1 .. m : Holds(seqs[k], x)
      BY <2>4 DEF Joins
    <3>2. PICK i \in 1 .. Len(seqs[k]) : seqs[k][i] = x
      BY <3>1 DEF Holds
    <3>3. PICK j \in 1 .. Len(seqs[m + 1]) : seqs[m + 1][j] = x
      BY <1>1, <2>4 DEF Holds
    <3>4. k = m + 1
      BY <1>6, <1>9, <3>2, <3>3 DEF Apart
    <3> QED
      BY <1>6, <3>4
  <2> QED
    BY <1>4, <2>2, <2>3, <2>4, JoinedHolds
<1> QED
  BY <1>1, <1>2, <1>4, <1>8, <1>9 DEF Joins

LEMMA FlattenJoins ==
    ASSUME NEW A, NEW n \in Nat, NEW seqs \in [1 .. n -> Seq(A)]
    PROVE  Joins(A, n, seqs, FlattenSeq(seqs))
<1> DEFINE Stepped(g) == g = [i \in 1 .. n |-> IF i = 1 THEN seqs[i] ELSE g[i - 1] \o seqs[i]]
           flat == CHOOSE g : Stepped(g)
<1>1. Len(seqs) = n
  BY PlacesMakeASequence
<1>2. CASE n = 0
  <2>1. FlattenSeq(seqs) = seqs /\ Len(seqs) = 0
    BY <1>1, <1>2 DEF FlattenSeq
  <2>2. seqs = <<>>
    BY <1>2, <2>1, PlacesMakeASequence, EmptySeq
  <2>3. seqs \in Seq(A)
    BY <2>2
  <2>4. 1 .. n = {} /\ 1 .. Len(seqs) = {}
    BY <1>2, <2>1
  <2> QED
    BY <2>1, <2>3, <2>4 DEF Joins, Holds, Injective
<1>3. CASE n # 0
  <2>1. FlattenSeq(seqs) = flat[n]
    BY <1>1, <1>3 DEF FlattenSeq
  <2>2. n - 1 \in Nat
    BY <1>3
  <2>3. Stepped(flat)
    <3> DEFINE step == [p \in (1 .. n - 1) \X Seq(A) |-> p[2] \o seqs[p[1] + 1]]
    <3>1. step \in [(1 .. n - 1) \X Seq(A) -> Seq(A)]
      <4> SUFFICES ASSUME NEW k \in 1 .. n - 1, NEW r \in Seq(A)
                   PROVE  r \o seqs[k + 1] \in Seq(A)
        OBVIOUS
      <4>1. k + 1 \in 1 .. n
        BY <2>2
      <4>2. seqs[k + 1] \in Seq(A)
        BY <4>1
      <4> QED
        BY <4>2
    <3>2. \A k \in 1 .. n - 1 : \A r \in Seq(A) : step[<<k, r>>] = r \o seqs[k + 1]
      OBVIOUS
    <3>3. seqs[1] \in Seq(A)
      BY <1>3
    <3> HIDE DEF step
    <3>a. PICK f : Recurring(f, Seq(A), seqs[1], n - 1, step)
      BY <2>2, <3>1, <3>3, StepwiseExists DEF Mapping
    <3>4. /\ f \in [0 .. n - 1 -> Seq(A)] /\ f[0] = seqs[1]
          /\ \A k \in 1 .. n - 1 : f[k] = step[<<k, f[k - 1]>>]
      BY <3>a DEF Recurring
    <3> DEFINE g == [i \in 1 .. n |-> f[i - 1]]
    <3>5. \A i \in 1 .. n : g[i] = f[i - 1]
      OBVIOUS
    <3>6. ASSUME NEW i \in 1 .. n
          PROVE  g[i] = IF i = 1 THEN seqs[i] ELSE g[i - 1] \o seqs[i]
      <4>1. CASE i = 1
        BY <3>4, <4>1
      <4>2. CASE i # 1
        <5>1. i - 1 \in 1 .. n - 1 /\ i - 1 \in 1 .. n /\ (i - 1) - 1 \in 0 .. n - 1 /\ (i - 1) + 1 = i
          BY <2>2, <4>2
        <5>2. g[i] = f[i - 1] /\ g[i - 1] = f[(i - 1) - 1]
          BY <5>1
        <5> HIDE DEF g
        <5>3. f[(i - 1) - 1] \in Seq(A)
          BY <3>4, <5>1
        <5>4. f[i - 1] = step[<<i - 1, f[(i - 1) - 1]>>]
          BY <3>4, <5>1
        <5>5. step[<<i - 1, f[(i - 1) - 1]>>] = f[(i - 1) - 1] \o seqs[(i - 1) + 1]
          BY <3>2, <5>1, <5>3
        <5> QED
          BY <4>2, <5>1, <5>2, <5>4, <5>5
      <4> QED
        BY <4>1, <4>2
    <3>7. Stepped(g)
      BY <3>6
    <3> HIDE DEF g, Stepped
    <3> QED
      BY <3>7
  <2> HIDE DEF flat
  <2> DEFINE P == {m \in Nat : m + 1 <= n => Joins(A, m + 1, seqs, flat[m + 1])}
  <2>4. 0 \in P
    <3>1. flat[1] = seqs[1] /\ 1 \in 1 .. n
      BY <1>3, <2>3
    <3>2. seqs[1] \in Seq(A)
      BY <3>1
    <3>3. 1 .. 1 = {1}
      OBVIOUS
    <3>4. Joins(A, 1, seqs, seqs[1])
      BY <3>2, <3>3 DEF Joins, Apart, Injective
    <3> QED
      BY <3>1, <3>4
  <2>5. ASSUME NEW m \in Nat, m \in P
        PROVE  m + 1 \in P
    <3> SUFFICES ASSUME (m + 1) + 1 <= n
                 PROVE  Joins(A, (m + 1) + 1, seqs, flat[(m + 1) + 1])
      OBVIOUS
    <3>1. PICK k \in Nat : k = m + 1
      OBVIOUS
    <3>2. k + 1 \in 1 .. n /\ k <= n /\ k + 1 # 1 /\ (k + 1) - 1 = k
      BY <3>1
    <3>3. flat[k + 1] = flat[k] \o seqs[k + 1] /\ seqs[k + 1] \in Seq(A)
      BY <2>3, <3>2
    <3>4. Joins(A, k, seqs, flat[k])
      BY <2>5, <3>1, <3>2
    <3>5. Joins(A, k + 1, seqs, flat[k] \o seqs[k + 1])
      BY <3>3, <3>4, OneMoreJoins
    <3> QED
      BY <3>1, <3>3, <3>5
  <2> HIDE DEF P, Stepped
  <2>6. n - 1 \in P
    BY <2>2, <2>4, <2>5, NumbersByInduction
  <2>7. (n - 1) + 1 = n
    OBVIOUS
  <2>8. Joins(A, n, seqs, flat[n])
    <3>1. (n - 1) + 1 <= n => Joins(A, (n - 1) + 1, seqs, flat[(n - 1) + 1])
      BY <2>6 DEF P
    <3> QED
      BY <2>7, <3>1
  <2> QED
    BY <2>1, <2>8
<1> QED
  BY <1>2, <1>3

\* The flows of a graph and its functions, as the assumption has them.
Flowing(G, flows) ==
    \A f \in DOMAIN flows :
        /\ f \in Nodes(G)
        /\ Len(flows[f].names) \in Nat /\ DOMAIN flows[f].names = 1 .. Len(flows[f].names)
FlowLinks(flows) == [from : FlowNodes(flows), to : FlowNodes(flows), sure : BOOLEAN]

LEMMA FlowNodesAreFinite ==
    ASSUME NEW G, IsGraph(G), NEW flows, Flowing(G, flows)
    PROVE  /\ IsFiniteSet(FlowNodes(flows))
           /\ \A x \in FlowNodes(flows) : /\ x = <<x[1], x[2]>>
                                          /\ x[1] \in Nodes(G) /\ x[1] \in Nat /\ x[2] \in Nat
           /\ \A f \in DOMAIN flows : /\ Returned(flows, f) \in FlowNodes(flows)
                                      /\ \A name : Local(flows, f, name) \subseteq FlowNodes(flows)
<1> DEFINE N == FlowNodes(flows)
           of == [f \in DOMAIN flows |-> {<<f, i>> : i \in 1 .. Len(flows[f].names) + 1}]
<1>1. IsFiniteSet(DOMAIN flows)
  <2>1. DOMAIN flows \subseteq Nodes(G)
    BY DEF Flowing
  <2> QED
    BY <2>1, NodesAreFinite, FS_Subset
<1>2. N = UNION {of[f] : f \in DOMAIN flows}
  BY DEF FlowNodes
<1>3. ASSUME NEW f \in DOMAIN flows
      PROVE  IsFiniteSet(of[f])
  <2>1. PICK n \in Nat : n = Len(flows[f].names) + 1
    BY DEF Flowing
  <2>2. IsFiniteSet(1 .. n)
    BY FS_Interval
  <2> DEFINE g == [i \in 1 .. n |-> <<f, i>>]
  <2>3. g = [i \in 1 .. n |-> g[i]]
    OBVIOUS
  <2>4. of[f] = {g[i] : i \in 1 .. n}
    BY <2>1
  <2> HIDE DEF g, of
  <2>5. IsFiniteSet({g[i] : i \in 1 .. n})
    BY <2>2, <2>3, FiniteImage
  <2> QED
    BY <2>4, <2>5
<1>4. \A x \in N : \E f \in DOMAIN flows : \E i \in 1 .. Len(flows[f].names) + 1 : x = <<f, i>>
  BY DEF FlowNodes
<1>5. \A f \in DOMAIN flows : \A i \in 1 .. Len(flows[f].names) + 1 : <<f, i>> \in N
  BY DEF FlowNodes
<1>6. of = [f \in DOMAIN flows |-> of[f]]
  OBVIOUS
<1> HIDE DEF N, of
<1>7. IsFiniteSet({of[f] : f \in DOMAIN flows})
  BY <1>1, <1>6, FiniteImage
<1>8. IsFiniteSet(UNION {of[f] : f \in DOMAIN flows})
  <2> DEFINE T == {of[f] : f \in DOMAIN flows}
  <2>1. \A t \in T : IsFiniteSet(t)
    BY <1>3
  <2> HIDE DEF T
  <2>2. IsFiniteSet(UNION T)
    BY <1>7, <2>1, FS_UNION DEF T
  <2> QED
    BY <2>2 DEF T
<1>9. ASSUME NEW x \in N
      PROVE  x = <<x[1], x[2]>> /\ x[1] \in Nodes(G) /\ x[1] \in Nat /\ x[2] \in Nat
  <2>1. PICK f \in DOMAIN flows : \E i \in 1 .. Len(flows[f].names) + 1 : x = <<f, i>>
    BY <1>4
  <2>2. f \in Nodes(G) /\ Len(flows[f].names) \in Nat
    BY DEF Flowing
  <2>3. PICK i \in 1 .. Len(flows[f].names) + 1 : x = <<f, i>>
    BY <2>1
  <2>4. i \in Nat /\ x[1] = f /\ x[2] = i
    BY <2>2, <2>3
  <2>5. f \in Nat
    BY <2>2 DEF IsGraph, Nodes
  <2> QED
    BY <2>2, <2>3, <2>4, <2>5
<1>10. ASSUME NEW f \in DOMAIN flows
       PROVE  Returned(flows, f) \in N /\ \A name : Local(flows, f, name) \subseteq N
  <2>1. PICK n \in Nat : n = Len(flows[f].names) /\ DOMAIN flows[f].names = 1 .. n
    BY DEF Flowing
  <2>2. n + 1 \in 1 .. n + 1 /\ \A i \in 1 .. n : i \in 1 .. n + 1
    OBVIOUS
  <2>3. Returned(flows, f) = <<f, n + 1>>
    BY <2>1 DEF Returned
  <2>4. \A name : \A x \in Local(flows, f, name) : \E i \in 1 .. n : x = <<f, i>>
    BY <2>1 DEF Local
  <2> QED
    BY <1>5, <2>1, <2>2, <2>3, <2>4
<1> QED
  BY <1>2, <1>8, <1>9, <1>10 DEF N

LEMMA FlowEdgesAreTyped ==
    ASSUME NEW G, IsGraph(G), NEW flows, Flowing(G, flows)
    PROVE  FlowEdges(G, flows) \subseteq FlowLinks(flows) /\ IsFiniteSet(FlowEdges(G, flows))
<1> DEFINE N == FlowNodes(flows)
           F == FlowLinks(flows)
<1>1. \A f \in DOMAIN flows : /\ Returned(flows, f) \in N
                              /\ \A name : Local(flows, f, name) \subseteq N
  BY FlowNodesAreFinite
<1>2. \A f, name : Callee(G, flows, f, name) \subseteq DOMAIN flows
  BY DEF Callee
<1>a. \A f \in DOMAIN flows : \A name : \A a \in Local(flows, f, name) : a \in N
  BY <1>1
<1>3. \A S, T : \A sure \in BOOLEAN : S \subseteq N /\ T \subseteq N => AllFlows(S, T, sure) \subseteq F
  BY DEF AllFlows, FlowLinks
<1>4. F = [from : N, to : N, sure : BOOLEAN]
  BY DEF FlowLinks
<1>5. IsFiniteSet(N)
  BY FlowNodesAreFinite
<1>b. TRUE \in BOOLEAN /\ FALSE \in BOOLEAN
  OBVIOUS
<1> HIDE DEF N, F
<1>6. ASSUME NEW f \in DOMAIN flows
      PROVE  FlowsWithin(flows, f) \subseteq F
  <2>1. \A p : AllFlows(Local(flows, f, p[1]), Local(flows, f, p[2]), TRUE) \subseteq F
    BY <1>1, <1>3, <1>b
  <2>2. \A r : AllFlows(Local(flows, f, r), {Returned(flows, f)}, TRUE) \subseteq F
    <3>1. {Returned(flows, f)} \subseteq N
      BY <1>1
    <3> QED
      BY <1>1, <1>3, <1>b, <3>1
  <2> QED
    BY <2>1, <2>2 DEF FlowsWithin
<1>7. ASSUME NEW f \in DOMAIN flows
      PROVE  FlowsBetween(G, flows, f) \subseteq F
  <2> DEFINE results(name) == {Returned(flows, g) : g \in Callee(G, flows, f, name)}
             passed(x) == UNION {Passed(flows, g, x) : g \in Callee(G, flows, f, x.call)}
  <2>1. \A name : results(name) \subseteq N
    BY <1>1, <1>2
  <2>2. \A x : passed(x) \subseteq N
    <3>1. \A x : \A g \in DOMAIN flows : Passed(flows, g, x) \subseteq N
      BY <1>1 DEF Passed
    <3> QED
      BY <1>2, <3>1
  <2>3. FlowsBetween(G, flows, f) =
          (UNION {AllFlows(Local(flows, f, x.name), passed(x), FALSE) : x \in flows[f].args})
          \cup (UNION {AllFlows(results(p[1]), Local(flows, f, p[2]), FALSE) : p \in flows[f].assigns})
          \cup UNION {AllFlows(results(r), {Returned(flows, f)}, FALSE) :
                         r \in flows[f].returns \cup flows[f].callReturns}
    BY DEF FlowsBetween
  <2> HIDE DEF results, passed
  <2>4. \A x : AllFlows(Local(flows, f, x.name), passed(x), FALSE) \subseteq F
    BY <1>1, <1>3, <1>b, <2>2
  <2>5. \A p : AllFlows(results(p[1]), Local(flows, f, p[2]), FALSE) \subseteq F
    BY <1>1, <1>3, <1>b, <2>1
  <2>6. \A r : AllFlows(results(r), {Returned(flows, f)}, FALSE) \subseteq F
    <3>1. {Returned(flows, f)} \subseteq N
      BY <1>1
    <3> QED
      BY <1>3, <1>b, <2>1, <3>1
  <2> QED
    BY <2>3, <2>4, <2>5, <2>6
<1>8. FlowEdges(G, flows) \subseteq F
  BY <1>6, <1>7 DEF FlowEdges
<1>9. IsFiniteSet(F)
  <2> DEFINE T == (N \X N) \X BOOLEAN
             g == [t \in T |-> [from |-> t[1][1], to |-> t[1][2], sure |-> t[2]]]
  <2>1. IsFiniteSet(T)
    <3>1. IsFiniteSet(N \X N)
      BY <1>5, FS_Product
    <3>2. IsFiniteSet({TRUE}) /\ IsFiniteSet({FALSE}) /\ BOOLEAN = {TRUE} \cup {FALSE}
      BY FS_Singleton
    <3>3. IsFiniteSet(BOOLEAN)
      BY <3>2, FS_Union
    <3> QED
      BY <3>1, <3>3, FS_Product
  <2>2. g = [t \in T |-> g[t]]
    OBVIOUS
  <2>3. \A e \in F : \E t \in T : e = g[t]
    <3> TAKE e \in F
    <3>1. e.from \in N /\ e.to \in N /\ e.sure \in BOOLEAN
          /\ e = [from |-> e.from, to |-> e.to, sure |-> e.sure]
      BY <1>4
    <3>2. << <<e.from, e.to>>, e.sure >> \in T
      BY <3>1
    <3> QED
      BY <3>1, <3>2
  <2> HIDE DEF g, T
  <2>4. IsFiniteSet({g[t] : t \in T})
    BY <2>1, <2>2, FiniteImage
  <2>5. F \subseteq {g[t] : t \in T}
    BY <2>3
  <2> QED
    BY <2>4, <2>5, FS_Subset
<1> QED
  BY <1>8, <1>9, FS_Subset DEF F

\* Paths: sequences of what a path passes.
Passing(flows) == [at : FlowNodes(flows), sure : BOOLEAN]
Paths(flows) == Seq(Passing(flows))

After(e) == [at |-> e.to, sure |-> e.sure]
Extends(E, path, p) ==
    \E e \in E : /\ e.from = Last(path).at
                 /\ \A i \in 1 .. Len(path) : path[i].at # e.to
                 /\ p = Append(path, After(e))

LEMMA LinksAreParts ==
    ASSUME NEW flows, NEW E, E \subseteq FlowLinks(flows)
    PROVE  /\ \A e \in E : /\ e.from \in FlowNodes(flows) /\ e.to \in FlowNodes(flows)
                           /\ e.sure \in BOOLEAN /\ After(e) \in Passing(flows)
           /\ \A e, f \in E : e.from = f.from /\ e.to = f.to /\ e.sure = f.sure => e = f
           /\ \A e, f \in E : e.from = f.from /\ After(e) = After(f) => e = f
<1>1. \A e \in E : /\ e.from \in FlowNodes(flows) /\ e.to \in FlowNodes(flows) /\ e.sure \in BOOLEAN
                   /\ e = [from |-> e.from, to |-> e.to, sure |-> e.sure]
  BY DEF FlowLinks
<1>2. \A e \in E : After(e) \in Passing(flows)
  BY <1>1 DEF After, Passing
<1>3. \A e, f \in E : e.from = f.from /\ e.to = f.to /\ e.sure = f.sure => e = f
  BY <1>1
<1>4. \A e, f \in E : After(e) = After(f) => e.to = f.to /\ e.sure = f.sure
  BY DEF After
<1> QED
  BY <1>1, <1>2, <1>3, <1>4

LEMMA FlowsAreListed ==
    ASSUME NEW G, IsGraph(G), NEW flows, Flowing(G, flows), NEW S, S \subseteq FlowLinks(flows),
           IsFiniteSet(S), \A e, f \in S : e.from = f.from
    PROVE  Lists(FlowsInOrder(G, S), S)
<1> DEFINE key == [e \in S |-> <<G.ids[e.to[1]], e.to[2], IF e.sure THEN 0 ELSE 1>>]
<1>1. FlowsInOrder(G, S) = ByKeys(key)
  BY DEF FlowsInOrder, InOrder
<1>2. ASSUME NEW e \in S
      PROVE  /\ e.to = <<e.to[1], e.to[2]>> /\ e.to[1] \in Nodes(G) /\ e.to[2] \in Int
             /\ G.ids[e.to[1]] \in Int /\ e.sure \in BOOLEAN
  <2>1. e.to \in FlowNodes(flows) /\ e.sure \in BOOLEAN
    BY LinksAreParts
  <2>2. e.to = <<e.to[1], e.to[2]>> /\ e.to[1] \in Nodes(G) /\ e.to[2] \in Nat
    BY <2>1, FlowNodesAreFinite
  <2>3. G.ids[e.to[1]] \in Nat
    BY <2>2 DEF IsGraph
  <2> QED
    BY <2>1, <2>2, <2>3
<1>3. ASSUME NEW e \in S
      PROVE  key[e] \in [1 .. 3 -> Int]
  <2>1. PICK a \in Int : a = G.ids[e.to[1]]
    BY <1>2
  <2>2. PICK b \in Int : b = e.to[2]
    BY <1>2
  <2>3. PICK c \in Int : c = IF e.sure THEN 0 ELSE 1
    OBVIOUS
  <2>4. key[e] = <<a, b, c>>
    BY <2>1, <2>2, <2>3
  <2> HIDE DEF key
  <2> QED
    BY <2>4
<1>4. ASSUME NEW e \in S, NEW f \in S, key[e] = key[f]
      PROVE  e = f
  <2>1. /\ G.ids[e.to[1]] = G.ids[f.to[1]] /\ e.to[2] = f.to[2]
        /\ (IF e.sure THEN 0 ELSE 1) = IF f.sure THEN 0 ELSE 1
    BY <1>4
  <2>2. e.to[1] = f.to[1]
    BY <1>2, <2>1 DEF IsGraph
  <2>3. e.to = f.to
    BY <1>2, <2>1, <2>2
  <2>4. e.sure = f.sure
    <3>1. e.sure \in BOOLEAN /\ f.sure \in BOOLEAN
      BY <1>2
    <3>2. e.sure <=> f.sure
      BY <2>1
    <3> QED
      BY <3>1, <3>2
  <2> QED
    BY <2>3, <2>4, LinksAreParts
<1>5. DOMAIN key = S /\ 3 \in Nat
  OBVIOUS
<1> HIDE DEF key
<1>6. /\ ByKeys(key) \in Seq(S)
      /\ \A x \in S : \E i \in 1 .. Len(ByKeys(key)) : ByKeys(key)[i] = x
      /\ \A i, j \in 1 .. Len(ByKeys(key)) : ByKeys(key)[i] = ByKeys(key)[j] => i = j
  BY <1>3, <1>4, <1>5, SortedIsASequence
<1> QED
  BY <1>1, <1>6, LenProperties DEF Lists

\* What a sequence of paths holds, told by a predicate: each of them once.
LEMMA ExtensionsAreListed ==
    ASSUME NEW G, IsGraph(G), NEW flows, Flowing(G, flows), NEW E, E \subseteq FlowLinks(flows),
           IsFiniteSet(E), NEW path \in Paths(flows)
    PROVE  /\ Extended(G, E, path) \in Seq(Paths(flows))
           /\ \A p : Holds(Extended(G, E, path), p) <=> Extends(E, path, p)
           /\ Injective(Extended(G, E, path))
<1> DEFINE on == {e \in E : /\ e.from = Last(path).at
                            /\ \A i \in DOMAIN path : path[i].at # e.to}
<1>1. PICK next : next = FlowsInOrder(G, on)
  OBVIOUS
<1>2. PICK r : r = [i \in DOMAIN next |-> Append(path, [at |-> next[i].to, sure |-> next[i].sure])]
  OBVIOUS
<1>3. Extended(G, E, path) = r
  BY <1>1, <1>2 DEF Extended
<1>4. DOMAIN path = 1 .. Len(path)
  BY LenProperties DEF Paths
<1>5. on \subseteq FlowLinks(flows) /\ IsFiniteSet(on) /\ \A e, f \in on : e.from = f.from
  BY FS_Subset
<1>6. /\ \A e \in on : e \in E
      /\ \A e \in E : e \in on <=> /\ e.from = Last(path).at
                                   /\ \A i \in 1 .. Len(path) : path[i].at # e.to
  BY <1>4
<1> HIDE DEF on
<1>7. Lists(next, on)
  BY <1>1, <1>5, FlowsAreListed
<1>8. PICK n \in Nat : n = Len(next)
  BY <1>7, LenProperties DEF Lists
<1>9. /\ DOMAIN next = 1 .. n /\ \A i \in 1 .. n : next[i] \in on
      /\ \A i, j \in 1 .. n : next[i] = next[j] => i = j
      /\ \A x \in on : \E i \in 1 .. n : next[i] = x
  BY <1>7, <1>8, LenProperties DEF Lists
<1>10. \A e \in on : After(e) \in Passing(flows)
  BY <1>6, LinksAreParts
<1>11. ASSUME NEW i \in 1 .. n
       PROVE  r[i] = Append(path, After(next[i])) /\ r[i] \in Paths(flows)
  <2>1. r[i] = Append(path, After(next[i]))
    BY <1>2, <1>9 DEF After
  <2>2. After(next[i]) \in Passing(flows)
    BY <1>9, <1>10
  <2> QED
    BY <2>1, <2>2, AppendProperties DEF Paths
<1>12. r \in [1 .. n -> Paths(flows)]
  <2>1. DOMAIN r = 1 .. n /\ r = [i \in 1 .. n |-> r[i]]
    BY <1>2, <1>9
  <2> QED
    BY <1>11, <2>1
<1>13. r \in Seq(Paths(flows)) /\ Len(r) = n
  BY <1>12, PlacesMakeASequence
<1>14. ASSUME NEW p
       PROVE  Holds(r, p) <=> Extends(E, path, p)
  <2>1. ASSUME Holds(r, p)
        PROVE  Extends(E, path, p)
    <3>1. PICK i \in 1 .. n : r[i] = p
      BY <1>13, <2>1 DEF Holds
    <3>2. next[i] \in on /\ p = Append(path, After(next[i]))
      BY <1>9, <1>11, <3>1
    <3> QED
      BY <1>6, <3>2 DEF Extends
  <2>2. ASSUME Extends(E, path, p)
        PROVE  Holds(r, p)
    <3>1. PICK e \in on : p = Append(path, After(e))
      BY <1>6, <2>2 DEF Extends
    <3>2. PICK i \in 1 .. n : next[i] = e
      BY <1>9
    <3>3. r[i] = p
      BY <1>11, <3>1, <3>2
    <3> QED
      BY <1>13, <3>3 DEF Holds
  <2> QED
    BY <2>1, <2>2
<1>15. ASSUME NEW i \in 1 .. n, NEW j \in 1 .. n, r[i] = r[j]
       PROVE  i = j
  <2>1. next[i] \in on /\ next[j] \in on
    BY <1>9
  <2>2. After(next[i]) \in Passing(flows) /\ After(next[j]) \in Passing(flows)
    BY <1>10, <2>1
  <2>3. Append(path, After(next[i])) = Append(path, After(next[j]))
    BY <1>11, <1>15
  <2>4. After(next[i]) = After(next[j])
    BY <2>2, <2>3, AppendInjective DEF Paths
  <2>5. next[i] = next[j]
    BY <1>5, <1>6, <2>1, <2>4, LinksAreParts
  <2> QED
    BY <1>9, <2>5
<1>16. Injective(r)
  BY <1>13, <1>15 DEF Injective
<1> QED
  BY <1>3, <1>13, <1>14, <1>16

LEMMA LongerPaths ==
    ASSUME NEW G, IsGraph(G), NEW flows, Flowing(G, flows), NEW E, E \subseteq FlowLinks(flows),
           IsFiniteSet(E), NEW sink, NEW paths \in Seq(Paths(flows)), Injective(paths)
    PROVE  /\ Longer(G, E, sink, paths) \in Seq(Paths(flows))
           /\ Injective(Longer(G, E, sink, paths))
           /\ \A p : Holds(Longer(G, E, sink, paths), p)
                       <=> \E q : Holds(paths, q) /\ Last(q).at # sink /\ Extends(E, q, p)
<1>1. PICK n \in Nat : n = Len(paths) /\ DOMAIN paths = 1 .. n
  BY LenProperties
<1>2. PICK parts : parts = [i \in 1 .. n |-> IF Last(paths[i]).at = sink THEN <<>>
                                             ELSE Extended(G, E, paths[i])]
  OBVIOUS
<1>3. \A i \in 1 .. n : paths[i] \in Paths(flows)
  BY <1>1, LenProperties
<1>4. ASSUME NEW i \in 1 .. n
      PROVE  /\ parts[i] \in Seq(Paths(flows)) /\ Injective(parts[i])
             /\ \A p : Holds(parts[i], p) <=> Last(paths[i]).at # sink /\ Extends(E, paths[i], p)
  <2>1. CASE Last(paths[i]).at = sink
    <3>1. parts[i] = <<>>
      BY <1>2, <2>1
    <3>2. 1 .. Len(parts[i]) = {} /\ parts[i] \in Seq(Paths(flows))
      BY <3>1
    <3> QED
      BY <2>1, <3>2 DEF Injective, Holds
  <2>2. CASE Last(paths[i]).at # sink
    <3>1. parts[i] = Extended(G, E, paths[i])
      BY <1>2, <2>2
    <3> QED
      BY <1>3, <2>2, <3>1, ExtensionsAreListed
  <2> QED
    BY <2>1, <2>2
<1>5. parts \in [1 .. n -> Seq(Paths(flows))]
  BY <1>2, <1>4
<1>6. Longer(G, E, sink, paths) = FlattenSeq(parts)
  BY <1>1, <1>2 DEF Longer
<1>7. PICK r : r = FlattenSeq(parts)
  OBVIOUS
<1>8. Joins(Paths(flows), n, parts, r)
  BY <1>5, <1>7, FlattenJoins
<1>9. ASSUME NEW p
      PROVE  Holds(r, p) <=> \E q : Holds(paths, q) /\ Last(q).at # sink /\ Extends(E, q, p)
  <2>1. Holds(r, p) <=> \E k \in 1 .. n : Holds(parts[k], p)
    BY <1>8 DEF Joins
  <2>2. Holds(r, p) <=> \E k \in 1 .. n : Last(paths[k]).at # sink /\ Extends(E, paths[k], p)
    BY <1>4, <2>1
  <2> QED
    BY <1>1, <2>2 DEF Holds
<1>10. ASSUME NEW k \in 1 .. n, NEW l \in 1 .. n, NEW p, Holds(parts[k], p), Holds(parts[l], p)
       PROVE  k = l
  <2>1. Extends(E, paths[k], p) /\ Extends(E, paths[l], p)
    BY <1>4, <1>10
  <2>2. PICK e \in E : p = Append(paths[k], After(e))
    BY <2>1 DEF Extends
  <2>3. PICK f \in E : p = Append(paths[l], After(f))
    BY <2>1 DEF Extends
  <2>4. After(e) \in Passing(flows) /\ After(f) \in Passing(flows)
    BY LinksAreParts
  <2>5. paths[k] \in Seq(Passing(flows)) /\ paths[l] \in Seq(Passing(flows))
    BY <1>3 DEF Paths
  <2>6. paths[k] = paths[l]
    <3>1. PICK x \in Passing(flows) : x = After(e)
      BY <2>4
    <3>2. PICK y \in Passing(flows) : y = After(f)
      BY <2>4
    <3>3. PICK q \in Seq(Passing(flows)) : q = paths[k]
      BY <2>5
    <3>4. PICK s \in Seq(Passing(flows)) : s = paths[l]
      BY <2>5
    <3>5. Append(q, x) = Append(s, y)
      BY <2>2, <2>3, <3>1, <3>2, <3>3, <3>4
    <3>6. q = s
      BY <3>5, AppendInjective
    <3> QED
      BY <3>3, <3>4, <3>6
  <2> QED
    BY <1>1, <2>6 DEF Injective
<1>11. Apart(n, parts)
  <2> SUFFICES ASSUME NEW k \in 1 .. n, NEW l \in 1 .. n,
                      NEW i \in 1 .. Len(parts[k]), NEW j \in 1 .. Len(parts[l]),
                      parts[k][i] = parts[l][j]
               PROVE  k = l /\ i = j
    BY DEF Apart
  <2>1. Holds(parts[k], parts[k][i]) /\ Holds(parts[l], parts[k][i])
    BY DEF Holds
  <2>2. k = l
    BY <1>10, <2>1
  <2>3. i = j
    BY <1>4, <2>2 DEF Injective
  <2> QED
    BY <2>2, <2>3
<1> QED
  BY <1>6, <1>7, <1>8, <1>9, <1>11 DEF Joins

LEMMA ArrivedPaths ==
    ASSUME NEW flows, NEW sink, NEW paths \in Seq(Paths(flows)), Injective(paths)
    PROVE  /\ Arrivals(sink, paths) \in Seq(Paths(flows))
           /\ Injective(Arrivals(sink, paths))
           /\ \A p : Holds(Arrivals(sink, paths), p) <=> Holds(paths, p) /\ Last(p).at = sink
<1>1. PICK n \in Nat : n = Len(paths) /\ DOMAIN paths = 1 .. n
  BY LenProperties
<1>2. PICK parts : parts = [i \in 1 .. n |-> IF Last(paths[i]).at = sink THEN <<paths[i]>> ELSE <<>>]
  OBVIOUS
<1>3. \A i \in 1 .. n : paths[i] \in Paths(flows)
  BY <1>1, LenProperties
<1>4. ASSUME NEW i \in 1 .. n
      PROVE  /\ parts[i] \in Seq(Paths(flows))
             /\ \A j, l \in 1 .. Len(parts[i]) : j = l
             /\ \A p : Holds(parts[i], p) <=> Last(paths[i]).at = sink /\ p = paths[i]
  <2>1. CASE Last(paths[i]).at # sink
    <3>1. parts[i] = <<>>
      BY <1>2, <2>1
    <3>2. 1 .. Len(parts[i]) = {} /\ parts[i] \in Seq(Paths(flows))
      BY <3>1
    <3> QED
      BY <2>1, <3>2 DEF Holds
  <2>2. CASE Last(paths[i]).at = sink
    <3>1. parts[i] = <<paths[i]>>
      BY <1>2, <2>2
    <3>2. parts[i] \in Seq(Paths(flows)) /\ 1 .. Len(parts[i]) = {1} /\ parts[i][1] = paths[i]
      BY <1>3, <3>1
    <3> QED
      BY <2>2, <3>2 DEF Holds
  <2> QED
    BY <2>1, <2>2
<1>5. parts \in [1 .. n -> Seq(Paths(flows))]
  BY <1>2, <1>4
<1>6. Arrivals(sink, paths) = FlattenSeq(parts)
  BY <1>1, <1>2 DEF Arrivals
<1>7. PICK r : r = FlattenSeq(parts)
  OBVIOUS
<1>8. Joins(Paths(flows), n, parts, r)
  BY <1>5, <1>7, FlattenJoins
<1>9. ASSUME NEW p
      PROVE  Holds(r, p) <=> Holds(paths, p) /\ Last(p).at = sink
  <2>1. Holds(r, p) <=> \E k \in 1 .. n : Holds(parts[k], p)
    BY <1>8 DEF Joins
  <2>2. Holds(r, p) <=> \E k \in 1 .. n : Last(paths[k]).at = sink /\ p = paths[k]
    BY <1>4, <2>1
  <2> QED
    BY <1>1, <2>2 DEF Holds
<1>10. Apart(n, parts)
  <2> SUFFICES ASSUME NEW k \in 1 .. n, NEW l \in 1 .. n,
                      NEW i \in 1 .. Len(parts[k]), NEW j \in 1 .. Len(parts[l]),
                      parts[k][i] = parts[l][j]
               PROVE  k = l /\ i = j
    BY DEF Apart
  <2>1. Holds(parts[k], parts[k][i]) /\ Holds(parts[l], parts[k][i])
    BY DEF Holds
  <2>2. paths[k] = paths[l]
    BY <1>4, <2>1
  <2>3. k = l
    BY <1>1, <2>2 DEF Injective
  <2> QED
    BY <1>4, <2>3
<1> QED
  BY <1>6, <1>7, <1>8, <1>9, <1>10 DEF Joins

\* The walks of each length over the edges E from the nodes S.
Begun(s) == <<[at |-> s, sure |-> TRUE]>>
Walks(flows, E, S, D, B) ==
    /\ E \subseteq FlowLinks(flows) /\ S \subseteq FlowNodes(flows) /\ D \in Nat
    /\ \A p : p \in B[0] <=> \E s \in S : p = Begun(s)
    /\ \A k \in 1 .. D : \A p :
          p \in B[k] <=> \E q \in B[k - 1] : \E e \in E : e.from = Last(q).at /\ p = Append(q, After(e))

IsPath(flows, n, q) == q \in Paths(flows) /\ q # <<>> /\ Len(q) = n + 1
Continues(n, q, x, p) ==
    /\ Len(q) = n + 1 /\ Len(p) = n + 2
    /\ \A i \in 1 .. n + 1 : p[i] = q[i]
    /\ p[n + 2] = x /\ Last(p) = x /\ Last(q) = q[n + 1]

LEMMA OneStepMore ==
    ASSUME NEW flows, NEW n \in Nat, NEW q, IsPath(flows, n, q), NEW x \in Passing(flows)
    PROVE  IsPath(flows, n + 1, Append(q, x)) /\ Continues(n, q, x, Append(q, x))
<1>1. q \in Seq(Passing(flows)) /\ Len(q) = n + 1
  BY DEF Paths, IsPath
<1>2. PICK p : p = Append(q, x)
  OBVIOUS
<1>3. /\ p \in Seq(Passing(flows)) /\ p # <<>> /\ Len(p) = Len(q) + 1
      /\ \A i \in 1 .. Len(q) : p[i] = q[i]
      /\ p[Len(q) + 1] = x
  BY <1>1, <1>2, AppendProperties
<1>4. (n + 1) + 1 = n + 2
  OBVIOUS
<1> QED
  BY <1>1, <1>2, <1>3, <1>4 DEF Paths, Last, IsPath, Continues

LEMMA WalksAreTyped ==
    ASSUME NEW flows, NEW E, NEW S, NEW D \in Nat, NEW B, Walks(flows, E, S, D, B), NEW k \in 0 .. D, NEW p \in B[k]
    PROVE  IsPath(flows, k, p) /\ p[1].at \in S
<1> DEFINE Fit(m, w) == IsPath(flows, m, w) /\ w[1].at \in S
           P == {m \in Nat : m <= D => \A w \in B[m] : Fit(m, w)}
<1>1. 0 \in P
  <2> SUFFICES ASSUME NEW w \in B[0]
               PROVE  Fit(0, w)
    OBVIOUS
  <2>1. PICK s \in S : w = Begun(s)
    BY DEF Walks
  <2>2. PICK x : x = [at |-> s, sure |-> TRUE]
    OBVIOUS
  <2>3. x \in Passing(flows) /\ x.at = s
    BY <2>2 DEF Passing, Walks
  <2>4. w = <<x>>
    BY <2>1, <2>2 DEF Begun
  <2>5. w \in Seq(Passing(flows)) /\ Len(w) = 0 + 1 /\ w[1] = x
    BY <2>3, <2>4
  <2>6. w # <<>>
    BY <2>4
  <2> QED
    BY <2>3, <2>5, <2>6 DEF Paths, IsPath
<1>2. ASSUME NEW m \in Nat, m \in P
      PROVE  m + 1 \in P
  <2> SUFFICES ASSUME m + 1 <= D, NEW w \in B[m + 1]
               PROVE  Fit(m + 1, w)
    OBVIOUS
  <2>1. m + 1 \in 1 .. D /\ (m + 1) - 1 = m /\ m <= D /\ 1 \in 1 .. m + 1
    OBVIOUS
  <2>2. PICK q \in B[m] : \E e \in E : e.from = Last(q).at /\ w = Append(q, After(e))
    BY <2>1 DEF Walks
  <2>3. PICK e \in E : w = Append(q, After(e))
    BY <2>2
  <2>4. After(e) \in Passing(flows)
    BY LinksAreParts DEF Walks
  <2>5. Fit(m, q)
    BY <1>2, <2>1
  <2>6. IsPath(flows, m + 1, w) /\ Continues(m, q, After(e), w)
    <3>1. IsPath(flows, m, q)
      BY <2>5
    <3> QED
      BY <2>3, <2>4, <3>1, OneStepMore
  <2>7. w[1] = q[1]
    BY <2>1, <2>6 DEF Continues
  <2> QED
    BY <2>5, <2>6, <2>7
<1> HIDE DEF P, Fit
<1>3. k \in Nat /\ k <= D
  OBVIOUS
<1>4. k \in P
  BY <1>1, <1>2, <1>3, NumbersByInduction
<1>5. Fit(k, p)
  BY <1>3, <1>4 DEF P
<1> QED
  BY <1>5 DEF Fit

\* The paths of one length that have not passed the sink before their end.
Simple(p) == \A i, j \in 1 .. Len(p) : i # j => p[i].at # p[j].at
Underway(B, source, sink, k, p) ==
    /\ p \in B[k] /\ p[1].at = source /\ Simple(p)
    /\ \A i \in 1 .. k : p[i].at # sink
Listing(flows, B, source, sink, k, paths) ==
    /\ paths \in Seq(Paths(flows)) /\ Injective(paths)
    /\ \A p : Holds(paths, p) <=> Underway(B, source, sink, k, p)

LEMMA FirstLayer ==
    ASSUME NEW flows, NEW E, NEW S, NEW D, NEW B, Walks(flows, E, S, D, B),
           NEW source \in S, NEW sink
    PROVE  Listing(flows, B, source, sink, 0, <<Begun(source)>>)
<1>1. PICK b : b = Begun(source)
  OBVIOUS
<1>2. PICK x : x = [at |-> source, sure |-> TRUE]
  OBVIOUS
<1>3. x \in Passing(flows) /\ x.at = source /\ b = <<x>>
  BY <1>1, <1>2 DEF Passing, Begun, Walks
<1>4. b \in Seq(Passing(flows)) /\ Len(b) = 1 /\ b[1] = x
  BY <1>3
<1>5. <<b>> \in Seq(Paths(flows))
  BY <1>4 DEF Paths
<1>6. 1 .. Len(<<b>>) = {1} /\ <<b>>[1] = b
  BY <1>5
<1>7. Injective(<<b>>) /\ \A p : Holds(<<b>>, p) <=> p = b
  BY <1>6 DEF Injective, Holds
<1>8. Underway(B, source, sink, 0, b)
  <2>1. b \in B[0] /\ b[1].at = source
    BY <1>1, <1>3, <1>4 DEF Walks
  <2>2. Simple(b)
    BY <1>4 DEF Simple
  <2> QED
    BY <2>1, <2>2 DEF Underway
<1>9. ASSUME NEW p, Underway(B, source, sink, 0, p)
      PROVE  p = b
  <2>1. PICK s \in S : p = Begun(s)
    BY <1>9 DEF Underway, Walks
  <2>2. p[1].at = s
    BY <2>1 DEF Begun
  <2>3. s = source
    BY <1>9, <2>2 DEF Underway
  <2> QED
    BY <1>1, <2>1, <2>3
<1> QED
  BY <1>1, <1>5, <1>7, <1>8, <1>9 DEF Listing

LEMMA NextLayer ==
    ASSUME NEW G, IsGraph(G), NEW flows, Flowing(G, flows), NEW E, IsFiniteSet(E), NEW S,
           NEW D \in Nat, NEW B, Walks(flows, E, S, D, B), NEW source \in S, NEW sink,
           NEW k \in Nat, k + 1 <= D, NEW paths, Listing(flows, B, source, sink, k, paths)
    PROVE  Listing(flows, B, source, sink, k + 1, Longer(G, E, sink, paths))
<1>1. PICK r : r = Longer(G, E, sink, paths)
  OBVIOUS
<1>2. k \in 0 .. D /\ k + 1 \in 1 .. D /\ (k + 1) - 1 = k /\ k + 1 \in 0 .. D
  OBVIOUS
<1>3. paths \in Seq(Paths(flows)) /\ Injective(paths)
      /\ \A p : Holds(paths, p) <=> Underway(B, source, sink, k, p)
  BY DEF Listing
<1>4. \A q \in B[k] : IsPath(flows, k, q)
  BY <1>2, WalksAreTyped
<1>w. \A p : p \in B[k + 1] <=> \E q \in B[k] : \E e \in E : e.from = Last(q).at /\ p = Append(q, After(e))
  <2>1. PICK m : m = k + 1
    OBVIOUS
  <2>2. m \in 1 .. D /\ m - 1 = k
    BY <1>2, <2>1
  <2>3. \A p : p \in B[m] <=> \E q \in B[m - 1] : \E e \in E : e.from = Last(q).at /\ p = Append(q, After(e))
    BY <2>2, Zenon DEF Walks
  <2> QED
    BY <2>1, <2>2, <2>3
<1>6. /\ r \in Seq(Paths(flows)) /\ Injective(r)
      /\ \A p : Holds(r, p) <=> \E q : Holds(paths, q) /\ Last(q).at # sink /\ Extends(E, q, p)
  BY <1>1, <1>3, LongerPaths DEF Walks
<1>7. ASSUME NEW q \in B[k], NEW e \in E, NEW p, p = Append(q, After(e))
      PROVE  /\ Len(q) = k + 1 /\ Len(p) = k + 2 /\ \A i \in 1 .. k + 1 : p[i] = q[i]
             /\ p[k + 2].at = e.to /\ Last(q) = q[k + 1]
  <2>1. After(e) \in Passing(flows) /\ After(e).at = e.to
    BY LinksAreParts DEF After, Walks
  <2>2. IsPath(flows, k, q)
    BY <1>4
  <2>3. Continues(k, q, After(e), p)
    BY <1>7, <2>1, <2>2, OneStepMore
  <2> QED
    BY <2>1, <2>3 DEF Continues
<1>8. 1 \in 1 .. k + 1 /\ k + 1 \in 1 .. k + 1 /\ \A i \in 1 .. k : i \in 1 .. k + 1
  OBVIOUS
<1>9. ASSUME NEW p, NEW q, Underway(B, source, sink, k, q), Last(q).at # sink, Extends(E, q, p)
      PROVE  Underway(B, source, sink, k + 1, p)
  <2>1. q \in B[k] /\ q[1].at = source /\ Simple(q) /\ \A i \in 1 .. k : q[i].at # sink
    BY <1>9 DEF Underway
  <2>2. PICK e \in E : /\ e.from = Last(q).at /\ \A i \in 1 .. Len(q) : q[i].at # e.to
                       /\ p = Append(q, After(e))
    BY <1>9 DEF Extends
  <2>3. /\ Len(q) = k + 1 /\ Len(p) = k + 2 /\ \A i \in 1 .. k + 1 : p[i] = q[i]
        /\ p[k + 2].at = e.to /\ Last(q) = q[k + 1]
    BY <1>7, <2>1, <2>2
  <2>4. p \in B[k + 1]
    BY <1>w, <2>1, <2>2
  <2>5. p[1].at = source
    BY <1>8, <2>1, <2>3
  <2>6. Simple(p)
    <3> SUFFICES ASSUME NEW i \in 1 .. k + 2, NEW j \in 1 .. k + 2, i # j
                 PROVE  p[i].at # p[j].at
      BY <2>3 DEF Simple
    <3>1. CASE i = k + 2
      <4>1. j \in 1 .. k + 1
        BY <3>1
      <4> QED
        BY <2>2, <2>3, <3>1, <4>1
    <3>2. CASE j = k + 2
      <4>1. i \in 1 .. k + 1
        BY <3>2
      <4> QED
        BY <2>2, <2>3, <3>2, <4>1
    <3>3. CASE i # k + 2 /\ j # k + 2
      <4>1. i \in 1 .. k + 1 /\ j \in 1 .. k + 1
        BY <3>3
      <4> QED
        BY <2>1, <2>3, <4>1 DEF Simple
    <3> QED
      BY <3>1, <3>2, <3>3
  <2>7. ASSUME NEW i \in 1 .. k + 1
        PROVE  p[i].at # sink
    <3>1. CASE i = k + 1
      BY <1>9, <2>3, <3>1
    <3>2. CASE i # k + 1
      <4>1. i \in 1 .. k
        BY <3>2
      <4> QED
        BY <2>1, <2>3, <4>1
    <3> QED
      BY <3>1, <3>2
  <2> QED
    BY <2>4, <2>5, <2>6, <2>7 DEF Underway
<1>10. ASSUME NEW p, Underway(B, source, sink, k + 1, p)
       PROVE  \E q : Underway(B, source, sink, k, q) /\ Last(q).at # sink /\ Extends(E, q, p)
  <2>1. p \in B[k + 1] /\ p[1].at = source /\ Simple(p) /\ \A i \in 1 .. k + 1 : p[i].at # sink
    BY <1>10 DEF Underway
  <2>2. PICK q \in B[k] : \E e \in E : e.from = Last(q).at /\ p = Append(q, After(e))
    BY <1>w, <2>1
  <2>3. PICK e \in E : e.from = Last(q).at /\ p = Append(q, After(e))
    BY <2>2
  <2>4. /\ Len(q) = k + 1 /\ Len(p) = k + 2 /\ \A i \in 1 .. k + 1 : p[i] = q[i]
        /\ p[k + 2].at = e.to /\ Last(q) = q[k + 1]
    BY <1>7, <2>3
  <2>5. \A i \in 1 .. k + 1 : i \in 1 .. k + 2 /\ i # k + 2
    OBVIOUS
  <2>6. k + 2 \in 1 .. k + 2
    OBVIOUS
  <2>7. \A i, j \in 1 .. k + 2 : i # j => p[i].at # p[j].at
    BY <2>1, <2>4 DEF Simple
  <2>8. Simple(q)
    BY <2>4, <2>5, <2>7 DEF Simple
  <2>9. \A i \in 1 .. k : q[i].at # sink
    BY <1>8, <2>1, <2>4
  <2>10. Underway(B, source, sink, k, q)
    BY <1>8, <2>1, <2>4, <2>8, <2>9 DEF Underway
  <2>11. Last(q).at # sink
    BY <1>8, <2>1, <2>4
  <2>12. \A i \in 1 .. Len(q) : q[i].at # e.to
    BY <2>4, <2>5, <2>6, <2>7
  <2> QED
    BY <2>3, <2>10, <2>11, <2>12 DEF Extends
<1>11. \A p : Holds(r, p) <=> Underway(B, source, sink, k + 1, p)
  BY <1>3, <1>6, <1>9, <1>10
<1> QED
  BY <1>1, <1>6, <1>11 DEF Listing

\* The paths a value takes from the source to the sink.
FlowsTo(B, D, source, sink, p) ==
    \E k \in 1 .. D : p \in B[k] /\ p[1].at = source /\ Simple(p) /\ Last(p).at = sink
Traced(flows, B, D, source, sink, most, r) ==
    /\ r \in Seq(Paths(flows)) /\ Injective(r) /\ Len(r) <= most
    /\ \A p : Holds(r, p) => FlowsTo(B, D, source, sink, p)
    /\ Len(r) = most \/ \A p : FlowsTo(B, D, source, sink, p) => Holds(r, p)
PartsOf(G, E, source, sink, k, before) ==
    IF k = 0 THEN << Begun(source) >> ELSE Longer(G, E, sink, before)

LEMMA LayersAreListed ==
    ASSUME NEW G, IsGraph(G), NEW flows, Flowing(G, flows), NEW E, IsFiniteSet(E), NEW S,
           NEW D \in Nat, NEW B, Walks(flows, E, S, D, B), NEW source \in S, NEW sink,
           NEW L, \A k \in 0 .. D : L[k] = PartsOf(G, E, source, sink, k, L[k - 1])
    PROVE  \A k \in 0 .. D : Listing(flows, B, source, sink, k, L[k])
<1> DEFINE P == {k \in Nat : k <= D => Listing(flows, B, source, sink, k, L[k])}
<1>1. 0 \in P
  <2>1. L[0] = <<Begun(source)>>
    BY DEF PartsOf
  <2> QED
    BY <2>1, FirstLayer
<1>2. ASSUME NEW k \in Nat, k \in P
      PROVE  k + 1 \in P
  <2> SUFFICES ASSUME k + 1 <= D
               PROVE  Listing(flows, B, source, sink, k + 1, L[k + 1])
    OBVIOUS
  <2>1. k + 1 \in 0 .. D /\ k + 1 # 0 /\ (k + 1) - 1 = k /\ k <= D
    OBVIOUS
  <2>2. L[k + 1] = Longer(G, E, sink, L[k])
    BY <2>1 DEF PartsOf
  <2>3. Listing(flows, B, source, sink, k, L[k])
    BY <1>2, <2>1
  <2> QED
    BY <2>2, <2>3, NextLayer
<1> HIDE DEF P
<1>3. Nat \subseteq P
  BY <1>1, <1>2, NumbersByInduction
<1> QED
  BY <1>3 DEF P

LEMMA ArrivedAreFlows ==
    ASSUME NEW flows, NEW E, NEW S, NEW D \in Nat, NEW B, Walks(flows, E, S, D, B),
           NEW source \in S, NEW sink, source # sink, NEW p
    PROVE  (\E k \in 0 .. D : Underway(B, source, sink, k, p) /\ Last(p).at = sink)
             <=> FlowsTo(B, D, source, sink, p)
<1>1. \A k \in 0 .. D : \A q \in B[k] : Len(q) = k + 1 /\ Last(q) = q[k + 1]
  <2> TAKE k \in 0 .. D
  <2> TAKE q \in B[k]
  <2>1. IsPath(flows, k, q)
    BY WalksAreTyped
  <2> QED
    BY <2>1 DEF IsPath, Last
<1>2. ASSUME NEW k \in 0 .. D, Underway(B, source, sink, k, p), Last(p).at = sink
      PROVE  FlowsTo(B, D, source, sink, p)
  <2>1. p \in B[k] /\ p[1].at = source /\ Simple(p)
    BY <1>2 DEF Underway
  <2>2. k # 0
    <3> SUFFICES ASSUME k = 0
                 PROVE  FALSE
      OBVIOUS
    <3>1. Last(p) = p[0 + 1]
      BY <1>1, <2>1
    <3>2. Last(p).at = source
      BY <2>1, <3>1
    <3> QED
      BY <1>2, <3>2
  <2>3. k \in 1 .. D
    BY <2>2
  <2> QED
    BY <1>2, <2>1, <2>3 DEF FlowsTo
<1>3. ASSUME FlowsTo(B, D, source, sink, p)
      PROVE  \E k \in 0 .. D : Underway(B, source, sink, k, p) /\ Last(p).at = sink
  <2>1. PICK k \in 1 .. D : p \in B[k] /\ p[1].at = source /\ Simple(p) /\ Last(p).at = sink
    BY <1>3 DEF FlowsTo
  <2>2. k \in 0 .. D
    OBVIOUS
  <2>3. Len(p) = k + 1 /\ p[k + 1].at = sink
    BY <1>1, <2>1, <2>2
  <2>4. \A i \in 1 .. k : i \in 1 .. k + 1 /\ k + 1 \in 1 .. k + 1 /\ i # k + 1
    OBVIOUS
  <2>5. \A i \in 1 .. k : p[i].at # sink
    BY <2>1, <2>3, <2>4 DEF Simple
  <2>6. Underway(B, source, sink, k, p)
    BY <2>1, <2>5 DEF Underway
  <2> QED
    BY <2>1, <2>2, <2>6
<1> QED
  BY <1>2, <1>3

LEMMA FlowIsTraced ==
    ASSUME NEW G, IsGraph(G), NEW flows, Flowing(G, flows), NEW E, IsFiniteSet(E), NEW S,
           NEW D \in Nat, NEW B, Walks(flows, E, S, D, B), NEW source \in S, NEW sink,
           source # sink, NEW limit \in Nat
    PROVE  Traced(flows, B, D, source, sink, IF limit = 0 THEN 1 ELSE limit,
                  TraceFlow(G, E, source, sink, D, limit))
<1> DEFINE Stepped(g) == g = [k \in 0 .. D |-> IF k = 0 THEN << <<[at |-> source, sure |-> TRUE]>> >>
                                              ELSE Longer(G, E, sink, g[k - 1])]
           L == CHOOSE g : Stepped(g)
<1>1. PICK most \in Nat : most = IF limit = 0 THEN 1 ELSE limit
  OBVIOUS
<1>2. PICK parts : parts = [k \in 1 .. D + 1 |-> Arrivals(sink, L[k - 1])]
  OBVIOUS
<1>3. PICK arrived : arrived = FlattenSeq(parts)
  OBVIOUS
<1>4. TraceFlow(G, E, source, sink, D, limit) = Limited(arrived, most)
  BY <1>1, <1>2, <1>3 DEF TraceFlow
<1>b. PICK first : first = << Begun(source) >>
  OBVIOUS
<1>s. \A g : Stepped(g) <=> g = [k \in 0 .. D |-> IF k = 0 THEN first ELSE Longer(G, E, sink, g[k - 1])]
  BY <1>b DEF Begun
<1>e. E \subseteq FlowLinks(flows)
  BY DEF Walks
<1>f. Listing(flows, B, source, sink, 0, first)
  BY <1>b, FirstLayer
<1> HIDE DEF Stepped
<1>5. \E g : Stepped(g)
  <2> DEFINE A == {s \in Seq(Paths(flows)) : Injective(s)}
             step == [q \in (1 .. D) \X A |-> Longer(G, E, sink, q[2])]
  <2>1. \A s \in A : Longer(G, E, sink, s) \in A
    BY <1>e, LongerPaths
  <2>2. first \in A
    BY <1>f DEF Listing
  <2>3. step \in [(1 .. D) \X A -> A] /\ \A k \in 1 .. D : \A s \in A : step[<<k, s>>] = Longer(G, E, sink, s)
    BY <2>1
  <2> HIDE DEF step, A
  <2>a. PICK f : Recurring(f, A, first, D, step)
    BY <2>2, <2>3, StepwiseExists DEF Mapping
  <2>4. f \in [0 .. D -> A] /\ f[0] = first /\ \A k \in 1 .. D : f[k] = step[<<k, f[k - 1]>>]
    BY <2>a DEF Recurring
  <2>5. ASSUME NEW k \in 0 .. D
        PROVE  f[k] = IF k = 0 THEN first ELSE Longer(G, E, sink, f[k - 1])
    <3>1. CASE k = 0
      BY <2>4, <3>1
    <3>2. CASE k # 0
      <4>1. k \in 1 .. D /\ k - 1 \in 0 .. D
        BY <3>2
      <4>2. f[k - 1] \in A
        BY <2>4, <4>1
      <4> QED
        BY <2>3, <2>4, <3>2, <4>1, <4>2
    <3> QED
      BY <3>1, <3>2
  <2>6. Stepped(f)
    BY <1>s, <2>4, <2>5
  <2> QED
    BY <2>6
<1>6. Stepped(L)
  BY <1>5
<1>7. L = [k \in 0 .. D |-> IF k = 0 THEN first ELSE Longer(G, E, sink, L[k - 1])]
  BY <1>s, <1>6
<1> HIDE DEF L
<1>8. \A k \in 0 .. D : L[k] = PartsOf(G, E, source, sink, k, L[k - 1])
  BY <1>b, <1>7 DEF PartsOf
<1>9. \A k \in 0 .. D : Listing(flows, B, source, sink, k, L[k])
  BY <1>8, LayersAreListed
<1>10. ASSUME NEW k \in 1 .. D + 1
       PROVE  /\ k - 1 \in 0 .. D
              /\ parts[k] \in Seq(Paths(flows)) /\ Injective(parts[k])
              /\ \A p : Holds(parts[k], p) <=> Underway(B, source, sink, k - 1, p) /\ Last(p).at = sink
  <2>1. PICK m \in 0 .. D : m = k - 1
    OBVIOUS
  <2>2. Listing(flows, B, source, sink, m, L[m]) /\ parts[k] = Arrivals(sink, L[m])
    BY <1>2, <1>9, <2>1
  <2>3. /\ L[m] \in Seq(Paths(flows)) /\ Injective(L[m])
        /\ \A p : Holds(L[m], p) <=> Underway(B, source, sink, m, p)
    BY <2>2 DEF Listing
  <2>4. /\ parts[k] \in Seq(Paths(flows)) /\ Injective(parts[k])
        /\ \A p : Holds(parts[k], p) <=> Holds(L[m], p) /\ Last(p).at = sink
    BY <2>2, <2>3, ArrivedPaths
  <2> QED
    BY <2>1, <2>3, <2>4
<1>11. parts \in [1 .. D + 1 -> Seq(Paths(flows))]
  BY <1>2, <1>10
<1>12. Joins(Paths(flows), D + 1, parts, arrived)
  BY <1>3, <1>11, FlattenJoins
<1>13. ASSUME NEW k \in 1 .. D + 1, NEW p, Holds(parts[k], p)
       PROVE  Len(p) = k
  <2>1. PICK m \in 0 .. D : m = k - 1
    BY <1>10
  <2>2. p \in B[m]
    BY <1>10, <1>13, <2>1 DEF Underway
  <2>3. IsPath(flows, m, p)
    BY <2>2, WalksAreTyped
  <2> QED
    BY <2>1, <2>3 DEF IsPath
<1>14. Apart(D + 1, parts)
  <2> SUFFICES ASSUME NEW k \in 1 .. D + 1, NEW l \in 1 .. D + 1,
                      NEW i \in 1 .. Len(parts[k]), NEW j \in 1 .. Len(parts[l]),
                      parts[k][i] = parts[l][j]
               PROVE  k = l /\ i = j
    BY DEF Apart
  <2>1. Holds(parts[k], parts[k][i]) /\ Holds(parts[l], parts[k][i])
    BY DEF Holds
  <2>2. k = l
    BY <1>13, <2>1
  <2>3. Injective(parts[k])
    BY <1>10
  <2>4. i = j
    BY <2>2, <2>3 DEF Injective
  <2> QED
    BY <2>2, <2>4
<1>15. arrived \in Seq(Paths(flows)) /\ Injective(arrived)
       /\ \A p : Holds(arrived, p) <=> \E k \in 1 .. D + 1 : Holds(parts[k], p)
  BY <1>12, <1>14 DEF Joins
<1>16. \A p : Holds(arrived, p) <=> FlowsTo(B, D, source, sink, p)
  <2> TAKE p
  <2>1. Holds(arrived, p)
          <=> \E k \in 1 .. D + 1 : Underway(B, source, sink, k - 1, p) /\ Last(p).at = sink
    BY <1>10, <1>15
  <2>2. (\E k \in 1 .. D + 1 : Underway(B, source, sink, k - 1, p) /\ Last(p).at = sink)
          <=> \E k \in 0 .. D : Underway(B, source, sink, k, p) /\ Last(p).at = sink
    <3>1. \A k \in 1 .. D + 1 : k - 1 \in 0 .. D
      OBVIOUS
    <3>2. \A k \in 0 .. D : k + 1 \in 1 .. D + 1 /\ (k + 1) - 1 = k
      OBVIOUS
    <3> QED
      BY <3>1, <3>2
  <2>3. (\E k \in 0 .. D : Underway(B, source, sink, k, p) /\ Last(p).at = sink)
          <=> FlowsTo(B, D, source, sink, p)
    BY ArrivedAreFlows
  <2> QED
    BY <2>1, <2>2, <2>3
<1>17. Traced(flows, B, D, source, sink, most, Limited(arrived, most))
  BY <1>15, <1>16, CutHolds DEF Traced
<1> QED
  BY <1>1, <1>4, <1>17

\* What is known of a question about flows.
Asking(G, flows, E, S, D, B, sources, sinks) ==
    /\ IsGraph(G) /\ Flowing(G, flows) /\ IsFiniteSet(E) /\ D \in Nat
    /\ Walks(flows, E, S, D, B)
    /\ Len(sources) \in Nat /\ Len(sinks) \in Nat
    /\ \A i \in 1 .. Len(sources) : sources[i] \in S
    /\ Injective(sources) /\ Injective(sinks)

\* The paths from the sources before the i-th, and from the i-th to the
\* first j sinks.
Covered(B, D, sources, sinks, i, j, p) ==
    \E a \in 1 .. Len(sources), b \in 1 .. Len(sinks) :
        /\ a < i \/ (a = i /\ b <= j)
        /\ sources[a] # sinks[b] /\ FlowsTo(B, D, sources[a], sinks[b], p)
Gathered(flows, B, D, sources, sinks, limit, i, j, acc) ==
    /\ acc \in Seq(Paths(flows)) /\ Injective(acc)
    /\ \A p : Holds(acc, p) => Covered(B, D, sources, sinks, i, j, p)
    /\ Len(acc) >= limit \/ \A p : Covered(B, D, sources, sinks, i, j, p) => Holds(acc, p)

LEMMA FlowsHaveEnds ==
    ASSUME NEW B, NEW D, NEW source, NEW sink, NEW p, FlowsTo(B, D, source, sink, p)
    PROVE  p[1].at = source /\ Last(p).at = sink
BY DEF FlowsTo

LEMMA OneSinkMore ==
    ASSUME NEW G, NEW flows, NEW E, NEW S, NEW D, NEW B, NEW sources, NEW sinks,
           Asking(G, flows, E, S, D, B, sources, sinks), NEW limit \in Nat,
           NEW i \in 1 .. Len(sources), NEW j \in Nat, j + 1 <= Len(sinks), NEW acc,
           Gathered(flows, B, D, sources, sinks, limit, i, j, acc), Len(acc) <= limit + j,
           NEW t, t = WithSink(G, E, sources[i], sinks[j + 1], D, limit, acc)
    PROVE  Gathered(flows, B, D, sources, sinks, limit, i, j + 1, t) /\ Len(t) <= limit + (j + 1)
<1>1. /\ IsGraph(G) /\ Flowing(G, flows) /\ IsFiniteSet(E) /\ D \in Nat
      /\ Walks(flows, E, S, D, B) /\ Len(sources) \in Nat /\ Len(sinks) \in Nat
      /\ sources[i] \in S /\ Injective(sources) /\ Injective(sinks)
  BY DEF Asking
<1>2. PICK n \in Nat : n = Len(acc)
  BY LenProperties DEF Gathered
<1>3. PICK source : source = sources[i]
  OBVIOUS
<1>4. PICK sink : sink = sinks[j + 1]
  OBVIOUS
<1>5. j + 1 \in 1 .. Len(sinks)
  BY <1>1
<1>6. acc \in Seq(Paths(flows)) /\ Injective(acc)
  BY DEF Gathered
<1>7. \A p : Covered(B, D, sources, sinks, i, j + 1, p)
               <=> Covered(B, D, sources, sinks, i, j, p) \/ (source # sink /\ FlowsTo(B, D, source, sink, p))
  <2> TAKE p
  <2>1. \A b \in 1 .. Len(sinks) : b <= j + 1 <=> b <= j \/ b = j + 1
    BY <1>1
  <2> QED
    BY <1>3, <1>4, <1>5, <2>1 DEF Covered
<1>8. CASE source = sink
  <2>1. t = acc
    BY <1>3, <1>4, <1>8 DEF WithSink
  <2>2. \A p : Covered(B, D, sources, sinks, i, j + 1, p) <=> Covered(B, D, sources, sinks, i, j, p)
    BY <1>7, <1>8
  <2>3. Gathered(flows, B, D, sources, sinks, limit, i, j + 1, t)
    BY <2>1, <2>2 DEF Gathered
  <2>4. n <= limit + (j + 1)
    BY <1>2
  <2> QED
    BY <1>2, <2>1, <2>3, <2>4
<1>9. CASE source # sink
  <2>1. PICK left \in Nat : left = IF n < limit THEN limit - n ELSE 0
    <3>1. n < limit => limit - n \in Nat
      OBVIOUS
    <3> QED
      BY <3>1
  <2>2. PICK more : more = TraceFlow(G, E, source, sink, D, left)
    OBVIOUS
  <2>3. t = acc \o more
    BY <1>2, <1>3, <1>4, <1>9, <2>1, <2>2 DEF WithSink
  <2>4. PICK most \in Nat : most = IF left = 0 THEN 1 ELSE left
    OBVIOUS
  <2>5. Traced(flows, B, D, source, sink, most, more)
    <3>1. source \in S
      BY <1>1, <1>3
    <3>2. Traced(flows, B, D, source, sink, IF left = 0 THEN 1 ELSE left,
                 TraceFlow(G, E, source, sink, D, left))
      BY <1>1, <1>9, <3>1, FlowIsTraced
    <3> QED
      BY <2>2, <2>4, <3>2
  <2>6. /\ more \in Seq(Paths(flows)) /\ Injective(more) /\ Len(more) <= most
        /\ \A p : Holds(more, p) => FlowsTo(B, D, source, sink, p)
        /\ Len(more) = most \/ \A p : FlowsTo(B, D, source, sink, p) => Holds(more, p)
    BY <2>5 DEF Traced
  <2>7. PICK m \in Nat : m = Len(more)
    BY <2>6, LenProperties
  <2>8. t \in Seq(Paths(flows)) /\ Joined(acc, more, t)
    BY <1>6, <2>3, <2>6, Appended
  <2>9. /\ Len(t) = n + m
        /\ \A p : Holds(t, p) <=> Holds(acc, p) \/ Holds(more, p)
        /\ Injective(acc) /\ Injective(more) /\ (\A p : ~ (Holds(acc, p) /\ Holds(more, p)))
             => Injective(t)
    <3>1. Len(t) = n + m
      BY <1>2, <2>7, <2>8 DEF Joined
    <3> QED
      BY <2>8, <3>1, JoinedHolds
  <2>10. ASSUME NEW p, Holds(acc, p), Holds(more, p)
         PROVE  FALSE
    <3>1. Covered(B, D, sources, sinks, i, j, p) /\ FlowsTo(B, D, source, sink, p)
      BY <2>6, <2>10 DEF Gathered
    <3>2. PICK a \in 1 .. Len(sources), b \in 1 .. Len(sinks) :
             /\ a < i \/ (a = i /\ b <= j)
             /\ FlowsTo(B, D, sources[a], sinks[b], p)
      BY <3>1 DEF Covered
    <3>3. sources[a] = sources[i] /\ sinks[b] = sinks[j + 1]
      <4>1. p[1].at = sources[a] /\ Last(p).at = sinks[b]
        BY <3>2, FlowsHaveEnds
      <4>2. FlowsTo(B, D, sources[i], sinks[j + 1], p)
        BY <1>3, <1>4, <3>1
      <4>3. p[1].at = sources[i] /\ Last(p).at = sinks[j + 1]
        BY <4>2, FlowsHaveEnds
      <4> QED
        BY <4>1, <4>3
    <3>4. a = i /\ b = j + 1
      BY <1>1, <1>5, <3>3 DEF Injective
    <3> QED
      BY <1>1, <3>2, <3>4
  <2>11. Injective(t)
    BY <1>6, <2>6, <2>9, <2>10
  <2>12. ASSUME NEW p, Holds(t, p)
         PROVE  Covered(B, D, sources, sinks, i, j + 1, p)
    <3>1. Holds(acc, p) => Covered(B, D, sources, sinks, i, j, p)
      BY DEF Gathered
    <3> QED
      BY <1>7, <1>9, <2>6, <2>9, <2>12, <3>1
  <2>13. ASSUME Len(t) < limit
         PROVE  \A p : Covered(B, D, sources, sinks, i, j + 1, p) => Holds(t, p)
    <3>1. n < limit /\ m # most
      <4>1. n + m < limit
        BY <2>9, <2>13
      <4>2. n < limit
        BY <4>1
      <4>3. left = limit - n /\ left # 0
        BY <2>1, <4>2
      <4>4. most = limit - n
        BY <2>4, <4>3
      <4> QED
        BY <4>1, <4>2, <4>4
    <3>2. \A p : FlowsTo(B, D, source, sink, p) => Holds(more, p)
      BY <2>6, <2>7, <3>1
    <3>3. ~ (Len(acc) >= limit)
      BY <1>2, <3>1
    <3>4. \A p : Covered(B, D, sources, sinks, i, j, p) => Holds(acc, p)
      BY <3>3 DEF Gathered
    <3> QED
      BY <1>7, <2>9, <3>2, <3>4
  <2>14. Len(t) >= limit \/ Len(t) < limit
    BY <2>9
  <2>15. Gathered(flows, B, D, sources, sinks, limit, i, j + 1, t)
    BY <2>8, <2>11, <2>12, <2>13, <2>14 DEF Gathered
  <2>16. n + m <= limit + (j + 1)
    <3>1. n <= limit + j /\ m <= most
      BY <1>2, <2>6, <2>7
    <3>2. CASE n < limit
      <4>1. left = limit - n /\ left # 0
        BY <2>1, <3>2
      <4>2. most = limit - n
        BY <2>4, <4>1
      <4> QED
        BY <3>1, <4>2
    <3>3. CASE ~ (n < limit)
      <4>1. left = 0
        BY <2>1, <3>3
      <4>2. most = 1
        BY <2>4, <4>1
      <4> QED
        BY <3>1, <4>2
    <3> QED
      BY <3>2, <3>3
  <2> QED
    BY <2>9, <2>15, <2>16
<1> QED
  BY <1>8, <1>9

LEMMA WithSinkIsTyped ==
    ASSUME NEW G, NEW flows, NEW E, NEW S, NEW D, NEW B, NEW sources, NEW sinks,
           Asking(G, flows, E, S, D, B, sources, sinks), NEW limit \in Nat,
           NEW i \in 1 .. Len(sources), NEW sink, NEW acc \in Seq(Paths(flows))
    PROVE  WithSink(G, E, sources[i], sink, D, limit, acc) \in Seq(Paths(flows))
<1>1. /\ IsGraph(G) /\ Flowing(G, flows) /\ IsFiniteSet(E) /\ D \in Nat
      /\ Walks(flows, E, S, D, B) /\ sources[i] \in S
  BY DEF Asking
<1>2. PICK n \in Nat : n = Len(acc)
  BY LenProperties
<1>3. PICK source \in S : source = sources[i]
  BY <1>1
<1>4. PICK left \in Nat : left = IF n < limit THEN limit - n ELSE 0
  <2>1. n < limit => limit - n \in Nat
    OBVIOUS
  <2> QED
    BY <2>1
<1>5. CASE source = sink
  BY <1>3, <1>5 DEF WithSink
<1>6. CASE source # sink
  <2>1. WithSink(G, E, source, sink, D, limit, acc) = acc \o TraceFlow(G, E, source, sink, D, left)
    BY <1>2, <1>4, <1>6 DEF WithSink
  <2>2. Traced(flows, B, D, source, sink, IF left = 0 THEN 1 ELSE left,
               TraceFlow(G, E, source, sink, D, left))
    BY <1>1, <1>6, FlowIsTraced
  <2>3. TraceFlow(G, E, source, sink, D, left) \in Seq(Paths(flows))
    BY <2>2 DEF Traced
  <2> QED
    BY <1>3, <2>1, <2>3, Appended
<1> QED
  BY <1>5, <1>6

\* The loop over the sinks, step by step.
SinkBySink(flows, G, E, source, sinks, D, limit, acc, U) ==
    /\ U \in [0 .. Len(sinks) -> Seq(Paths(flows))] /\ U[0] = acc
    /\ \A j \in 1 .. Len(sinks) : U[j] = WithSink(G, E, source, sinks[j], D, limit, U[j - 1])

LEMMA SinksByNumbers ==
    ASSUME NEW G, NEW flows, NEW E, NEW S, NEW D, NEW B, NEW sources, NEW sinks,
           Asking(G, flows, E, S, D, B, sources, sinks), NEW limit \in Nat,
           NEW i \in 1 .. Len(sources), NEW acc \in Seq(Paths(flows))
    PROVE  \E U : /\ SinkBySink(flows, G, E, sources[i], sinks, D, limit, acc, U)
                  /\ WithSource(G, E, sources, i, sinks, D, limit, acc)
                       = IF i > 1 /\ Len(acc) >= limit THEN acc ELSE U[Len(sinks)]
<1> DEFINE N == Len(sinks)
           A == Seq(Paths(flows))
           Stepped(g) == g = [j \in 0 .. N |-> IF j = 0 THEN acc
                                              ELSE WithSink(G, E, sources[i], sinks[j], D, limit, g[j - 1])]
           U == CHOOSE g : Stepped(g)
<1>1. WithSource(G, E, sources, i, sinks, D, limit, acc) = IF i > 1 /\ Len(acc) >= limit THEN acc ELSE U[N]
  BY DEF WithSource
<1>2. N \in Nat
  BY DEF Asking
<1> HIDE DEF N
<1>3. \E f : Stepped(f)
  <2> DEFINE step == [q \in (1 .. N) \X A |-> WithSink(G, E, sources[i], sinks[q[1]], D, limit, q[2])]
  <2>1. \A j \in 1 .. N : \A s \in A : WithSink(G, E, sources[i], sinks[j], D, limit, s) \in A
    BY WithSinkIsTyped
  <2>2. acc \in A
    OBVIOUS
  <2>3. /\ step \in [(1 .. N) \X A -> A]
        /\ \A j \in 1 .. N : \A s \in A :
              step[<<j, s>>] = WithSink(G, E, sources[i], sinks[j], D, limit, s)
    BY <2>1
  <2> HIDE DEF step, A
  <2>a. PICK f : Recurring(f, A, acc, N, step)
    BY <1>2, <2>2, <2>3, StepwiseExists DEF Mapping
  <2>4. f \in [0 .. N -> A] /\ f[0] = acc /\ \A j \in 1 .. N : f[j] = step[<<j, f[j - 1]>>]
    BY <2>a DEF Recurring
  <2>5. ASSUME NEW j \in 0 .. N
        PROVE  f[j] = IF j = 0 THEN acc
                      ELSE WithSink(G, E, sources[i], sinks[j], D, limit, f[j - 1])
    <3>1. CASE j = 0
      BY <2>4, <3>1
    <3>2. CASE j # 0
      <4>1. j \in 1 .. N /\ j - 1 \in 0 .. N
        BY <1>2, <3>2
      <4>2. f[j - 1] \in A
        BY <2>4, <4>1
      <4> QED
        BY <2>3, <2>4, <3>2, <4>1, <4>2
    <3> QED
      BY <3>1, <3>2
  <2>6. Stepped(f)
    BY <2>4, <2>5
  <2> QED
    BY <2>6
<1>4. Stepped(U)
  BY <1>3
<1> HIDE DEF U
<1>5. /\ U[0] = acc
      /\ \A j \in 1 .. N : U[j] = WithSink(G, E, sources[i], sinks[j], D, limit, U[j - 1])
  <2>1. 0 \in 0 .. N /\ \A j \in 1 .. N : j \in 0 .. N /\ j # 0
    BY <1>2
  <2> QED
    BY <1>4, <2>1
<1>6. \A j \in 0 .. N : U[j] \in A
  <2> DEFINE P == {j \in Nat : j <= N => U[j] \in A}
  <2>1. 0 \in P
    BY <1>5
  <2>2. ASSUME NEW j \in Nat, j \in P
        PROVE  j + 1 \in P
    <3> SUFFICES ASSUME j + 1 <= N
                 PROVE  U[j + 1] \in A
      OBVIOUS
    <3>1. j + 1 \in 1 .. N /\ (j + 1) - 1 = j /\ j <= N
      BY <1>2
    <3>2. U[j] \in A
      BY <2>2, <3>1
    <3>3. U[j + 1] = WithSink(G, E, sources[i], sinks[j + 1], D, limit, U[j])
      BY <1>5, <3>1
    <3> QED
      BY <3>2, <3>3, WithSinkIsTyped
  <2> HIDE DEF P
  <2>3. Nat \subseteq P
    BY <2>1, <2>2, NumbersByInduction
  <2> QED
    BY <1>2, <2>3 DEF P
<1>7. U \in [0 .. N -> A]
  BY <1>4, <1>6
<1>8. SinkBySink(flows, G, E, sources[i], sinks, D, limit, acc, U)
  BY <1>5, <1>7 DEF SinkBySink, N
<1> QED
  BY <1>1, <1>8 DEF N

Rounds(flows, B, D, sources, sinks, limit, i, acc) ==
    /\ Gathered(flows, B, D, sources, sinks, limit, i + 1, 0, acc)
    /\ Len(acc) <= limit + Len(sinks)
    /\ i = 0 => Len(acc) = 0

LEMMA OneSourceMore ==
    ASSUME NEW G, NEW flows, NEW E, NEW S, NEW D, NEW B, NEW sources, NEW sinks,
           Asking(G, flows, E, S, D, B, sources, sinks), NEW limit \in Nat,
           NEW i \in Nat, i + 1 <= Len(sources), NEW acc,
           Rounds(flows, B, D, sources, sinks, limit, i, acc),
           NEW t, t = WithSource(G, E, sources, i + 1, sinks, D, limit, acc)
    PROVE  Rounds(flows, B, D, sources, sinks, limit, i + 1, t)
<1>1. /\ Gathered(flows, B, D, sources, sinks, limit, i + 1, 0, acc)
      /\ Len(acc) <= limit + Len(sinks) /\ acc \in Seq(Paths(flows))
      /\ i = 0 => Len(acc) = 0
  BY DEF Rounds, Gathered
<1>2. PICK N \in Nat : N = Len(sinks)
  BY DEF Asking
<1>3. PICK k \in 1 .. Len(sources) : k = i + 1
  BY DEF Asking
<1>4. PICK U : /\ SinkBySink(flows, G, E, sources[k], sinks, D, limit, acc, U)
               /\ WithSource(G, E, sources, k, sinks, D, limit, acc)
                    = IF k > 1 /\ Len(acc) >= limit THEN acc ELSE U[Len(sinks)]
  BY <1>1, SinksByNumbers
<1>5. /\ \A p : Covered(B, D, sources, sinks, k, 0, p) => Covered(B, D, sources, sinks, k + 1, 0, p)
      /\ \A p : Covered(B, D, sources, sinks, k, N, p) <=> Covered(B, D, sources, sinks, k + 1, 0, p)
  <2>1. \A a \in 1 .. Len(sources), b \in 1 .. Len(sinks) :
           /\ (a < k \/ (a = k /\ b <= 0)) => (a < k + 1 \/ (a = k + 1 /\ b <= 0))
           /\ (a < k \/ (a = k /\ b <= N)) <=> (a < k + 1 \/ (a = k + 1 /\ b <= 0))
    BY <1>2 DEF Asking
  <2> QED
    BY <2>1 DEF Covered
<1>6. CASE k > 1 /\ Len(acc) >= limit
  <2>1. t = acc
    BY <1>3, <1>4, <1>6
  <2>2. Gathered(flows, B, D, sources, sinks, limit, k + 1, 0, t)
    BY <1>1, <1>3, <1>5, <1>6, <2>1 DEF Gathered
  <2> QED
    BY <1>1, <1>3, <2>1, <2>2 DEF Rounds
<1>7. CASE ~ (k > 1 /\ Len(acc) >= limit)
  <2>1. t = U[N]
    BY <1>2, <1>3, <1>4, <1>7
  <2>2. U[0] = acc /\ \A j \in 1 .. N : U[j] = WithSink(G, E, sources[k], sinks[j], D, limit, U[j - 1])
    BY <1>2, <1>4 DEF SinkBySink
  <2> DEFINE Good(j, s) == /\ Gathered(flows, B, D, sources, sinks, limit, k, j, s)
                           /\ Len(s) <= limit + j
             P == {j \in Nat : j <= N => Good(j, U[j])}
  <2>3. 0 \in P
    <3>1. Len(acc) \in Nat
      BY <1>1, LenProperties
    <3>2. Len(acc) <= limit + 0
      <4>1. CASE i = 0
        BY <1>1, <4>1
      <4>2. CASE i # 0
        BY <1>3, <1>7, <3>1, <4>2
      <4> QED
        BY <4>1, <4>2
    <3> QED
      BY <1>1, <1>3, <2>2, <3>2
  <2>4. ASSUME NEW j \in Nat, j \in P
        PROVE  j + 1 \in P
    <3> SUFFICES ASSUME j + 1 <= N
                 PROVE  Good(j + 1, U[j + 1])
      OBVIOUS
    <3>1. j + 1 \in 1 .. N /\ (j + 1) - 1 = j /\ j <= N /\ j + 1 <= Len(sinks)
      BY <1>2
    <3>2. Good(j, U[j])
      BY <2>4, <3>1
    <3>3. U[j + 1] = WithSink(G, E, sources[k], sinks[j + 1], D, limit, U[j])
      BY <2>2, <3>1
    <3> QED
      BY <3>1, <3>2, <3>3, OneSinkMore
  <2> HIDE DEF P, Good
  <2>5. Nat \subseteq P
    BY <2>3, <2>4, NumbersByInduction
  <2>6. Good(N, t)
    BY <2>1, <2>5 DEF P
  <2>7. Gathered(flows, B, D, sources, sinks, limit, k, N, t) /\ Len(t) <= limit + N
    BY <2>6 DEF Good
  <2>8. Gathered(flows, B, D, sources, sinks, limit, k + 1, 0, t)
    BY <1>5, <2>7 DEF Gathered
  <2> QED
    BY <1>2, <1>3, <2>7, <2>8 DEF Rounds
<1> QED
  BY <1>6, <1>7

\* The same paths in another order.
Rearranged(flows, s, r) ==
    /\ r \in Seq(Paths(flows)) /\ Len(r) = Len(s) /\ Injective(r)
    /\ \A p : Holds(r, p) <=> Holds(s, p)

LEMMA ShortestFirst ==
    ASSUME NEW flows, NEW s \in Seq(Paths(flows)), Injective(s)
    PROVE  Rearranged(flows, s, ByLength(s))
<1>1. PICK n \in Nat : n = Len(s)
  BY LenProperties
<1>2. DOMAIN s = 1 .. n /\ \A i \in 1 .. n : s[i] \in Paths(flows)
  BY <1>1, LenProperties
<1> DEFINE key == [i \in 1 .. n |-> <<Len(s[i]), i>>]
<1>3. ByLength(s) = [i \in DOMAIN ByKeys(key) |-> s[ByKeys(key)[i]]]
  BY <1>2 DEF ByLength, InOrder
<1>a. PICK order : order = ByKeys(key)
  OBVIOUS
<1>b. PICK r : r = [i \in DOMAIN order |-> s[order[i]]]
  OBVIOUS
<1>4. ASSUME NEW i \in 1 .. n
      PROVE  key[i] \in [1 .. 2 -> Int] /\ key[i][2] = i
  <2>1. PICK m \in Int : m = Len(s[i])
    BY <1>2, LenProperties DEF Paths
  <2>2. key[i] = <<m, i>> /\ i \in Int
    BY <2>1
  <2> HIDE DEF key
  <2> QED
    BY <2>2
<1>5. DOMAIN key = 1 .. n /\ 2 \in Nat
  OBVIOUS
<1> HIDE DEF key
<1>6. IsFiniteSet(1 .. n) /\ Cardinality(1 .. n) = n
  <2>1. IsFiniteSet(1 .. n) /\ Cardinality(1 .. n) = IF 1 > n THEN 0 ELSE n - 1 + 1
    BY FS_Interval
  <2> QED
    BY <2>1
<1>7. \A i, j \in 1 .. n : key[i] = key[j] => i = j
  BY <1>4
<1>k. /\ IsFiniteSet(DOMAIN key) /\ \A x \in DOMAIN key : key[x] \in [1 .. 2 -> Int]
      /\ \A x, y \in DOMAIN key : key[x] = key[y] => x = y
  BY <1>4, <1>5, <1>6, <1>7
<1>8. /\ order \in Seq(DOMAIN key) /\ Len(order) = Cardinality(DOMAIN key)
      /\ \A x \in DOMAIN key : \E i \in 1 .. Len(order) : order[i] = x
      /\ \A i, j \in 1 .. Len(order) : order[i] = order[j] => i = j
  <2>1. /\ ByKeys(key) \in Seq(DOMAIN key) /\ Len(ByKeys(key)) = Cardinality(DOMAIN key)
        /\ \A x \in DOMAIN key : \E i \in 1 .. Len(ByKeys(key)) : ByKeys(key)[i] = x
        /\ \A i, j \in 1 .. Len(ByKeys(key)) : ByKeys(key)[i] = ByKeys(key)[j] => i = j
    BY <1>5, <1>k, SortedIsASequence
  <2> QED
    BY <1>a, <2>1
<1>9. /\ order \in Seq(1 .. n) /\ Len(order) = n
      /\ \A x \in 1 .. n : \E i \in 1 .. n : order[i] = x
      /\ \A i, j \in 1 .. n : order[i] = order[j] => i = j
  <2>1. Len(order) = n /\ order \in Seq(1 .. n)
    BY <1>5, <1>6, <1>8
  <2> QED
    BY <1>5, <1>8, <2>1
<1>10. DOMAIN order = 1 .. n /\ \A i \in 1 .. n : order[i] \in 1 .. n
  <2>1. order \in Seq(1 .. n) /\ Len(order) = n
    BY <1>9
  <2>2. DOMAIN order = 1 .. n
    BY <2>1, LenProperties
  <2>3. order \in [1 .. n -> 1 .. n]
    BY <2>1, LenProperties
  <2> QED
    BY <2>2, <2>3
<1>11. r \in [1 .. n -> Paths(flows)] /\ \A i \in 1 .. n : r[i] = s[order[i]]
  BY <1>b, <1>2, <1>10
<1>12. r \in Seq(Paths(flows)) /\ Len(r) = n
  BY <1>11, PlacesMakeASequence
<1>13. \A i, j \in 1 .. n : s[i] = s[j] => i = j
  BY <1>1 DEF Injective
<1>14. Injective(r)
  <2> SUFFICES ASSUME NEW i \in 1 .. n, NEW j \in 1 .. n, r[i] = r[j]
               PROVE  i = j
    BY <1>12 DEF Injective
  <2>1. s[order[i]] = s[order[j]]
    BY <1>11
  <2>2. order[i] = order[j]
    BY <1>10, <1>13, <2>1
  <2> QED
    BY <1>9, <2>2
<1>15. ASSUME NEW p
       PROVE  Holds(r, p) <=> Holds(s, p)
  <2>1. ASSUME Holds(r, p)
        PROVE  Holds(s, p)
    <3>1. PICK i \in 1 .. n : r[i] = p
      BY <1>12, <2>1 DEF Holds
    <3>2. s[order[i]] = p /\ order[i] \in 1 .. n
      BY <1>10, <1>11, <3>1
    <3> QED
      BY <1>1, <3>2 DEF Holds
  <2>2. ASSUME Holds(s, p)
        PROVE  Holds(r, p)
    <3>1. PICK k \in 1 .. n : s[k] = p
      BY <1>1, <2>2 DEF Holds
    <3>2. PICK i \in 1 .. n : order[i] = k
      BY <1>9
    <3>3. r[i] = p
      BY <1>11, <3>1, <3>2
    <3> QED
      BY <1>12, <3>3 DEF Holds
  <2> QED
    BY <2>1, <2>2
<1> QED
  BY <1>a, <1>b, <1>1, <1>3, <1>12, <1>14, <1>15 DEF Rearranged

LEMMA FlowsAreGathered ==
    ASSUME NEW G, NEW flows, NEW E, E = FlowEdges(G, flows), NEW S, NEW D, NEW B, NEW sources, NEW sinks,
           Asking(G, flows, E, S, D, B, sources, sinks), NEW limit \in Nat
    PROVE  \E s : /\ Rounds(flows, B, D, sources, sinks, limit, Len(sources), s)
                  /\ Rearranged(flows, s, FindFlows(G, flows, sources, sinks, D, limit))
<1> DEFINE N == Len(sources)
           A == Seq(Paths(flows))
           Stepped(g) == g = [i \in 0 .. N |-> IF i = 0 THEN <<>>
                                              ELSE WithSource(G, E, sources, i, sinks, D, limit, g[i - 1])]
           U == CHOOSE g : Stepped(g)
<1>2. FindFlows(G, flows, sources, sinks, D, limit) = ByLength(U[N])
  BY DEF FindFlows
<1>3. N \in Nat
  BY DEF Asking
<1> HIDE DEF N
<1>4. \A i \in 1 .. N : \A s \in A : WithSource(G, E, sources, i, sinks, D, limit, s) \in A
  <2> TAKE i \in 1 .. N
  <2> TAKE s \in A
  <2>1. i \in 1 .. Len(sources)
    BY DEF N
  <2>2. PICK W : /\ SinkBySink(flows, G, E, sources[i], sinks, D, limit, s, W)
                 /\ WithSource(G, E, sources, i, sinks, D, limit, s)
                      = IF i > 1 /\ Len(s) >= limit THEN s ELSE W[Len(sinks)]
    BY <2>1, SinksByNumbers
  <2>3. W[Len(sinks)] \in A
    BY <2>2 DEF SinkBySink, Asking
  <2> QED
    BY <2>2, <2>3
<1>5. \E f : Stepped(f)
  <2> DEFINE step == [q \in (1 .. N) \X A |-> WithSource(G, E, sources, q[1], sinks, D, limit, q[2])]
  <2>1. <<>> \in A
    OBVIOUS
  <2> HIDE DEF A
  <2>2. /\ step \in [(1 .. N) \X A -> A]
        /\ \A i \in 1 .. N : \A s \in A :
              step[<<i, s>>] = WithSource(G, E, sources, i, sinks, D, limit, s)
    BY <1>4
  <2> HIDE DEF step
  <2>a. PICK f : Recurring(f, A, <<>>, N, step)
    BY <1>3, <2>1, <2>2, StepwiseExists DEF Mapping
  <2>3. f \in [0 .. N -> A] /\ f[0] = <<>> /\ \A i \in 1 .. N : f[i] = step[<<i, f[i - 1]>>]
    BY <2>a DEF Recurring
  <2>4. ASSUME NEW i \in 0 .. N
        PROVE  f[i] = IF i = 0 THEN <<>>
                      ELSE WithSource(G, E, sources, i, sinks, D, limit, f[i - 1])
    <3>1. CASE i = 0
      BY <2>3, <3>1
    <3>2. CASE i # 0
      <4>1. i \in 1 .. N /\ i - 1 \in 0 .. N
        BY <1>3, <3>2
      <4>2. f[i - 1] \in A
        BY <2>3, <4>1
      <4> QED
        BY <2>2, <2>3, <3>2, <4>1, <4>2
    <3> QED
      BY <3>1, <3>2
  <2>5. Stepped(f)
    BY <2>3, <2>4
  <2> QED
    BY <2>5
<1>6. Stepped(U)
  BY <1>5
<1> HIDE DEF U
<1>7. /\ U[0] = <<>>
      /\ \A i \in 1 .. N : U[i] = WithSource(G, E, sources, i, sinks, D, limit, U[i - 1])
  <2>1. 0 \in 0 .. N /\ \A i \in 1 .. N : i \in 0 .. N /\ i # 0
    BY <1>3
  <2> QED
    BY <1>6, <2>1
<1> DEFINE P == {i \in Nat : i <= N => Rounds(flows, B, D, sources, sinks, limit, i, U[i])}
<1>8. 0 \in P
  <2>1. <<>> \in Seq(Paths(flows)) /\ 1 .. Len(<<>>) = {} /\ Len(<<>>) = 0
    OBVIOUS
  <2>2. Injective(<<>>) /\ \A p : ~ Holds(<<>>, p)
    BY <2>1 DEF Injective, Holds
  <2>3. \A p : ~ Covered(B, D, sources, sinks, 0 + 1, 0, p)
    <3>1. \A a \in 1 .. Len(sources), b \in 1 .. Len(sinks) : ~ (a < 0 + 1) /\ ~ (b <= 0)
      BY DEF Asking
    <3> QED
      BY <3>1 DEF Covered
  <2>4. Gathered(flows, B, D, sources, sinks, limit, 0 + 1, 0, <<>>)
    BY <2>1, <2>2, <2>3 DEF Gathered
  <2>5. Len(<<>>) <= limit + Len(sinks)
    <3>1. Len(sinks) \in Nat
      BY DEF Asking
    <3> QED
      BY <2>1, <3>1
  <2> QED
    BY <1>7, <2>1, <2>4, <2>5 DEF Rounds
<1>9. ASSUME NEW i \in Nat, i \in P
      PROVE  i + 1 \in P
  <2> SUFFICES ASSUME i + 1 <= N
               PROVE  Rounds(flows, B, D, sources, sinks, limit, i + 1, U[i + 1])
    OBVIOUS
  <2>1. i + 1 \in 1 .. N /\ (i + 1) - 1 = i /\ i <= N
    BY <1>3
  <2>2. Rounds(flows, B, D, sources, sinks, limit, i, U[i])
    BY <1>9, <2>1
  <2>3. U[i + 1] = WithSource(G, E, sources, i + 1, sinks, D, limit, U[i])
    BY <1>7, <2>1
  <2>4. i + 1 <= Len(sources)
    BY DEF N
  <2> QED
    BY <2>2, <2>3, <2>4, OneSourceMore
<1> HIDE DEF P, Stepped
<1>10. Nat \subseteq P
  BY <1>8, <1>9, NumbersByInduction
<1>11. Rounds(flows, B, D, sources, sinks, limit, N, U[N])
  BY <1>3, <1>10 DEF P
<1>12. U[N] \in Seq(Paths(flows)) /\ Injective(U[N])
  BY <1>11 DEF Rounds, Gathered
<1>13. Rearranged(flows, U[N], FindFlows(G, flows, sources, sinks, D, limit))
  BY <1>2, <1>12, ShortestFirst
<1> QED
  BY <1>11, <1>13 DEF N

LEMMA MatchingListsNodes ==
    ASSUME NEW G, IsGraph(G), NEW flows, Flowing(G, flows), NEW query
    PROVE  /\ Matching(G, flows, query) \in Seq(FlowNodes(flows))
           /\ Injective(Matching(G, flows, query))
<1>1. PICK S : S = {x \in FlowNodes(flows) :
                Within(query, QualifiedName(G, x[1])
                                \o (IF x = Returned(flows, x[1]) THEN <<"return">>
                                    ELSE <<flows[x[1]].names[x[2]]>>))}
  OBVIOUS
<1> DEFINE key == [x \in S |-> x]
<1>2. Matching(G, flows, query) = ByKeys(key)
  BY <1>1 DEF Matching, InOrder
<1>3. S \subseteq FlowNodes(flows)
  BY <1>1
<1>4. IsFiniteSet(S)
  BY <1>3, FlowNodesAreFinite, FS_Subset
<1>5. ASSUME NEW x \in S
      PROVE  x \in [1 .. 2 -> Int]
  <2>1. x = <<x[1], x[2]>> /\ x[1] \in Int /\ x[2] \in Int
    BY <1>3, FlowNodesAreFinite
  <2>2. PICK a \in Int, b \in Int : x = <<a, b>>
    BY <2>1
  <2> QED
    BY <2>2
<1>6. /\ DOMAIN key = S /\ 2 \in Nat
      /\ \A x \in S : key[x] \in [1 .. 2 -> Int]
      /\ \A x, y \in S : key[x] = key[y] => x = y
  BY <1>5
<1> HIDE DEF key
<1>7. /\ ByKeys(key) \in Seq(S)
      /\ \A i, j \in 1 .. Len(ByKeys(key)) : ByKeys(key)[i] = ByKeys(key)[j] => i = j
  BY <1>4, <1>6, SortedIsASequence
<1>8. PICK r : r = ByKeys(key)
  OBVIOUS
<1>9. r \in Seq(FlowNodes(flows))
  <2>1. r \in Seq(S)
    BY <1>7, <1>8
  <2>2. PICK n \in Nat : n = Len(r)
    BY <2>1, LenProperties
  <2>3. r \in [1 .. n -> S]
    BY <2>1, <2>2, LenProperties
  <2>4. r \in [1 .. n -> FlowNodes(flows)]
    BY <1>3, <2>3
  <2> QED
    BY <2>4, PlacesMakeASequence
<1>10. Injective(r)
  BY <1>7, <1>8 DEF Injective
<1> QED
  BY <1>2, <1>8, <1>9, <1>10

\* The walks of the reference definition.
AllSimple(B, sinks, D, p) ==
    \E k \in 1 .. D : p \in B[k] /\ Simple(p) /\ Last(p).at \in sinks

LEMMA OnwardWalks ==
    ASSUME NEW E, NEW W
    PROVE  \A p : p \in OneFurther(E, W)
                    <=> \E q \in W : \E e \in E : e.from = Last(q).at /\ p = Append(q, After(e))
<1> DEFINE Of(q) == {Append(q, [at |-> e.to, sure |-> e.sure]) : e \in {e \in E : e.from = Last(q).at}}
<1>1. OneFurther(E, W) = UNION {Of(q) : q \in W}
  BY DEF OneFurther
<1>2. \A q : \A p : p \in Of(q) <=> \E e \in E : e.from = Last(q).at /\ p = Append(q, After(e))
  BY DEF After
<1> HIDE DEF Of
<1>3. \A p : p \in UNION {Of(q) : q \in W} <=> \E q \in W : p \in Of(q)
  OBVIOUS
<1> QED
  BY <1>1, <1>2, <1>3

LEMMA ReferenceWalks ==
    ASSUME NEW G, IsGraph(G), NEW flows, Flowing(G, flows), NEW E, E \subseteq FlowLinks(flows),
           NEW S, S \subseteq FlowNodes(flows), NEW D \in Nat, NEW sinks
    PROVE  \E B : /\ Walks(flows, E, S, D, B)
                  /\ \A p : p \in SimplePaths(E, S, sinks, D) <=> AllSimple(B, sinks, D, p)
<1> DEFINE A == SUBSET Paths(flows)
           first == {<<[at |-> s, sure |-> TRUE]>> : s \in S}
           Stepped(g) == g = [k \in 0 .. D |-> IF k = 0 THEN {<<[at |-> s, sure |-> TRUE]>> : s \in S}
                                              ELSE OneFurther(E, g[k - 1])]
           U == CHOOSE g : Stepped(g)
           fit(p) == /\ \A i, j \in DOMAIN p : i # j => p[i].at # p[j].at
                     /\ Last(p).at \in sinks
<1>1. SimplePaths(E, S, sinks, D) = UNION {{p \in U[k] : fit(p)} : k \in 1 .. D}
  BY DEF SimplePaths
<1>2. first \in A
  <2>1. ASSUME NEW s \in S
        PROVE  <<[at |-> s, sure |-> TRUE]>> \in Paths(flows)
    <3>1. PICK x : x = [at |-> s, sure |-> TRUE]
      OBVIOUS
    <3>2. x \in Passing(flows)
      BY <3>1 DEF Passing
    <3>3. <<x>> \in Seq(Passing(flows))
      BY <3>2
    <3> QED
      BY <3>1, <3>3 DEF Paths
  <2> QED
    BY <2>1
<1>3. \A W \in A : OneFurther(E, W) \in A
  <2> SUFFICES ASSUME NEW W \in A, NEW p \in OneFurther(E, W)
               PROVE  p \in Paths(flows)
    OBVIOUS
  <2>1. PICK q \in W : \E e \in E : p = Append(q, After(e))
    BY OnwardWalks
  <2>2. PICK e \in E : p = Append(q, After(e))
    BY <2>1
  <2>3. q \in Seq(Passing(flows)) /\ After(e) \in Passing(flows)
    BY LinksAreParts DEF Paths
  <2> QED
    BY <2>2, <2>3, AppendProperties DEF Paths
<1>4. \E f : Stepped(f)
  <2> DEFINE step == [q \in (1 .. D) \X A |-> OneFurther(E, q[2])]
  <2> HIDE DEF A, first
  <2>2. /\ step \in [(1 .. D) \X A -> A]
        /\ \A k \in 1 .. D : \A W \in A : step[<<k, W>>] = OneFurther(E, W)
    BY <1>3
  <2> HIDE DEF step
  <2>a. PICK f : Recurring(f, A, first, D, step)
    BY <1>2, <2>2, StepwiseExists DEF Mapping
  <2>3. f \in [0 .. D -> A] /\ f[0] = first /\ \A k \in 1 .. D : f[k] = step[<<k, f[k - 1]>>]
    BY <2>a DEF Recurring
  <2>4. ASSUME NEW k \in 0 .. D
        PROVE  f[k] = IF k = 0 THEN first ELSE OneFurther(E, f[k - 1])
    <3>1. CASE k = 0
      BY <2>3, <3>1
    <3>2. CASE k # 0
      <4>1. k \in 1 .. D /\ k - 1 \in 0 .. D
        BY <3>2
      <4>2. f[k - 1] \in A
        BY <2>3, <4>1
      <4> QED
        BY <2>2, <2>3, <3>2, <4>1, <4>2
    <3> QED
      BY <3>1, <3>2
  <2>5. f = [k \in 0 .. D |-> IF k = 0 THEN first ELSE OneFurther(E, f[k - 1])]
    BY <2>3, <2>4
  <2>6. Stepped(f)
    BY <2>5 DEF first
  <2> QED
    BY <2>6
<1>5. Stepped(U)
  BY <1>4
<1>6. U = [k \in 0 .. D |-> IF k = 0 THEN first ELSE OneFurther(E, U[k - 1])]
  BY <1>5
<1> HIDE DEF U, Stepped, A
<1>7. U[0] = first /\ \A k \in 1 .. D : U[k] = OneFurther(E, U[k - 1])
  <2> HIDE DEF first
  <2>1. 0 \in 0 .. D /\ \A k \in 1 .. D : k \in 0 .. D /\ k # 0
    OBVIOUS
  <2> QED
    BY <1>6, <2>1
<1>8. Walks(flows, E, S, D, U)
  <2>1. \A p : p \in U[0] <=> \E s \in S : p = Begun(s)
    BY <1>7 DEF Begun
  <2>2. \A k \in 1 .. D : \A p :
          p \in U[k] <=> \E q \in U[k - 1] : \E e \in E : e.from = Last(q).at /\ p = Append(q, After(e))
    BY <1>7, OnwardWalks
  <2> QED
    BY <2>1, <2>2 DEF Walks
<1>9. ASSUME NEW p
      PROVE  p \in SimplePaths(E, S, sinks, D) <=> AllSimple(U, sinks, D, p)
  <2>1. p \in SimplePaths(E, S, sinks, D) <=> \E k \in 1 .. D : p \in U[k] /\ fit(p)
    <3> HIDE DEF fit, first
    <3> QED
      BY <1>1
  <2>2. ASSUME NEW k \in 1 .. D, p \in U[k]
        PROVE  fit(p) <=> Simple(p) /\ Last(p).at \in sinks
    <3>1. IsPath(flows, k, p)
      BY <1>8, <2>2, WalksAreTyped
    <3>2. DOMAIN p = 1 .. Len(p)
      BY <3>1, LenProperties DEF IsPath, Paths
    <3> QED
      BY <3>2 DEF Simple
  <2> HIDE DEF fit
  <2> QED
    BY <2>1, <2>2 DEF AllSimple
<1> QED
  BY <1>8, <1>9

\* What the property says of the paths found.
FoundFully(all, sinks, limit, r) ==
    /\ ToSet(r) \subseteq all
    /\ Len(r) = Cardinality(ToSet(r))
    /\ ToSet(r) # all => Len(r) >= limit
    /\ Len(r) <= limit + Cardinality(sinks)

LEMMA FlowsAreFoundFully ==
    ASSUME NEW G, IsGraph(G), NEW flows, Flowing(G, flows), NEW from, NEW to,
           NEW D \in Nat, NEW limit \in Nat, NEW S, NEW T, NEW r,
           S = ToSet(Matching(G, flows, from)), T = ToSet(Matching(G, flows, to)),
           r = FindFlows(G, flows, Matching(G, flows, from), Matching(G, flows, to), D, limit)
    PROVE  FoundFully(SimplePaths(FlowEdges(G, flows), S, T, D), T, limit, r)
<1>1. PICK sources : sources = Matching(G, flows, from)
  OBVIOUS
<1>2. PICK sinks : sinks = Matching(G, flows, to)
  OBVIOUS
<1>3. PICK E : E = FlowEdges(G, flows)
  OBVIOUS
<1>4. E \subseteq FlowLinks(flows) /\ IsFiniteSet(E)
  BY <1>3, FlowEdgesAreTyped
<1>5. sources \in Seq(FlowNodes(flows)) /\ Injective(sources)
  BY <1>1, MatchingListsNodes
<1>6. sinks \in Seq(FlowNodes(flows)) /\ Injective(sinks)
  BY <1>2, MatchingListsNodes
<1>7. S = ToSet(sources)
  BY <1>1
<1>8. T = ToSet(sinks)
  BY <1>2
<1>9. /\ Len(sources) \in Nat /\ \A x : x \in S <=> Holds(sources, x)
  BY <1>5, <1>7, InjectiveCounts
<1>10. /\ Len(sinks) \in Nat /\ Len(sinks) = Cardinality(T)
       /\ \A x : x \in T <=> Holds(sinks, x)
  BY <1>6, <1>8, InjectiveCounts
<1>11. S \subseteq FlowNodes(flows) /\ \A i \in 1 .. Len(sources) : sources[i] \in S
  <2>1. \A i \in 1 .. Len(sources) : sources[i] \in FlowNodes(flows)
    BY <1>5, LenProperties
  <2> QED
    BY <1>9, <2>1 DEF Holds
<1>12. PICK B : /\ Walks(flows, E, S, D, B)
                /\ \A p : p \in SimplePaths(E, S, T, D) <=> AllSimple(B, T, D, p)
  BY <1>4, <1>11, ReferenceWalks
<1>13. PICK all : all = SimplePaths(E, S, T, D)
  OBVIOUS
<1>14. Asking(G, flows, E, S, D, B, sources, sinks)
  BY <1>4, <1>5, <1>6, <1>9, <1>10, <1>11, <1>12 DEF Asking
<1>15. r = FindFlows(G, flows, sources, sinks, D, limit)
  BY <1>1, <1>2
<1>16. PICK s : /\ Rounds(flows, B, D, sources, sinks, limit, Len(sources), s)
                /\ Rearranged(flows, s, r)
  BY <1>3, <1>14, <1>15, FlowsAreGathered
<1>17. /\ Gathered(flows, B, D, sources, sinks, limit, Len(sources) + 1, 0, s)
       /\ Len(s) <= limit + Len(sinks)
  BY <1>16 DEF Rounds
<1>18. /\ r \in Seq(Paths(flows)) /\ Injective(r) /\ Len(r) = Len(s)
       /\ \A p : Holds(r, p) <=> Holds(s, p)
  BY <1>16 DEF Rearranged
<1>19. Len(r) = Cardinality(ToSet(r)) /\ \A p : p \in ToSet(r) <=> Holds(r, p)
  BY <1>18, InjectiveCounts
<1>20. ASSUME NEW p, Holds(r, p)
       PROVE  p \in all
  <2>1. Covered(B, D, sources, sinks, Len(sources) + 1, 0, p)
    BY <1>17, <1>18, <1>20 DEF Gathered
  <2>2. PICK a \in 1 .. Len(sources), b \in 1 .. Len(sinks) : FlowsTo(B, D, sources[a], sinks[b], p)
    BY <2>1 DEF Covered
  <2>3. PICK k \in 1 .. D : p \in B[k] /\ Simple(p) /\ Last(p).at = sinks[b]
    BY <2>2 DEF FlowsTo
  <2>4. Last(p).at \in T
    BY <1>10, <2>3 DEF Holds
  <2> QED
    BY <1>12, <1>13, <2>3, <2>4 DEF AllSimple
<1>21. ASSUME NEW p \in all
       PROVE  Covered(B, D, sources, sinks, Len(sources) + 1, 0, p)
  <2>1. PICK k \in 1 .. D : p \in B[k] /\ Simple(p) /\ Last(p).at \in T
    BY <1>12, <1>13 DEF AllSimple
  <2>2. IsPath(flows, k, p) /\ p[1].at \in S
    BY <1>12, <2>1, WalksAreTyped
  <2>3. PICK a \in 1 .. Len(sources) : sources[a] = p[1].at
    BY <1>9, <2>2 DEF Holds
  <2>4. PICK b \in 1 .. Len(sinks) : sinks[b] = Last(p).at
    BY <1>10, <2>1 DEF Holds
  <2>5. p[1].at # Last(p).at
    <3>1. Len(p) = k + 1 /\ p \in Seq(Passing(flows)) /\ p # <<>>
      BY <2>2 DEF IsPath, Paths
    <3>2. Last(p) = p[Len(p)]
      BY DEF Last
    <3>3. 1 \in 1 .. Len(p) /\ k + 1 \in 1 .. Len(p) /\ 1 # k + 1
      BY <3>1
    <3>4. p[1].at # p[k + 1].at
      BY <2>1, <3>3 DEF Simple
    <3> QED
      BY <3>1, <3>2, <3>4
  <2>6. FlowsTo(B, D, sources[a], sinks[b], p)
    BY <2>1, <2>3, <2>4 DEF FlowsTo
  <2>7. a < Len(sources) + 1
    BY <1>9
  <2> QED
    BY <2>3, <2>4, <2>5, <2>6, <2>7 DEF Covered
<1>22. Len(r) >= limit \/ \A p \in all : p \in ToSet(r)
  BY <1>17, <1>18, <1>19, <1>21 DEF Gathered
<1>23. ToSet(r) \subseteq all
  BY <1>19, <1>20
<1>24. ToSet(r) # all => Len(r) >= limit
  BY <1>22, <1>23
<1>25. Len(r) <= limit + Cardinality(T)
  BY <1>10, <1>17, <1>18
<1>26. FoundFully(all, T, limit, r)
  BY <1>19, <1>23, <1>24, <1>25 DEF FoundFully
<1> QED
  BY <1>3, <1>13, <1>26

LEMMA DerivedFlowsAreFound == AnswerIsDerived => FlowsAreSimplePaths
<1> SUFFICES ASSUME AnswerIsDerived, Is("flows")
             PROVE  FlowsAreSimplePaths
  BY Zenon DEF FlowsAreSimplePaths
<1>1. graph \in Asked /\ FlowsGiven(graph, answer.args, answer.result)
  BY DEF AnswerIsDerived
<1>2. IsGraph(graph) /\ Flowing(graph, graph.flows)
  BY <1>1, QuestionsAssumption, FlowsAssumption DEF Flowing
<1>3. PICK from \in Words, to \in Words, depth \in Depths, limit \in Sizes :
        /\ answer.args = [sources |-> ToSet(Matching(graph, graph.flows, from)),
                          sinks |-> ToSet(Matching(graph, graph.flows, to)),
                          depth |-> depth, limit |-> limit]
        /\ answer.result = FindFlows(graph, graph.flows, Matching(graph, graph.flows, from),
                                     Matching(graph, graph.flows, to), depth, limit)
  BY <1>1, Zenon DEF FlowsGiven
<1>4. depth \in Nat /\ limit \in Nat
  BY LimitsAssumption
<1>5. PICK a : a = answer.args
  OBVIOUS
<1>6. /\ a.sources = ToSet(Matching(graph, graph.flows, from))
      /\ a.sinks = ToSet(Matching(graph, graph.flows, to)) /\ a.depth = depth /\ a.limit = limit
  BY <1>3, <1>5
<1>7. FoundFully(SimplePaths(FlowEdges(graph, graph.flows), a.sources, a.sinks, a.depth),
                 a.sinks, a.limit, answer.result)
  BY <1>2, <1>3, <1>4, <1>6, FlowsAreFoundFully
<1> QED
  BY <1>5, <1>7, Zenon DEF FlowsAreSimplePaths, FoundFully

\* Whatever flows the functions have and whatever is asked for: the paths
\* of trace_flow are walks from a source to a sink that pass no node twice,
\* each listed once; one is missing only if there are as many as asked for,
\* and there is at most one more for each sink.
THEOREM FlowsStaySimplePaths == Spec => []FlowsAreSimplePaths
<1>1. Init => AnswerIsDerived
  BY InitIsDerived
<1>2. AnswerIsDerived /\ [Next]_<<vars, answer>> => AnswerIsDerived'
  BY NextKeepsTheAnswerDerived
<1>3. AnswerIsDerived => FlowsAreSimplePaths
  BY DerivedFlowsAreFound
<1> QED
  BY <1>1, <1>2, <1>3, PTL DEF Spec
=============================================================================
