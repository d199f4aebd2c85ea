---------------------------- MODULE WorkspaceProofs ----------------------------
(***************************************************************************)
(* What the incremental workspace guarantees for every set of paths, every *)
(* contents and every batch of changes.                                    *)
(*                                                                         *)
(* How a name is resolved does not matter for it, only that it is resolved *)
(* to a node of the graph.  What matters are the files a batch looks at    *)
(* again: those that changed are among them, they are closed under the     *)
(* dependents the graph knows, and what is built anew is closed under      *)
(* neighbours but for files that are resolved again anyway.                *)
(***************************************************************************)
EXTENDS Workspace, NumberLemmas, FiniteSetTheorems

-----------------------------------------------------------------------------
(* Closures.                                                               *)

\* What the recursive function of Closure is, and that it exists.
Growth(next, seed, n, g) ==
    g = [i \in 0 .. n |-> IF i = 0 THEN seed
                          ELSE g[i - 1] \cup UNION {next[f] : f \in g[i - 1]}]

LEMMA GrowthExists ==
    ASSUME NEW next, NEW seed
    PROVE  \A n \in Nat : \E g : Growth(next, seed, n, g)
<1> USE DEF Growth
<1> DEFINE Exists(n) == \E g : Growth(next, seed, n, g)
           S == {n \in Nat : Exists(n)}
<1>1. Exists(0)
  <2> DEFINE g == [i \in 0 .. 0 |-> seed]
  <2>1. g = [i \in 0 .. 0 |->
               IF i = 0 THEN seed
               ELSE g[i - 1] \cup UNION {next[f] : f \in g[i - 1]}]
    OBVIOUS
  <2> QED
    BY <2>1
<1>2. ASSUME NEW n \in Nat, Exists(n)
      PROVE  Exists(n + 1)
  <2>1. PICK g : g = [i \in 0 .. n |->
                    IF i = 0 THEN seed
                    ELSE g[i - 1] \cup UNION {next[f] : f \in g[i - 1]}]
    BY <1>2
  <2> DEFINE h == [i \in 0 .. (n + 1) |->
                     IF i = n + 1 THEN g[n] \cup UNION {next[f] : f \in g[n]}
                     ELSE g[i]]
             value(i) == IF i = 0 THEN seed
                         ELSE h[i - 1] \cup UNION {next[f] : f \in h[i - 1]}
  <2>2. ASSUME NEW i \in 0 .. (n + 1)
        PROVE  h[i] = value(i)
    <3>1. CASE i = n + 1
      <4>1. i # 0 /\ i - 1 = n /\ n \in 0 .. (n + 1) /\ n # n + 1
        BY <3>1
      <4>2. h[n] = g[n]
        BY <4>1
      <4>3. h[i] = g[n] \cup UNION {next[f] : f \in g[n]}
        BY <3>1
      <4> HIDE DEF h
      <4> QED
        BY <4>1, <4>2, <4>3
    <3>2. CASE i # n + 1
      <4>1. i \in 0 .. n /\ h[i] = g[i]
        BY <3>2
      <4>2. CASE i = 0
        <5>1. g[i] = seed
          BY <2>1, <4>1, <4>2
        <5> QED
          BY <4>1, <4>2, <5>1
      <4>3. CASE i # 0
        <5>1. i - 1 \in 0 .. (n + 1) /\ i - 1 # n + 1
          BY <4>1, <4>3
        <5>2. h[i - 1] = g[i - 1]
          BY <5>1
        <5>3. g[i] = g[i - 1] \cup UNION {next[f] : f \in g[i - 1]}
          BY <2>1, <4>1, <4>3
        <5> HIDE DEF h
        <5> QED
          BY <4>1, <4>3, <5>2, <5>3
      <4> QED
        BY <4>2, <4>3
    <3> QED
      BY <3>1, <3>2
  <2>3. h = [i \in 0 .. (n + 1) |-> h[i]]
    OBVIOUS
  <2>4. h = [i \in 0 .. (n + 1) |-> value(i)]
    <3> HIDE DEF h
    <3> QED
      BY <2>2, <2>3
  <2> HIDE DEF h
  <2> QED
    BY <2>4
<1> HIDE DEF Exists
<1>3. 0 \in S /\ \A n \in Nat : n \in S => n + 1 \in S
  BY <1>1, <1>2
<1> HIDE DEF S
<1>4. Nat \subseteq S
  BY <1>3, NumbersByInduction
<1> QED
  BY <1>4 DEF S, Exists

\* A closure over a finite set holds its seed and whatever follows from it.
LEMMA ClosureCloses ==
    ASSUME NEW next, NEW seed, seed \subseteq Paths,
           \A f \in Paths : next[f] \subseteq Paths
    PROVE  /\ seed \subseteq Closure(next, seed)
           /\ Closure(next, seed) \subseteq Paths
           /\ \A f \in Closure(next, seed) : next[f] \subseteq Closure(next, seed)
<1> DEFINE N == Cardinality(Paths)
           More(S) == S \cup UNION {next[f] : f \in S}
           Grown(g) == g = [i \in 0 .. N |-> IF i = 0 THEN seed ELSE More(g[i - 1])]
           c == CHOOSE g : Grown(g)
<1>1. IsFiniteSet(Paths) /\ N \in Nat
  BY ParametersOK, FS_CardinalityType
<1>2. Grown(c)
  <2>1. \E g : Growth(next, seed, N, g)
    BY <1>1, GrowthExists
  <2> QED
    BY <2>1 DEF Growth
<1>3. Closure(next, seed) = c[N]
  BY DEF Closure
<1> HIDE DEF c
<1>4. c[0] = seed
  <2>1. 0 \in 0 .. N
    BY <1>1
  <2> QED
    BY <1>2, <2>1
<1>5. \A n \in Nat : n + 1 <= N => c[n + 1] = More(c[n])
  <2> SUFFICES ASSUME NEW n \in Nat, n + 1 <= N
               PROVE  c[n + 1] = More(c[n])
    OBVIOUS
  <2>1. n + 1 \in 0 .. N /\ n + 1 # 0 /\ (n + 1) - 1 = n
    BY <1>1
  <2> HIDE DEF N, More
  <2> QED
    BY <1>2, <2>1
<1> DEFINE Sound(n) == seed \subseteq c[n] /\ c[n] \subseteq Paths
           Fixed(n) == More(c[n]) = c[n]
           Full(n) == Fixed(n) \/ Cardinality(c[n]) >= n
           S == {n \in Nat : n <= N => Sound(n) /\ Full(n)}
<1>6. 0 \in S
  <2>1. Cardinality(c[0]) \in Nat
    BY <1>1, <1>4, FS_Subset, FS_CardinalityType
  <2> QED
    BY <1>4, <2>1
<1>7. ASSUME NEW n \in Nat, n \in S, n + 1 <= N
      PROVE  Sound(n + 1) /\ Full(n + 1)
  <2>1. Sound(n) /\ Full(n)
    BY <1>1, <1>7
  <2>2. c[n + 1] = More(c[n])
    BY <1>5, <1>7
  <2>3. Sound(n + 1)
    BY <2>1, <2>2
  <2>4. CASE Fixed(n)
    <3>1. c[n + 1] = c[n]
      BY <2>2, <2>4
    <3>2. Fixed(n + 1)
      BY <2>4, <3>1
    <3> QED
      BY <2>3, <3>2
  <2>5. CASE ~Fixed(n)
    <3>1. Cardinality(c[n]) >= n
      BY <2>1, <2>5
    <3>2. c[n] \subseteq c[n + 1] /\ c[n] # c[n + 1]
      BY <2>2, <2>5
    <3>3. IsFiniteSet(c[n + 1])
      BY <1>1, <2>3, FS_Subset
    <3>4. IsFiniteSet(c[n])
      BY <3>2, <3>3, FS_Subset
    <3>5. /\ Cardinality(c[n]) \in Nat /\ Cardinality(c[n + 1]) \in Nat
      BY <3>3, <3>4, FS_CardinalityType
    <3>6. /\ Cardinality(c[n]) <= Cardinality(c[n + 1])
          /\ Cardinality(c[n]) # Cardinality(c[n + 1])
      BY <3>2, <3>3, <3>5, FS_Subset
    <3>7. Cardinality(c[n + 1]) >= n + 1
      BY <3>1, <3>5, <3>6
    <3> QED
      BY <2>3, <3>7
  <2> QED
    BY <2>4, <2>5
<1>8. N \in S
  <2>1. \A n \in Nat : n \in S => n + 1 \in S
    BY <1>7
  <2> HIDE DEF S
  <2> QED
    BY <1>1, <1>6, <2>1, NumbersByInduction
<1>9. Sound(N) /\ Full(N)
  BY <1>1, <1>8
<1>10. Fixed(N)
  <2>1. CASE Cardinality(c[N]) >= N
    <3>1. IsFiniteSet(c[N]) /\ Cardinality(c[N]) \in Nat /\ Cardinality(c[N]) <= N
      BY <1>1, <1>9, FS_Subset, FS_CardinalityType
    <3>2. Cardinality(c[N]) = Cardinality(Paths)
      BY <1>1, <2>1, <3>1
    <3>3. c[N] = Paths
      BY <1>1, <1>9, <3>2, FS_Subset
    <3> QED
      BY <3>3
  <2> QED
    BY <1>9, <2>1
<1> QED
  BY <1>3, <1>9, <1>10

-----------------------------------------------------------------------------
(* Whatever a name is resolved to is a node.                               *)

LEMMA SelectOne == ASSUME NEW X PROVE (CHOOSE o \in {Select(c) : c \in {X}} : TRUE) = Select(X)
OBVIOUS

\* A candidate of a resolution comes from one of its reasons.
LEMMA OutcomeIsCandidate ==
    ASSUME NEW reasons, NEW nodes,
           \A i \in DOMAIN reasons : \A c \in reasons[i] : c.node \in nodes,
           Outcome(reasons).state = "resolved"
    PROVE  Outcome(reasons).target \in nodes
<1> DEFINE cands == Collected(reasons)
           best == Best(cands)
           only == CHOOSE c \in best : TRUE
<1>1. Outcome(reasons) = Select(cands)
  BY SelectOne DEF Outcome
<1>2. \A c \in cands : c.node \in nodes
  BY DEF Collected
<1>3. best \subseteq cands
  BY DEF Best
<1>4. Select(cands) = IF best = {} THEN Unresolved
                      ELSE IF Cardinality(best) > 1 THEN Ambiguous
                      ELSE [state |-> "resolved", target |-> only.node, sure |-> only.sure]
  BY DEF Select
<1>5. Unresolved.state # "resolved" /\ Ambiguous.state # "resolved"
  BY DEF Unresolved, Ambiguous
<1> HIDE DEF cands, best
<1>6. best # {} /\ Select(cands).target = only.node
  BY <1>1, <1>4, <1>5
<1>7. only \in best
  BY <1>6
<1> QED
  BY <1>1, <1>2, <1>3, <1>6, <1>7

LEMMA LexicalIsNode ==
    ASSUME NEW E, NEW file, NEW caller, NEW name
    PROVE  \A c \in Lexical(E, file, caller, name) : c.node \in Named(E, name)
BY DEF Lexical, InScope, Candidates

LEMMA NamedAreNodes == ASSUME NEW E, NEW name PROVE Named(E, name) \subseteq E.nodes
BY DEF Named

LEMMA CallTargetIsNode ==
    ASSUME NEW E, NEW linked, NEW file, NEW caller, NEW callee,
           ResolveCall(E, linked, file, caller, callee).state = "resolved"
    PROVE  ResolveCall(E, linked, file, caller, callee).target \in E.nodes
<1> DEFINE imported == ImportedFiles(E, file) \cup linked
           dirs == FileDirectives(E, file)
           named == Named(E, callee)
           aliased ==
               UNION {LET match(n) == MatchesTarget(n.file, b.target)
                                        \/ MatchesTarget(b.target, n.file)
                          here == {n \in Named(E, Remote(b, callee)) : SameLanguage(E, caller, n)}
                      IN  Candidates({n \in here : match(n) \/ (n.file \in imported /\ Remote(b, callee) # callee)}, 3, TRUE)
                          \cup Candidates({n \in here : ~match(n) /\ n.file \in imported
                                                          /\ Remote(b, callee) = callee}, 4, TRUE)
                      : b \in Bound(dirs, callee)}
           says(d, n) ==
               IF d.sym # None
               THEN d.sym \in {callee, Star} /\ MatchesTarget(n.file, d.target)
               ELSE /\ d.target # <<>> /\ Last(d.target) = callee
                    /\ MatchesTarget(n.file, d.target) \/ MatchesTarget(d.target, n.file)
           direct == {n \in named : SameLanguage(E, caller, n)
                                      /\ \E i \in DOMAIN dirs : says(dirs[i], n)}
           members == {n \in named : n.kind = "method" /\ n.container # None}
           own == {n \in members : IsMethodOf(n.container, caller)}
           here2 == {n \in named : n.file = file}
           others == {n \in members \ own : n.file \in imported}
           linkedTo == {n \in named : n.file # file /\ n.file \in imported}
           reasons == <<Lexical(E, file, caller, callee),
                      Candidates(here2, 2, TRUE),
                      aliased,
                      Candidates(direct, 4, TRUE),
                      Candidates(own, 2, FALSE),
                      Candidates(others, 5, FALSE),
                      Candidates(linkedTo, 4, TRUE)>>
<1>1. ResolveCall(E, linked, file, caller, callee) = Outcome(reasons)
  BY Zenon DEF ResolveCall
<1>2. \A c \in Lexical(E, file, caller, callee) : c.node \in E.nodes
  BY LexicalIsNode, NamedAreNodes
<1>3. \A c \in aliased : c.node \in E.nodes
  BY NamedAreNodes DEF Candidates
<1>4. /\ here2 \subseteq E.nodes /\ direct \subseteq E.nodes /\ own \subseteq E.nodes
      /\ others \subseteq E.nodes /\ linkedTo \subseteq E.nodes
  BY NamedAreNodes
<1> HIDE DEF aliased, here2, direct, own, others, linkedTo
<1>5. \A i \in DOMAIN reasons : \A c \in reasons[i] : c.node \in E.nodes
  BY <1>2, <1>3, <1>4 DEF Candidates
<1> HIDE DEF reasons
<1> QED
  BY <1>1, <1>5, OutcomeIsCandidate

LEMMA ReferenceTargetIsNode ==
    ASSUME NEW E, NEW file, NEW caller, NEW name, NEW kind, NEW context,
           ResolveReference(E, file, caller, name, kind, context).state = "resolved"
    PROVE  ResolveReference(E, file, caller, name, kind, context).target \in E.nodes
<1> DEFINE fits(n) == /\ n.kind \in Allowed(kind)
                      /\ context = None \/ n.container \in {None, context}
           named == {n \in Named(E, name) : fits(n)}
           imported == ImportedFiles(E, file)
           dirs == FileDirectives(E, file)
           lexical == IF caller = NoNode THEN {}
                      ELSE {c \in Lexical(E, file, caller, name) : fits(c.node)}
           here == {n \in named : n.file = file}
           inside == {n \in here : context # None /\ n.container = context}
           nodes(l) == {n \in Named(E, LeadName(l)) : fits(n)
                           /\ (caller = NoNode \/ SameLanguage(E, caller, n))}
           atEnd(l, n) == MatchesTarget(n.file, LeadFile(l))
           near(l) == {n \in nodes(l) : \/ atEnd(l, n) \/ n.file \in imported
                                        \/ MatchesTarget(n.file, l.target)}
           meant(l) == {[node |-> n,
                         priority |-> IF atEnd(l, n) \/ l.sought # name THEN 3 ELSE 4,
                         sure |-> TRUE] : n \in near(l)}
           aliased == UNION {meant(l) :
               l \in Leads(E, file, name, {[target |-> b.target, sym |-> b.remote] :
                                              b \in Bound(dirs, name)})}
           passed ==
               UNION {{n \in Named(E, l.trace.name) : fits(n) /\ MatchesTarget(n.file, l.trace.file)} :
                        l \in {l \in Leads(E, file, name, {[target |-> d.target, sym |-> d.sym] :
                                                             d \in ToSet(dirs)}) :
                                 l.sought \in {name, Star} /\ l.trace.found}}
           members == {n \in named : n.container # None}
           own == {n \in members : caller # NoNode
                      /\ (IsMethodOf(n.container, caller) \/ caller.container = n.container)}
           typeKnown(t) == \/ Bound(dirs, t) # {}
                           \/ \E i \in DOMAIN dirs : t \in {dirs[i].sym, dirs[i].alias}
           outside == here \ inside
           others == {n \in members \ own : typeKnown(n.container)
                                                \/ n.file \in imported}
           linkedTo == {n \in named : n.file # file /\ n.file \in imported}
           reasons == <<lexical,
                      Candidates(inside, 1, TRUE),
                      Candidates(outside, 2, TRUE),
                      aliased,
                      Candidates(passed, 4, TRUE),
                      Candidates(own, 2, FALSE),
                      Candidates(others, 5, FALSE),
                      Candidates(linkedTo, 6, FALSE)>>
<1>1. ResolveReference(E, file, caller, name, kind, context) = Outcome(reasons)
  BY Zenon DEF ResolveReference
<1>2. \A c \in lexical : c.node \in E.nodes
  BY LexicalIsNode, NamedAreNodes
<1>3. \A c \in aliased : c.node \in E.nodes
  <2> SUFFICES ASSUME NEW c \in aliased
               PROVE  c.node \in E.nodes
    OBVIOUS
  <2>1. PICK l : c \in meant(l)
    OBVIOUS
  <2>2. c.node \in near(l)
    <3> HIDE DEF near
    <3> QED
      BY <2>1
  <2> QED
    BY <2>2, NamedAreNodes
<1>4. passed \subseteq E.nodes
  BY NamedAreNodes
<1>5. /\ inside \subseteq E.nodes /\ outside \subseteq E.nodes /\ own \subseteq E.nodes
      /\ others \subseteq E.nodes /\ linkedTo \subseteq E.nodes
  BY NamedAreNodes
<1> HIDE DEF lexical, aliased, inside, outside, passed, own, others, linkedTo
<1>6. \A i \in DOMAIN reasons : \A c \in reasons[i] : c.node \in E.nodes
  BY <1>2, <1>3, <1>4, <1>5 DEF Candidates
<1> HIDE DEF reasons
<1> QED
  BY <1>1, <1>6, OutcomeIsCandidate

-----------------------------------------------------------------------------
(* The edges of a graph: their kinds, their ends, their confidence.        *)

Parsed(repo) ==
    /\ DOMAIN repo \subseteq Paths
    /\ \A f \in DOMAIN repo : repo[f] \in Contents(f)

Levels == {"extracted", "inferred", "resolved"}

Within(edges, kinds, nodes) ==
    \A e \in edges : /\ e.kind \in kinds /\ e.conf \in Levels
                     /\ e.from \in nodes /\ e.to \in nodes

MentionKinds == (UseKinds \ {"calls"}) \cup {"exports"}
OtherKinds == MentionKinds \cup {"contains", "calls"}

LEMMA KindsDiffer == "imports" \notin OtherKinds
BY DEF OtherKinds, MentionKinds, UseKinds

LEMMA EdgeFields ==
    ASSUME NEW kind, NEW from, NEW to, NEW conf, NEW label
    PROVE  /\ Edge(kind, from, to, conf, label).kind = kind
           /\ Edge(kind, from, to, conf, label).from = from
           /\ Edge(kind, from, to, conf, label).to = to
           /\ Edge(kind, from, to, conf, label).conf = conf
           /\ Edge(kind, from, to, conf, label).label = label
BY DEF Edge

LEMMA NodesAre ==
    ASSUME NEW repo, NEW n
    PROVE  n \in NodesOf(repo) <=>
              \E f \in DOMAIN repo :
                 n = FileNode(f) \/ \E s \in repo[f].symbols : n = SymbolNode(f, s)
BY DEF NodesOf

LEMMA NodesAreOf == \A f : FileNode(f).file = f /\ \A s : SymbolNode(f, s).file = f
BY DEF FileNode, SymbolNode

LEMMA FileNodes ==
    ASSUME NEW repo
    PROVE  /\ \A f : FileNode(f).file = f /\ FileNode(f).kind = "file"
           /\ \A f \in DOMAIN repo : FileNode(f) \in NodesOf(repo)
           /\ \A n \in NodesOf(repo) : n.file \in DOMAIN repo
<1>1. \A f : FileNode(f).file = f /\ FileNode(f).kind = "file"
  BY DEF FileNode
<1>2. \A f, s : SymbolNode(f, s).file = f
  BY DEF SymbolNode
<1> QED
  BY <1>1, <1>2, NodesAre

LEMMA NodesHaveKinds ==
    ASSUME NEW repo, Parsed(repo)
    PROVE  {n.kind : n \in NodesOf(repo)} \subseteq NodeKinds
<1> SUFFICES ASSUME NEW n \in NodesOf(repo)
             PROVE  n.kind \in NodeKinds
  OBVIOUS
<1>1. PICK f \in DOMAIN repo :
         n = FileNode(f) \/ \E s \in repo[f].symbols : n = SymbolNode(f, s)
  BY NodesAre
<1>2. CASE n = FileNode(f)
  BY <1>2 DEF FileNode, NodeKinds
<1>3. CASE \E s \in repo[f].symbols : n = SymbolNode(f, s)
  BY <1>3, ParametersOK DEF Parsed, SymbolNode
<1> QED
  BY <1>1, <1>2, <1>3

LEMMA ContainsWithin ==
    ASSUME NEW repo
    PROVE  Within(ContainsEdges(repo), {"contains"}, NodesOf(repo))
BY FileNodes, EdgeFields DEF ContainsEdges, Within, Levels

\* An edge of an import, and where it comes from.
LEMMA ImportEdgeIs ==
    ASSUME NEW repo, NEW fs, NEW e
    PROVE  e \in ImportEdges(repo, fs) <=>
              \E f \in fs : \E i \in DOMAIN repo[f].imports :
                 \E g \in ImportTarget(DOMAIN repo, repo[f].lang, f, repo[f].imports[i]) :
                    e = Edge("imports", FileNode(f), FileNode(g), "inferred",
                             repo[f].imports[i])
BY DEF ImportEdges

LEMMA ImportsWithin ==
    ASSUME NEW repo, NEW fs, fs \subseteq DOMAIN repo
    PROVE  Within(ImportEdges(repo, fs), {"imports"}, NodesOf(repo))
<1> SUFFICES ASSUME NEW e \in ImportEdges(repo, fs)
             PROVE  /\ e.kind = "imports" /\ e.conf \in Levels
                    /\ e.from \in NodesOf(repo) /\ e.to \in NodesOf(repo)
  BY DEF Within
<1>1. PICK f \in fs : \E i \in DOMAIN repo[f].imports :
         \E g \in ImportTarget(DOMAIN repo, repo[f].lang, f, repo[f].imports[i]) :
            e = Edge("imports", FileNode(f), FileNode(g), "inferred", repo[f].imports[i])
  BY ImportEdgeIs
<1>2. PICK g, label : /\ g \in DOMAIN repo
                      /\ e = Edge("imports", FileNode(f), FileNode(g), "inferred", label)
  BY <1>1 DEF ImportTarget
<1> QED
  BY <1>2, FileNodes, EdgeFields DEF Levels

LEMMA OriginIsNode ==
    ASSUME NEW nodes, NEW file, NEW name, NEW sole, FileNode(file) \in nodes
    PROVE  Origin(nodes, file, name, sole) \in nodes
BY DEF Origin, Origins

LEMMA GuessesWithin ==
    ASSUME NEW repo
    PROVE  Within(GuessedCalls(repo), {"calls"}, NodesOf(repo))
<1> SUFFICES ASSUME NEW e \in GuessedCalls(repo)
             PROVE  /\ e.kind = "calls" /\ e.conf \in Levels
                    /\ e.from \in NodesOf(repo) /\ e.to \in NodesOf(repo)
  BY DEF Within
<1> DEFINE edges(f) ==
              UNION {{Edge("calls", Origin(NodesOf(repo), f, u.from, TRUE), n, "inferred", None) :
                         n \in GuessedCall(repo, f, u)}
                     : u \in {u \in Calls(repo[f]) :
                                 Cardinality(Origins(NodesOf(repo), f, u.from)) = 1}}
<1>1. PICK f \in DOMAIN repo : e \in edges(f)
  <2>1. GuessedCalls(repo) = UNION {edges(f) : f \in DOMAIN repo}
    BY Zenon DEF GuessedCalls
  <2> HIDE DEF edges
  <2> QED
    BY <2>1
<1>2. PICK u, n :
         /\ n \in GuessedCall(repo, f, u)
         /\ e = Edge("calls", Origin(NodesOf(repo), f, u.from, TRUE), n, "inferred", None)
  BY <1>1, Zenon
<1>3. n \in NodesOf(repo)
  <2> DEFINE named == {m \in NodesOf(repo) : m.kind # "file" /\ m.name = u.name}
             here == {m \in named : m.file = f /\ u.name # u.from}
             there == {m \in named : /\ repo[m.file].lang = repo[f].lang
                                     /\ m.file \in Linked(repo, f)}
  <2>1. GuessedCall(repo, f, u) = IF Cardinality(here) = 1 THEN here
                                  ELSE IF Cardinality(there) = 1 THEN there ELSE {}
    BY Zenon DEF GuessedCall
  <2>2. here \subseteq NodesOf(repo) /\ there \subseteq NodesOf(repo)
    OBVIOUS
  <2> HIDE DEF here, there
  <2> QED
    BY <1>2, <2>1, <2>2
<1>4. Origin(NodesOf(repo), f, u.from, TRUE) \in NodesOf(repo)
  BY FileNodes, OriginIsNode
<1> HIDE DEF edges
<1>5. PICK from : from \in NodesOf(repo) /\ e = Edge("calls", from, n, "inferred", None)
  BY <1>2, <1>4, Zenon
<1> QED
  BY <1>3, <1>5, EdgeFields DEF Levels

LEMMA MentionsAre ==
    ASSUME NEW E, NEW fs, NEW sole, NEW m \in Mentions(E, fs, sole),
           Parsed(E.repo), fs \subseteq DOMAIN E.repo,
           \A f \in fs : FileNode(f) \in E.nodes
    PROVE  m.kind \in MentionKinds /\ m.from \in E.nodes
<1>1. PICK f \in fs :
         \/ \E u \in E.repo[f].uses \ Calls(E.repo[f]) :
               m = Mention(f, u.kind, u.name, Origin(E.nodes, f, u.from, sole), u.from)
         \/ \E x \in E.repo[f].exports :
               m = Mention(f, "exports", x.name, FileNode(f), None)
  BY DEF Mentions
<1>2. CASE \E u \in E.repo[f].uses \ Calls(E.repo[f]) :
               m = Mention(f, u.kind, u.name, Origin(E.nodes, f, u.from, sole), u.from)
  <2>1. PICK u \in E.repo[f].uses \ Calls(E.repo[f]) :
           m = Mention(f, u.kind, u.name, Origin(E.nodes, f, u.from, sole), u.from)
    BY <1>2
  <2>2. u.kind \in UseKinds \ {"calls"}
    BY <2>1, ParametersOK DEF Parsed, Calls
  <2>3. Origin(E.nodes, f, u.from, sole) \in E.nodes
    BY OriginIsNode
  <2>4. m.kind = u.kind /\ m.from = Origin(E.nodes, f, u.from, sole)
    BY <2>1 DEF Mention
  <2> QED
    BY <2>2, <2>3, <2>4 DEF MentionKinds
<1>3. CASE \E x \in E.repo[f].exports : m = Mention(f, "exports", x.name, FileNode(f), None)
  BY <1>3 DEF Mention, MentionKinds
<1> QED
  BY <1>1, <1>2, <1>3

LEMMA UsesWithin ==
    ASSUME NEW nodes, NEW repo, NEW fs, NEW sole, Parsed(repo), fs \subseteq DOMAIN repo,
           \A f \in fs : FileNode(f) \in nodes
    PROVE  Within(UseEdges(nodes, repo, fs, sole), MentionKinds, nodes)
<1> DEFINE E == Engine(nodes, repo)
           is(m) == ResolveReference(E, m.file, m.caller, m.name, m.kind, m.context)
<1> SUFFICES ASSUME NEW e \in UseEdges(nodes, repo, fs, sole)
             PROVE  /\ e.kind \in MentionKinds /\ e.conf \in Levels
                    /\ e.from \in nodes /\ e.to \in nodes
  BY DEF Within
<1>1. E.nodes = nodes /\ E.repo = repo
  BY DEF Engine
<1>2. PICK m \in Mentions(E, fs, sole) :
         /\ is(m).state = "resolved"
         /\ e = Edge(m.kind, m.from, is(m).target, "resolved", m.name)
  BY DEF UseEdges
<1> HIDE DEF E
<1>3. is(m).target \in nodes
  BY <1>1, <1>2, ReferenceTargetIsNode
<1>4. m.kind \in MentionKinds /\ m.from \in nodes
  BY <1>1, <1>2, MentionsAre
<1> QED
  BY <1>2, <1>3, <1>4, EdgeFields DEF Levels

LEMMA CallsWithin ==
    ASSUME NEW nodes, NEW repo, NEW imports, NEW fs
    PROVE  Within(CallEdges(nodes, CallOutcomes(nodes, repo, imports, fs)), {"calls"}, nodes)
<1> DEFINE E == Engine(nodes, repo)
           outcomes == CallOutcomes(nodes, repo, imports, fs)
           caller(o) == CHOOSE n \in Origins(nodes, o.file, o.call.from) : TRUE
<1> SUFFICES ASSUME NEW e \in CallEdges(nodes, outcomes)
             PROVE  /\ e.kind = "calls" /\ e.conf \in Levels
                    /\ e.from \in nodes /\ e.to \in nodes
  BY DEF Within
<1>1. E.nodes = nodes
  BY DEF Engine
<1>2. PICK o \in outcomes :
         /\ o.outcome.state = "resolved"
         /\ e = Edge("calls", caller(o), o.outcome.target,
                     IF o.outcome.sure THEN "resolved" ELSE "inferred", None)
  BY DEF CallEdges
<1>3. PICK f, u : o = [file |-> f, call |-> u, outcome |-> CallOutcome(E, imports, f, u)]
  BY DEF CallOutcomes
<1> HIDE DEF E, outcomes
<1>4. CallOutcome(E, imports, f, u).state = "resolved"
  BY <1>2, <1>3
<1>5. Origins(nodes, f, u.from) # {}
  BY <1>1, <1>4 DEF CallOutcome, Unresolved
<1>6. caller(o) \in nodes
  BY <1>3, <1>5 DEF Origins
<1>7. CallOutcome(E, imports, f, u).target \in nodes
  BY <1>1, <1>4, <1>5, CallTargetIsNode DEF CallOutcome
<1>8. o.outcome.target \in nodes
  BY <1>3, <1>7
<1> QED
  BY <1>2, <1>6, <1>8, EdgeFields DEF Levels

-----------------------------------------------------------------------------
(* Graphs.                                                                 *)

\* The edges are those given and others between the nodes, which are no
\* imports.
Shape(edges, given, nodes) ==
    \E others : edges = given \cup others /\ Within(others, OtherKinds, nodes)

ProperImports(repo) == {e \in ImportEdges(repo, DOMAIN repo) : e.from # e.to}

LEMMA WithinUnion ==
    ASSUME NEW A, NEW B, NEW kindsA, NEW kindsB, NEW nodes,
           Within(A, kindsA, nodes), Within(B, kindsB, nodes),
           kindsA \subseteq OtherKinds, kindsB \subseteq OtherKinds
    PROVE  Within(A \cup B, OtherKinds, nodes)
BY DEF Within

LEMMA KindsAreOther ==
    {"contains"} \subseteq OtherKinds /\ {"calls"} \subseteq OtherKinds
    /\ MentionKinds \subseteq OtherKinds /\ OtherKinds \subseteq OtherKinds
BY DEF OtherKinds

LEMMA BuiltGraph ==
    ASSUME NEW repo, Parsed(repo)
    PROVE  /\ BuildGraph(repo).nodes = NodesOf(repo)
           /\ Shape(BuildGraph(repo).edges, ProperImports(repo), NodesOf(repo))
<1> DEFINE nodes == NodesOf(repo)
           uses == UseEdges(nodes, repo, DOMAIN repo, TRUE)
           others == (ContainsEdges(repo) \cup GuessedCalls(repo)) \cup uses
<1>1. PICK sole : sole = TRUE
  OBVIOUS
<1>2. Within(UseEdges(nodes, repo, DOMAIN repo, sole), MentionKinds, nodes)
  BY UsesWithin, FileNodes
<1>3. Within(uses, MentionKinds, nodes)
  BY <1>1, <1>2, Zenon
<1>4. /\ BuildGraph(repo).nodes = nodes
      /\ BuildGraph(repo).edges =
            ContainsEdges(repo) \cup ProperImports(repo) \cup GuessedCalls(repo) \cup uses
  <2>1. BuildGraph(repo) =
          [nodes |-> nodes,
           edges |-> ContainsEdges(repo) \cup ProperImports(repo)
                       \cup GuessedCalls(repo) \cup uses]
    BY Zenon DEF BuildGraph, ProperImports
  <2> HIDE DEF nodes, uses
  <2> QED
    BY <2>1
<1> HIDE DEF uses
<1>5. BuildGraph(repo).edges = ProperImports(repo) \cup others
  BY <1>4
<1>6. Within(others, OtherKinds, nodes)
  <2>1. Within(ContainsEdges(repo) \cup GuessedCalls(repo), OtherKinds, nodes)
    BY ContainsWithin, GuessesWithin, KindsAreOther, WithinUnion
  <2> QED
    BY <1>3, <2>1, KindsAreOther, WithinUnion
<1> QED
  BY <1>4, <1>5, <1>6 DEF Shape

LEMMA CleanOne ==
    ASSUME NEW repo
    PROVE  CleanGraph(repo) = ResolveCrossFile(BuildGraph(repo), repo)
BY DEF CleanGraph

LEMMA CleanGraphIs ==
    ASSUME NEW repo, Parsed(repo)
    PROVE  /\ CleanGraph(repo).nodes = NodesOf(repo)
           /\ Shape(CleanGraph(repo).edges, ProperImports(repo), NodesOf(repo))
<1> DEFINE nodes == NodesOf(repo)
           built == BuildGraph(repo)
           imports == {e \in built.edges : e.kind = "imports"}
           outcomes == CallOutcomes(nodes, repo, imports, DOMAIN repo)
           calls == CallEdges(nodes, outcomes)
<1>1. built.nodes = nodes /\ Shape(built.edges, ProperImports(repo), nodes)
  BY BuiltGraph
<1>2. PICK others : /\ built.edges = ProperImports(repo) \cup others
                    /\ Within(others, OtherKinds, nodes)
  BY <1>1 DEF Shape
<1>3. Within(calls, {"calls"}, nodes)
  BY CallsWithin
<1> HIDE DEF calls, built, nodes
<1>4. /\ CleanGraph(repo).nodes = nodes
      /\ CleanGraph(repo).edges =
            {e \in built.edges : e.kind # "calls" \/ e.conf = "resolved"} \cup calls
  BY <1>1, CleanOne DEF ResolveCrossFile, calls, built
<1> DEFINE left == {e \in others : e.kind # "calls" \/ e.conf = "resolved"}
<1>5. \A e \in ProperImports(repo) : e.kind = "imports"
  BY ImportsWithin DEF ProperImports, Within
<1>6. CleanGraph(repo).edges = ProperImports(repo) \cup (left \cup calls)
  BY <1>2, <1>4, <1>5
<1>7. Within(left, OtherKinds, nodes)
  BY <1>2 DEF Within
<1>8. Within(left \cup calls, OtherKinds, nodes)
  BY <1>3, <1>7, KindsAreOther, WithinUnion
<1> QED
  BY <1>4, <1>6, <1>8 DEF Shape, nodes

\* What is left of a graph when some of its files are resolved again.
Untouched(g, affected) ==
    {e \in g.edges : e.kind = "contains"
                       \/ {e.from, e.to} \cap {n \in g.nodes : n.file \in affected} = {}}

LEMMA ResolvedAgain ==
    ASSUME NEW g, NEW repo, NEW affected, Parsed(repo),
           \A f \in DOMAIN repo : FileNode(f) \in g.nodes
    PROVE  LET h == ResolveAffected(g, repo, affected)
           IN  /\ h.nodes = g.nodes
               /\ Shape(h.edges, Untouched(g, affected)
                                   \cup ImportEdges(repo, affected \cap DOMAIN repo), g.nodes)
<1> DEFINE fs == affected \cap DOMAIN repo
           imports == ImportEdges(repo, fs)
           outcomes == CallOutcomes(g.nodes, repo, imports, fs)
           calls == CallEdges(g.nodes, outcomes)
           uses == UseEdges(g.nodes, repo, fs, FALSE)
           h == ResolveAffected(g, repo, affected)
<1>1. PICK sole : sole = FALSE
  OBVIOUS
<1>2. Within(UseEdges(g.nodes, repo, fs, sole), MentionKinds, g.nodes)
  BY UsesWithin
<1>3. Within(uses, MentionKinds, g.nodes)
  BY <1>1, <1>2, Zenon
<1>4. Within(calls, {"calls"}, g.nodes)
  BY CallsWithin
<1>5. h.nodes = g.nodes /\ h.edges = Untouched(g, affected) \cup imports \cup calls \cup uses
  <2>1. h = [nodes |-> g.nodes,
             edges |-> Untouched(g, affected) \cup imports \cup calls \cup uses,
             calls |-> {o \in g.calls : o.file \notin affected} \cup outcomes]
    BY Zenon DEF ResolveAffected, Untouched
  <2> HIDE DEF h, imports, calls, uses, outcomes
  <2> QED
    BY <2>1
<1> HIDE DEF h, imports, calls, uses
<1>6. Within(calls \cup uses, OtherKinds, g.nodes)
  BY <1>3, <1>4, KindsAreOther, WithinUnion
<1>7. Shape(h.edges, Untouched(g, affected) \cup imports, g.nodes)
  BY <1>5, <1>6 DEF Shape
<1> QED
  BY <1>5, <1>7 DEF h, imports

-----------------------------------------------------------------------------
(* Batches.                                                                *)

\* The repository after a batch is the one before but for what changed.
Changes(changed, new) ==
    /\ changed \subseteq Paths
    /\ Parsed(new)
    /\ \A f : f \notin changed =>
          /\ f \in DOMAIN files <=> f \in DOMAIN new
          /\ f \in DOMAIN files => new[f] = files[f]

LEMMA EditsChange ==
    ASSUME Parsed(files), NEW c \in Edits
    PROVE  Changes(c.changed, c.new)
<1> DEFINE writes(written) ==
              {d \in [written -> UNION {Contents(p) : p \in written}] :
                 \A f \in written : d[f] \in Contents(f)}
           deletes(written) ==
              {fs \in SUBSET (Paths \ written) : Cardinality(fs \cup written) \in 1..MaxBatch}
           change(written, contents, deleted) ==
              Change(written \cup deleted,
                     Without(With(files, written, contents), deleted),
                     (written \cup deleted) \cap DOMAIN files)
           of(written) == {change(written, contents, deleted) :
                             contents \in writes(written), deleted \in deletes(written)}
<1>1. PICK written \in SUBSET Paths : c \in of(written)
  <2>1. Edits = UNION {of(written) :
                         written \in {fs \in SUBSET Paths : Cardinality(fs) <= MaxBatch}}
    BY DEF Edits
  <2> HIDE DEF of
  <2> QED
    BY <2>1
<1>2. PICK contents \in writes(written) : \E d \in deletes(written) : c = change(written, contents, d)
  <2> HIDE DEF writes, deletes, change
  <2> QED
    BY <1>1
<1>3. PICK deleted \in deletes(written) : c = change(written, contents, deleted)
  BY <1>2
<1>4. deleted \subseteq Paths /\ \A f \in written : contents[f] \in Contents(f)
  OBVIOUS
<1> DEFINE repo == With(files, written, contents)
           new == Without(repo, deleted)
<1>5. c.changed = written \cup deleted /\ c.new = new
  <2> HIDE DEF new
  <2> QED
    BY <1>3 DEF Change, new
<1>6. /\ DOMAIN new = (DOMAIN files \cup written) \ deleted
      /\ \A f \in DOMAIN new :
            new[f] = IF f \in written THEN contents[f] ELSE files[f]
  <2>1. /\ DOMAIN repo = DOMAIN files \cup written
        /\ \A f \in DOMAIN repo : repo[f] = IF f \in written THEN contents[f] ELSE files[f]
    BY DEF With
  <2> HIDE DEF repo
  <2>2. DOMAIN new = DOMAIN repo \ deleted /\ \A f \in DOMAIN new : new[f] = repo[f]
    BY DEF Without
  <2> QED
    BY <2>1, <2>2
<1> HIDE DEF new
<1> QED
  BY <1>4, <1>5, <1>6 DEF Changes, Parsed

LEMMA RenamesChange ==
    ASSUME Parsed(files), NEW c \in Renames
    PROVE  Changes(c.changed, c.new)
<1> DEFINE of(p) ==
              {Change({p[1], p[2]},
                      With(Without(files, {p[1]}), {p[2]}, [f \in {p[2]} |-> content]),
                      {p[1]}) :
                 content \in {d \in Contents(p[2]) : d.symbols = files[p[1]].symbols}}
<1>0. PICK p \in (DOMAIN files) \X Paths : c \in of(p)
  <2>1. Renames = UNION {of(p) : p \in {p \in (DOMAIN files) \X Paths : p[1] # p[2]}}
    BY Zenon DEF Renames
  <2> HIDE DEF of
  <2> QED
    BY <2>1
<1>1. PICK content :
         /\ content \in Contents(p[2])
         /\ c = Change({p[1], p[2]},
                       With(Without(files, {p[1]}), {p[2]}, [f \in {p[2]} |-> content]),
                       {p[1]})
  BY <1>0
<1> HIDE DEF of
<1> DEFINE old == p[1]
           to == p[2]
           repo == Without(files, {old})
           new == With(repo, {to}, [f \in {to} |-> content])
<1>2. c.changed = {old, to} /\ c.new = new
  BY <1>1 DEF Change
<1>3. old \in DOMAIN files /\ to \in Paths /\ content \in Contents(to)
  BY <1>1
<1>4. /\ DOMAIN new = (DOMAIN files \ {old}) \cup {to}
      /\ \A f \in DOMAIN new : new[f] = IF f = to THEN content ELSE files[f]
  <2>1. DOMAIN repo = DOMAIN files \ {old} /\ \A f \in DOMAIN repo : repo[f] = files[f]
    BY DEF Without
  <2> HIDE DEF repo, to
  <2>2. /\ DOMAIN new = DOMAIN repo \cup {to}
        /\ \A f \in DOMAIN new : new[f] = IF f = to THEN content ELSE repo[f]
    BY DEF With
  <2> QED
    BY <2>1, <2>2
<1> HIDE DEF new, old, to
<1> QED
  BY <1>2, <1>3, <1>4 DEF Changes, Parsed

LEMMA ReadAgain ==
    ASSUME Parsed(files), NEW to \in Paths, NEW content \in Contents(to)
    PROVE  Parsed(With(files, {to}, [f \in {to} |-> content]))
BY DEF Parsed, With

-----------------------------------------------------------------------------
(* The choice of files.                                                    *)

NodesMatch == graph.nodes = NodesOf(files)
EndsMatch == \A e \in graph.edges : e.from \in graph.nodes /\ e.to \in graph.nodes
IndexedFiles == \A x \in pending \cup dependents : x.file \in Paths

\* The changed files are resolved again and built anew; what is resolved
\* again is closed under dependents and holds every file that looks up a key
\* of the batch; what is built anew is closed under neighbours, but for files
\* that are resolved again.
GoodPlan(plan, changed, new, previous) ==
    /\ plan.affected \subseteq Paths
    /\ changed \subseteq plan.affected /\ changed \subseteq plan.mutated
    /\ ReverseHints(changed, new, previous) \subseteq plan.affected
    /\ \A f \in plan.affected : Dependents(f) \subseteq plan.affected
    /\ \A f \in plan.mutated \ plan.affected :
          Neighbours(f) \subseteq plan.mutated \cup plan.affected

LEMMA PlanIsGood ==
    ASSUME Parsed(files), NodesMatch, EndsMatch, IndexedFiles,
           NEW changed, NEW new, NEW previous, Changes(changed, new)
    PROVE  GoodPlan(Plan(changed, new, previous), changed, new, previous)
<1> DEFINE hints == DependencyHints(changed, new)
           reverse == ReverseHints(changed, new, previous)
           seed == changed \cup hints \cup reverse
           affected == AffectedClosure(seed)
           component == GraphComponent(affected)
           plan == Plan(changed, new, previous)
<1>1. plan.affected = affected /\ plan.mutated = (component \ (hints \cup reverse)) \cup changed
  BY DEF Plan
<1>2. \A n \in graph.nodes : n.file \in Paths
  BY FileNodes DEF NodesMatch, Parsed
<1>3. /\ \A f \in Paths : Dependents(f) \subseteq Paths
      /\ \A f \in Paths : Neighbours(f) \subseteq Paths
  BY <1>2 DEF EndsMatch, Dependents, Neighbours
<1>4. hints \subseteq Paths
  <2>1. \A n : Providers(n) \subseteq Paths
    BY <1>2 DEF Providers, Named
  <2>2. \A keys : Targets(keys) \subseteq Paths
    BY DEF Targets, Parsed
  <2> DEFINE names(f) == {u.name : u \in new[f].uses}
                           \cup {u.from : u \in {u \in new[f].uses :
                                    u.kind \in {"inherits", "implements"}}}
             provide(f) == UNION {Providers(n) : n \in names(f)}
             target(f) == UNION {Targets(ImportKeys(new[f].lang, new[f].imports[i])) :
                                    i \in DOMAIN new[f].imports}
             of(f) == provide(f) \cup target(f)
  <2>3. hints = UNION {of(f) : f \in changed \cap DOMAIN new}
    BY Zenon DEF DependencyHints
  <2>4. \A f : of(f) \subseteq Paths
    <3> TAKE f
    <3>1. provide(f) \subseteq Paths
      <4> HIDE DEF names
      <4> QED
        BY <2>1
    <3>2. target(f) \subseteq Paths
      <4> DEFINE keys(i) == ImportKeys(new[f].lang, new[f].imports[i])
      <4>1. \A i \in DOMAIN new[f].imports : Targets(keys(i)) \subseteq Paths
        BY <2>2
      <4> HIDE DEF keys
      <4>2. UNION {Targets(keys(i)) : i \in DOMAIN new[f].imports} \subseteq Paths
        BY <4>1
      <4> QED
        BY <4>2 DEF keys
    <3> HIDE DEF provide, target
    <3> QED
      BY <3>1, <3>2
  <2> HIDE DEF of
  <2> QED
    BY <2>3, <2>4
<1>5. reverse \subseteq Paths
  BY DEF IndexedFiles, ReverseHints
<1>6. seed \subseteq Paths
  BY <1>4, <1>5 DEF Changes
<1> HIDE DEF seed
<1>7. /\ seed \subseteq affected /\ affected \subseteq Paths
      /\ \A f \in affected : Dependents(f) \subseteq affected
  <2> DEFINE next == [f \in Paths |-> Dependents(f)]
  <2>1. affected = Closure(next, seed)
    BY DEF AffectedClosure
  <2>2. \A f \in Paths : next[f] = Dependents(f)
    OBVIOUS
  <2> HIDE DEF next, affected
  <2> QED
    BY <1>3, <1>6, <2>1, <2>2, ClosureCloses
<1> HIDE DEF affected
<1>8. /\ affected \subseteq component /\ component \subseteq Paths
      /\ \A f \in component : Neighbours(f) \subseteq component
  <2> DEFINE next == [f \in Paths |-> Neighbours(f)]
  <2>1. component = Closure(next, affected)
    BY DEF GraphComponent
  <2>2. \A f \in Paths : next[f] = Neighbours(f)
    OBVIOUS
  <2> HIDE DEF next, component
  <2> QED
    BY <1>3, <1>7, <2>1, <2>2, ClosureCloses
<1>9. changed \subseteq affected /\ hints \subseteq affected /\ reverse \subseteq affected
  BY <1>7 DEF seed
<1> HIDE DEF plan, hints, component
<1> QED
  BY <1>1, <1>7, <1>8, <1>9 DEF GoodPlan, plan

-----------------------------------------------------------------------------
(* What is built anew, and what is indexed again.                          *)

Piece(plan, new) == [f \in plan.mutated \cap DOMAIN new |-> new[f]]

LEMMA PieceIs ==
    ASSUME NEW plan, NEW new, Parsed(new)
    PROVE  /\ DOMAIN Piece(plan, new) = plan.mutated \cap DOMAIN new
           /\ \A f \in DOMAIN Piece(plan, new) : Piece(plan, new)[f] = new[f]
           /\ Parsed(Piece(plan, new))
BY DEF Piece, Parsed

\* The files that are kept and those that are built anew are the repository.
LEMMA NodesRebuilt ==
    ASSUME NodesMatch, NEW changed, NEW new, Changes(changed, new),
           NEW plan, changed \subseteq plan.mutated
    PROVE  {n \in graph.nodes : n.file \notin plan.mutated} \cup NodesOf(Piece(plan, new))
              = NodesOf(new)
<1> DEFINE kept == {n \in graph.nodes : n.file \notin plan.mutated}
           piece == Piece(plan, new)
<1>1. /\ DOMAIN piece = plan.mutated \cap DOMAIN new
      /\ \A f \in DOMAIN piece : piece[f] = new[f]
  BY PieceIs DEF Changes
<1> HIDE DEF piece
<1>2. ASSUME NEW n \in kept
      PROVE  n \in NodesOf(new)
  <2>1. n \in NodesOf(files) /\ n.file \notin changed
    BY DEF NodesMatch
  <2>2. PICK f \in DOMAIN files :
           n = FileNode(f) \/ \E s \in files[f].symbols : n = SymbolNode(f, s)
    BY <2>1, NodesAre
  <2>3. n.file = f
    BY <2>2, NodesAreOf
  <2>4. f \in DOMAIN new /\ new[f] = files[f]
    BY <2>1, <2>3 DEF Changes
  <2> QED
    BY <2>2, <2>4, NodesAre
<1>3. ASSUME NEW n \in NodesOf(piece)
      PROVE  n \in NodesOf(new)
  <2>1. PICK f \in DOMAIN piece :
           n = FileNode(f) \/ \E s \in piece[f].symbols : n = SymbolNode(f, s)
    BY NodesAre
  <2> QED
    BY <1>1, <2>1, NodesAre
<1>4. ASSUME NEW n \in NodesOf(new)
      PROVE  n \in kept \cup NodesOf(piece)
  <2>1. PICK f \in DOMAIN new :
           n = FileNode(f) \/ \E s \in new[f].symbols : n = SymbolNode(f, s)
    BY NodesAre
  <2>2. CASE f \in plan.mutated
    <3>1. f \in DOMAIN piece /\ piece[f] = new[f]
      BY <1>1, <2>2
    <3> QED
      BY <2>1, <3>1, NodesAre
  <2>3. CASE f \notin plan.mutated
    <3>1. f \in DOMAIN files /\ new[f] = files[f]
      BY <2>3 DEF Changes
    <3>2. n \in NodesOf(files)
      BY <2>1, <3>1, NodesAre
    <3>3. n.file = f
      BY <2>1, NodesAreOf
    <3> QED
      BY <2>3, <3>2, <3>3 DEF NodesMatch
  <2> QED
    BY <2>2, <2>3
<1> HIDE DEF kept
<1> QED
  BY <1>2, <1>3, <1>4 DEF kept, piece

LEMMA EntriesAreOwned ==
    ASSUME NEW repo, NEW f
    PROVE  /\ \A x \in Dependencies(repo, f) : x.file = f
           /\ \A g : \A x \in PendingEntries(g, repo, f) : x.file = f
<1>1. \A kind, key : Entry(kind, key, f).file = f
  BY DEF Entry
<1>2. \A imp : \A x \in ImportEntries(repo, f, imp) : x.file = f
  BY <1>1 DEF ImportEntries
<1>3. \A x \in UseKeys(repo, f) : x.file = f
  BY <1>1 DEF UseKeys
<1>4. \A x \in ExportKeys(repo, f) : x.file = f
  BY <1>1 DEF ExportKeys
<1>5. \A x \in Dependencies(repo, f) : x.file = f
  BY <1>2, <1>3, <1>4 DEF Dependencies
<1>6. ASSUME NEW g, NEW x \in PendingEntries(g, repo, f)
      PROVE  x.file = f
  <2>1. \/ \E kind, key : x = Entry(kind, key, f)
        \/ \E imp : x \in ImportEntries(repo, f, imp)
    BY DEF PendingEntries
  <2> QED
    BY <1>1, <1>2, <2>1
<1> QED
  BY <1>5, <1>6

\* What a file looks up depends on its own content.
LEMMA DependenciesAreLocal ==
    ASSUME NEW repo, NEW new, NEW f, new[f] = repo[f]
    PROVE  Dependencies(new, f) = Dependencies(repo, f)
BY DEF Dependencies, UseKeys, ExportKeys, ImportEntries

LEMMA IndexedAgain ==
    ASSUME ConsumersIndexed, NEW changed, NEW new, Changes(changed, new),
           NEW affected, changed \subseteq affected
    PROVE  Reindexed(dependents, affected,
                     [f \in affected \cap DOMAIN new |-> Dependencies(new, f)])
              = UNION {Dependencies(new, f) : f \in DOMAIN new}
<1> DEFINE known == affected \cap DOMAIN new
           entries == [f \in known |-> Dependencies(new, f)]
           again == Reindexed(dependents, affected, entries)
<1>1. again = {x \in dependents : x.file \notin affected}
                \cup UNION {Dependencies(new, f) : f \in known}
  <2>1. DOMAIN entries = known /\ \A f \in known : entries[f] = Dependencies(new, f)
    OBVIOUS
  <2> HIDE DEF entries
  <2> QED
    BY <2>1 DEF Reindexed
<1> HIDE DEF again
<1>2. ASSUME NEW x \in dependents, x.file \notin affected
      PROVE  \E f \in DOMAIN new : x \in Dependencies(new, f)
  <2>1. PICK f \in DOMAIN files : x \in Dependencies(files, f)
    BY DEF ConsumersIndexed
  <2>2. x.file = f
    BY <2>1, EntriesAreOwned
  <2>3. f \in DOMAIN new /\ new[f] = files[f]
    BY <1>2, <2>2 DEF Changes
  <2> QED
    BY <2>1, <2>3, DependenciesAreLocal
<1>3. ASSUME NEW f \in DOMAIN new, NEW x \in Dependencies(new, f), f \notin affected
      PROVE  x \in dependents /\ x.file \notin affected
  <2>1. f \in DOMAIN files /\ new[f] = files[f]
    BY <1>3 DEF Changes
  <2>2. x \in Dependencies(files, f)
    BY <2>1, DependenciesAreLocal
  <2>3. x.file = f
    BY EntriesAreOwned
  <2> QED
    BY <1>3, <2>1, <2>2, <2>3 DEF ConsumersIndexed
<1>4. again = UNION {Dependencies(new, f) : f \in DOMAIN new}
  BY <1>1, <1>2, <1>3
<1> QED
  BY <1>4 DEF again

-----------------------------------------------------------------------------
(* The invariant.                                                          *)

Rated == \A e \in graph.edges : e.conf \in Levels

Intact ==
    /\ Parsed(files)
    /\ NodesMatch
    /\ EndsMatch
    /\ Rated
    /\ ConsumersIndexed
    /\ IndexedFiles

\* A graph fits a repository: its nodes, and edges between them.
Fits(g, repo) ==
    /\ g.nodes = NodesOf(repo)
    /\ \A e \in g.edges : /\ e.from \in g.nodes /\ e.to \in g.nodes
                           /\ e.conf \in Levels

LEMMA ShapeFits ==
    ASSUME NEW g, NEW repo, NEW given, g.nodes = NodesOf(repo),
           \A e \in given : /\ e.from \in g.nodes /\ e.to \in g.nodes
                           /\ e.conf \in Levels,
           Shape(g.edges, given, g.nodes)
    PROVE  Fits(g, repo)
BY DEF Shape, Within, Fits

LEMMA CleanFits ==
    ASSUME NEW repo, Parsed(repo)
    PROVE  Fits(CleanGraph(repo), repo)
<1>1. \A e \in ProperImports(repo) : /\ e.from \in NodesOf(repo) /\ e.to \in NodesOf(repo)
                                    /\ e.conf \in Levels
  BY ImportsWithin DEF ProperImports, Within
<1> QED
  BY <1>1, CleanGraphIs, ShapeFits

LEMMA FragmentFits ==
    ASSUME NEW repo, Parsed(repo)
    PROVE  Fits(BuildGraph(repo), repo)
<1>1. \A e \in ProperImports(repo) : /\ e.from \in NodesOf(repo) /\ e.to \in NodesOf(repo)
                                    /\ e.conf \in Levels
  BY ImportsWithin DEF ProperImports, Within
<1> QED
  BY <1>1, BuiltGraph, ShapeFits

\* The graph after a batch.
After(changed, new, previous) ==
    LET plan == Plan(changed, new, previous)
    IN  ResolveAffected(Rebuilt(plan, BuildGraph(Piece(plan, new))), new, plan.affected)

LEMMA RebuiltFits ==
    ASSUME NodesMatch, EndsMatch, Rated, NEW changed, NEW new, Changes(changed, new),
           NEW plan, changed \subseteq plan.mutated
    PROVE  Fits(Rebuilt(plan, BuildGraph(Piece(plan, new))), new)
<1> DEFINE piece == Piece(plan, new)
           fragment == BuildGraph(piece)
           kept == {n \in graph.nodes : n.file \notin plan.mutated}
           rebuilt == Rebuilt(plan, fragment)
<1>1. Fits(fragment, piece)
  BY PieceIs, FragmentFits DEF Changes
<1>2. kept \cup NodesOf(piece) = NodesOf(new)
  BY NodesRebuilt
<1> HIDE DEF piece, fragment
<1>3. /\ rebuilt.nodes = kept \cup fragment.nodes
      /\ rebuilt.edges = {e \in graph.edges : {e.from, e.to} \subseteq kept} \cup fragment.edges
  BY DEF Rebuilt
<1> HIDE DEF rebuilt, kept
<1>4. rebuilt.nodes = NodesOf(new)
  BY <1>1, <1>2, <1>3 DEF Fits
<1>5. ASSUME NEW e \in rebuilt.edges
      PROVE  e.from \in rebuilt.nodes /\ e.to \in rebuilt.nodes /\ e.conf \in Levels
  BY <1>1, <1>3 DEF Fits, Rated
<1> QED
  BY <1>4, <1>5 DEF Fits, rebuilt, fragment, piece

LEMMA AfterFits ==
    ASSUME Intact, NEW changed, NEW new, NEW previous, Changes(changed, new)
    PROVE  Fits(After(changed, new, previous), new)
<1> DEFINE plan == Plan(changed, new, previous)
           rebuilt == Rebuilt(plan, BuildGraph(Piece(plan, new)))
           given == Untouched(rebuilt, plan.affected)
                      \cup ImportEdges(new, plan.affected \cap DOMAIN new)
           after == After(changed, new, previous)
<1>1. GoodPlan(plan, changed, new, previous)
  BY PlanIsGood DEF Intact
<1> HIDE DEF plan
<1>2. Fits(rebuilt, new)
  BY <1>1, RebuiltFits DEF Intact, GoodPlan
<1>3. after = ResolveAffected(rebuilt, new, plan.affected)
  BY DEF After, plan
<1> HIDE DEF rebuilt, after
<1>4. \A f \in DOMAIN new : FileNode(f) \in rebuilt.nodes
  BY <1>2, FileNodes DEF Fits
<1>5. after.nodes = rebuilt.nodes /\ Shape(after.edges, given, rebuilt.nodes)
  BY <1>3, <1>4, ResolvedAgain DEF Changes
<1>6. \A e \in given : /\ e.from \in NodesOf(new) /\ e.to \in NodesOf(new)
                      /\ e.conf \in Levels
  <2>1. Within(ImportEdges(new, plan.affected \cap DOMAIN new), {"imports"}, NodesOf(new))
    BY ImportsWithin
  <2>2. Untouched(rebuilt, plan.affected) \subseteq rebuilt.edges
    BY DEF Untouched
  <2> QED
    BY <1>2, <2>1, <2>2 DEF Within, Fits
<1> HIDE DEF given
<1> QED
  BY <1>2, <1>5, <1>6, ShapeFits DEF Fits, after

LEMMA StartsIntact == Init => Intact
<1> SUFFICES ASSUME Init
             PROVE  Intact
  OBVIOUS
<1>1. files = <<>> /\ graph = CleanGraph(files) /\ pending = {} /\ dependents = {}
  BY DEF Init
<1>2. DOMAIN files = {}
  BY <1>1
<1>3. Parsed(files)
  BY <1>2 DEF Parsed
<1>4. Fits(graph, files)
  BY <1>1, <1>3, CleanFits
<1>5. ConsumersIndexed
  BY <1>1, <1>2 DEF ConsumersIndexed
<1> QED
  BY <1>1, <1>3, <1>4, <1>5 DEF Intact, Fits, NodesMatch, EndsMatch, Rated, IndexedFiles

LEMMA BatchChanges ==
    ASSUME Parsed(files), NEW c \in Edits \cup Renames
    PROVE  Changes(c.changed, c.new)
BY EditsChange, RenamesChange

LEMMA SelectiveIs ==
    ASSUME NEW changed, NEW new, NEW previous, ApplySelective(changed, new, previous)
    PROVE  /\ files' = new
           /\ graph' = After(changed, new, previous)
           /\ LET affected == Plan(changed, new, previous).affected
              IN  Index(graph', new, affected)
<1> DEFINE plan == Plan(changed, new, previous)
<1>1. /\ files' = new
      /\ graph' = ResolveAffected(Rebuilt(plan, BuildGraph([f \in plan.mutated \cap DOMAIN new |-> new[f]])), new, plan.affected)
      /\ Index(graph', new, plan.affected)
  BY Zenon DEF ApplySelective
<1> QED
  BY <1>1, Zenon DEF After, Piece

LEMMA StaysIntact ==
    ASSUME Intact, NEW changed, NEW new, NEW previous, Changes(changed, new),
           ApplySelective(changed, new, previous)
    PROVE  Intact'
<1> DEFINE affected == Plan(changed, new, previous).affected
           known == affected \cap DOMAIN new
<1>1. files' = new /\ graph' = After(changed, new, previous) /\ Index(graph', new, affected)
  BY SelectiveIs
<1>2. GoodPlan(Plan(changed, new, previous), changed, new, previous)
  BY PlanIsGood DEF Intact
<1>3. Fits(After(changed, new, previous), new)
  BY AfterFits
<1> HIDE DEF affected
<1>4. /\ dependents' = Reindexed(dependents, affected, [f \in known |-> Dependencies(new, f)])
      /\ pending' = Reindexed(pending, affected, [f \in known |-> PendingEntries(graph', new, f)])
  BY <1>1 DEF Index
<1>5. dependents' = UNION {Dependencies(new, f) : f \in DOMAIN new}
  BY <1>2, <1>4, IndexedAgain DEF Intact, GoodPlan, affected
<1>6. ConsumersIndexed'
  BY <1>1, <1>5 DEF ConsumersIndexed
<1>7. \A x \in dependents' : x.file \in Paths
  BY <1>5, EntriesAreOwned DEF Changes, Parsed
<1>8. \A x \in pending' : x.file \in Paths
  <2>1. \A x \in pending' :
           x \in pending \/ \E f \in known : x \in PendingEntries(graph', new, f)
    <3> DEFINE entries == [f \in known |-> PendingEntries(graph', new, f)]
    <3>1. DOMAIN entries = known /\ \A f \in known : entries[f] = PendingEntries(graph', new, f)
      OBVIOUS
    <3> HIDE DEF entries
    <3>2. pending' = Reindexed(pending, affected, entries)
      BY <1>4 DEF entries
    <3> QED
      BY <3>1, <3>2 DEF Reindexed
  <2>2. \A f \in known : f \in Paths
    BY DEF Changes, Parsed
  <2>3. \A f \in known : \A x \in PendingEntries(graph', new, f) : x.file = f
    BY EntriesAreOwned
  <2>4. \A x \in pending : x.file \in Paths
    BY DEF Intact, IndexedFiles
  <2> HIDE DEF known
  <2> QED
    BY <2>1, <2>2, <2>3, <2>4
<1>9. Parsed(files')
  BY <1>1 DEF Changes
<1> QED
  BY <1>1, <1>3, <1>6, <1>7, <1>8, <1>9
     DEF Intact, Parsed, Fits, NodesMatch, EndsMatch, Rated, IndexedFiles

LEMMA ReadIntact ==
    ASSUME Intact, NEW new, Parsed(new), ReconcileFull(new)
    PROVE  Intact'
<1>1. /\ files' = new /\ graph' = CleanGraph(new)
      /\ dependents' = UNION {Dependencies(new, f) : f \in DOMAIN new}
      /\ pending' = UNION {PendingEntries(graph', new, f) : f \in DOMAIN new}
  BY DEF ReconcileFull
<1>2. Fits(CleanGraph(new), new)
  BY CleanFits
<1>3. ConsumersIndexed'
  BY <1>1 DEF ConsumersIndexed
<1>4. \A x \in pending' \cup dependents' : x.file \in Paths
  BY <1>1, EntriesAreOwned DEF Parsed
<1> QED
  BY <1>1, <1>2, <1>3, <1>4
     DEF Intact, Parsed, Fits, NodesMatch, EndsMatch, Rated, IndexedFiles

LEMMA AlwaysIntact == Spec => []Intact
<1>1. Intact /\ [Next]_vars => Intact'
  <2> SUFFICES ASSUME Intact, [Next]_vars
               PROVE  Intact'
    OBVIOUS
  <2>1. CASE ApplyBatch
    <3>1. PICK c \in Edits \cup Renames : ApplySelective(c.changed, c.new, c.previous)
      BY <2>1 DEF ApplyBatch
    <3>2. Changes(c.changed, c.new)
      BY BatchChanges DEF Intact
    <3> QED
      BY <3>1, <3>2, StaysIntact
  <2>2. CASE UnknownRename
    <3>1. PICK to \in Paths : \E content \in Contents(to) :
             ReconcileFull(With(files, {to}, [f \in {to} |-> content]))
      BY <2>2 DEF UnknownRename
    <3>2. PICK content \in Contents(to) :
             ReconcileFull(With(files, {to}, [f \in {to} |-> content]))
      BY <3>1
    <3> DEFINE new == With(files, {to}, [f \in {to} |-> content])
    <3>3. Parsed(new)
      BY ReadAgain DEF Intact
    <3> HIDE DEF new
    <3> QED
      BY <3>2, <3>3, ReadIntact DEF new
  <2>3. CASE UNCHANGED vars
    BY <2>3 DEF vars, Intact, Parsed, NodesMatch, EndsMatch, Rated, ConsumersIndexed, IndexedFiles
  <2> QED
    BY <2>1, <2>2, <2>3 DEF Next
<1> QED
  BY <1>1, StartsIntact, PTL DEF Spec

\* The state keeps its shape (incremental.rs, WorkspaceState): the files are
\* parsed contents of known paths, nodes and edges have the kinds and levels
\* of the schema, and both indexes name files of the repository.
THEOREM TypesHold == Spec => []TypeOK
<1>1. Intact => TypeOK
  <2> SUFFICES ASSUME Intact
               PROVE  TypeOK
    OBVIOUS
  <2>1. {n.kind : n \in graph.nodes} \subseteq NodeKinds
    BY NodesHaveKinds DEF Intact, NodesMatch
  <2>2. {e.conf : e \in graph.edges} \subseteq {"extracted", "inferred", "resolved"}
    BY DEF Intact, Rated, Levels
  <2> QED
    BY <2>1, <2>2 DEF Intact, Parsed, IndexedFiles, TypeOK
<1> QED
  BY <1>1, AlwaysIntact, PTL

\* After every sequence of batches, however they are cut and whatever they
\* rename, the nodes are those of a build from nothing and no edge has lost
\* an end (apply_changes_selective), although only some files are built anew.
THEOREM NodesStayClean == Spec => []NodesMatchClean
<1>1. Intact => NodesMatchClean
  BY DEF Intact, NodesMatch, EndsMatch, NodesMatchClean
<1> QED
  BY <1>1, AlwaysIntact, PTL

\* The index of the names and paths each file looks up is that of a build from
\* nothing, although a batch replaces only the entries of the files it affects
\* (rebuild_pending_index).
THEOREM ConsumersStayIndexed == Spec => []ConsumersIndexed
<1>1. Intact => ConsumersIndexed
  BY DEF Intact
<1> QED
  BY <1>1, AlwaysIntact, PTL

-----------------------------------------------------------------------------
(* Imports.                                                                *)

\* What the builder takes an import to mean, whatever other files there are.
Means(repo, f, i, g) ==
    MatchesCandidate(g, CandidatePath(repo[f].lang, f, repo[f].imports[i]))

\* Import i of f links it to g.
Links(repo, f, i, g) ==
    f \in DOMAIN repo /\ i \in DOMAIN repo[f].imports /\ g \in DOMAIN repo /\ Means(repo, f, i, g)

ImportEdge(repo, f, i, g) ==
    Edge("imports", FileNode(f), FileNode(g), "inferred", repo[f].imports[i])

LEMMA PlainMeans ==
    ASSUME PlainImports, NEW repo, Parsed(repo), NEW f, NEW i, NEW g, Links(repo, f, i, g)
    PROVE  /\ g # f
           /\ \A h \in DOMAIN repo : Means(repo, f, i, h) => h = g
           /\ LookupKeys(g) \cap ImportKeys(repo[f].lang, repo[f].imports[i]) # {}
BY DEF PlainImports, Parsed, Links, Means

\* The edges of plain imports, one by one.
LEMMA PlainEdges ==
    ASSUME PlainImports, NEW repo, Parsed(repo), NEW fs, fs \subseteq DOMAIN repo, NEW e
    PROVE  e \in ImportEdges(repo, fs) <=>
              \E f \in fs : \E i, g : Links(repo, f, i, g) /\ e = ImportEdge(repo, f, i, g)
<1>1. ASSUME NEW f \in fs, NEW i \in DOMAIN repo[f].imports, NEW g
      PROVE  g \in ImportTarget(DOMAIN repo, repo[f].lang, f, repo[f].imports[i])
                <=> Links(repo, f, i, g)
  <2>1. g \in ImportTarget(DOMAIN repo, repo[f].lang, f, repo[f].imports[i]) <=>
           /\ g \in DOMAIN repo /\ Means(repo, f, i, g)
           /\ \A h \in DOMAIN repo : Means(repo, f, i, h) => h = g
    BY DEF ImportTarget, Means
  <2>2. Links(repo, f, i, g) => \A h \in DOMAIN repo : Means(repo, f, i, h) => h = g
    BY PlainMeans
  <2> QED
    BY <2>1, <2>2 DEF Links
<1>2. e \in ImportEdges(repo, fs) <=>
         \E f \in fs : \E i \in DOMAIN repo[f].imports :
            \E g \in ImportTarget(DOMAIN repo, repo[f].lang, f, repo[f].imports[i]) :
               e = ImportEdge(repo, f, i, g)
  BY ImportEdgeIs DEF ImportEdge
<1>3. \A f \in fs : \A i, g : Links(repo, f, i, g) => i \in DOMAIN repo[f].imports
  BY DEF Links
<1> QED
  BY <1>1, <1>2, <1>3

\* Links and their edges depend on the importing file and on its target.
LEMMA LinksAreLocal ==
    ASSUME NEW repo, NEW new, NEW f, NEW i, NEW g, new[f] = repo[f],
           f \in DOMAIN new, g \in DOMAIN new, Links(repo, f, i, g)
    PROVE  Links(new, f, i, g) /\ ImportEdge(new, f, i, g) = ImportEdge(repo, f, i, g)
BY DEF Links, Means, ImportEdge

LEMMA ImportEdgeEnds ==
    ASSUME NEW repo, NEW f, NEW i, NEW g
    PROVE  LET e == ImportEdge(repo, f, i, g)
           IN  /\ e.kind = "imports" /\ e.from = FileNode(f) /\ e.to = FileNode(g)
               /\ e.from.file = f /\ e.to.file = g
BY EdgeFields, FileNodes DEF ImportEdge

\* No plain import links a file to itself.
LEMMA PlainProper ==
    ASSUME PlainImports, NEW repo, Parsed(repo)
    PROVE  ProperImports(repo) = ImportEdges(repo, DOMAIN repo)
<1> SUFFICES ASSUME NEW e \in ImportEdges(repo, DOMAIN repo)
             PROVE  e.from # e.to
  BY DEF ProperImports
<1>1. PICK f, i, g : Links(repo, f, i, g) /\ e = ImportEdge(repo, f, i, g)
  BY PlainEdges
<1>2. g # f
  BY <1>1, PlainMeans
<1> QED
  BY <1>1, <1>2, ImportEdgeEnds

ImportsOf(g) == {e \in g.edges : e.kind = "imports"}

LEMMA ShapeImports ==
    ASSUME NEW g, NEW given, NEW nodes, Shape(g.edges, given, nodes)
    PROVE  ImportsOf(g) = {e \in given : e.kind = "imports"}
BY KindsDiffer DEF Shape, Within, ImportsOf

LEMMA AreImports ==
    ASSUME NEW repo, NEW fs, fs \subseteq DOMAIN repo
    PROVE  \A e \in ImportEdges(repo, fs) : e.kind = "imports"
BY ImportsWithin DEF Within

LEMMA CleanImports ==
    ASSUME PlainImports, NEW repo, Parsed(repo)
    PROVE  /\ ImportsOf(CleanGraph(repo)) = ImportEdges(repo, DOMAIN repo)
           /\ ImportsOf(BuildGraph(repo)) = ImportEdges(repo, DOMAIN repo)
<1>1. /\ ImportsOf(CleanGraph(repo)) = {e \in ProperImports(repo) : e.kind = "imports"}
      /\ ImportsOf(BuildGraph(repo)) = {e \in ProperImports(repo) : e.kind = "imports"}
  BY CleanGraphIs, BuiltGraph, ShapeImports
<1>2. {e \in ProperImports(repo) : e.kind = "imports"} = ImportEdges(repo, DOMAIN repo)
  BY PlainProper, AreImports
<1> QED
  BY <1>1, <1>2

\* A file with a link to a changed file looks up a key of it, and is affected.
LEMMA ImportersAreAffected ==
    ASSUME PlainImports, Parsed(files), ConsumersIndexed,
           NEW changed, NEW new, NEW previous, Changes(changed, new),
           NEW plan, GoodPlan(plan, changed, new, previous),
           NEW f, NEW i, NEW g, Links(new, f, i, g), f \notin plan.affected
    PROVE  g \notin changed
<1> SUFFICES ASSUME g \in changed
             PROVE  FALSE
  OBVIOUS
<1>1. f \notin changed
  BY DEF GoodPlan
<1>2. f \in DOMAIN files /\ files[f] = new[f] /\ i \in DOMAIN files[f].imports
  BY <1>1 DEF Changes, Links
<1> DEFINE keys == ImportKeys(files[f].lang, files[f].imports[i])
<1>3. PICK k \in LookupKeys(g) : k \in keys
  BY <1>2, PlainMeans DEF Changes
<1> DEFINE x == Entry("imports", k, f)
<1>4. x \in ImportEntries(files, f, files[f].imports[i])
  BY <1>3 DEF ImportEntries
<1>5. x \in Dependencies(files, f)
  BY <1>2, <1>4 DEF Dependencies
<1>6. x \in dependents
  BY <1>2, <1>5 DEF ConsumersIndexed
<1>7. x.key = k /\ x.file = f
  BY DEF Entry
<1> HIDE DEF x
<1>8. f \in ReverseHints(changed, new, previous)
  BY <1>1, <1>3, <1>6, <1>7 DEF ReverseHints
<1> QED
  BY <1>8 DEF GoodPlan

LEMMA RebuiltImports ==
    ASSUME PlainImports, NEW changed, NEW new, Changes(changed, new), NEW plan
    PROVE  LET rebuilt == Rebuilt(plan, BuildGraph(Piece(plan, new)))
               piece == Piece(plan, new)
               kept == {n \in graph.nodes : n.file \notin plan.mutated}
           IN  ImportsOf(rebuilt) =
                  {e \in ImportsOf(graph) : e.from \in kept /\ e.to \in kept}
                     \cup ImportEdges(piece, DOMAIN piece)
<1> DEFINE piece == Piece(plan, new)
           fragment == BuildGraph(piece)
           kept == {n \in graph.nodes : n.file \notin plan.mutated}
           rebuilt == Rebuilt(plan, fragment)
<1>1. ImportsOf(fragment) = ImportEdges(piece, DOMAIN piece)
  BY PieceIs, CleanImports DEF Changes
<1>2. rebuilt.edges = {e \in graph.edges : {e.from, e.to} \subseteq kept} \cup fragment.edges
  BY DEF Rebuilt
<1> HIDE DEF rebuilt, fragment, kept
<1>3. ImportsOf(rebuilt) = {e \in ImportsOf(graph) : e.from \in kept /\ e.to \in kept}
                              \cup ImportsOf(fragment)
  BY <1>2 DEF ImportsOf
<1> QED
  BY <1>1, <1>3 DEF rebuilt, fragment, kept

\* Between files that are not affected the links stay what they were.
LEMMA LinksUntouched ==
    ASSUME PlainImports, Intact, ImportsOf(graph) = ImportEdges(files, DOMAIN files),
           NEW changed, NEW new, NEW previous, Changes(changed, new),
           NEW plan, GoodPlan(plan, changed, new, previous),
           NEW f, NEW i, NEW g, Links(new, f, i, g), f \notin plan.affected
    PROVE  LET e == ImportEdge(new, f, i, g)
           IN  /\ e \in ImportsOf(graph) /\ g \notin plan.affected
               /\ FileNode(f) \in graph.nodes /\ FileNode(g) \in graph.nodes
               /\ f \in plan.mutated <=> g \in plan.mutated
<1> DEFINE e == ImportEdge(new, f, i, g)
<1>1. f \notin changed /\ g \notin changed
  BY ImportersAreAffected DEF Intact, GoodPlan
<1>2. /\ f \in DOMAIN files /\ g \in DOMAIN files /\ files[f] = new[f]
      /\ f \in DOMAIN new
  BY <1>1 DEF Changes, Links
<1>3. Links(files, f, i, g) /\ ImportEdge(files, f, i, g) = e
  BY <1>2, LinksAreLocal
<1>4. e \in ImportsOf(graph)
  BY <1>2, <1>3, PlainEdges DEF Intact
<1>5. /\ e.kind = "imports" /\ e.from = FileNode(f) /\ e.to = FileNode(g)
      /\ e.from.file = f /\ e.to.file = g
  BY ImportEdgeEnds
<1> HIDE DEF e
<1>6. f \in Dependents(g) /\ f \in Neighbours(g) /\ g \in Neighbours(f)
  <2>1. e \in graph.edges /\ e.kind \in {"imports", "types", "inherits", "implements"}
        /\ e.kind # "contains"
    BY <1>4, <1>5 DEF ImportsOf
  <2>2. f \in Dependents(g)
    BY <1>5, <2>1 DEF Dependents
  <2>3. \A h \in {f, g} : {f, g} \subseteq Neighbours(h)
    BY <1>5, <2>1 DEF Neighbours
  <2> QED
    BY <2>2, <2>3
<1>7. g \notin plan.affected
  BY <1>6 DEF GoodPlan
<1>8. f \in plan.mutated <=> g \in plan.mutated
  BY <1>6, <1>7 DEF GoodPlan
<1>9. FileNode(f) \in graph.nodes /\ FileNode(g) \in graph.nodes
  BY <1>2, FileNodes DEF Intact, NodesMatch
<1> QED
  BY <1>4, <1>7, <1>8, <1>9 DEF e

LEMMA AfterImports ==
    ASSUME PlainImports, Intact, ImportsOf(graph) = ImportEdges(files, DOMAIN files),
           NEW changed, NEW new, NEW previous, Changes(changed, new)
    PROVE  ImportsOf(After(changed, new, previous)) = ImportEdges(new, DOMAIN new)
<1> DEFINE plan == Plan(changed, new, previous)
           piece == Piece(plan, new)
           rebuilt == Rebuilt(plan, BuildGraph(piece))
           kept == {n \in graph.nodes : n.file \notin plan.mutated}
           again == ImportEdges(new, plan.affected \cap DOMAIN new)
           given == Untouched(rebuilt, plan.affected) \cup again
           after == After(changed, new, previous)
<1>1. GoodPlan(plan, changed, new, previous)
  BY PlanIsGood DEF Intact
<1>2. after = ResolveAffected(rebuilt, new, plan.affected)
  BY DEF After
<1> HIDE DEF plan
<1>3. /\ DOMAIN piece = plan.mutated \cap DOMAIN new
      /\ \A f \in DOMAIN piece : piece[f] = new[f]
      /\ Parsed(piece)
  BY PieceIs DEF Changes
<1>4. ImportsOf(rebuilt) = {e \in ImportsOf(graph) : e.from \in kept /\ e.to \in kept}
                              \cup ImportEdges(piece, DOMAIN piece)
  BY RebuiltImports
<1>5. rebuilt.nodes = NodesOf(new)
  BY <1>1, RebuiltFits DEF Intact, GoodPlan, Fits
<1> HIDE DEF piece, rebuilt, after
<1>6. ImportsOf(after) = {e \in given : e.kind = "imports"}
  <2>1. \A f \in DOMAIN new : FileNode(f) \in rebuilt.nodes
    BY <1>5, FileNodes
  <2>2. Shape(after.edges, given, rebuilt.nodes)
    BY <1>2, <2>1, ResolvedAgain DEF Changes
  <2> HIDE DEF given
  <2> QED
    BY <2>2, ShapeImports
<1>7. \A e : e \in ImportsOf(after) <=>
         \/ e \in again
         \/ /\ e \in ImportsOf(rebuilt)
            /\ {e.from, e.to} \cap {n \in rebuilt.nodes : n.file \in plan.affected} = {}
  <2>1. \A e \in again : e.kind = "imports"
    BY AreImports
  <2> HIDE DEF again
  <2> QED
    BY <1>6, <2>1 DEF Untouched, ImportsOf
<1>8. \A e : e \in ImportEdges(new, DOMAIN new) <=>
         \E f, i, g : Links(new, f, i, g) /\ e = ImportEdge(new, f, i, g)
  BY PlainEdges DEF Changes, Links
<1>9. \A e : e \in again <=>
         \E f \in plan.affected : \E i, g : Links(new, f, i, g) /\ e = ImportEdge(new, f, i, g)
  BY PlainEdges DEF Changes, Links
<1> HIDE DEF again, given
<1>10. ASSUME NEW e \in ImportsOf(after)
       PROVE  e \in ImportEdges(new, DOMAIN new)
  <2>1. CASE e \in again
    BY <1>8, <1>9, <2>1
  <2>2. CASE e \in ImportsOf(graph) /\ e.from \in kept /\ e.to \in kept
    <3>1. PICK f \in DOMAIN files : \E i, g : Links(files, f, i, g) /\ e = ImportEdge(files, f, i, g)
      BY <2>2, PlainEdges DEF Intact
    <3>2. PICK i, g : Links(files, f, i, g) /\ e = ImportEdge(files, f, i, g)
      BY <3>1
    <3>3. f \notin changed /\ g \notin changed
      BY <1>1, <2>2, <3>2, ImportEdgeEnds DEF GoodPlan
    <3>4. f \in DOMAIN new /\ g \in DOMAIN new /\ new[f] = files[f]
      BY <3>2, <3>3 DEF Changes, Links
    <3> QED
      BY <1>8, <3>2, <3>4, LinksAreLocal
  <2>3. CASE e \in ImportEdges(piece, DOMAIN piece)
    <3>1. PICK f, i, g : Links(piece, f, i, g) /\ e = ImportEdge(piece, f, i, g)
      BY <1>3, <2>3, PlainEdges
    <3>2. f \in DOMAIN new /\ g \in DOMAIN new /\ new[f] = piece[f]
      BY <1>3, <3>1 DEF Links
    <3> QED
      BY <1>8, <3>1, <3>2, LinksAreLocal
  <2> QED
    BY <1>4, <1>7, <2>1, <2>2, <2>3
<1>11. ASSUME NEW e \in ImportEdges(new, DOMAIN new)
       PROVE  e \in ImportsOf(after)
  <2>1. PICK f, i, g : Links(new, f, i, g) /\ e = ImportEdge(new, f, i, g)
    BY <1>8
  <2>2. CASE f \in plan.affected
    BY <1>7, <1>9, <2>1, <2>2
  <2>3. CASE f \notin plan.affected
    <3>1. /\ e \in ImportsOf(graph) /\ g \notin plan.affected
          /\ FileNode(f) \in graph.nodes /\ FileNode(g) \in graph.nodes
          /\ f \in plan.mutated <=> g \in plan.mutated
      BY <1>1, <2>1, <2>3, LinksUntouched
    <3>2. /\ e.from = FileNode(f) /\ e.to = FileNode(g)
          /\ e.from.file = f /\ e.to.file = g
      BY <2>1, ImportEdgeEnds
    <3>3. e \in ImportsOf(rebuilt)
      <4>1. CASE f \in plan.mutated
        <5>1. f \in DOMAIN piece /\ g \in DOMAIN piece /\ piece[f] = new[f]
          BY <1>3, <2>1, <3>1, <4>1 DEF Links
        <5>2. Links(piece, f, i, g) /\ e = ImportEdge(piece, f, i, g)
          BY <2>1, <5>1, LinksAreLocal
        <5>3. e \in ImportEdges(piece, DOMAIN piece)
          BY <1>3, <5>1, <5>2, PlainEdges
        <5> QED
          BY <1>4, <5>3
      <4>2. CASE f \notin plan.mutated
        BY <1>4, <3>1, <3>2, <4>2
      <4> QED
        BY <4>1, <4>2
    <3>4. {e.from, e.to} \cap {n \in rebuilt.nodes : n.file \in plan.affected} = {}
      BY <2>3, <3>1, <3>2
    <3> QED
      BY <1>7, <3>3, <3>4
  <2> QED
    BY <2>2, <2>3
<1> QED
  BY <1>10, <1>11 DEF after

\* If every import is plain, the edges between importing and imported files are
\* those of a build from nothing after every sequence of batches, though those
\* of a file's neighbours come from a fragment that sees only some of the files
\* (apply_changes_selective).
THEOREM ImportsStayClean == PlainImports => (Spec => []ImportsMatchClean)
<1> SUFFICES ASSUME PlainImports
             PROVE  Spec => []ImportsMatchClean
  OBVIOUS
<1> DEFINE SameImports == ImportsOf(graph) = ImportEdges(files, DOMAIN files)
<1>1. Init => SameImports
  <2> SUFFICES ASSUME Init
               PROVE  SameImports
    OBVIOUS
  <2>1. Parsed(files) /\ graph = CleanGraph(files)
    BY StartsIntact DEF Intact, Init
  <2> QED
    BY <2>1, CleanImports
<1>2. Intact /\ SameImports /\ [Next]_vars => SameImports'
  <2> SUFFICES ASSUME Intact, SameImports, [Next]_vars
               PROVE  SameImports'
    OBVIOUS
  <2>1. CASE ApplyBatch
    <3>1. PICK c \in Edits \cup Renames : ApplySelective(c.changed, c.new, c.previous)
      BY <2>1 DEF ApplyBatch
    <3>2. Changes(c.changed, c.new)
      BY BatchChanges DEF Intact
    <3>3. files' = c.new /\ graph' = After(c.changed, c.new, c.previous)
      BY <3>1, SelectiveIs
    <3>4. ImportsOf(After(c.changed, c.new, c.previous)) = ImportEdges(c.new, DOMAIN c.new)
      BY <3>2, AfterImports
    <3> QED
      BY <3>3, <3>4
  <2>2. CASE UnknownRename
    <3>1. PICK to \in Paths : \E content \in Contents(to) :
             ReconcileFull(With(files, {to}, [f \in {to} |-> content]))
      BY <2>2 DEF UnknownRename
    <3>2. PICK content \in Contents(to) :
             ReconcileFull(With(files, {to}, [f \in {to} |-> content]))
      BY <3>1
    <3> DEFINE new == With(files, {to}, [f \in {to} |-> content])
    <3>3. Parsed(new)
      BY ReadAgain DEF Intact
    <3> HIDE DEF new
    <3>4. files' = new /\ graph' = CleanGraph(new)
      BY <3>2 DEF ReconcileFull, new
    <3> QED
      BY <3>3, <3>4, CleanImports
  <2>3. CASE UNCHANGED vars
    BY <2>3 DEF vars
  <2> QED
    BY <2>1, <2>2, <2>3 DEF Next
<1>3. Intact /\ SameImports => ImportsMatchClean
  BY PlainProper DEF Intact, ImportsMatchClean, ImportsOf, ProperImports
<1> HIDE DEF SameImports
<1> QED
  BY <1>1, <1>2, <1>3, AlwaysIntact, PTL DEF Spec

-----------------------------------------------------------------------------
(* Calls.                                                                  *)

\* Two engines that differ only in files that changed.
Agree(E, M, changed) ==
    \A n : n.file \notin changed =>
        /\ n \in E.nodes <=> n \in M.nodes
        /\ n \in E.nodes => E.repo[n.file] = M.repo[n.file]

\* No node of a changed file has to do with what a binding of a file binds.
Aloof(E, changed, imported, b, name) ==
    \A n \in Named(E, Remote(b, name)) : n.file \in changed =>
        /\ ~MatchesTarget(n.file, b.target) /\ ~MatchesTarget(b.target, n.file)
        /\ n.file \notin imported

LEMMA NamedAgree ==
    ASSUME NEW E, NEW M, NEW changed, Agree(E, M, changed), NEW name,
           \A n \in Named(E, name) \cup Named(M, name) : n.file \notin changed
    PROVE  Named(E, name) = Named(M, name)
BY DEF Agree, Named

\* The candidates of one binding in ResolveCall.
AliasCandidates(E, imported, caller, callee, b) ==
    LET match(n) == MatchesTarget(n.file, b.target)
                      \/ MatchesTarget(b.target, n.file)
        here == {n \in Named(E, Remote(b, callee)) : SameLanguage(E, caller, n)}
    IN  Candidates({n \in here : match(n) \/ (n.file \in imported /\ Remote(b, callee) # callee)}, 3, TRUE)
        \cup Candidates({n \in here : ~match(n) /\ n.file \in imported
                                        /\ Remote(b, callee) = callee}, 4, TRUE)

LEMMA AliasesAgree ==
    ASSUME NEW E, NEW M, NEW changed, Agree(E, M, changed),
           NEW caller, caller.file \notin changed, E.repo[caller.file] = M.repo[caller.file],
           NEW callee, NEW b, NEW importedE, NEW importedM,
           \A g : g \notin changed => (g \in importedE <=> g \in importedM),
           Aloof(E, changed, importedE, b, callee), Aloof(M, changed, importedM, b, callee)
    PROVE  AliasCandidates(E, importedE, caller, callee, b)
              = AliasCandidates(M, importedM, caller, callee, b)
<1> DEFINE match(n) == MatchesTarget(n.file, b.target) \/ MatchesTarget(b.target, n.file)
           remote == Remote(b, callee)
           hereE == {n \in Named(E, remote) : SameLanguage(E, caller, n)}
           hereM == {n \in Named(M, remote) : SameLanguage(M, caller, n)}
           surelyE == {n \in hereE : match(n) \/ (n.file \in importedE /\ remote # callee)}
           surelyM == {n \in hereM : match(n) \/ (n.file \in importedM /\ remote # callee)}
           maybeE == {n \in hereE : ~match(n) /\ n.file \in importedE /\ remote = callee}
           maybeM == {n \in hereM : ~match(n) /\ n.file \in importedM /\ remote = callee}
<1>1. \A n : n.file \notin changed => (n \in hereE <=> n \in hereM)
  BY DEF Agree, Named, SameLanguage
<1>2. \A n \in surelyE \cup maybeE : n.file \notin changed
  BY DEF Aloof
<1>3. \A n \in surelyM \cup maybeM : n.file \notin changed
  BY DEF Aloof
<1> HIDE DEF hereE, hereM, match
<1>4. surelyE = surelyM /\ maybeE = maybeM
  BY <1>1, <1>2, <1>3
<1>5. /\ AliasCandidates(E, importedE, caller, callee, b)
            = Candidates(surelyE, 3, TRUE) \cup Candidates(maybeE, 4, TRUE)
      /\ AliasCandidates(M, importedM, caller, callee, b)
            = Candidates(surelyM, 3, TRUE) \cup Candidates(maybeM, 4, TRUE)
  BY Zenon DEF AliasCandidates, hereE, hereM, match
<1> HIDE DEF surelyE, surelyM, maybeE, maybeM
<1> QED
  BY <1>4, <1>5, Zenon

\* Two engines that know the same of a file, but for files that changed and
\* that have to do neither with a name in it nor with its bindings.
Alike(E, M, changed, f, callee, linkedE, linkedM) ==
    /\ f \notin changed /\ E.repo[f] = M.repo[f] /\ FileDirectives(E, f) = FileDirectives(M, f)
    /\ \A n \in Named(E, callee) \cup Named(M, callee) : n.file \notin changed
    /\ \A g : g \notin changed =>
          (g \in ImportedFiles(E, f) \cup linkedE <=> g \in ImportedFiles(M, f) \cup linkedM)
    /\ \A b \in Bound(FileDirectives(E, f), callee) :
          /\ Aloof(E, changed, ImportedFiles(E, f) \cup linkedE, b, callee)
          /\ Aloof(M, changed, ImportedFiles(M, f) \cup linkedM, b, callee)

\* To them a call means the same.
LEMMA CallsAgree ==
    ASSUME NEW E, NEW M, NEW changed, Agree(E, M, changed),
           NEW f, NEW callee, NEW linkedE, NEW linkedM,
           Alike(E, M, changed, f, callee, linkedE, linkedM), NEW caller, caller.file = f
    PROVE  ResolveCall(E, linkedE, f, caller, callee) = ResolveCall(M, linkedM, f, caller, callee)
<1> DEFINE dirs == FileDirectives(E, f)
           importedE == ImportedFiles(E, f) \cup linkedE
           importedM == ImportedFiles(M, f) \cup linkedM
           says(d, n) ==
               IF d.sym # None
               THEN d.sym \in {callee, Star} /\ MatchesTarget(n.file, d.target)
               ELSE /\ d.target # <<>> /\ Last(d.target) = callee
                    /\ MatchesTarget(n.file, d.target) \/ MatchesTarget(d.target, n.file)
           aliased(G, imported) ==
               UNION {AliasCandidates(G, imported, caller, callee, b) : b \in Bound(dirs, callee)}
           direct(G, named) == {n \in named : SameLanguage(G, caller, n)
                                                 /\ \E i \in DOMAIN dirs : says(dirs[i], n)}
           members(named) == {n \in named : n.kind = "method" /\ n.container # None}
           own(named) == {n \in members(named) : IsMethodOf(n.container, caller)}
           here(named) == {n \in named : n.file = f}
           others(named, imported) == {n \in members(named) \ own(named) : n.file \in imported}
           linkedTo(named, imported) == {n \in named : n.file # f /\ n.file \in imported}
           reasons(G, imported, named) ==
               <<Lexical(G, f, caller, callee),
                 Candidates(here(named), 2, TRUE),
                 aliased(G, imported),
                 Candidates(direct(G, named), 4, TRUE),
                 Candidates(own(named), 2, FALSE),
                 Candidates(others(named, imported), 5, FALSE),
                 Candidates(linkedTo(named, imported), 4, TRUE)>>
           names == Named(E, callee)
<1> USE DEF Alike
<1>1. Named(M, callee) = names
  BY NamedAgree
<1>2. ResolveCall(E, linkedE, f, caller, callee) = Outcome(reasons(E, importedE, names))
  BY Zenon DEF ResolveCall, AliasCandidates
<1>3. ResolveCall(M, linkedM, f, caller, callee) = Outcome(reasons(M, importedM, Named(M, callee)))
  <2>1. FileDirectives(M, f) = dirs
    OBVIOUS
  <2> HIDE DEF dirs
  <2> QED
    BY <2>1, Zenon DEF ResolveCall, AliasCandidates
<1>4. Lexical(E, f, caller, callee) = Lexical(M, f, caller, callee)
  <2>1. \A scope : InScope(E, scope, callee) = InScope(M, scope, callee)
    BY <1>1 DEF InScope
  <2> QED
    BY <2>1 DEF Lexical
<1>5. aliased(E, importedE) = aliased(M, importedM)
  <2>1. \A b \in Bound(dirs, callee) :
           AliasCandidates(E, importedE, caller, callee, b)
              = AliasCandidates(M, importedM, caller, callee, b)
    BY AliasesAgree
  <2> HIDE DEF importedE, importedM, dirs
  <2> QED
    BY <2>1
<1>6. \A n \in names : n.file \notin changed /\ (n.file \in importedE <=> n.file \in importedM)
  OBVIOUS
<1>7. direct(E, names) = direct(M, names)
  <2>1. \A n \in names : SameLanguage(E, caller, n) <=> SameLanguage(M, caller, n)
    BY <1>6 DEF Agree, SameLanguage, Named
  <2> HIDE DEF says, names, dirs
  <2> QED
    BY <2>1
<1> HIDE DEF names, importedE, importedM
<1>8. /\ others(names, importedE) = others(names, importedM)
      /\ linkedTo(names, importedE) = linkedTo(names, importedM)
  BY <1>6
<1> HIDE DEF aliased, direct, own, here, others, linkedTo
<1>9. reasons(E, importedE, names) = reasons(M, importedM, names)
  BY <1>4, <1>5, <1>7, <1>8, Zenon
<1> HIDE DEF reasons
<1> QED
  BY <1>1, <1>2, <1>3, <1>9, Zenon

\* What a batch looks up in the indexes.
Keys(changed, new, previous) ==
    (UNION {LookupKeys(f) : f \in changed})
      \cup (UNION {Surface(new[f]) : f \in changed \cap DOMAIN new})
      \cup UNION {Surface(files[f]) : f \in previous}

\* A file that is not affected looks up none of the keys of the batch.
LEMMA NoSharedKey ==
    ASSUME Parsed(files), ConsumersIndexed,
           NEW changed, NEW new, NEW previous,
           NEW plan, GoodPlan(plan, changed, new, previous),
           NEW f \in DOMAIN files, f \notin plan.affected,
           NEW x \in Dependencies(files, f)
    PROVE  x.key \notin Keys(changed, new, previous)
<1>1. f \notin changed
  BY DEF GoodPlan
<1>2. x \in dependents /\ x.file = f
  BY EntriesAreOwned DEF ConsumersIndexed
<1>3. ReverseHints(changed, new, previous)
        = {y.file : y \in {y \in pending \cup dependents :
                             y.key \in Keys(changed, new, previous)}} \ changed
  BY Zenon DEF ReverseHints, Keys
<1>4. f \notin ReverseHints(changed, new, previous)
  BY DEF GoodPlan
<1> QED
  BY <1>1, <1>2, <1>3, <1>4

\* Nor has a symbol of a changed file a name that it looks up.
LEMMA CallsAreKeyed ==
    ASSUME Parsed(files), ConsumersIndexed,
           NEW changed, NEW new, NEW previous,
           changed \cap DOMAIN files \subseteq previous,
           NEW plan, GoodPlan(plan, changed, new, previous),
           NEW f \in DOMAIN files, f \notin plan.affected,
           NEW x \in Dependencies(files, f), NEW name, x.key = <<name>>,
           NEW n \in NodesOf(files) \cup NodesOf(new), n.kind # "file", n.name = name
    PROVE  n.file \notin changed
<1> SUFFICES ASSUME n.file \in changed
             PROVE  FALSE
  OBVIOUS
<1>1. \A g, s : /\ SymbolNode(g, s).name = s.name /\ SymbolNode(g, s).file = g
                /\ FileNode(g).kind = "file"
  BY DEF SymbolNode, FileNode
<1>2. x.key \notin Keys(changed, new, previous)
  BY NoSharedKey
<1>3. CASE n \in NodesOf(files)
  <2>1. PICK g \in DOMAIN files : \E s \in files[g].symbols : n = SymbolNode(g, s)
    BY <1>1, <1>3, NodesAre
  <2>2. PICK s \in files[g].symbols : n = SymbolNode(g, s)
    BY <2>1
  <2>3. g \in previous /\ s.name = name
    BY <1>1, <2>1, <2>2
  <2>4. <<name>> \in Surface(files[g])
    BY <2>2, <2>3 DEF Surface
  <2> QED
    BY <1>2, <2>3, <2>4 DEF Keys
<1>4. CASE n \in NodesOf(new)
  <2>1. PICK g \in DOMAIN new : \E s \in new[g].symbols : n = SymbolNode(g, s)
    BY <1>1, <1>4, NodesAre
  <2>2. PICK s \in new[g].symbols : n = SymbolNode(g, s)
    BY <2>1
  <2>3. g \in changed /\ s.name = name
    BY <1>1, <2>1, <2>2
  <2>4. <<name>> \in Surface(new[g])
    BY <2>2, <2>3 DEF Surface
  <2> QED
    BY <1>2, <2>1, <2>3, <2>4 DEF Keys
<1> QED
  BY <1>3, <1>4

\* Keys of the imports of a file.
KeysOf(c) == UNION {ImportKeys(c.lang, c.imports[i]) : i \in DOMAIN c.imports}

LEMMA ImportKeysAreKept ==
    ASSUME NEW f, NEW k \in KeysOf(files[f])
    PROVE  \E x \in Dependencies(files, f) : x.key = k
<1>1. PICK i \in DOMAIN files[f].imports : k \in ImportKeys(files[f].lang, files[f].imports[i])
  BY DEF KeysOf
<1>2. Entry("imports", k, f) \in ImportEntries(files, f, files[f].imports[i])
  BY <1>1 DEF ImportEntries
<1>3. Entry("imports", k, f).key = k
  BY DEF Entry
<1> QED
  BY <1>1, <1>2, <1>3 DEF Dependencies

\* And a file that shares a key with an import of it has not changed.
LEMMA KeyedIsUnchanged ==
    ASSUME Parsed(files), ConsumersIndexed,
           NEW changed, NEW new, NEW previous,
           NEW plan, GoodPlan(plan, changed, new, previous),
           NEW f \in DOMAIN files, f \notin plan.affected,
           NEW g, LookupKeys(g) \cap KeysOf(files[f]) # {}
    PROVE  g \notin changed
<1>1. PICK k \in LookupKeys(g) : k \in KeysOf(files[f])
  OBVIOUS
<1>2. PICK x \in Dependencies(files, f) : x.key = k
  BY <1>1, ImportKeysAreKept
<1>3. k \notin Keys(changed, new, previous)
  BY <1>2, NoSharedKey
<1> QED
  BY <1>1, <1>3 DEF Keys

\* The files the edges of the imports link a file to.
LinkedBy(imports, f) == {e.to.file : e \in {e \in imports : e.from = FileNode(f)}}

LEMMA PlainLinked ==
    ASSUME PlainImports, NEW repo, Parsed(repo), NEW fs, fs \subseteq DOMAIN repo,
           NEW f \in fs, NEW g
    PROVE  g \in LinkedBy(ImportEdges(repo, fs), f) <=> \E i : Links(repo, f, i, g)
<1>1. ASSUME NEW i, Links(repo, f, i, g)
      PROVE  g \in LinkedBy(ImportEdges(repo, fs), f)
  <2> DEFINE e == ImportEdge(repo, f, i, g)
  <2>1. e \in ImportEdges(repo, fs)
    BY <1>1, PlainEdges
  <2>2. e.from = FileNode(f) /\ e.to.file = g
    BY ImportEdgeEnds
  <2> HIDE DEF e
  <2> QED
    BY <2>1, <2>2 DEF LinkedBy
<1>2. ASSUME g \in LinkedBy(ImportEdges(repo, fs), f)
      PROVE  \E i : Links(repo, f, i, g)
  <2>1. PICK e \in ImportEdges(repo, fs) : e.from = FileNode(f) /\ e.to.file = g
    BY <1>2 DEF LinkedBy
  <2>2. PICK h, i, k : Links(repo, h, i, k) /\ e = ImportEdge(repo, h, i, k)
    BY <2>1, PlainEdges
  <2>3. h = f /\ k = g
    BY <2>1, <2>2, ImportEdgeEnds, NodesAreOf
  <2> QED
    BY <2>2, <2>3
<1> QED
  BY <1>1, <1>2

\* A file that is not affected is linked to the same files, none of them changed.
LEMMA LinksAgree ==
    ASSUME PlainImports, Parsed(files), ConsumersIndexed,
           NEW changed, NEW new, NEW previous, Changes(changed, new),
           NEW plan, GoodPlan(plan, changed, new, previous),
           NEW f \in DOMAIN files, f \notin plan.affected, NEW i, NEW g
    PROVE  /\ Links(files, f, i, g) <=> Links(new, f, i, g)
           /\ Links(files, f, i, g) => g \notin changed
<1>1. f \notin changed /\ f \in DOMAIN new /\ new[f] = files[f]
  BY DEF GoodPlan, Changes
<1>2. Links(new, f, i, g) => g \notin changed
  BY ImportersAreAffected
<1>3. ASSUME Links(files, f, i, g)
      PROVE  g \notin changed
  <2>1. LookupKeys(g) \cap ImportKeys(files[f].lang, files[f].imports[i]) # {}
    BY <1>3, PlainMeans
  <2>2. LookupKeys(g) \cap KeysOf(files[f]) # {}
    BY <1>3, <2>1 DEF KeysOf, Links
  <2> QED
    BY <2>2, KeyedIsUnchanged
<1>4. Links(files, f, i, g) => Links(new, f, i, g)
  BY <1>1, <1>3, LinksAreLocal DEF Changes, Links
<1>5. Links(new, f, i, g) => Links(files, f, i, g)
  BY <1>1, <1>2, LinksAreLocal DEF Changes, Links
<1> QED
  BY <1>3, <1>4, <1>5

LEMMA EngineIs ==
    ASSUME NEW nodes, NEW repo
    PROVE  /\ Engine(nodes, repo).nodes = nodes /\ Engine(nodes, repo).repo = repo
           /\ \A f \in DOMAIN repo : FileDirectives(Engine(nodes, repo), f) = Directives(repo[f])
BY DEF Engine, FileDirectives

LEMMA EnginesAgree ==
    ASSUME NEW changed, NEW new, Changes(changed, new)
    PROVE  Agree(Engine(NodesOf(files), files), Engine(NodesOf(new), new), changed)
<1> SUFFICES ASSUME NEW n, n.file \notin changed
             PROVE  /\ n \in NodesOf(files) <=> n \in NodesOf(new)
                    /\ n \in NodesOf(files) => files[n.file] = new[n.file]
  BY EngineIs DEF Agree
<1>1. n \in NodesOf(files) <=>
         \E f \in DOMAIN files :
            n = FileNode(f) \/ \E s \in files[f].symbols : n = SymbolNode(f, s)
  BY NodesAre
<1>2. n \in NodesOf(new) <=>
         \E f \in DOMAIN new :
            n = FileNode(f) \/ \E s \in new[f].symbols : n = SymbolNode(f, s)
  BY NodesAre
<1>3. \A f : n = FileNode(f) => n.file = f
  BY NodesAreOf
<1>4. \A f, s : n = SymbolNode(f, s) => n.file = f
  BY NodesAreOf
<1>5. /\ n.file \in DOMAIN files <=> n.file \in DOMAIN new
      /\ n.file \in DOMAIN files => new[n.file] = files[n.file]
  BY DEF Changes
<1> QED
  BY <1>1, <1>2, <1>3, <1>4, <1>5

LEMMA UseKeysAreKept ==
    ASSUME NEW f, NEW u \in files[f].uses
    PROVE  \E x \in Dependencies(files, f) : x.key = <<u.name>>
<1>1. Entry(u.kind, <<u.name>>, f) \in UseKeys(files, f)
  BY DEF UseKeys
<1>2. Entry(u.kind, <<u.name>>, f).key = <<u.name>>
  BY DEF Entry
<1> QED
  BY <1>1, <1>2 DEF Dependencies

LEMMA AliasesAreAloof ==
    ASSUME KeyedAliases, Parsed(files), ConsumersIndexed,
           NEW changed, NEW new, NEW previous, Changes(changed, new),
           changed \cap DOMAIN files \subseteq previous,
           NEW plan, GoodPlan(plan, changed, new, previous),
           NEW f \in DOMAIN files, f \notin plan.affected,
           NEW u \in Calls(files[f]), NEW b \in Bound(Directives(files[f]), u.name),
           NEW repo, repo = files \/ repo = new, repo[f] = files[f], f \in DOMAIN repo,
           NEW linked, \A g \in linked : g \notin changed
    PROVE  LET E == Engine(NodesOf(repo), repo)
           IN  Aloof(E, changed, ImportedFiles(E, f) \cup linked, b, u.name)
<1> DEFINE E == Engine(NodesOf(repo), repo)
           dirs == Directives(files[f])
           remote == Remote(b, u.name)
<1>1. E.nodes = NodesOf(repo) /\ E.repo = repo /\ FileDirectives(E, f) = dirs
  BY EngineIs
<1> HIDE DEF E
<1> SUFFICES ASSUME NEW n \in Named(E, remote), n.file \in changed
             PROVE  /\ ~MatchesTarget(n.file, b.target) /\ ~MatchesTarget(b.target, n.file)
                    /\ n.file \notin ImportedFiles(E, f) \cup linked
  BY DEF Aloof, E
<1>2. n \in NodesOf(files) \cup NodesOf(new) /\ n.kind # "file" /\ n.name = remote
  BY <1>1 DEF Named
<1>3. \A x \in Dependencies(files, f) : x.key # <<remote>>
  BY <1>2, CallsAreKeyed
<1>4. remote # u.name
  BY <1>3, UseKeysAreKept DEF Calls
<1>5. PICK i \in DOMAIN dirs : b = Binding(dirs[i]) /\ Binds(dirs[i], u.name)
  BY DEF Bound
<1>6. b.target = dirs[i].target /\ b.remote = dirs[i].sym
  BY <1>5 DEF Binding
<1>7. remote = dirs[i].sym /\ dirs[i].sym # None
  BY <1>4, <1>6 DEF Remote
<1>8. dirs[i].alias # None /\ dirs[i].alias = u.name
  BY <1>4, <1>5, <1>7 DEF Binds
<1> DEFINE heard(g) == \E j \in DOMAIN dirs : \/ MatchesTarget(g, dirs[j].target)
                                             \/ MatchesTarget(dirs[j].target, g)
<1>9. \/ <<dirs[i].sym>> \in KeysOf(files[f])
      \/ \A g \in Paths : heard(g) => LookupKeys(g) \cap KeysOf(files[f]) # {}
  <2>1. f \in Paths /\ files[f] \in Contents(f)
    BY DEF Parsed
  <2>2. dirs[i].alias # None /\ dirs[i].sym \notin {None, dirs[i].alias}
    BY <1>4, <1>7, <1>8
  <2> QED
    BY <2>1, <2>2 DEF KeyedAliases, KeysOf
<1>10. <<dirs[i].sym>> \notin KeysOf(files[f])
  BY <1>3, <1>7, ImportKeysAreKept
<1>11. \A g \in Paths : heard(g) => g \notin changed
  BY <1>9, <1>10, KeyedIsUnchanged
<1>12. n.file \in Paths
  BY DEF Changes
<1>13. ~heard(n.file)
  BY <1>11, <1>12
<1>14. n.file \notin ImportedFiles(E, f)
  BY <1>1, <1>13 DEF ImportedFiles
<1>15. ~MatchesTarget(n.file, b.target) /\ ~MatchesTarget(b.target, n.file)
  BY <1>6, <1>13
<1> QED
  BY <1>14, <1>15

LEMMA OutcomeBy ==
    ASSUME NEW E, NEW imports, NEW f, NEW u
    PROVE  CallOutcome(E, imports, f, u) =
              IF Origins(E.nodes, f, u.from) = {} THEN Unresolved
              ELSE ResolveCall(E, LinkedBy(imports, f), f,
                               CHOOSE n \in Origins(E.nodes, f, u.from) : TRUE, u.name)
BY Zenon DEF CallOutcome, LinkedBy

\* Of the imports only the files they link count.
LEMMA LinksDecide ==
    ASSUME NEW E, NEW A, NEW B, NEW f, NEW u, LinkedBy(A, f) = LinkedBy(B, f)
    PROVE  CallOutcome(E, A, f, u) = CallOutcome(E, B, f, u)
<1> DEFINE callers == Origins(E.nodes, f, u.from)
           call(linked) == IF callers = {} THEN Unresolved
                           ELSE ResolveCall(E, linked, f, CHOOSE n \in callers : TRUE, u.name)
<1>1. CallOutcome(E, A, f, u) = call(LinkedBy(A, f))
  BY OutcomeBy
<1>2. CallOutcome(E, B, f, u) = call(LinkedBy(B, f))
  BY OutcomeBy
<1> HIDE DEF call
<1> QED
  BY <1>1, <1>2

\* The calls of a file that is not affected mean what they meant.
LEMMA OutcomesAgree ==
    ASSUME PlainImports, KeyedAliases, Parsed(files), ConsumersIndexed,
           NEW changed, NEW new, NEW previous, Changes(changed, new),
           changed \cap DOMAIN files \subseteq previous,
           NEW plan, GoodPlan(plan, changed, new, previous),
           NEW f \in DOMAIN files, f \notin plan.affected, NEW u \in Calls(files[f])
    PROVE  CallOutcome(Engine(NodesOf(files), files), ImportEdges(files, DOMAIN files), f, u)
              = CallOutcome(Engine(NodesOf(new), new), ImportEdges(new, DOMAIN new), f, u)
<1> DEFINE E == Engine(NodesOf(files), files)
           M == Engine(NodesOf(new), new)
           linkedE == LinkedBy(ImportEdges(files, DOMAIN files), f)
           linkedM == LinkedBy(ImportEdges(new, DOMAIN new), f)
           dirs == Directives(files[f])
           callersE == Origins(E.nodes, f, u.from)
           callersM == Origins(M.nodes, f, u.from)
           caller == CHOOSE n \in callersE : TRUE
<1>1. f \notin changed /\ f \in DOMAIN new /\ new[f] = files[f]
  BY DEF GoodPlan, Changes
<1>2. /\ E.nodes = NodesOf(files) /\ E.repo = files /\ FileDirectives(E, f) = dirs
      /\ M.nodes = NodesOf(new) /\ M.repo = new /\ FileDirectives(M, f) = dirs
  BY <1>1, EngineIs
<1>3. Agree(E, M, changed)
  BY EnginesAgree
<1>4. \A g : g \in linkedE <=> \E i : Links(files, f, i, g)
  BY PlainLinked
<1>5. \A g : g \in linkedM <=> \E i : Links(new, f, i, g)
  BY <1>1, PlainLinked DEF Changes
<1>6. linkedE = linkedM /\ \A g \in linkedE : g \notin changed
  <2>1. \A g, i : /\ Links(files, f, i, g) <=> Links(new, f, i, g)
                  /\ Links(files, f, i, g) => g \notin changed
    BY LinksAgree
  <2>2. \A g : /\ g \in linkedE <=> g \in linkedM
               /\ g \in linkedE => g \notin changed
    BY <1>4, <1>5, <2>1
  <2>3. linkedE = linkedM
    BY <2>2 DEF LinkedBy
  <2> QED
    BY <2>2, <2>3
<1>7. \A b \in Bound(dirs, u.name) :
         /\ Aloof(E, changed, ImportedFiles(E, f) \cup linkedE, b, u.name)
         /\ Aloof(M, changed, ImportedFiles(M, f) \cup linkedM, b, u.name)
  <2> HIDE DEF linkedE, linkedM
  <2> QED
    BY <1>1, <1>6, AliasesAreAloof
<1> HIDE DEF E, M, linkedE, linkedM
<1>8. \A n : n \in callersE <=> n \in callersM
  BY <1>1, <1>3 DEF Origins, QName, Agree
<1>9. callersE = callersM /\ \A n \in callersE : n.file = f
  BY <1>8 DEF Origins, QName
<1>10. \A n \in Named(E, u.name) \cup Named(M, u.name) : n.file \notin changed
  <2>1. PICK x \in Dependencies(files, f) : x.key = <<u.name>>
    BY UseKeysAreKept DEF Calls
  <2>2. ASSUME NEW n \in Named(E, u.name) \cup Named(M, u.name)
        PROVE  n.file \notin changed
    <3>1. n \in NodesOf(files) \cup NodesOf(new) /\ n.kind # "file" /\ n.name = u.name
      BY <1>2 DEF Named
    <3> QED
      BY <2>1, <3>1, CallsAreKeyed
  <2> QED
    BY <2>2
<1>11. \A g : g \notin changed =>
          (g \in ImportedFiles(E, f) \cup linkedE <=> g \in ImportedFiles(M, f) \cup linkedM)
  BY <1>2, <1>6 DEF ImportedFiles, Changes
<1>12. CASE callersE = {}
  <2> HIDE DEF callersE, callersM
  <2> QED
    BY <1>9, <1>12, OutcomeBy DEF callersE, callersM, E, M
<1>13. CASE callersE # {}
  <2>1. caller.file = f
    BY <1>9, <1>13
  <2> HIDE DEF caller, dirs
  <2>2. ResolveCall(E, linkedE, f, caller, u.name) = ResolveCall(M, linkedM, f, caller, u.name)
    <3>1. E.repo[f] = M.repo[f] /\ FileDirectives(E, f) = FileDirectives(M, f)
      BY <1>1, <1>2
    <3>2. \A b \in Bound(FileDirectives(E, f), u.name) :
             /\ Aloof(E, changed, ImportedFiles(E, f) \cup linkedE, b, u.name)
             /\ Aloof(M, changed, ImportedFiles(M, f) \cup linkedM, b, u.name)
      BY <1>2, <1>7
    <3>3. Alike(E, M, changed, f, u.name, linkedE, linkedM)
      BY <1>1, <1>10, <1>11, <3>1, <3>2, Zenon DEF Alike
    <3> QED
      BY <1>3, <2>1, <3>3, CallsAgree
  <2>3. CallOutcome(E, ImportEdges(files, DOMAIN files), f, u)
           = ResolveCall(E, linkedE, f, caller, u.name)
    BY <1>13, OutcomeBy DEF caller, linkedE
  <2>4. CallOutcome(M, ImportEdges(new, DOMAIN new), f, u)
           = ResolveCall(M, linkedM, f, caller, u.name)
    BY <1>9, <1>13, OutcomeBy DEF caller, linkedM
  <2> QED
    BY <2>2, <2>3, <2>4 DEF E, M
<1> QED
  BY <1>12, <1>13

\* The outcomes of the calls, one by one.
LEMMA OutcomesAre ==
    ASSUME NEW nodes, NEW repo, NEW imports, NEW fs, NEW o
    PROVE  o \in CallOutcomes(nodes, repo, imports, fs) <=>
              \E f \in fs : \E u \in Calls(repo[f]) :
                 o = [file |-> f, call |-> u,
                      outcome |-> CallOutcome(Engine(nodes, repo), imports, f, u)]
BY DEF CallOutcomes

CleanCalls(repo) == CallOutcomes(NodesOf(repo), repo, ImportEdges(repo, DOMAIN repo), DOMAIN repo)

LEMMA CleanCallsAre ==
    ASSUME PlainImports, NEW repo, Parsed(repo)
    PROVE  CleanGraph(repo).calls = CleanCalls(repo)
<1> DEFINE built == BuildGraph(repo)
<1>1. built.nodes = NodesOf(repo)
  BY BuiltGraph
<1>2. ImportsOf(built) = ImportEdges(repo, DOMAIN repo)
  BY CleanImports
<1>3. CleanGraph(repo).calls = CallOutcomes(built.nodes, repo, ImportsOf(built), DOMAIN repo)
  <2> HIDE DEF built
  <2>1. ResolveCrossFile(built, repo).calls
          = CallOutcomes(built.nodes, repo, ImportsOf(built), DOMAIN repo)
    BY DEF ResolveCrossFile, ImportsOf
  <2> QED
    BY <2>1, CleanOne DEF built
<1> HIDE DEF built
<1> QED
  BY <1>1, <1>2, <1>3 DEF CleanCalls

LEMMA AfterCalls ==
    ASSUME PlainImports, KeyedAliases, Intact, graph.calls = CleanCalls(files),
           NEW changed, NEW new, NEW previous, Changes(changed, new),
           changed \cap DOMAIN files \subseteq previous
    PROVE  After(changed, new, previous).calls = CleanCalls(new)
<1> DEFINE plan == Plan(changed, new, previous)
           affected == plan.affected
           again == affected \cap DOMAIN new
           rebuilt == Rebuilt(plan, BuildGraph(Piece(plan, new)))
           after == After(changed, new, previous)
           E == Engine(NodesOf(files), files)
           M == Engine(NodesOf(new), new)
           imports == ImportEdges(new, DOMAIN new)
           row(G, links, f, u) == [file |-> f, call |-> u, outcome |-> CallOutcome(G, links, f, u)]
<1>1. GoodPlan(plan, changed, new, previous)
  BY PlanIsGood DEF Intact
<1>2. after = ResolveAffected(rebuilt, new, affected)
  BY DEF After
<1> HIDE DEF plan
<1>3. rebuilt.nodes = NodesOf(new)
  BY <1>1, RebuiltFits DEF Intact, GoodPlan, Fits
<1>4. rebuilt.calls = graph.calls
  BY DEF Rebuilt
<1> HIDE DEF rebuilt, after
<1>5. after.calls = {o \in graph.calls : o.file \notin affected}
                      \cup CallOutcomes(NodesOf(new), new, ImportEdges(new, again), again)
  BY <1>2, <1>3, <1>4 DEF ResolveAffected
<1>6. \A f \in again : \A u : CallOutcome(M, ImportEdges(new, again), f, u) = CallOutcome(M, imports, f, u)
  <2> SUFFICES ASSUME NEW f \in again, NEW u
               PROVE  CallOutcome(M, ImportEdges(new, again), f, u) = CallOutcome(M, imports, f, u)
    OBVIOUS
  <2>1. \A g : g \in LinkedBy(ImportEdges(new, again), f) <=> g \in LinkedBy(imports, f)
    BY PlainLinked DEF Changes
  <2>2. LinkedBy(ImportEdges(new, again), f) = LinkedBy(imports, f)
    BY <2>1 DEF LinkedBy
  <2> QED
    BY <2>2, LinksDecide
<1>7. \A f \in DOMAIN files : f \notin affected =>
         \A u \in Calls(files[f]) :
            CallOutcome(E, ImportEdges(files, DOMAIN files), f, u) = CallOutcome(M, imports, f, u)
  BY <1>1, OutcomesAgree DEF Intact
<1>8. \A f : f \notin affected => /\ f \in DOMAIN files <=> f \in DOMAIN new
                                  /\ f \in DOMAIN files => new[f] = files[f]
  BY <1>1 DEF GoodPlan, Changes
<1>9. \A o : o \in CleanCalls(new) <=>
         \E f \in DOMAIN new : \E u \in Calls(new[f]) : o = row(M, imports, f, u)
  BY OutcomesAre DEF CleanCalls
<1>10. \A o : o \in graph.calls <=>
          \E f \in DOMAIN files : \E u \in Calls(files[f]) :
             o = row(E, ImportEdges(files, DOMAIN files), f, u)
  BY OutcomesAre DEF CleanCalls
<1>11. \A o : o \in CallOutcomes(NodesOf(new), new, ImportEdges(new, again), again) <=>
          \E f \in again : \E u \in Calls(new[f]) : o = row(M, ImportEdges(new, again), f, u)
  <2> HIDE DEF again
  <2> QED
    BY OutcomesAre
<1> HIDE DEF affected
<1>12. ASSUME NEW o \in after.calls
       PROVE  o \in CleanCalls(new)
  <2>1. CASE o \in graph.calls /\ o.file \notin affected
    <3>1. PICK f \in DOMAIN files : \E u \in Calls(files[f]) :
             o = row(E, ImportEdges(files, DOMAIN files), f, u)
      BY <1>10, <2>1
    <3>2. PICK u \in Calls(files[f]) : o = row(E, ImportEdges(files, DOMAIN files), f, u)
      BY <3>1
    <3>3. f \notin affected
      BY <2>1, <3>2
    <3> HIDE DEF E, M, imports
    <3>4. o = row(M, imports, f, u)
      BY <1>7, <3>2, <3>3
    <3>5. f \in DOMAIN new /\ u \in Calls(new[f])
      BY <1>8, <3>3
    <3> HIDE DEF row
    <3> QED
      BY <1>9, <3>4, <3>5
  <2>2. CASE o \in CallOutcomes(NodesOf(new), new, ImportEdges(new, again), again)
    <3>1. PICK f \in again : \E u \in Calls(new[f]) : o = row(M, ImportEdges(new, again), f, u)
      BY <1>11, <2>2
    <3> HIDE DEF M, imports
    <3> QED
      BY <1>6, <1>9, <3>1
  <2> QED
    BY <1>5, <2>1, <2>2
<1>13. ASSUME NEW o \in CleanCalls(new)
       PROVE  o \in after.calls
  <2>1. PICK f \in DOMAIN new : \E u \in Calls(new[f]) : o = row(M, imports, f, u)
    BY <1>9
  <2>2. PICK u \in Calls(new[f]) : o = row(M, imports, f, u)
    BY <2>1
  <2> HIDE DEF E, M, imports
  <2>3. CASE f \in affected
    <3>1. f \in again
      BY <2>3
    <3>2. o = row(M, ImportEdges(new, again), f, u)
      BY <1>6, <2>2, <3>1
    <3> HIDE DEF row, again
    <3> QED
      BY <1>5, <1>11, <3>1, <3>2
  <2>4. CASE f \notin affected
    <3>1. f \in DOMAIN files /\ u \in Calls(files[f])
      BY <1>8, <2>2, <2>4
    <3>2. o = row(E, ImportEdges(files, DOMAIN files), f, u)
      BY <1>7, <2>2, <2>4, <3>1
    <3>3. o.file = f
      BY <2>2
    <3> QED
      BY <1>5, <1>10, <2>4, <3>1, <3>2, <3>3
  <2> QED
    BY <2>3, <2>4
<1> QED
  BY <1>12, <1>13 DEF after

\* If moreover symbols imported under another name are keyed, and no rename
\* replaces a file, the outcomes of all calls, and with them the report, are
\* those of a build from nothing, although a batch resolves the calls of the
\* files it affects and keeps the outcomes of the others (call_resolutions).
THEOREM CallReportStaysClean ==
    PlainImports /\ KeyedAliases => (RememberingSpec => []CallReportMatchesClean)
<1> SUFFICES ASSUME PlainImports, KeyedAliases
             PROVE  RememberingSpec => []CallReportMatchesClean
  OBVIOUS
<1> DEFINE Reported == graph.calls = CleanCalls(files)
<1>1. RememberedBatch => ApplyBatch
  BY DEF RememberedBatch, ApplyBatch
<1>2. [RememberedBatch \/ UnknownRename]_vars => [Next]_vars
  BY <1>1 DEF Next
<1>3. Init => Reported
  <2> SUFFICES ASSUME Init
               PROVE  Reported
    OBVIOUS
  <2>1. Parsed(files) /\ graph = CleanGraph(files)
    BY StartsIntact DEF Intact, Init
  <2> QED
    BY <2>1, CleanCallsAre
<1>4. Intact /\ Reported /\ [RememberedBatch \/ UnknownRename]_vars => Reported'
  <2> SUFFICES ASSUME Intact, Reported, [RememberedBatch \/ UnknownRename]_vars
               PROVE  Reported'
    OBVIOUS
  <2>1. CASE RememberedBatch
    <3>1. PICK c \in Edits \cup Renames :
             /\ c.changed \cap DOMAIN files \subseteq c.previous
             /\ ApplySelective(c.changed, c.new, c.previous)
      BY <2>1 DEF RememberedBatch
    <3>2. Changes(c.changed, c.new)
      BY BatchChanges DEF Intact
    <3>3. files' = c.new /\ graph' = After(c.changed, c.new, c.previous)
      BY <3>1, SelectiveIs
    <3>4. After(c.changed, c.new, c.previous).calls = CleanCalls(c.new)
      BY <3>1, <3>2, AfterCalls
    <3> QED
      BY <3>3, <3>4
  <2>2. CASE UnknownRename
    <3>1. PICK to \in Paths : \E content \in Contents(to) :
             ReconcileFull(With(files, {to}, [f \in {to} |-> content]))
      BY <2>2 DEF UnknownRename
    <3>2. PICK content \in Contents(to) :
             ReconcileFull(With(files, {to}, [f \in {to} |-> content]))
      BY <3>1
    <3> DEFINE new == With(files, {to}, [f \in {to} |-> content])
    <3>3. Parsed(new)
      BY ReadAgain DEF Intact
    <3> HIDE DEF new
    <3>4. files' = new /\ graph' = CleanGraph(new)
      BY <3>2 DEF ReconcileFull, new
    <3> QED
      BY <3>3, <3>4, CleanCallsAre
  <2>3. CASE UNCHANGED vars
    BY <2>3 DEF vars
  <2> QED
    BY <2>1, <2>2, <2>3
<1>5. Intact /\ Reported => CallReportMatchesClean
  BY CleanCallsAre DEF Intact, CallReportMatchesClean
<1> HIDE DEF Reported
<1>6. RememberingSpec => Spec
  BY <1>2, PTL DEF RememberingSpec, Spec
<1> QED
  BY <1>3, <1>4, <1>5, <1>6, AlwaysIntact, PTL DEF RememberingSpec
=============================================================================
