----------------------------- MODULE CodeGraph -----------------------------
(***************************************************************************)
(* The graph of a repository (src/src/graph/mod.rs): how it is built from  *)
(* the parsed files, how its calls are resolved over the whole, and how    *)
(* the edges of some files only are resolved again.                        *)
(*                                                                         *)
(* A graph is a set of nodes, a set of edges and the outcome of every call.*)
(* The identifier of an edge is a hash of all its fields: here the edge is *)
(* its own identifier, and a set keeps one edge of each identity.  That a  *)
(* definition exports itself is left out.                                  *)
(***************************************************************************)
EXTENDS Resolution

Edge(kind, from, to, conf, label) ==
    [kind |-> kind, from |-> from, to |-> to, conf |-> conf, label |-> label]

NodesOf(repo) ==
    {FileNode(f) : f \in DOMAIN repo}
      \cup UNION {{SymbolNode(f, s) : s \in repo[f].symbols} : f \in DOMAIN repo}

ContainsEdges(repo) ==
    {Edge("contains", FileNode(n.file), n, "extracted", None) :
        n \in {n \in NodesOf(repo) : n.kind # "file"}}

\* The files the builder takes the imports of a file to mean.
Linked(repo, file) ==
    UNION {ImportTarget(DOMAIN repo, repo[file].lang, file, repo[file].imports[i]) :
              i \in DOMAIN repo[file].imports}

ImportEdges(repo, files) ==
    UNION {UNION {{Edge("imports", FileNode(f), FileNode(g), "inferred", repo[f].imports[i]) :
                      g \in ImportTarget(DOMAIN repo, repo[f].lang, f, repo[f].imports[i])}
                  : i \in DOMAIN repo[f].imports} : f \in files}

Calls(parsed) == {u \in parsed.uses : u.kind = "calls"}

\* The symbol of a file a use is made from.  The builder wants exactly one
\* of the name, the second resolution takes the first; without one the use
\* is made from the file.
Origins(nodes, file, name) == {n \in nodes : n.kind # "file" /\ QName(n) = <<file, name>>}

Origin(nodes, file, name, sole) ==
    LET found == Origins(nodes, file, name)
    IN  IF found = {} \/ (sole /\ Cardinality(found) > 1) THEN FileNode(file)
        ELSE CHOOSE n \in found : TRUE

---------------------------------------------------------------------------
(* The builder's own guess at the calls.                                   *)

GuessedCall(repo, file, u) ==
    LET named == {n \in NodesOf(repo) : n.kind # "file" /\ n.name = u.name}
        here == {n \in named : n.file = file /\ u.name # u.from}
        there == {n \in named : /\ repo[n.file].lang = repo[file].lang
                                /\ n.file \in Linked(repo, file)}
    IN  IF Cardinality(here) = 1 THEN here
        ELSE IF Cardinality(there) = 1 THEN there ELSE {}

GuessedCalls(repo) ==
    UNION {UNION {{Edge("calls", Origin(NodesOf(repo), f, u.from, TRUE), n, "inferred", None) :
                      n \in GuessedCall(repo, f, u)}
                  : u \in {u \in Calls(repo[f]) :
                              Cardinality(Origins(NodesOf(repo), f, u.from)) = 1}}
           : f \in DOMAIN repo}

---------------------------------------------------------------------------
(* The edges of everything else a file mentions.                           *)

\* A mention: the file, the kind and name looked for, the node it is made
\* from, the symbol whose scopes are searched, or NoNode, and the type whose
\* base is sought, or None.
Mention(file, kind, name, from, by) ==
    [file |-> file, kind |-> kind, name |-> name, from |-> from,
     caller |-> IF kind \in {"references", "instantiates"} /\ from # FileNode(file)
                THEN from ELSE NoNode,
     context |-> IF kind \in {"inherits", "implements"} THEN by ELSE None]

Mentions(E, files, sole) ==
    UNION {{Mention(f, u.kind, u.name, Origin(E.nodes, f, u.from, sole), u.from) :
                u \in E.repo[f].uses \ Calls(E.repo[f])}
           \cup {Mention(f, "exports", x.name, FileNode(f), None) : x \in E.repo[f].exports}
           : f \in files}

\* The engine is bound once, by a set of one.
UseEdges(nodes, repo, files, sole) ==
    LET outcomes ==
            UNION {{[m |-> m, is |-> ResolveReference(E, m.file, m.caller, m.name, m.kind, m.context)] :
                       m \in Mentions(E, files, sole)} : E \in {Engine(nodes, repo)}}
    IN  {Edge(o.m.kind, o.m.from, o.is.target, "resolved", o.m.name) :
            o \in {o \in outcomes : o.is.state = "resolved"}}

\* The builder: files that are not given are not seen.
BuildGraph(repo) ==
    LET nodes == NodesOf(repo)
    IN  [nodes |-> nodes,
         edges |-> ContainsEdges(repo)
                     \cup {e \in ImportEdges(repo, DOMAIN repo) : e.from # e.to}
                     \cup GuessedCalls(repo)
                     \cup UseEdges(nodes, repo, DOMAIN repo, TRUE)]

---------------------------------------------------------------------------
(* Calls, resolved over the whole repository.                              *)

\* imports: the edges that link files.
CallOutcome(E, imports, file, u) ==
    LET callers == Origins(E.nodes, file, u.from)
        linked == {e.to.file : e \in {e \in imports : e.from = FileNode(file)}}
    IN  IF callers = {} THEN Unresolved
        ELSE ResolveCall(E, linked, file, CHOOSE n \in callers : TRUE, u.name)

CallOutcomes(nodes, repo, imports, files) ==
    UNION {UNION {{[file |-> f, call |-> u, outcome |-> CallOutcome(E, imports, f, u)] :
                      u \in Calls(repo[f])} : f \in files} : E \in {Engine(nodes, repo)}}

\* As it would be if a link by receiver carried no confidence.
CallEdgesUnrated(nodes, outcomes) ==
    {Edge("calls", CHOOSE n \in Origins(nodes, o.file, o.call.from) : TRUE, o.outcome.target,
          IF o.outcome.sure THEN "resolved" ELSE None, None) :
        o \in {o \in outcomes : o.outcome.state = "resolved"}}

CallEdges(nodes, outcomes) ==
    {Edge("calls", CHOOSE n \in Origins(nodes, o.file, o.call.from) : TRUE, o.outcome.target,
          IF o.outcome.sure THEN "resolved" ELSE "inferred", None) :
        o \in {o \in outcomes : o.outcome.state = "resolved"}}

\* The whole graph: the guesses are dropped.
ResolveCrossFile(graph, repo) ==
    LET imports == {e \in graph.edges : e.kind = "imports"}
        outcomes == CallOutcomes(graph.nodes, repo, imports, DOMAIN repo)
    IN  [nodes |-> graph.nodes,
         edges |-> {e \in graph.edges : e.kind # "calls" \/ e.conf = "resolved"}
                     \cup CallEdges(graph.nodes, outcomes),
         calls |-> outcomes]

\* As it would be if the imports of the files were only used, not added.
ResolveAffectedUnlinked(graph, repo, affected) ==
    LET files == affected \cap DOMAIN repo
        touched == {n \in graph.nodes : n.file \in affected}
        kept == {e \in graph.edges : e.kind = "contains"
                                       \/ {e.from, e.to} \cap touched = {}}
        outcomes == CallOutcomes(graph.nodes, repo, ImportEdges(repo, files), files)
    IN  [nodes |-> graph.nodes,
         edges |-> kept \cup CallEdges(graph.nodes, outcomes) \cup UseEdges(graph.nodes, repo, files, FALSE),
         calls |-> {o \in graph.calls : o.file \notin affected} \cup outcomes]

\* As it would be if the outcomes of calls that are gone stayed.
ResolveAffectedOver(graph, repo, affected) ==
    LET files == affected \cap DOMAIN repo
        touched == {n \in graph.nodes : n.file \in affected}
        kept == {e \in graph.edges : e.kind = "contains"
                                       \/ {e.from, e.to} \cap touched = {}}
        imports == ImportEdges(repo, files)
        outcomes == CallOutcomes(graph.nodes, repo, imports, files)
    IN  [nodes |-> graph.nodes,
         edges |-> kept \cup imports \cup CallEdges(graph.nodes, outcomes) \cup UseEdges(graph.nodes, repo, files, FALSE),
         calls |-> graph.calls \cup outcomes]

\* Some files only: every edge at a node of theirs goes, and what they
\* mention themselves is resolved again.
ResolveAffected(graph, repo, affected) ==
    LET files == affected \cap DOMAIN repo
        touched == {n \in graph.nodes : n.file \in affected}
        kept == {e \in graph.edges : e.kind = "contains"
                                       \/ {e.from, e.to} \cap touched = {}}
        imports == ImportEdges(repo, files)
        outcomes == CallOutcomes(graph.nodes, repo, imports, files)
    IN  [nodes |-> graph.nodes,
         edges |-> kept \cup imports \cup CallEdges(graph.nodes, outcomes) \cup UseEdges(graph.nodes, repo, files, FALSE),
         calls |-> {o \in graph.calls : o.file \notin affected} \cup outcomes]

CleanGraph(repo) ==
    CHOOSE g \in {ResolveCrossFile(built, repo) : built \in {BuildGraph(repo)}} : TRUE
=============================================================================
