----------------------------- MODULE Workspace -----------------------------
(***************************************************************************)
(* The incremental workspace (src/src/incremental.rs): the parsed files,   *)
(* the graph, and the indexes with which a batch of changes finds the      *)
(* files to look at again.                                                 *)
(*                                                                         *)
(* The files are what was last read from the disk.  The indexes that are   *)
(* rebuilt after every update are operators of the files and the graph;    *)
(* the two that are kept up to date file by file are variables, as sets of *)
(* records [kind, key, file].  Keys are paths, a name is a path of one     *)
(* segment.                                                                *)
(***************************************************************************)
EXTENDS CodeGraph

CONSTANTS
    Paths,          \* the paths of the repository
    Contents(_),    \* the parsed contents a path may have
    MaxBatch        \* bound on the changes of one update

UseKinds == {"calls", "references", "types", "instantiates", "inherits", "implements"}

\* What the parsers hand over: symbols and references of the kinds they know.
ASSUME ParametersOK ==
    /\ IsFiniteSet(Paths)
    /\ \A p \in Paths : \A c \in Contents(p) :
          /\ {s.kind : s \in c.symbols} \subseteq NodeKinds \ {"file"}
          /\ {u.kind : u \in c.uses} \subseteq UseKinds

VARIABLES
    files,          \* files: the parsed files
    graph,          \* graph: nodes, edges, outcomes of the calls
    pending,        \* pending_resolution
    dependents      \* resolution_dependents

vars == <<files, graph, pending, dependents>>

TypeOK ==
    /\ DOMAIN files \subseteq Paths
    /\ \A p \in DOMAIN files : files[p] \in Contents(p)
    /\ {n.kind : n \in graph.nodes} \subseteq NodeKinds
    /\ {e.conf : e \in graph.edges} \subseteq {"extracted", "inferred", "resolved"}
    /\ {x.file : x \in pending \cup dependents} \subseteq Paths

---------------------------------------------------------------------------
(* The indexes.                                                            *)

Entry(kind, key, file) == [kind |-> kind, key |-> key, file |-> file]

UseKeys(repo, file) ==
    {Entry(u.kind, <<u.name>>, file) : u \in repo[file].uses}

ImportEntries(repo, file, imp) ==
    {Entry("imports", k, file) : k \in ImportKeys(repo[file].lang, imp)}

ExportKeys(repo, file) == {Entry("exports", <<x.name>>, file) : x \in repo[file].exports}

\* Everything a file looks up.
Dependencies(repo, file) ==
    UseKeys(repo, file) \cup ExportKeys(repo, file)
      \cup UNION {ImportEntries(repo, file, repo[file].imports[i]) :
                     i \in DOMAIN repo[file].imports}

HasEdge(g, file, kind, label) ==
    \E e \in g.edges : e.kind = kind /\ e.label = label /\ e.from.file = file

\* What of it has found nothing.
PendingEntries(g, repo, file) ==
    {Entry("calls", <<o.call.name>>, file) :
        o \in {o \in g.calls : o.file = file /\ o.outcome.state # "resolved"}}
      \cup {Entry(u.kind, <<u.name>>, file) :
        u \in {u \in repo[file].uses \ Calls(repo[file]) : ~HasEdge(g, file, u.kind, u.name)}}
      \cup {Entry("exports", <<x.name>>, file) :
        x \in {x \in repo[file].exports : ~HasEdge(g, file, "exports", x.name)}}
      \cup UNION {ImportEntries(repo, file, repo[file].imports[i]) :
        i \in {i \in DOMAIN repo[file].imports :
                  ~HasEdge(g, file, "imports", repo[file].imports[i])}}

\* As it would be if the entries a file owns stayed.
ReindexedOver(index, fs, entries) == index \cup UNION {entries[f] : f \in DOMAIN entries}

\* The entries a file owns are replaced; the other files keep theirs.
Reindexed(index, fs, entries) ==
    {x \in index : x.file \notin fs} \cup UNION {entries[f] : f \in DOMAIN entries}

\* symbol_providers and import_targets, as they were before the batch.
Providers(name) == {n.file : n \in Named(graph, name)}
Targets(keys) == {f \in DOMAIN files : LookupKeys(f) \cap keys # {}}

\* import_dependents and type_dependents.
Dependents(file) ==
    {e.from.file : e \in {e \in graph.edges :
        e.to.file = file /\ e.kind \in {"imports", "types", "inherits", "implements"}}}

---------------------------------------------------------------------------
(* The files to look at again.                                             *)

\* next[f] are the files that follow f.
Closure(next, seed) ==
    LET grow[i \in 0..Cardinality(Paths)] ==
            IF i = 0 THEN seed
            ELSE grow[i - 1] \cup UNION {next[f] : f \in grow[i - 1]}
    IN  grow[Cardinality(Paths)]

\* Files the changed files may now come to depend on.
DependencyHints(changed, new) ==
    UNION {LET parsed == new[f]
               names == {u.name : u \in parsed.uses}
                          \cup {u.from : u \in {u \in parsed.uses :
                                   u.kind \in {"inherits", "implements"}}}
           IN  (UNION {Providers(n) : n \in names})
                 \cup UNION {Targets(ImportKeys(parsed.lang, parsed.imports[i])) :
                                i \in DOMAIN parsed.imports}
           : f \in changed \cap DOMAIN new}

\* What a content offers: its symbols, and both names of its re-exports.
Surface(parsed) ==
    {<<s.name>> : s \in parsed.symbols}
      \cup UNION {{<<x.name>>, <<x.sym>>} : x \in parsed.exports}

\* Files that look up a name that came or went.
ReverseHints(changed, new, previous) ==
    LET keys == (UNION {LookupKeys(f) : f \in changed})
                  \cup (UNION {Surface(new[f]) : f \in changed \cap DOMAIN new})
                  \cup UNION {Surface(files[f]) : f \in previous}
    IN  {x.file : x \in {x \in pending \cup dependents : x.key \in keys}} \ changed

\* As it would be without the files that depend on the seed.
AffectedSeed(seed) == seed

AffectedClosure(seed) == Closure([f \in Paths |-> Dependents(f)], seed)

Neighbours(file) ==
    UNION {{e.from.file, e.to.file} : e \in {e \in graph.edges :
        e.kind # "contains" /\ file \in {e.from.file, e.to.file}}}

GraphComponent(seed) == Closure([f \in Paths |-> Neighbours(f)], seed)

\* An update, as a record: the files that changed, those resolved again and
\* those built anew.
Plan(changed, new, previous) ==
    LET hints == DependencyHints(changed, new)
        reverse == ReverseHints(changed, new, previous)
        affected == AffectedClosure(changed \cup hints \cup reverse)
    IN  [changed  |-> changed,
         affected |-> affected,
         mutated  |-> (GraphComponent(affected) \ (hints \cup reverse)) \cup changed]

\* As it would be if the edges of what is built anew stayed.
RebuiltWithEdges(plan, fragment) ==
    LET kept == {n \in graph.nodes : n.file \notin plan.mutated}
    IN  [nodes |-> kept \cup fragment.nodes,
         edges |-> graph.edges \cup fragment.edges,
         calls |-> graph.calls]

\* The fragment takes the place of the files built anew.
Rebuilt(plan, fragment) ==
    LET kept == {n \in graph.nodes : n.file \notin plan.mutated}
    IN  [nodes |-> kept \cup fragment.nodes,
         edges |-> {e \in graph.edges : {e.from, e.to} \subseteq kept} \cup fragment.edges,
         calls |-> graph.calls]

---------------------------------------------------------------------------
(* Operations.                                                             *)

Index(g, repo, fs) ==
    LET known == fs \cap DOMAIN repo
    IN  /\ dependents' = Reindexed(dependents, fs, [f \in known |-> Dependencies(repo, f)])
        /\ pending' = Reindexed(pending, fs, [f \in known |-> PendingEntries(g, repo, f)])

ReconcileFull(new) ==
    /\ files' = new
    /\ graph' = CleanGraph(new)
    /\ dependents' = UNION {Dependencies(new, f) : f \in DOMAIN new}
    /\ pending' = UNION {PendingEntries(graph', new, f) : f \in DOMAIN new}

ApplySelective(changed, new, previous) ==
    \E plan \in {Plan(changed, new, previous)} :
        \E fragment \in {BuildGraph([f \in plan.mutated \cap DOMAIN new |-> new[f]])} :
            \E rebuilt \in {Rebuilt(plan, fragment)} :
                /\ files' = new
                /\ graph' = ResolveAffected(rebuilt, new, plan.affected)
                /\ Index(graph', new, plan.affected)

With(repo, fs, contents) ==
    [f \in (DOMAIN repo \cup fs) |-> IF f \in fs THEN contents[f] ELSE repo[f]]

Without(repo, fs) == [f \in DOMAIN repo \ fs |-> repo[f]]

Init ==
    /\ files = <<>>
    /\ graph = CleanGraph(files)
    /\ pending = {}
    /\ dependents = {}

\* A batch of changes: the files that change, the repository after it, and
\* the files whose content before is remembered.
Change(changed, new, previous) == [changed |-> changed, new |-> new, previous |-> previous]

\* Created and Modified, the file is parsed again, and Deleted.
Edits ==
    UNION {{Change(written \cup deleted,
                   Without(With(files, written, contents), deleted),
                   (written \cup deleted) \cap DOMAIN files) :
              contents \in {c \in [written -> UNION {Contents(p) : p \in written}] :
                              \A f \in written : c[f] \in Contents(f)},
              deleted \in {fs \in SUBSET (Paths \ written) :
                              Cardinality(fs \cup written) \in 1..MaxBatch}}
           : written \in {fs \in SUBSET Paths : Cardinality(fs) <= MaxBatch}}

\* The target may exist: what it offered before is not remembered.
Renames ==
    UNION {{Change({p[1], p[2]}, With(Without(files, {p[1]}), {p[2]}, [f \in {p[2]} |-> content]),
                   {p[1]}) :
              content \in {c \in Contents(p[2]) : c.symbols = files[p[1]].symbols}} :
           p \in {p \in (DOMAIN files) \X Paths : p[1] # p[2]}}

ApplyBatch ==
    \E c \in Edits \cup Renames : ApplySelective(c.changed, c.new, c.previous)

\* A rename from a file the workspace does not know: everything is read again.
UnknownRename ==
    \E to \in Paths : \E content \in Contents(to) :
        ReconcileFull(With(files, {to}, [f \in {to} |-> content]))

Next == ApplyBatch \/ UnknownRename

Spec == Init /\ [][Next]_vars

---------------------------------------------------------------------------
(* Properties.                                                             *)

\* After any sequence of batches the nodes are those of a build from nothing:
\* the nodes of a file that went are gone, and those of a file that was built
\* anew with its neighbours are there once.  And no edge has lost an end:
\* canonicalize refuses such a graph, and the batch with it
\* (apply_changes_selective, Graph::validate).
NodesMatchClean ==
    /\ graph.nodes = NodesOf(files)
    /\ \A e \in graph.edges : {e.from, e.to} \subseteq graph.nodes

\* resolution_dependents is kept file by file and never rebuilt as a whole: it
\* lists every file under each name and path it looks up, and no file that is
\* gone or no longer looks it up (rebuild_pending_index).
ConsumersIndexed ==
    dependents = UNION {Dependencies(files, f) : f \in DOMAIN files}

\* The outcome of each call, and with it the report of resolved, unresolved and
\* ambiguous calls, is that of a build from nothing, though only the files a
\* batch affects have their calls resolved again (call_resolutions).  The code
\* keeps this promise where imports are plain, symbols imported under another
\* name are keyed, and no rename replaces a file (see below): only then does
\* every file whose calls may come out otherwise belong to the affected ones.
CallReportMatchesClean == graph.calls = CleanGraph(files).calls

\* The edges between importing and imported files too, although those of a
\* neighbour come from a fragment that does not see every file.  True as long as
\* imports are plain: resolve_cross_file_affected links a file that imports
\* itself, and it does not see that a fragment hides a second file meant.
ImportsMatchClean ==
    {e \in graph.edges : e.kind = "imports"}
        = {e \in ImportEdges(files, DOMAIN files) : e.from # e.to}

\* Imports of which a batch makes what a build from nothing makes: whatever
\* files there are, one means at most one of them, another file, and one that
\* shares a key with it.
PlainImports ==
    \A f \in Paths : \A c \in Contents(f) : \A i \in DOMAIN c.imports :
        LET imp == c.imports[i]
            means(g) == MatchesCandidate(g, CandidatePath(c.lang, f, imp))
        IN  \A g \in Paths : means(g) =>
                /\ g # f
                /\ \A h \in Paths : means(h) => h = g
                /\ LookupKeys(g) \cap ImportKeys(c.lang, imp) # {}

\* Symbols that are imported under another name, of which a batch makes what a
\* build from nothing makes: the file looks up the name they have where they
\* come from, or else a key of every file its directives have to do with.
KeyedAliases ==
    \A f \in Paths : \A c \in Contents(f) :
        LET dirs == Directives(c)
            keys == UNION {ImportKeys(c.lang, c.imports[i]) : i \in DOMAIN c.imports}
            heard(g) == \E i \in DOMAIN dirs : \/ MatchesTarget(g, dirs[i].target)
                                              \/ MatchesTarget(dirs[i].target, g)
        IN  \A i \in DOMAIN dirs : dirs[i].alias # None /\ dirs[i].sym \notin {None, dirs[i].alias} =>
                \/ <<dirs[i].sym>> \in keys
                \/ \A g \in Paths : heard(g) => LookupKeys(g) \cap keys # {}

\* Batches that remember what every file offered before: a rename onto a file
\* that exists does not.
RememberedBatch ==
    \E c \in Edits \cup Renames :
        /\ c.changed \cap DOMAIN files \subseteq c.previous
        /\ ApplySelective(c.changed, c.new, c.previous)

RememberingSpec == Init /\ [][RememberedBatch \/ UnknownRename]_vars

\* Do the two ways of comparing an import with a file agree: is every file the
\* resolver takes an import to mean linked to the importing file?
ImportsAgree(repo) ==
    \A f \in DOMAIN repo : ImportedFiles(Engine(NodesOf(repo), repo), f) \subseteq Linked(repo, f)

MentionsMatch(g, repo) ==
    LET mentions(edges) == {e \in edges : e.kind \in (UseKinds \ {"calls"}) \cup {"exports"}}
    IN  mentions(g.edges) = mentions(CleanGraph(repo).edges)

\* Where the two agree, a batch keeps the edges of types, bases, instances,
\* references and exports those of a build from nothing: the closure over the
\* indexes reaches every file whose mentions may have changed their meaning.
MentionsStayRight ==
    [][MentionsMatch(graph, files) /\ ImportsAgree(files) /\ ImportsAgree(files')
          => MentionsMatch(graph', files')]_vars

\* docs/m4-report.md:46: "incremental graphs equal authoritative clean builds
\* without ordinary full rebuild or fallback".  Here only the ends and the
\* kinds of the edges are compared.
IncrementalEqualsClean ==
    LET links(edges) == {<<e.kind, e.from, e.to>> : e \in edges}
    IN  links(graph.edges) = links(CleanGraph(files).edges)
=============================================================================
