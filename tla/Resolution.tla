----------------------------- MODULE Resolution -----------------------------
(***************************************************************************)
(* The resolver (src/src/resolve): which symbol a name in a file means.    *)
(*                                                                         *)
(* A repository is a function from paths to parsed files, records          *)
(*     lang      the language                                              *)
(*     symbols   records [kind, name, container]                           *)
(*     imports   the import statements, in order (module Imports)          *)
(*     exports   re-exports, records [name, module, sym]                   *)
(*     uses      the references, records [kind, from, name]                *)
(*                                                                         *)
(* The identifier of a node is a hash of its identity; here the node is    *)
(* its own identifier.  Signatures are left out: the callers never pass a  *)
(* number of parameters.  No name is part of another name.                 *)
(*                                                                         *)
(* The engine, an index of nodes and files, is the record                  *)
(*     nodes     the nodes it was given                                    *)
(*     repo      the repository                                            *)
(*     imports   the directives of each file                               *)
(***************************************************************************)
EXTENDS Imports

TypeKinds == {"class", "struct", "trait", "interface", "enum"}
NodeKinds == {"file", "function", "method"} \cup TypeKinds

FileNode(file) == [kind |-> "file", name |-> "", file |-> file, container |-> None]

SymbolNode(file, sym) ==
    [kind |-> sym.kind, name |-> sym.name, file |-> file, container |-> sym.container]

\* Two members of different types of a file share their qualified name.
QName(node) == <<node.file, node.name>>

Engine(nodes, repo) ==
    [nodes |-> nodes, repo |-> repo, imports |-> [f \in DOMAIN repo |-> Directives(repo[f])]]

Named(E, name) == {n \in E.nodes : n.kind # "file" /\ n.name = name}

FileDirectives(E, file) == E.imports[file]

SameLanguage(E, m, n) == E.repo[m.file].lang = E.repo[n.file].lang

\* What a file imports by its directives, in whole or in part.
ImportedFiles(E, file) ==
    LET dirs == FileDirectives(E, file)
    IN  {g \in DOMAIN E.repo : \E i \in DOMAIN dirs : MatchesTarget(g, dirs[i].target)}

---------------------------------------------------------------------------
(* Candidates: a node, the priority with which it is meant (1 is best) and *)
(* whether the reason makes the link certain or only inferred.             *)

Candidates(nodes, priority, sure) ==
    {[node |-> n, priority |-> priority, sure |-> sure] : n \in nodes}

\* Of two reasons for the same node and priority the earlier one stays.
Collected(reasons) ==
    UNION {{c \in reasons[i] : \A j \in 1..(i - 1) : \A d \in reasons[j] :
                d.node # c.node \/ d.priority # c.priority} : i \in DOMAIN reasons}

Best(cands) ==
    {c \in cands : \A d \in cands : c.priority <= d.priority}

Unresolved == [state |-> "unresolved"]
Ambiguous  == [state |-> "ambiguous"]

Select(cands) ==
    LET best == Best(cands)
        only == CHOOSE c \in best : TRUE
    IN  IF best = {} THEN Unresolved
        ELSE IF Cardinality(best) > 1 THEN Ambiguous
        ELSE [state |-> "resolved", target |-> only.node, sure |-> only.sure]

\* The candidates each reason gives, in the order in which they are looked
\* for.  They are bound once, by a set of one.
Outcome(reasons) ==
    CHOOSE o \in {Select(cands) : cands \in {Collected(reasons)}} : TRUE

---------------------------------------------------------------------------
(* Lexical scopes: project, file, type.  A symbol with a container lives   *)
(* in the scope of the type, any other in that of its file.                *)

ScopeOf(node) == <<node.file, node.container>>

InScope(E, scope, name) == {n \in Named(E, name) : ScopeOf(n) = scope}

\* The closest scope that knows the name, with its priority.
Lexical(E, file, caller, name) ==
    LET own == InScope(E, ScopeOf(caller), name)
        outer == InScope(E, <<caller.file, None>>, name)
        priority(scope) == IF scope = <<file, None>> THEN 2 ELSE 1
    IN  IF own # {} THEN Candidates(own, priority(ScopeOf(caller)), TRUE)
        ELSE Candidates(outer, priority(<<caller.file, None>>), TRUE)

---------------------------------------------------------------------------
(* Re-exports: following a name from a module to the file that defines it. *)
(* Paths are sequences of strings, names are strings.                      *)

NotFound == [found |-> FALSE]
Found(at) == [found |-> TRUE, name |-> at.name, file |-> at.file]

InOrder(files) == SetToSeq(files)

\* The files a module means, and one of them or else the module itself.
FilesOf(E, module) == {g \in DOMAIN E.repo : MatchesTarget(g, module)}
FileOf(E, module) ==
    IF FilesOf(E, module) = {} THEN module ELSE Head(InOrder(FilesOf(E, module)))

\* What a binding calls the name it binds.
Remote(bound, name) == IF bound.remote = None THEN name ELSE bound.remote

\* A name of a file, or of a module that is no file.
Place(file, name) == [file |-> file, name |-> name]
Places == [file : Seq(STRING), name : STRING]

Exports(E, at) == {x \in E.repo[at.file].exports : x.name = at.name}

\* Where a name comes from: the module its re-export names, which is not
\* looked up, or else the file of the first binding that leads to one.
Sources(E, at) ==
    IF at.file \notin DOMAIN E.repo THEN {}
    ELSE IF Exports(E, at) # {} THEN {Place(x.module, x.sym) : x \in Exports(E, at)}
    ELSE LET bound == Bindings(FileDirectives(E, at.file), at.name)
             leading == SelectSeq(bound, LAMBDA b : FilesOf(E, b.target) # {})
         IN  {Place(FileOf(E, leading[i].target), Remote(leading[i], at.name)) :
                 i \in DOMAIN leading \cap {1}}

\* From source to source, until there is none or it comes back.
Follow(E, start) ==
    LET walk[at \in Places, seen \in SUBSET Places] ==
            IF at \in seen \/ Sources(E, at) = {} THEN at
            ELSE walk[CHOOSE source \in Sources(E, at) : TRUE, seen \cup {at}]
    IN  walk[start, {}]

\* The search through the repository, as tasks, the next one first: to look
\* up a module, to go into a file, or to settle for an answer.  at.file of a
\* module to look up is its path, lang the language it is written in.
Task(do, lang, at) == [do |-> do, lang |-> lang, at |-> at]
Tasks == [do : {"look", "enter", "settle"}, lang : Languages, at : Places]

\* The files the module means; a path of the form module::symbol, of a Rust
\* file, that means none is taken apart.
LookUp(E, lang, at) ==
    LET found == InOrder(FilesOf(E, at.file))
    IN  IF found # <<>>
        THEN [i \in DOMAIN found |-> Task("enter", lang, Place(found[i], at.name))]
        ELSE IF lang = "rust" /\ Len(at.file) > 1
        THEN <<Task("look", lang, Place(Front(at.file), Last(at.file)))>>
        ELSE <<>>

\* From a file: its re-export or else its matching directives and its
\* bindings; if they lead nowhere, the end of the chain, or the file itself.
GoInto(E, at) ==
    LET lang == E.repo[at.file].lang
        leaving == {x \in Exports(E, at) : FileOf(E, x.module) # at.file}
        export == CHOOSE x \in leaving : TRUE
        exported == Place(FileOf(E, export.module), export.sym)
        dirs == FileDirectives(E, at.file)
        passing == SelectSeq(dirs, LAMBDA d : d.sym \in {None, Star, at.name})
        bound == Bindings(dirs, at.name)
        end == Follow(E, at)
    IN  IF leaving # {} THEN <<Task("look", lang, exported), Task("settle", lang, exported)>>
        ELSE [i \in DOMAIN passing |-> Task("look", lang, Place(passing[i].target, at.name))]
             \o [i \in DOMAIN bound |->
                    Task("look", lang, Place(bound[i].target, Remote(bound[i], at.name)))]
             \o IF end # at THEN <<Task("settle", lang, Place(FileOf(E, end.file), end.name))>>
                ELSE IF \E n \in Named(E, at.name) : n.file = at.file
                THEN <<Task("settle", lang, at)>> ELSE <<>>

\* The set of places gone into is shared by all branches of the search.
TraceReexport(E, file, target, name) ==
    LET trace[todo \in Seq(Tasks), visited \in SUBSET Places] ==
            IF todo = <<>> THEN NotFound
            ELSE LET t == Head(todo)
                 IN  CASE t.do = "settle" -> Found(t.at)
                       [] t.do = "look" -> trace[LookUp(E, t.lang, t.at) \o Tail(todo), visited]
                       [] t.do = "enter" ->
                             IF t.at \in visited THEN trace[Tail(todo), visited]
                             ELSE trace[GoInto(E, t.at) \o Tail(todo), visited \cup {t.at}]
    IN  trace[<<Task("look", E.repo[file].lang, Place(target, name))>>, {}]

---------------------------------------------------------------------------
(* A call.                                                                 *)

\* The qualified name of the caller has the name of the type in it: the type
\* is the caller itself, or part of the path of the file.
IsMethodOf(parent, caller) == parent \in {caller.name} \cup ToSet(caller.file)

ResolveCall(E, linked, file, caller, callee) ==
    LET imported == ImportedFiles(E, file) \cup linked
        dirs == FileDirectives(E, file)
        named == Named(E, callee)
        aliased ==
            UNION {LET match(n) == MatchesTarget(n.file, b.target)
                                     \/ MatchesTarget(b.target, n.file)
                       here == {n \in Named(E, Remote(b, callee)) : SameLanguage(E, caller, n)}
                   IN  Candidates({n \in here : match(n) \/ (n.file \in imported /\ Remote(b, callee) # callee)}, 3, TRUE)
                       \cup Candidates({n \in here : ~match(n) /\ n.file \in imported
                                                       /\ Remote(b, callee) = callee}, 4, TRUE)
                   : b \in Bound(dirs, callee)}
        \* Without a symbol the directive counts if the module ends in the name.
        says(d, n) ==
            IF d.sym # None
            THEN d.sym \in {callee, Star} /\ MatchesTarget(n.file, d.target)
            ELSE /\ d.target # <<>> /\ Last(d.target) = callee
                 /\ MatchesTarget(n.file, d.target) \/ MatchesTarget(d.target, n.file)
        direct == {n \in named : SameLanguage(E, caller, n)
                                   /\ \E i \in DOMAIN dirs : says(dirs[i], n)}
        members == {n \in named : n.kind = "method" /\ n.container # None}
        own == {n \in members : IsMethodOf(n.container, caller)}
        reasons == <<Lexical(E, file, caller, callee),
                   Candidates({n \in named : n.file = file}, 2, TRUE),
                   aliased,
                   Candidates(direct, 4, TRUE),
                   Candidates(own, 2, FALSE),
                   Candidates({n \in members \ own : n.file \in imported}, 5, FALSE),
                   Candidates({n \in named : n.file # file /\ n.file \in imported}, 4, TRUE)>>
    IN  Outcome(reasons)

---------------------------------------------------------------------------
(* Any other reference.                                                    *)

Allowed(kind) ==
    CASE kind = "types"        -> TypeKinds
      [] kind = "instantiates" -> {"class", "struct", "enum"}
      [] kind \in {"inherits", "implements"} -> TypeKinds \ {"enum"}
      [] kind \in {"references", "exports"} -> NodeKinds

\* Where it leads to look for the symbols asked for, [target, sym], or for
\* the name itself: as far as the re-exports go.
Leads(E, file, name, asked) ==
    {[target |-> a.target, sought |-> a.sym,
      trace |-> TraceReexport(E, file, a.target, a.sym)] :
        a \in {[a EXCEPT !.sym = IF @ = None THEN name ELSE @] : a \in asked}}

LeadName(l) == IF l.trace.found THEN l.trace.name ELSE l.sought
LeadFile(l) == IF l.trace.found THEN l.trace.file ELSE l.target

\* context is the type whose base is sought, or None; caller a node or NoNode.
NoNode == FileNode(<<>>)

ResolveReference(E, file, caller, name, kind, context) ==
    LET fits(n) == /\ n.kind \in Allowed(kind)
                   /\ context = None \/ n.container \in {None, context}
        named == {n \in Named(E, name) : fits(n)}
        imported == ImportedFiles(E, file)
        dirs == FileDirectives(E, file)
        lexical == IF caller = NoNode THEN {}
                   ELSE {c \in Lexical(E, file, caller, name) : fits(c.node)}
        here == {n \in named : n.file = file}
        inside == {n \in here : context # None /\ n.container = context}
        \* An alias, followed through re-exports.
        aliased ==
            UNION {LET nodes == {n \in Named(E, LeadName(l)) : fits(n)
                                    /\ (caller = NoNode \/ SameLanguage(E, caller, n))}
                       atEnd(n) == MatchesTarget(n.file, LeadFile(l))
                       exact(n) == atEnd(n) \/ l.sought # name
                       near == {n \in nodes : \/ atEnd(n) \/ n.file \in imported
                                              \/ MatchesTarget(n.file, l.target)}
                   IN  {[node |-> n, priority |-> IF exact(n) THEN 3 ELSE 4, sure |-> TRUE] :
                          n \in near}
                   : l \in Leads(E, file, name, {[target |-> b.target, sym |-> b.remote] :
                                                   b \in Bound(dirs, name)})}
        passed ==
            UNION {{n \in Named(E, l.trace.name) : fits(n) /\ MatchesTarget(n.file, l.trace.file)} :
                     l \in {l \in Leads(E, file, name, {[target |-> d.target, sym |-> d.sym] :
                                                          d \in ToSet(dirs)}) :
                              l.sought \in {name, Star} /\ l.trace.found}}
        members == {n \in named : n.container # None}
        own == {n \in members : caller # NoNode
                   /\ (IsMethodOf(n.container, caller) \/ caller.container = n.container)}
        typeKnown(t) == \/ Bound(dirs, t) # {}
                        \/ \E i \in DOMAIN dirs : t \in {dirs[i].sym, dirs[i].alias}
        reasons == <<lexical,
                   Candidates(inside, 1, TRUE),
                   Candidates(here \ inside, 2, TRUE),
                   aliased,
                   Candidates(passed, 4, TRUE),
                   Candidates(own, 2, FALSE),
                   Candidates({n \in members \ own : typeKnown(n.container)
                                                       \/ n.file \in imported}, 5, FALSE),
                   Candidates({n \in named : n.file # file /\ n.file \in imported}, 6, FALSE)>>
    IN  Outcome(reasons)
=============================================================================
