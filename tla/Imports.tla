------------------------------ MODULE Imports ------------------------------
(***************************************************************************)
(* The import side of the resolver (src/src/resolve/import.rs) and the two *)
(* ways in which the program compares an import with the path of a file.   *)
(*                                                                         *)
(* The path of a file and the module an import names are sequences of      *)
(* segments; the extension of a file is left out, so no two files of a     *)
(* repository differ only by it.  An import, as the parsers hand it over,  *)
(* is a record                                                             *)
(*     shape   how the statement is written (ImportShapes)                 *)
(*     path    the segments of the path it names                           *)
(*     as      the local name it introduces, or None                       *)
(*     items   for the shapes with a list, the names and their aliases     *)
(* Distinct records are distinct statements, so that the record also       *)
(* stands for the text, which labels the edge of the import.               *)
(***************************************************************************)
EXTENDS Naturals, Sequences, SequencesExt, FiniteSets

None == "none"
Star == "*"

ImportShapes == {"list", "glob", "path", "whole", "namespace", "default", "require"}

Languages == {"rust", "python", "js", "go", "c", "java", "csharp", "kotlin",
              "php", "ruby", "swift", "zig"}

\* A segment no file has.
Unreadable == "?"

\* A path that keeps its dots is one segment to whoever compares it with a
\* file, unless it had no dots.
Dotted(path) == IF Len(path) = 1 THEN path ELSE Append(path, Unreadable)

---------------------------------------------------------------------------
(* Directives: what one statement says.                                    *)

Directive(target, sym, alias, wild) ==
    [target |-> target, sym |-> sym, alias |-> alias, wild |-> wild]

\* The whole module, no symbol of it named.
Whole(path, alias, wild) == Directive(path, None, alias, wild)

\* Every symbol of the module.
Glob(path, alias) == Directive(path, Star, alias, TRUE)

\* The last segment is the symbol and the rest the module.
Member(path, alias) == Directive(Front(path), Last(path), alias, FALSE)

DottedMember(path, alias) ==
    Directive(IF Len(path) = 1 THEN <<>> ELSE Dotted(Front(path)), Last(path), alias, FALSE)

\* One directive for each name between the braces.
Listed(path, items) ==
    [i \in DOMAIN items |->
        IF items[i].sym = Star THEN Glob(path, None)
        ELSE Directive(path, items[i].sym, items[i].as, FALSE)]

RustImport(imp) ==
    CASE imp.shape = "list" -> Listed(imp.path, imp.items)
      [] imp.shape = "glob" -> <<Glob(imp.path, None)>>
      [] imp.shape \notin {"list", "glob"} ->
            IF imp.as = None /\ Len(imp.path) = 1 THEN <<Whole(imp.path, None, FALSE)>>
            ELSE <<Member(imp.path, imp.as)>>

PythonImport(imp) ==
    CASE imp.shape = "list" -> Listed(Dotted(imp.path), imp.items)
      [] imp.shape = "glob" -> <<Glob(Dotted(imp.path), None)>>
      [] imp.shape \notin {"list", "glob"} -> <<Whole(Dotted(imp.path), imp.as, FALSE)>>

JsImport(imp) ==
    CASE imp.shape = "list"      -> Listed(imp.path, imp.items)
      [] imp.shape = "namespace" -> <<Glob(imp.path, imp.as)>>
      [] imp.shape = "default"   -> <<Directive(imp.path, "default", imp.as, FALSE)>>
      [] imp.shape \notin {"list", "namespace", "default"} ->
            <<Whole(imp.path, imp.as, FALSE)>>

GoImport(imp) == <<Whole(imp.path, imp.as, imp.as = ".")>>

JavaImport(imp) ==
    IF imp.shape = "glob" THEN <<Glob(Dotted(imp.path), None)>>
    ELSE <<DottedMember(imp.path, None)>>

KotlinImport(imp) ==
    IF imp.as # None THEN <<DottedMember(imp.path, imp.as)>> ELSE JavaImport(imp)

CSharpImport(imp) == <<Whole(Dotted(imp.path), imp.as, imp.as = None)>>

PhpImport(imp) ==
    IF imp.as = None /\ Len(imp.path) = 1 THEN <<Whole(imp.path, None, FALSE)>>
    ELSE <<Member(imp.path, imp.as)>>

SwiftImport(imp) == <<Whole(Dotted(imp.path), None, TRUE)>>

\* C, C++, Ruby and Zig name a file and nothing else.
FileImport(imp) == <<Whole(imp.path, None, FALSE)>>

ParseImport(lang, imp) ==
    CASE lang = "rust"   -> RustImport(imp)
      [] lang = "python" -> PythonImport(imp)
      [] lang = "js"     -> JsImport(imp)
      [] lang = "go"     -> GoImport(imp)
      [] lang = "java"   -> JavaImport(imp)
      [] lang = "kotlin" -> KotlinImport(imp)
      [] lang = "csharp" -> CSharpImport(imp)
      [] lang = "php"    -> PhpImport(imp)
      [] lang = "swift"  -> SwiftImport(imp)
      [] lang \in {"c", "ruby", "zig"} -> FileImport(imp)

---------------------------------------------------------------------------
(* The import table of a file.                                             *)

Directives(parsed) ==
    FlattenSeq([i \in DOMAIN parsed.imports |-> ParseImport(parsed.lang, parsed.imports[i])])

\* Does a directive introduce a local name?  A glob introduces none unless it
\* is given one.
Binds(d, name) ==
    \/ d.alias # None /\ d.alias = name
    \/ d.alias = None /\ d.sym = name /\ ~d.wild

Binding(d) == [target |-> d.target, remote |-> d.sym]

\* The bindings of a local name, module and remote symbol: in the order of
\* the statements, and as a set where the order does not matter.
Bindings(dirs, name) ==
    LET bound == SelectSeq(dirs, LAMBDA d : Binds(d, name))
    IN  [i \in DOMAIN bound |-> Binding(bound[i])]

Bound(dirs, name) == {Binding(dirs[i]) : i \in {i \in DOMAIN dirs : Binds(dirs[i], name)}}

---------------------------------------------------------------------------
(* Does an import mean this file?  Two answers.                            *)

\* "./" in front and "/mod", "/index" at the end are dropped; ".." stays.
TrimTarget(target) ==
    LET path == SelectSeq(target, LAMBDA s : s # ".")
    IN  IF Len(path) > 1 /\ Last(path) \in {"mod", "index"} THEN Front(path) ELSE path

\* The resolver: the target is a suffix of the file.
MatchesTarget(file, target) ==
    LET path == TrimTarget(target) IN path # <<>> /\ IsSuffix(path, file)

\* ".." takes the directory before it away, "." nothing.
Normalized(path) ==
    FoldLeft(LAMBDA acc, s : CASE s = "."  -> acc
                               [] s = ".." -> IF acc = <<>> THEN acc ELSE Front(acc)
                               [] s \notin {".", ".."} -> Append(acc, s),
             <<>>, path)

\* What the builder of the graph makes of the text of an import.  A quoted
\* relative path starts at the directory of the importing file.  Text it does
\* not take apart (braces, a leading keyword) keeps a segment no file has.
CandidatePath(lang, file, imp) ==
    CASE lang = "js" /\ Head(imp.path) \in {".", ".."} -> Normalized(Front(file) \o imp.path)
      [] lang = "js" /\ Head(imp.path) \notin {".", ".."} -> <<Unreadable>>
      [] lang = "python" /\ imp.shape \in {"list", "glob"} ->
            SelectSeq(imp.path, LAMBDA s : s # ".")
      [] lang = "python" /\ imp.shape \notin {"list", "glob"} -> <<Unreadable>> \o Tail(imp.path)
      [] lang \notin {"js", "python"} ->
            IF imp.shape \in {"list", "glob"} \/ imp.as # None
            THEN Append(imp.path, Unreadable) ELSE imp.path

\* The builder: the file is a suffix of the candidate, or the candidate is
\* the file's module written out.
MatchesCandidate(file, candidate) ==
    \/ IsSuffix(file, candidate)
    \/ candidate \in {Append(file, "mod"), Append(file, "index")}

\* An import has an edge only if exactly one file matches.
ImportTarget(files, lang, file, imp) ==
    {g \in files : LET matches(h) == MatchesCandidate(h, CandidatePath(lang, file, imp))
                   IN  matches(g) /\ \A h \in files : matches(h) => h = g}

\* The keys under which an import, or a file, is looked up when files come
\* and go: the path as it is written, and its last segment.
LookupKeys(path) ==
    LET clean == SelectSeq(path, LAMBDA s : s \notin {".", ".."})
    IN  IF clean = <<>> THEN {} ELSE {clean, <<Last(clean)>>}

\* Text that is neither quoted nor a plain path keeps an unreadable end.
ImportKeys(lang, imp) ==
    IF \/ lang \in {"js", "go", "c", "ruby", "zig"}
       \/ imp.as = None /\ (lang = "python" \/ imp.shape \notin {"list", "glob"})
    THEN LookupKeys(imp.path)
    ELSE LookupKeys(Append(imp.path, Unreadable))
=============================================================================
