---------------------------- MODULE MCWorkspace ----------------------------
(***************************************************************************)
(* Four files, each absent or with one of a few contents.  The contents    *)
(* are chosen so that a name is offered by several files, imported under   *)
(* another name, passed on, or looked up before anyone offers it.  One     *)
(* file is below a directory: the resolver takes an import of c to mean    *)
(* s/c, the builder of the graph does not.                                 *)
(***************************************************************************)
EXTENDS Workspace

MCPaths == {<<"a">>, <<"b">>, <<"s", "c">>, <<"d">>}

Function(name) == [kind |-> "function", name |-> name, container |-> None]
Class(name)    == [kind |-> "class", name |-> name, container |-> None]
Method(name, class) == [kind |-> "method", name |-> name, container |-> class]

Import(path, name, as) ==
    [shape |-> "list", path |-> path, as |-> None, items |-> <<[sym |-> name, as |-> as]>>]

Use(kind, from, name) == [kind |-> kind, from |-> from, name |-> name]

File(symbols, imports, uses) ==
    [lang |-> "python", symbols |-> symbols, imports |-> imports, exports |-> {}, uses |-> uses]

MCContents(p) ==
    CASE p = <<"a">> ->
            {File({Class("A"), Function("f")}, <<Import(<<"b">>, "B", None)>>,
                  {Use("inherits", "A", "B"), Use("types", None, "B"), Use("calls", "f", "B")}),
             File({Function("f")}, <<Import(<<"b">>, "g", "h"), Import(<<"c">>, "B", "X")>>,
                  {Use("calls", "f", "h"), Use("references", None, "X")})}
      [] p = <<"b">> ->
            {File({Class("B"), Method("m", "B")}, <<>>, {}),
             File({Function("g")}, <<Import(<<"c">>, "B", None)>>,
                  {Use("calls", "g", "B"), Use("instantiates", "g", "B")})}
      [] p = <<"s", "c">> ->
            {File({Class("B"), Function("g")}, <<>>, {}),
             File({Function("g")}, <<Import(<<"a">>, "f", None)>>, {Use("calls", "g", "f")})}
      [] p = <<"d">> ->
            {File({Class("B")}, <<Import(<<"a">>, "f", None), Import(<<"b">>, "B", None)>>,
                  {Use("calls", "f", "f"), Use("types", "B", "B"), Use("calls", "B", "m")}),
             File({Function("k")}, <<Import(<<"s", "c">>, "g", None)>>, {Use("references", "k", "g")}),
             [lang |-> "js", symbols |-> {Function("k")},
              imports |-> <<Import(<<".", "b">>, "g", None)>>,
              exports |-> {[name |-> "B", module |-> <<".", "s", "c">>, sym |-> "B"]},
              uses |-> {Use("calls", "k", "g"), Use("types", None, "B")}]}

\* The contents are of the kind of which the theorems speak.
ASSUME ContentsAreKeyed == PlainImports /\ KeyedAliases
=============================================================================
