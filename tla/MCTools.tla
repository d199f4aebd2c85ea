------------------------------ MODULE MCTools ------------------------------
(***************************************************************************)
(* Analyses: every graph of calls between four symbols of three files in   *)
(* two directories, by symbol; some of them by file and by directory,      *)
(* where several edges fall together and lead from a unit to itself.       *)
(* Questions: graphs of three files, one of them a test, with two methods  *)
(* of one name, one of them nested in the lines of a type.                 *)
(***************************************************************************)
EXTENDS Tools

Sym(kind, name, file) ==
    [kind |-> kind, name |-> <<name>>, file |-> file, lines |-> <<1, 1>>, sig |-> 1, vis |-> "unknown"]
FileOf(file) == [Sym("file", "", file) EXCEPT !.name = file]

\* The order of the paths by their texts; <<>> is the root.
MCPlace(path) ==
    LET order == << <<>>, <<"a">>, <<"b">>, <<"d">>, <<"d", "b">>, <<"d", "c">>, <<"tests">>,
                    <<"tests", "a">> >>
    IN  CHOOSE i \in DOMAIN order : order[i] = path

Edge(kind, from, to) == [kind |-> kind, from |-> from, to |-> to]

AnalysedNodes ==
    << FileOf(<<"a">>), Sym("function", "p", <<"a">>), Sym("function", "q", <<"a">>),
       FileOf(<<"d", "b">>), Sym("function", "r", <<"d", "b">>),
       FileOf(<<"d", "c">>), Sym("function", "s", <<"d", "c">>) >>

Symbols == {2, 3, 5, 7}

Analysed(calls) ==
    [nodes |-> AnalysedNodes, ids |-> <<3, 7, 1, 5, 2, 6, 4>>,
     edges |-> {Edge("contains", 1, 2), Edge("contains", 1, 3), Edge("contains", 4, 5),
                Edge("contains", 6, 7)}
                 \cup {Edge("calls", p[1], p[2]) : p \in calls}]

Analysis(G, level, filter, limit) ==
    [graph |-> G, options |-> [level |-> level, filter |-> filter, limit |-> limit]]

MCAnalyses ==
    LET pairs == {p \in Symbols \X Symbols : p[1] # p[2]}
        some == pairs \ {<<3, 2>>, <<7, 5>>, <<7, 3>>, <<5, 3>>, <<2, 7>>, <<3, 5>>}
    IN  {Analysis(Analysed(calls), "symbol", "none", 0) : calls \in SUBSET pairs}
        \cup {Analysis(Analysed(calls), level, "none", 2) :
                calls \in SUBSET some, level \in {"file", "module"}}
        \cup {Analysis(Analysed({}), level, "contains", 0) : level \in {"symbol", "file"}}

---------------------------------------------------------------------------
At(node, first, last) == [node EXCEPT !.lines = <<first, last>>]

AskedNodes ==
    << At(FileOf(<<"a">>), 1, 9), At(Sym("struct", "S", <<"a">>), 4, 9),
       At(Sym("function", "f", <<"a">>), 1, 3), At(Sym("method", "m", <<"a">>), 5, 6),
       At(FileOf(<<"b">>), 1, 6), At(Sym("trait", "I", <<"b">>), 1, 3),
       At(Sym("method", "m", <<"b">>), 2, 2),
       At(FileOf(<<"tests", "a">>), 1, 4), At(Sym("function", "check", <<"tests", "a">>), 2, 3) >>

Function(names, params, assigns, returns, args, callReturns) ==
    [names |-> names, params |-> params, assigns |-> assigns, returns |-> returns,
     args |-> args, callReturns |-> callReturns]
Arg(call, name) == [call |-> call, index |-> 1, name |-> name]

FlowsOf ==
    [n \in {3, 4, 7, 9} |->
       CASE n = 3 -> Function(<<"p", "q">>, <<"p">>, {<<"p", "q">>, <<"q", "p">>, <<"m", "p">>}, {"q"},
                              {Arg("m", "q")}, {})
         [] n = 4 -> Function(<<"x", "y">>, <<"x">>, {<<"x", "y">>, <<"f", "x">>}, {"x", "y"},
                              {Arg("f", "y")}, {})
         [] n = 7 -> Function(<<"x">>, <<"x">>, {}, {"x"}, {}, {"f"})
         [] n = 9 -> Function(<<"v">>, <<>>, {<<"f", "v">>, <<"m", "v">>}, {}, {Arg("f", "v")}, {})]

Sometimes ==
    {Edge("calls", 3, 4), Edge("calls", 4, 3), Edge("calls", 3, 7), Edge("calls", 9, 3),
     Edge("implements", 2, 6), Edge("imports", 5, 2), Edge("references", 4, 2)}

MCAsked ==
    {[nodes |-> AskedNodes, ids |-> ids, flows |-> FlowsOf,
      edges |-> {Edge("contains", 1, 2), Edge("contains", 1, 3), Edge("contains", 2, 4),
                 Edge("contains", 5, 6), Edge("contains", 6, 7), Edge("contains", 8, 9),
                 Edge("imports", 8, 1)} \cup edges] :
        ids \in {<<4, 9, 6, 2, 8, 1, 7, 3, 5>>}, edges \in SUBSET Sometimes}

MCEarlier(G) ==
    {G, [G EXCEPT !.nodes[3].sig = 2], [G EXCEPT !.nodes[4].vis = "private"],
     [G EXCEPT !.nodes[4].name = <<"n">>, !.nodes[2].lines = <<3, 9>>],
     [G EXCEPT !.nodes[4] = [Sym("function", "f", <<"a">>) EXCEPT !.sig = 2]],
     [G EXCEPT !.edges = @ \ Sometimes, !.nodes[7].vis = "public", !.nodes[7].sig = 0]}

MCTestPath(file) == Head(file) = "tests"
MCTestName(name) == name = <<"check">>
MCMethodMain(file) == file = <<"b">>
MCSegmentMatches(segment, pattern) == pattern \in {segment, "*"}

Layer(name, segments, open, allowed) ==
    [name |-> name, patterns |-> {[segments |-> segments, open |-> open]}, allowed |-> allowed]

MCLayers ==
    {{Layer(1, <<"a">>, FALSE, {}), Layer(2, <<"b">>, FALSE, {1})},
     {Layer(1, <<"*">>, FALSE, {}), Layer(2, <<"tests", "a">>, FALSE, {}),
      Layer(3, <<"tests">>, TRUE, {})}}

MCHistories ==
    {<<>>, <<[author |-> "x", files |-> {<<"a">>, <<"b">>}], [author |-> "y", files |-> {<<"a">>}],
             [author |-> "y", files |-> {<<"a">>, <<"b">>, <<"tests", "a">>}]>>}

MCTerms == {<<"a", "f">>, <<"m">>, <<"a">>, <<"check">>, <<"b", "I">>}
MCWords == {<<"m">>, <<"a">>, <<"f">>, <<"return">>}
MCDepths == {1, 3}
MCSizes == {2, 20}
MCStops == {2, 99}
MCBudgets == {4, 11}
MCUnreadables == {{}, {<<"b">>}}
=============================================================================
