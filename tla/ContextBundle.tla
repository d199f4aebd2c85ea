--------------------------- MODULE ContextBundle ---------------------------
(***************************************************************************)
(* The context handed to an agent (src/src/context): nodes around some     *)
(* seeds are collected, ranked, taken as long as the budget lasts, and     *)
(* bundled by file without lines that another slice holds already.         *)
(*                                                                         *)
(* A node has here a further field, lines = <<first, last>>.  The source   *)
(* of a node costs a unit a line, and nothing if its file cannot be read.  *)
(***************************************************************************)
EXTENDS GraphQueries

\* A request is a record [symbol, file, query, changed]: terms, <<>> for
\* one not given, and the set of changed files.
Seeds(G, request) ==
    {n \in Nodes(G) :
        \/ request.symbol # <<>> /\ n \in ToSet(Find(G, request.symbol))
        \/ request.file # <<>> /\ IsSuffix(request.file, Node(G, n).file)
        \/ request.query # <<>> /\ n \in SearchGraph(G, request.query, {Node(G, n).kind})
        \/ \E f \in request.changed : IsSuffix(f, Node(G, n).file)}

---------------------------------------------------------------------------
(* Candidates.  One node is looked at in five passes, each over the edges  *)
(* in their order.                                                         *)

\* The edges by which a node leads to others, [to, role, order].
Pass(G, edges, number, end, role) ==
    {[to |-> e[end], role |-> role, order |-> <<number>> \o EdgeKey(G, e)] : e \in edges}

Related(G, n, depth) ==
    LET out(kinds) == {e \in G.edges : e.from = n /\ e.kind \in kinds}
        in(kinds) == {e \in G.edges : e.to = n /\ e.kind \in kinds}
        near(role) == IF depth = 0 THEN role ELSE "indirect"
        callers == in({"calls"})
        tests == {e \in callers : \/ TestishPath(Node(G, e.from).file)
                                  \/ TestName(Node(G, e.from).name)}
    IN  Pass(G, in({"contains"}), 1, "from", "container")
        \cup Pass(G, out({"calls"}), 2, "to", near("callee"))
        \cup Pass(G, callers \ tests, 3, "from", near("caller"))
        \cup Pass(G, tests, 3, "from", "test")
        \cup Pass(G, out({"implements", "inherits"}), 4, "to", "implementation")
        \cup Pass(G, in({"implements", "inherits"}), 4, "from", "implementation")
        \cup Pass(G, {e \in out({"imports", "calls"}) : Node(G, e.to).kind \in TypeNodes}, 5,
                  "to", "type")

Candidate(n, role, depth, queued) ==
    [node |-> n, role |-> role, depth |-> depth, queued |-> queued]

SeedTests(G, seeds) == (UNION {RelatedTests(G, n) : n \in seeds}) \ seeds

\* The tests of the seeds come from a hash set: in any order.  They are
\* candidates but nothing is looked for from them.
FirstCandidates(G, seeds, tests) ==
    [i \in 1 .. Cardinality(seeds) |-> Candidate(ByName(seeds)[i], "seed", 0, TRUE)]
      \o [i \in DOMAIN tests |-> Candidate(tests[i], "test", 1, FALSE)]

Fresh(sofar, related) ==
    {x \in related : /\ \A i \in DOMAIN sofar : sofar[i].node # x.to
                     /\ ~ \E y \in related : y.to = x.to /\ Before(y.order, x.order)}

\* The further candidates candidate c leads to, in order.
Led(G, sofar, c) ==
    LET next == InOrder(Fresh(sofar, Related(G, c.node, c.depth)), LAMBDA x : x.order)
    IN  [i \in DOMAIN next |-> Candidate(next[i].to, next[i].role, c.depth + 1, TRUE)]

\* As it would be if those found from a node were looked at before the
\* others at its depth.
LookDeep(G, sofar, k, depth, limit) ==
    IF \/ k > Len(sofar) \/ ~ sofar[k].queued \/ sofar[k].depth >= depth
       \/ Len(sofar) >= limit
    THEN sofar
    ELSE SubSeq(sofar, 1, k) \o Led(G, sofar, sofar[k]) \o SubSeq(sofar, k + 1, Len(sofar))

\* The candidates once the k-th of them has been looked at.
Look(G, sofar, k, depth, limit) ==
    IF \/ k > Len(sofar) \/ ~ sofar[k].queued \/ sofar[k].depth >= depth
       \/ Len(sofar) >= limit
    THEN sofar
    ELSE sofar \o Led(G, sofar, sofar[k])

Expand(G, seeds, tests, depth, limit) ==
    LET Looked[k \in 0 .. Len(G.nodes)] ==
            IF k = 0 THEN FirstCandidates(G, seeds, tests)
            ELSE Look(G, Looked[k - 1], k, depth, limit)
    IN  Limited(Looked[Len(G.nodes)], limit)

---------------------------------------------------------------------------
(* Ranking, budget, bundle.                                                *)

Score(c) ==
    CASE c.role = "seed" -> 1000
      [] c.role \in {"caller", "callee"} -> 800
      [] c.role = "container" -> 750
      [] c.role = "type" -> 700
      [] c.role = "implementation" -> 650
      [] c.role = "indirect" -> IF c.depth = 2 THEN 500 ELSE IF c.depth = 3 THEN 250 ELSE 100
      [] c.role = "test" -> 200

Rank(candidates) ==
    InOrder(ToSet(candidates), LAMBDA c : <<1000 - Score(c), c.depth, c.node>>)

First(G, n) == Node(G, n).lines[1]
Final(G, n) == Node(G, n).lines[2]

Cost(G, unreadable, n) ==
    IF Node(G, n).file \in unreadable THEN 0 ELSE Final(G, n) - First(G, n) + 1

\* What items cost together: the lines that are read of them.
Spent(G, unreadable, items) ==
    Cardinality(UNION {{n} \X (First(G, n) .. Final(G, n)) :
                         n \in {n \in items : Node(G, n).file \notin unreadable}})

\* The first item is taken whatever it costs; a later one may fit where an
\* earlier one did not.
Take(G, taken, n, unreadable, limit) ==
    IF taken.used + Cost(G, unreadable, n) <= limit \/ taken.items = {}
    THEN [items |-> taken.items \cup {n}, used |-> taken.used + Cost(G, unreadable, n)]
    ELSE taken

Allocate(G, ranked, unreadable, limit) ==
    LET Taken[k \in 0 .. Len(ranked)] ==
            IF k = 0 THEN [items |-> {}, used |-> 0]
            ELSE Take(G, Taken[k - 1], ranked[k].node, unreadable, limit)
    IN  Taken[Len(ranked)]

Encloses(G, m, n) ==
    Node(G, m).file = Node(G, n).file /\ First(G, m) <= First(G, n) /\ Final(G, n) <= Final(G, m)

\* As it would be if the last lines were not compared.
MergeByFirst(G, kept, n) ==
    IF \E m \in kept : Node(G, m).file = Node(G, n).file /\ First(G, m) <= First(G, n) THEN kept
    ELSE {m \in kept : ~ Encloses(G, n, m)} \cup {n}

Merge(G, kept, n) ==
    IF \E m \in kept : Encloses(G, m, n) THEN kept
    ELSE {m \in kept : ~ Encloses(G, n, m)} \cup {n}

\* By first line, the longer first: what is enclosed comes after.
Bundle(G, items) ==
    LET sorted == InOrder(items, LAMBDA n : <<First(G, n), 1000 - Final(G, n), n>>)
        Kept[k \in 0 .. Len(sorted)] == IF k = 0 THEN {} ELSE Merge(G, Kept[k - 1], sorted[k])
    IN  Kept[Len(sorted)]

\* generate_context, for one order of the tests.
Context(G, request, tests, depth, limit, unreadable, budget) ==
    LET seeds == Seeds(G, request)
        candidates == IF seeds = {} THEN <<>> ELSE Expand(G, seeds, tests, depth, limit)
        taken == Allocate(G, Rank(candidates), unreadable, budget)
    IN  [seeds |-> seeds, candidates |-> candidates, items |-> taken.items,
         used |-> taken.used, omitted |-> Len(candidates) - Cardinality(taken.items),
         slices |-> Bundle(G, taken.items),
         total |-> Spent(G, unreadable, Bundle(G, taken.items))]
=============================================================================
