----------------------------- MODULE RepoGraph -----------------------------
(***************************************************************************)
(* A finished graph as its readers see it (src/src/query.rs): queries,     *)
(* repository intelligence, context and analysis.                          *)
(*                                                                         *)
(* A graph G is a record                                                   *)
(*     nodes   the nodes in canonical order, that of qualified names       *)
(*     ids     for each node the rank of its identifier, a hash: an order  *)
(*             that has nothing to do with the names                       *)
(*     edges   a set of records [kind, from, to]; from and to are          *)
(*             positions in nodes                                          *)
(* A node is a record [kind, name, file].  Names and files are sequences   *)
(* of words, and a text that contains another is one that has its words    *)
(* in a row.                                                               *)
(***************************************************************************)
EXTENDS Naturals, Sequences, FiniteSets, SequencesExt

KindCode == [contains |-> 1, imports |-> 2, exports |-> 3, calls |-> 4, references |-> 5,
             inherits |-> 8, implements |-> 9]

TypeNodes == {"struct", "trait", "interface", "class"}

Nodes(G) == DOMAIN G.nodes
Node(G, n) == G.nodes[n]
IsFile(G, n) == Node(G, n).kind = "file"

\* What the nodes, a Vec, the identifiers and the edges are in every
\* finished graph.
IsGraph(G) ==
    /\ Len(G.nodes) \in Nat /\ DOMAIN G.nodes = 1 .. Len(G.nodes)
    /\ \A n \in Nodes(G) : /\ G.ids[n] \in Nat
                           /\ \A m \in Nodes(G) : G.ids[m] = G.ids[n] => m = n
    /\ IsFiniteSet(G.edges)
    /\ \A e \in G.edges : e.kind \in DOMAIN KindCode /\ {e.from, e.to} \subseteq Nodes(G)

QualifiedName(G, n) ==
    IF IsFile(G, n) THEN Node(G, n).file ELSE Node(G, n).file \o Node(G, n).name

\* Texts.
Within(part, text) ==
    \E i \in 0 .. Len(text) - Len(part) : SubSeq(text, i + 1, i + Len(part)) = part

Before(s, t) == \E i \in DOMAIN s : s[i] < t[i] /\ \A j \in 1 .. i - 1 : s[j] = t[j]

\* The elements x of a set by ascending keys key[x], tuples of numbers: the
\* i-th is the one that i - 1 others are before.
ByKeys(key) ==
    LET before(x) == Cardinality({y \in DOMAIN key : Before(key[y], key[x])})
        ranked == {<<before(x), x>> : x \in DOMAIN key}
    IN  [i \in 1 .. Cardinality(DOMAIN key) |-> (CHOOSE p \in ranked : p[1] = i - 1)[2]]

InOrder(S, Key(_)) == ByKeys([x \in S |-> Key(x)])

ById(G, S) == InOrder(S, LAMBDA n : <<G.ids[n]>>)
ByName(S) == InOrder(S, LAMBDA n : <<n>>)

\* Graph::canonicalize: edges by kind, then by the identifiers of their ends.
EdgeKey(G, e) == <<KindCode[e.kind], G.ids[e.from], G.ids[e.to]>>

Ends(G, n, kinds) == {e.to : e \in {e \in G.edges : e.from = n /\ e.kind \in kinds}}
Starts(G, n, kinds) == {e.from : e \in {e \in G.edges : e.to = n /\ e.kind \in kinds}}

\* At most the first limit elements.
Limited(seq, limit) == SubSeq(seq, 1, IF Len(seq) < limit THEN Len(seq) ELSE limit)

---------------------------------------------------------------------------
(* QueryIndex::find.                                                       *)

Exact(G, term) ==
    {n \in Nodes(G) : term \in {QualifiedName(G, n), Node(G, n).name, Node(G, n).file}}

Find(G, term) ==
    IF term = <<>> THEN <<>>
    ELSE IF Exact(G, term) # {} THEN ById(G, Exact(G, term))
    ELSE ByName({n \in Nodes(G) : \/ Within(term, Node(G, n).name)
                                  \/ Within(term, QualifiedName(G, n))})

---------------------------------------------------------------------------
(* Breadth-first search.  The queue is the sequence of the nodes found,    *)
(* records [node, depth, from, via]; on[n] is the sequence of the edges    *)
(* that lead on from n, records [to, via], in the order of the code.       *)

\* What the edges `next' lead on to from the k-th node found: each node not
\* found before, by the first of its edges.
Onward(found, k, next) ==
    LET new == ByName({i \in DOMAIN next : /\ \A j \in DOMAIN found : found[j].node # next[i].to
                                           /\ \A j \in 1 .. i - 1 : next[j].to # next[i].to})
    IN  [i \in DOMAIN new |-> [node |-> next[new[i]].to, depth |-> found[k].depth + 1,
                               from |-> found[k].node, via |-> next[new[i]].via]]

Advanced(found, k, depth, on) ==
    IF k > Len(found) \/ found[k].depth >= depth THEN found
    ELSE found \o Onward(found, k, on[found[k].node])

Search(G, starts, depth, on) ==
    LET Found[k \in 0 .. Len(G.nodes)] ==
            IF k = 0 THEN starts ELSE Advanced(Found[k - 1], k, depth, on)
    IN  Found[Len(G.nodes)]

Start(n) == [node |-> n, depth |-> 0, from |-> n, via |-> ""]

\* The nodes from a start to a found node n: Back[k] is k steps before n.
PathTo(found, n) ==
    LET at(m) == CHOOSE i \in DOMAIN found : found[i].node = m
        far == found[at(n)].depth
        Back[k \in 0 .. far] == IF k = 0 THEN n ELSE found[at(Back[k - 1])].from
    IN  [i \in 1 .. far + 1 |-> Back[far + 1 - i]]
=============================================================================
