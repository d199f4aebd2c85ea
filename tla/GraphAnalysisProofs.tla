------------------------- MODULE GraphAnalysisProofs -------------------------
(***************************************************************************)
(* Tarjan's algorithm with a stack of frames in place of recursion finds   *)
(* the strongly connected components of every graph.                       *)
(*                                                                         *)
(* The argument is about a weight W between units and the state t of the   *)
(* algorithm, as values.  It needs no induction: that a unit reaches       *)
(* another is said by the sets of units no link leads out of.              *)
(*                                                                         *)
(* The second half is about what follows: a bounded search from every unit *)
(* of a component of several finds every simple cycle, and the rest of the *)
(* state stays what it is said to be.                                      *)
(***************************************************************************)
EXTENDS GraphAnalysis, NumberLemmas, FiniteSetTheorems, SequenceTheorems, TLAPS

-----------------------------------------------------------------------------
(* Reaching.                                                               *)

UnitsOf(W) == {p[1] : p \in DOMAIN W}
Leads(W, u, v) == W[<<u, v>>] > 0

\* No link leads out of S.
IsSealed(W, S) ==
    /\ S \subseteq UnitsOf(W)
    /\ \A u \in S, v \in UnitsOf(W) : Leads(W, u, v) => v \in S

Reach(W, u, v) == \A S \in SUBSET UnitsOf(W) : IsSealed(W, S) /\ u \in S => v \in S

-----------------------------------------------------------------------------
(* The invariant.                                                          *)

Frame(W) == [node : UnitsOf(W), seen : Nat]

Typed(W, t) ==
    /\ UnitsOf(W) \subseteq Nat \ {0}
    /\ IsFiniteSet(UnitsOf(W))
    /\ t.index \in [UnitsOf(W) -> Nat]
    /\ t.low \in [UnitsOf(W) -> Nat]
    /\ t.stack \in Seq(UnitsOf(W))
    /\ t.frames \in Seq(Frame(W))
    /\ t.components \in SUBSET SUBSET UnitsOf(W)

\* Units the search has met, those on the stack, and those in a component.
Met(W, t) == {u \in UnitsOf(W) : t.index[u] # 0}
Open(t) == ToSet(t.stack)
Shut(t) == UNION t.components

\* The node of frame i, its number, and whether unit u was met between it
\* and the next frame, or after the last.
NodeAt(t, i) == t.frames[i].node
Mark(t, i) == t.index[NodeAt(t, i)]
Under(t, i, u) ==
    /\ Mark(t, i) <= t.index[u]
    /\ i < Len(t.frames) => t.index[u] < Mark(t, i + 1)

\* The link from u to v has been followed.
Followed(W, t, u, v) ==
    /\ u \in Met(W, t) /\ v \in UnitsOf(W) /\ Leads(W, u, v)
    /\ \A i \in 1 .. Len(t.frames) : NodeAt(t, i) = u => v <= t.frames[i].seen

Numbered(W, t) ==
    /\ \A u \in UnitsOf(W) : /\ t.index[u] <= Cardinality(Met(W, t))
                             /\ t.low[u] <= t.index[u]
    /\ \A u, v \in Met(W, t) : t.index[u] = t.index[v] => u = v

\* The stack holds, in the order in which they were met, the units that are
\* in no component yet, and the frames a part of them.
Stacked(W, t) ==
    /\ Open(t) \cup Shut(t) = Met(W, t)
    /\ Open(t) \cap Shut(t) = {}
    /\ \A i, j \in 1 .. Len(t.stack) : i < j => t.index[t.stack[i]] < t.index[t.stack[j]]
    /\ \A i \in 1 .. Len(t.frames) : NodeAt(t, i) \in Open(t)
    /\ \A i, j \in 1 .. Len(t.frames) : i < j => Mark(t, i) < Mark(t, j)

\* A frame reaches what was met after it and is still open; what is open
\* reaches a frame that was met before it, or is one.
Connected(W, t) ==
    /\ \A i \in 1 .. Len(t.frames), u \in Open(t) :
          Mark(t, i) <= t.index[u] => Reach(W, NodeAt(t, i), u)
    /\ \A u \in Open(t) : \E i \in 1 .. Len(t.frames) :
          Mark(t, i) <= t.index[u] /\ Reach(W, u, NodeAt(t, i))

Explored(W, t) ==
    /\ \A u, v \in UnitsOf(W) : Followed(W, t, u, v) => v \in Met(W, t)
    /\ IsSealed(W, Shut(t))

\* A frame knows of every link that leads from below it to an open unit, and
\* its low number is that of an open unit it reaches.
Bounded(W, t) ==
    \A i \in 1 .. Len(t.frames), u, v \in Open(t) :
        Under(t, i, u) /\ Followed(W, t, u, v) => t.low[NodeAt(t, i)] <= t.index[v]

Witnessed(W, t) ==
    \A i \in 1 .. Len(t.frames) : \E u \in Open(t) :
        t.index[u] = t.low[NodeAt(t, i)] /\ Reach(W, NodeAt(t, i), u)

Strong(W, t) ==
    \A c \in t.components : \A u \in c :
        c = {v \in UnitsOf(W) : Reach(W, u, v) /\ Reach(W, v, u)}

Searching(W, t) ==
    /\ Typed(W, t)
    /\ Numbered(W, t)
    /\ Stacked(W, t)
    /\ Connected(W, t)
    /\ Explored(W, t)
    /\ Bounded(W, t)
    /\ Witnessed(W, t)
    /\ Strong(W, t)

-----------------------------------------------------------------------------
(* Lemmas about reaching and about the parts of the state.                 *)

LEMMA ReachesItself == \A W, u : Reach(W, u, u)
BY DEF Reach

LEMMA ReachesNext ==
    ASSUME NEW W, NEW u \in UnitsOf(W), NEW v \in UnitsOf(W), Leads(W, u, v)
    PROVE  Reach(W, u, v)
BY DEF Reach, IsSealed

LEMMA ReachesOn ==
    ASSUME NEW W, NEW u, NEW v, NEW x, Reach(W, u, v), Reach(W, v, x)
    PROVE  Reach(W, u, x)
BY DEF Reach

LEMMA SealedIsLeftByNone ==
    ASSUME NEW W, NEW S, IsSealed(W, S), NEW u \in S, NEW v, Reach(W, u, v)
    PROVE  v \in S
BY DEF Reach, IsSealed

LEMMA OpenIsMet ==
    ASSUME NEW W, NEW t, Typed(W, t), Stacked(W, t), NEW u \in Open(t)
    PROVE  /\ u \in UnitsOf(W) /\ u \in Met(W, t)
           /\ t.index[u] \in Nat /\ t.index[u] # 0 /\ t.low[u] \in Nat
<1>1. u \in Met(W, t)
  BY DEF Stacked
<1> QED
  BY <1>1 DEF Met, Typed

LEMMA FramesAreOpen ==
    ASSUME NEW W, NEW t, Typed(W, t), Stacked(W, t), NEW i \in 1 .. Len(t.frames)
    PROVE  /\ NodeAt(t, i) \in Open(t) /\ NodeAt(t, i) \in UnitsOf(W) /\ NodeAt(t, i) \in Met(W, t)
           /\ Mark(t, i) \in Nat /\ t.low[NodeAt(t, i)] \in Nat /\ t.frames[i].seen \in Nat
<1>1. NodeAt(t, i) \in Open(t)
  BY DEF Stacked
<1>2. t.frames[i] \in Frame(W)
  BY DEF Typed
<1> QED
  BY <1>1, <1>2, OpenIsMet DEF Mark, Frame

LEMMA MetIsFinite ==
    ASSUME NEW W, NEW t, Typed(W, t)
    PROVE  IsFiniteSet(Met(W, t)) /\ Cardinality(Met(W, t)) \in Nat
<1>1. Met(W, t) \subseteq UnitsOf(W) /\ IsFiniteSet(UnitsOf(W))
  BY DEF Met, Typed
<1> QED
  BY <1>1, FS_Subset, FS_CardinalityType

-----------------------------------------------------------------------------
(* A unit is met: it is put on both stacks.                                *)

\* F are the frames, the last of which has followed a link to u.
Enters(W, t, s, u, F) ==
    /\ u \in UnitsOf(W) /\ t.index[u] = 0
    /\ F \in Seq(Frame(W)) /\ Len(F) = Len(t.frames)
    /\ \A i \in 1 .. Len(F) : F[i].node = t.frames[i].node
    /\ \A i \in 1 .. Len(F) : i # Len(F) => F[i].seen = t.frames[i].seen
    /\ \A i \in 1 .. Len(F) : i = Len(F) =>
          /\ F[i].seen = u /\ Leads(W, F[i].node, u)
          /\ \A v \in UnitsOf(W) :
                Leads(W, F[i].node, v) /\ v <= u => v <= t.frames[i].seen \/ v = u
    /\ s.index = [t.index EXCEPT ![u] = Cardinality(Met(W, t)) + 1]
    /\ s.low = [t.low EXCEPT ![u] = Cardinality(Met(W, t)) + 1]
    /\ s.stack = Append(t.stack, u)
    /\ s.frames = Append(F, [node |-> u, seen |-> 0])
    /\ s.components = t.components

LEMMA EnteringKeeps ==
    ASSUME NEW W, NEW t, Searching(W, t), NEW s, NEW u, NEW F, Enters(W, t, s, u, F)
    PROVE  Searching(W, s)
<1> DEFINE k == Cardinality(Met(W, t)) + 1
           n == Len(t.frames)
<1>t. /\ Typed(W, t) /\ Numbered(W, t) /\ Stacked(W, t) /\ Connected(W, t)
      /\ Explored(W, t) /\ Bounded(W, t) /\ Witnessed(W, t) /\ Strong(W, t)
  BY DEF Searching
<1>n. n \in Nat /\ n = Len(F) /\ u \in UnitsOf(W) /\ u \in Nat /\ u # 0
  BY <1>t DEF Enters, Typed
<1>k. Cardinality(Met(W, t)) \in Nat /\ k \in Nat /\ k # 0
  BY <1>t, MetIsFinite
<1>1. u \notin Met(W, t) /\ Met(W, s) = Met(W, t) \cup {u} /\ Cardinality(Met(W, s)) = k
  <2>1. u \notin Met(W, t)
    BY DEF Met, Enters
  <2>2. Met(W, s) = Met(W, t) \cup {u}
    <3> HIDE DEF k
    <3>1. s.index = [t.index EXCEPT ![u] = k] /\ t.index \in [UnitsOf(W) -> Nat]
      BY <1>t DEF Enters, Typed, k
    <3> QED
      BY <3>1, <1>n, <1>k DEF Met
  <2>3. IsFiniteSet(Met(W, t))
    BY <1>t, MetIsFinite
  <2> QED
    BY <2>1, <2>2, <2>3, FS_AddElement
<1>2. /\ s.index[u] = k /\ s.low[u] = k
      /\ \A x \in UnitsOf(W) : x # u => s.index[x] = t.index[x] /\ s.low[x] = t.low[x]
      /\ s.index \in [UnitsOf(W) -> Nat] /\ s.low \in [UnitsOf(W) -> Nat]
  <2> HIDE DEF k
  <2>1. /\ s.index = [t.index EXCEPT ![u] = k] /\ t.index \in [UnitsOf(W) -> Nat]
        /\ s.low = [t.low EXCEPT ![u] = k] /\ t.low \in [UnitsOf(W) -> Nat]
    BY <1>t DEF Enters, Typed, k
  <2> QED
    BY <2>1, <1>n, <1>k
<1>3. /\ s.stack \in Seq(UnitsOf(W)) /\ Len(s.stack) = Len(t.stack) + 1
      /\ s.stack[Len(s.stack)] = u /\ Len(t.stack) \in Nat
      /\ \A i \in 1 .. Len(t.stack) : s.stack[i] = t.stack[i] /\ t.stack[i] \in Open(t)
  <2>1. t.stack \in Seq(UnitsOf(W)) /\ s.stack = Append(t.stack, u)
    BY <1>t DEF Enters, Typed
  <2>2. Len(t.stack) \in Nat /\ \A i \in 1 .. Len(t.stack) : t.stack[i] \in Open(t)
    BY <2>1 DEF Open, ToSet
  <2>3. /\ s.stack \in Seq(UnitsOf(W)) /\ Len(s.stack) = Len(t.stack) + 1
        /\ s.stack[Len(t.stack) + 1] = u
        /\ \A i \in 1 .. Len(t.stack) : s.stack[i] = t.stack[i]
    BY <2>1, <1>n
  <2> QED
    BY <2>2, <2>3
<1>4. Open(s) = Open(t) \cup {u} /\ Shut(s) = Shut(t)
  <2>1. Open(s) \subseteq Open(t) \cup {u}
    <3> SUFFICES ASSUME NEW x \in Open(s)
                 PROVE  x \in Open(t) \cup {u}
      OBVIOUS
    <3>1. PICK i \in 1 .. Len(s.stack) : x = s.stack[i]
      BY <1>3 DEF Open, ToSet
    <3>2. i = Len(s.stack) \/ i \in 1 .. Len(t.stack)
      BY <1>3
    <3> QED
      BY <3>1, <3>2, <1>3
  <2>2. Open(t) \cup {u} \subseteq Open(s)
    <3>1. \A x \in Open(t) : \E i \in 1 .. Len(t.stack) : x = t.stack[i]
      BY <1>t DEF Open, ToSet, Typed
    <3>2. \A i \in 1 .. Len(s.stack) : s.stack[i] \in Open(s)
      BY <1>3 DEF Open, ToSet
    <3>3. 1 .. Len(t.stack) \subseteq 1 .. Len(s.stack) /\ Len(s.stack) \in 1 .. Len(s.stack)
      BY <1>3
    <3> QED
      BY <1>3, <3>1, <3>2, <3>3
  <2> QED
    BY <2>1, <2>2 DEF Shut, Enters
<1>5. \A x \in Open(t) : /\ x # u /\ x \in UnitsOf(W) /\ x \in Met(W, t)
                         /\ s.index[x] = t.index[x] /\ s.low[x] = t.low[x]
                         /\ t.index[x] \in Nat /\ t.index[x] < k
  <2> TAKE x \in Open(t)
  <2>1. x \in UnitsOf(W) /\ x \in Met(W, t) /\ t.index[x] \in Nat
    BY <1>t, OpenIsMet
  <2>2. t.index[x] <= Cardinality(Met(W, t))
    BY <1>t, <2>1 DEF Numbered
  <2>3. t.index[x] < k
    BY <1>k, <2>1, <2>2
  <2> HIDE DEF k
  <2> QED
    BY <1>1, <1>2, <2>1, <2>3
<1>6. /\ s.frames \in Seq(Frame(W)) /\ Len(s.frames) = n + 1
      /\ s.frames[n + 1] = [node |-> u, seen |-> 0]
      /\ \A i \in 1 .. n : s.frames[i] = F[i] /\ F[i] \in Frame(W)
  <2>1. [node |-> u, seen |-> 0] \in Frame(W)
    BY <1>n DEF Frame
  <2>2. F \in Seq(Frame(W)) /\ s.frames = Append(F, [node |-> u, seen |-> 0])
    BY DEF Enters
  <2> HIDE DEF n
  <2> QED
    BY <1>n, <2>1, <2>2
<1>7. /\ NodeAt(s, n + 1) = u /\ Mark(s, n + 1) = k /\ s.frames[n + 1].seen = 0
      /\ \A i \in 1 .. n : /\ NodeAt(s, i) = NodeAt(t, i) /\ Mark(s, i) = Mark(t, i)
                           /\ Mark(t, i) \in Nat /\ Mark(t, i) < k
                           /\ NodeAt(t, i) # u /\ NodeAt(t, i) \in Open(t)
                           /\ NodeAt(t, i) \in UnitsOf(W)
                           /\ s.low[NodeAt(s, i)] = t.low[NodeAt(t, i)]
                           /\ t.low[NodeAt(t, i)] \in Nat
                           /\ t.low[NodeAt(t, i)] <= Mark(t, i)
  <2>1. NodeAt(s, n + 1) = u /\ s.frames[n + 1].seen = 0
    BY <1>6 DEF NodeAt
  <2>2. Mark(s, n + 1) = k
    BY <2>1, <1>2 DEF Mark
  <2>3. ASSUME NEW i \in 1 .. n
        PROVE  /\ NodeAt(s, i) = NodeAt(t, i) /\ Mark(s, i) = Mark(t, i)
               /\ Mark(t, i) \in Nat /\ Mark(t, i) < k
               /\ NodeAt(t, i) # u /\ NodeAt(t, i) \in Open(t)
               /\ NodeAt(t, i) \in UnitsOf(W)
               /\ s.low[NodeAt(s, i)] = t.low[NodeAt(t, i)]
               /\ t.low[NodeAt(t, i)] \in Nat
               /\ t.low[NodeAt(t, i)] <= Mark(t, i)
    <3>1. NodeAt(s, i) = NodeAt(t, i)
      BY <1>6, <1>n DEF NodeAt, Enters
    <3>2. /\ NodeAt(t, i) \in Open(t) /\ NodeAt(t, i) \in UnitsOf(W)
          /\ Mark(t, i) \in Nat /\ t.low[NodeAt(t, i)] \in Nat
      BY <1>t, FramesAreOpen
    <3>3. t.low[NodeAt(t, i)] <= Mark(t, i)
      BY <1>t, <3>2 DEF Numbered, Mark
    <3> HIDE DEF n, k
    <3> QED
      BY <3>1, <3>2, <3>3, <1>5 DEF Mark
  <2> HIDE DEF n, k
  <2> QED
    BY <2>1, <2>2, <2>3
<1>8. ASSUME NEW x, NEW y, Followed(W, s, x, y)
      PROVE  /\ x \in Met(W, t) /\ y \in UnitsOf(W)
             /\ \/ Followed(W, t, x, y)
                \/ y = u /\ \E i \in 1 .. n : i = n /\ x = NodeAt(t, i)
  <2>1. x \in Met(W, s) /\ y \in UnitsOf(W) /\ Leads(W, x, y)
        /\ \A i \in 1 .. (n + 1) : NodeAt(s, i) = x => y <= s.frames[i].seen
    <3>1. Len(s.frames) = n + 1
      BY <1>6
    <3> HIDE DEF n
    <3> QED
      BY <1>8, <3>1 DEF Followed
  <2>2. x # u
    <3> SUFFICES ASSUME x = u PROVE FALSE
      OBVIOUS
    <3>1. n + 1 \in 1 .. (n + 1)
      BY <1>n
    <3>2. y <= 0
      BY <2>1, <3>1, <1>7
    <3> QED
      BY <2>1, <3>2, <1>t DEF Typed
  <2>3. x \in Met(W, t)
    BY <2>1, <2>2, <1>1
  <2>4. ASSUME y # u, NEW i \in 1 .. n, NodeAt(t, i) = x
        PROVE  y <= t.frames[i].seen
    <3>1. i \in 1 .. (n + 1) /\ NodeAt(s, i) = x
      BY <2>4, <1>7, <1>n
    <3>2. y <= F[i].seen
      BY <2>1, <3>1, <1>6
    <3>3. CASE i # n
      BY <3>2, <3>3, <1>n DEF Enters
    <3>4. CASE i = n
      <4>1. F[i].seen = u /\ F[i].node = x
        BY <2>4, <3>4, <1>n DEF Enters, NodeAt
      <4> QED
        BY <2>1, <2>4, <3>2, <3>4, <4>1, <1>n DEF Enters
    <3> QED
      BY <3>3, <3>4
  <2>5. CASE y # u
    BY <2>1, <2>3, <2>4, <2>5 DEF Followed
  <2>6. CASE y = u /\ ~ \E i \in 1 .. n : i = n /\ x = NodeAt(t, i)
    <3>1. ASSUME NEW i \in 1 .. n, NodeAt(t, i) = x
          PROVE  y <= t.frames[i].seen
      <4>1. i # n
        BY <2>6, <3>1
      <4>2. i \in 1 .. (n + 1) /\ NodeAt(s, i) = x
        BY <3>1, <1>7, <1>n
      <4>3. y <= F[i].seen
        BY <2>1, <4>2, <1>6
      <4> QED
        BY <4>1, <4>3, <1>n DEF Enters
    <3> QED
      BY <2>1, <2>3, <3>1 DEF Followed
  <2> QED
    BY <2>1, <2>3, <2>5, <2>6
<1> HIDE DEF k, n
<1>9. Typed(W, s)
  BY <1>t, <1>2, <1>3, <1>6 DEF Typed, Enters
<1>10. Numbered(W, s)
  <2>1. ASSUME NEW x \in UnitsOf(W)
        PROVE  s.index[x] <= k /\ s.low[x] <= s.index[x]
    <3>1. CASE x = u
      BY <3>1, <1>2, <1>k
    <3>2. CASE x # u
      <4>1. /\ s.index[x] = t.index[x] /\ s.low[x] = t.low[x]
            /\ t.index[x] <= Cardinality(Met(W, t)) /\ t.low[x] <= t.index[x]
            /\ t.index[x] \in Nat
        BY <3>2, <1>2, <1>t DEF Numbered, Typed
      <4> QED
        BY <4>1, <1>k DEF k
    <3> QED
      BY <3>1, <3>2
  <2>2. ASSUME NEW x \in Met(W, s), NEW y \in Met(W, s), s.index[x] = s.index[y]
        PROVE  x = y
    <3>1. ASSUME NEW z \in Met(W, t)
          PROVE  z # u /\ s.index[z] = t.index[z] /\ t.index[z] \in Nat /\ t.index[z] < k
      <4>1. z \in UnitsOf(W) /\ z # u
        BY <1>1 DEF Met
      <4>2. t.index[z] \in Nat /\ t.index[z] <= Cardinality(Met(W, t))
        BY <1>t, <4>1 DEF Numbered, Typed
      <4> QED
        BY <4>1, <4>2, <1>2, <1>k DEF k
    <3>2. CASE x = u /\ y = u
      BY <3>2
    <3>3. CASE x \in Met(W, t) /\ y \in Met(W, t)
      BY <3>1, <3>3, <2>2, <1>t DEF Numbered
    <3>4. CASE x = u /\ y \in Met(W, t)
      BY <3>1, <3>4, <2>2, <1>2
    <3>5. CASE y = u /\ x \in Met(W, t)
      BY <3>1, <3>5, <2>2, <1>2
    <3> QED
      BY <3>2, <3>3, <3>4, <3>5, <1>1
  <2> QED
    BY <2>1, <2>2, <1>1 DEF Numbered
<1>11. Stacked(W, s)
  <2>1. Open(s) \cup Shut(s) = Met(W, s) /\ Open(s) \cap Shut(s) = {}
    BY <1>1, <1>4, <1>t DEF Stacked
  <2>2. ASSUME NEW i \in 1 .. Len(s.stack), NEW j \in 1 .. Len(s.stack), i < j
        PROVE  s.index[s.stack[i]] < s.index[s.stack[j]]
    <3>1. i \in 1 .. Len(t.stack)
      BY <2>2, <1>3
    <3>2. CASE j \in 1 .. Len(t.stack)
      <4>1. t.index[t.stack[i]] < t.index[t.stack[j]]
        BY <2>2, <3>1, <3>2, <1>t DEF Stacked
      <4> QED
        BY <3>1, <3>2, <4>1, <1>3, <1>5
    <3>3. CASE j = Len(s.stack)
      BY <3>1, <3>3, <1>2, <1>3, <1>5
    <3> QED
      BY <3>2, <3>3, <1>3
  <2>3. \A i \in 1 .. (n + 1) : NodeAt(s, i) \in Open(s)
    <3> TAKE i \in 1 .. (n + 1)
    <3>1. i = n + 1 \/ i \in 1 .. n
      BY <1>n
    <3> QED
      BY <3>1, <1>4, <1>7
  <2>4. ASSUME NEW i \in 1 .. (n + 1), NEW j \in 1 .. (n + 1), i < j
        PROVE  Mark(s, i) < Mark(s, j)
    <3>1. i \in 1 .. n
      BY <2>4, <1>n
    <3>2. CASE j = n + 1
      BY <3>1, <3>2, <1>7
    <3>3. CASE j \in 1 .. n
      <4>1. Mark(t, i) < Mark(t, j)
        BY <3>1, <3>3, <2>4, <1>t DEF Stacked, n
      <4> QED
        BY <3>1, <3>3, <4>1, <1>7
    <3> QED
      BY <3>2, <3>3, <1>n
  <2> QED
    BY <2>1, <2>2, <2>3, <2>4, <1>6 DEF Stacked
<1>12. Connected(W, s)
  <2>1. ASSUME NEW i \in 1 .. (n + 1), NEW x \in Open(s), Mark(s, i) <= s.index[x]
        PROVE  Reach(W, NodeAt(s, i), x)
    <3>1. CASE i \in 1 .. n /\ x \in Open(t)
      BY <3>1, <2>1, <1>5, <1>7, <1>t DEF Connected, n
    <3>2. CASE i \in 1 .. n /\ x = u
      <4>1. n \in 1 .. n /\ (i < n \/ i = n)
        BY <3>2, <1>n
      <4>2. Mark(t, i) <= Mark(t, n)
        BY <3>2, <4>1, <1>7, <1>t DEF Stacked, n
      <4>3. Reach(W, NodeAt(t, i), NodeAt(t, n))
        BY <3>2, <4>1, <4>2, <1>7, <1>t DEF Connected, n, Mark
      <4>4. Leads(W, NodeAt(t, n), u)
        BY <4>1, <1>n DEF Enters, NodeAt
      <4>5. Reach(W, NodeAt(t, n), u)
        BY <4>1, <4>4, <1>7, <1>n, ReachesNext
      <4> QED
        BY <3>2, <4>3, <4>5, <1>7, ReachesOn
    <3>3. CASE i = n + 1
      <4>1. x = u
        BY <3>3, <2>1, <1>4, <1>5, <1>7, <1>k
      <4> QED
        BY <3>3, <4>1, <1>7, ReachesItself
    <3> QED
      BY <3>1, <3>2, <3>3, <1>4, <1>n
  <2>2. ASSUME NEW x \in Open(s)
        PROVE  \E i \in 1 .. (n + 1) : Mark(s, i) <= s.index[x] /\ Reach(W, x, NodeAt(s, i))
    <3>1. CASE x \in Open(t)
      <4>1. PICK i \in 1 .. n : Mark(t, i) <= t.index[x] /\ Reach(W, x, NodeAt(t, i))
        BY <3>1, <1>t DEF Connected, n
      <4>2. i \in 1 .. (n + 1)
        BY <1>n
      <4> QED
        BY <3>1, <4>1, <4>2, <1>5, <1>7
    <3>2. CASE x = u
      <4>1. n + 1 \in 1 .. (n + 1) /\ Mark(s, n + 1) <= s.index[u] /\ Reach(W, u, NodeAt(s, n + 1))
        BY <1>2, <1>7, <1>k, <1>n, ReachesItself
      <4> QED
        BY <3>2, <4>1
    <3> QED
      BY <3>1, <3>2, <1>4
  <2> QED
    BY <2>1, <2>2, <1>6 DEF Connected
<1>13. Explored(W, s)
  <2>1. \A x, y \in UnitsOf(W) : Followed(W, s, x, y) => y \in Met(W, s)
    <3> TAKE x, y \in UnitsOf(W)
    <3> HAVE Followed(W, s, x, y)
    <3>1. Followed(W, t, x, y) \/ y = u
      BY <1>8
    <3> QED
      BY <3>1, <1>1, <1>t DEF Explored
  <2> QED
    BY <2>1, <1>4, <1>t DEF Explored
<1>14. Bounded(W, s)
  <2> SUFFICES ASSUME NEW i \in 1 .. (n + 1), NEW x \in Open(s), NEW y \in Open(s),
                      Under(s, i, x), Followed(W, s, x, y)
               PROVE  s.low[NodeAt(s, i)] <= s.index[y]
    BY <1>6 DEF Bounded
  <2>1. x \in Met(W, t) /\ (Followed(W, t, x, y) \/ y = u)
    BY <1>8
  <2>2. x \in Open(t)
    BY <2>1, <1>1, <1>4
  <2>3. i \in 1 .. n
    <3>1. i # n + 1
      BY <2>2, <1>5, <1>7, <1>k DEF Under
    <3> QED
      BY <3>1, <1>n
  <2>4. CASE y = u
    BY <2>3, <2>4, <1>2, <1>7, <1>k
  <2>5. CASE y # u /\ Followed(W, t, x, y)
    <3>1. y \in Open(t)
      BY <2>5, <1>4
    <3>2. Under(t, i, x)
      <4>1. Mark(t, i) <= t.index[x]
        BY <2>2, <2>3, <1>5, <1>7 DEF Under
      <4>2. ASSUME i < n PROVE t.index[x] < Mark(t, i + 1)
        <5>1. i < n + 1 /\ i + 1 \in 1 .. n
          BY <2>3, <4>2, <1>n
        <5> QED
          BY <2>2, <5>1, <1>5, <1>6, <1>7 DEF Under
      <4> QED
        BY <4>1, <4>2 DEF Under, n
    <3>3. t.low[NodeAt(t, i)] <= t.index[y]
      BY <2>2, <2>3, <2>5, <3>1, <3>2, <1>t DEF Bounded, n
    <3> QED
      BY <2>3, <3>1, <3>3, <1>5, <1>7
  <2> QED
    BY <2>1, <2>4, <2>5
<1>15. Witnessed(W, s)
  <2> SUFFICES ASSUME NEW i \in 1 .. (n + 1)
               PROVE  \E x \in Open(s) : s.index[x] = s.low[NodeAt(s, i)] /\ Reach(W, NodeAt(s, i), x)
    BY <1>6 DEF Witnessed
  <2>1. CASE i = n + 1
    BY <2>1, <1>2, <1>4, <1>7, ReachesItself
  <2>2. CASE i \in 1 .. n
    <3>1. PICK x \in Open(t) : t.index[x] = t.low[NodeAt(t, i)] /\ Reach(W, NodeAt(t, i), x)
      BY <2>2, <1>t DEF Witnessed, n
    <3> QED
      BY <2>2, <3>1, <1>4, <1>5, <1>7
  <2> QED
    BY <2>1, <2>2, <1>n
<1>16. Strong(W, s)
  BY <1>t DEF Strong, Enters
<1> QED
  BY <1>9, <1>10, <1>11, <1>12, <1>13, <1>14, <1>15, <1>16 DEF Searching

-----------------------------------------------------------------------------
(* A link to a unit that was met before is followed.                       *)

Sees(W, t, s, n, u, v) ==
    /\ n = Len(t.frames) /\ n # 0 /\ u = NodeAt(t, n)
    /\ v \in Met(W, t) /\ Leads(W, u, v)
    /\ \A y \in UnitsOf(W) : Leads(W, u, y) /\ y <= v => y <= t.frames[n].seen \/ y = v
    /\ s.index = t.index /\ s.stack = t.stack /\ s.components = t.components
    /\ s.frames = [t.frames EXCEPT ![n].seen = v]
    /\ s.low = IF v \in Open(t) /\ t.index[v] < t.low[u]
               THEN [t.low EXCEPT ![u] = t.index[v]] ELSE t.low

LEMMA SeeingKeeps ==
    ASSUME NEW W, NEW t, Searching(W, t), NEW s, NEW n, NEW u, NEW v, Sees(W, t, s, n, u, v)
    PROVE  Searching(W, s)
<1>t. /\ Typed(W, t) /\ Numbered(W, t) /\ Stacked(W, t) /\ Connected(W, t)
      /\ Explored(W, t) /\ Bounded(W, t) /\ Witnessed(W, t) /\ Strong(W, t)
  BY DEF Searching
<1>n. n \in Nat /\ n = Len(t.frames) /\ n \in 1 .. n
  BY <1>t DEF Sees, Typed
<1>1. /\ u \in Open(t) /\ u \in UnitsOf(W) /\ u = NodeAt(t, n)
      /\ t.low[u] \in Nat /\ t.index[u] \in Nat /\ t.low[u] <= t.index[u]
  <2>1. u \in Open(t) /\ u \in UnitsOf(W) /\ u = NodeAt(t, n)
    BY <1>t, <1>n, FramesAreOpen DEF Sees
  <2> QED
    BY <1>t, <2>1 DEF Typed, Numbered
<1>2. v \in UnitsOf(W) /\ v \in Nat /\ t.index[v] \in Nat /\ Leads(W, u, v)
  BY <1>t DEF Sees, Met, Typed
<1>3. Met(W, s) = Met(W, t) /\ Open(s) = Open(t) /\ Shut(s) = Shut(t) /\ s.index = t.index
  BY DEF Met, Open, Shut, Sees
<1>4. /\ Len(s.frames) = n /\ s.frames \in Seq(Frame(W))
      /\ \A i \in 1 .. n : /\ NodeAt(s, i) = NodeAt(t, i) /\ Mark(s, i) = Mark(t, i)
                           /\ s.frames[i].seen = IF i = n THEN v ELSE t.frames[i].seen
  <2>1. t.frames \in Seq(Frame(W)) /\ s.frames = [t.frames EXCEPT ![n].seen = v]
    BY <1>t DEF Typed, Sees
  <2>2. \A i \in 1 .. n : t.frames[i] \in Frame(W)
    BY <2>1, <1>n
  <2>3. \A i \in 1 .. n : s.frames[i] = IF i = n THEN [t.frames[i] EXCEPT !.seen = v]
                                        ELSE t.frames[i]
    BY <2>1, <1>n
  <2>4. \A i \in 1 .. n : /\ s.frames[i].node = t.frames[i].node
                          /\ s.frames[i].seen = IF i = n THEN v ELSE t.frames[i].seen
                          /\ s.frames[i] \in Frame(W)
    BY <2>2, <2>3, <1>2 DEF Frame
  <2>5. s.frames \in Seq(Frame(W)) /\ Len(s.frames) = n
    BY <2>1, <2>4, <1>n
  <2> QED
    BY <2>4, <2>5, <1>3 DEF NodeAt, Mark
<1>5. /\ s.low \in [UnitsOf(W) -> Nat]
      /\ \A x \in UnitsOf(W) : s.low[x] <= t.low[x] /\ (x # u => s.low[x] = t.low[x])
      /\ v \in Open(t) => s.low[u] <= t.index[v]
      /\ s.low[u] = t.low[u] \/ (v \in Open(t) /\ s.low[u] = t.index[v])
  <2>1. t.low \in [UnitsOf(W) -> Nat]
    BY <1>t DEF Typed
  <2>2. CASE v \in Open(t) /\ t.index[v] < t.low[u]
    <3>1. s.low = [t.low EXCEPT ![u] = t.index[v]]
      BY <2>2 DEF Sees
    <3> QED
      BY <2>1, <2>2, <3>1, <1>1, <1>2
  <2>3. CASE ~ (v \in Open(t) /\ t.index[v] < t.low[u])
    <3>1. s.low = t.low
      BY <2>3 DEF Sees
    <3> QED
      BY <2>1, <2>3, <3>1, <1>1, <1>2
  <2> QED
    BY <2>2, <2>3
<1>6. ASSUME NEW x, NEW y, Followed(W, s, x, y)
      PROVE  Followed(W, t, x, y) \/ (x = u /\ y = v)
  <2>1. /\ x \in Met(W, t) /\ y \in UnitsOf(W) /\ Leads(W, x, y)
        /\ \A i \in 1 .. n : NodeAt(t, i) = x => y <= s.frames[i].seen
    BY <1>3, <1>4, <1>6 DEF Followed
  <2>2. SUFFICES ASSUME ~ (x = u /\ y = v), NEW i \in 1 .. n, NodeAt(t, i) = x
                 PROVE  y <= t.frames[i].seen
    BY <2>1, <1>n DEF Followed
  <2>3. CASE i # n
    BY <2>1, <2>2, <2>3, <1>4
  <2>4. CASE i = n
    <3>1. x = u /\ y <= v
      BY <2>1, <2>2, <2>4, <1>1, <1>4
    <3> QED
      BY <2>1, <2>2, <2>4, <3>1 DEF Sees
  <2> QED
    BY <2>3, <2>4
<1>7. Typed(W, s)
  BY <1>t, <1>3, <1>4, <1>5 DEF Typed, Sees
<1>8. Numbered(W, s)
  <2>1. ASSUME NEW x \in UnitsOf(W)
        PROVE  s.index[x] <= Cardinality(Met(W, s)) /\ s.low[x] <= s.index[x]
    <3>1. /\ t.index[x] <= Cardinality(Met(W, t)) /\ t.low[x] <= t.index[x]
          /\ t.index[x] \in Nat /\ t.low[x] \in Nat /\ s.low[x] \in Nat
      BY <1>t, <1>5 DEF Numbered, Typed
    <3> QED
      BY <3>1, <1>3, <1>5
  <2> QED
    BY <2>1, <1>3, <1>t DEF Numbered
<1>9. Stacked(W, s)
  BY <1>t, <1>n, <1>3, <1>4 DEF Stacked, Sees
<1>10. Connected(W, s)
  BY <1>t, <1>n, <1>3, <1>4 DEF Connected
<1>11. Explored(W, s)
  BY <1>t, <1>3, <1>6 DEF Explored, Sees
<1>12. Bounded(W, s)
  <2> SUFFICES ASSUME NEW i \in 1 .. n, NEW x \in Open(t), NEW y \in Open(t),
                      Under(s, i, x), Followed(W, s, x, y)
               PROVE  s.low[NodeAt(t, i)] <= t.index[y]
    BY <1>3, <1>4 DEF Bounded
  <2>1. /\ NodeAt(t, i) \in UnitsOf(W) /\ t.low[NodeAt(t, i)] \in Nat
        /\ s.low[NodeAt(t, i)] \in Nat /\ s.low[NodeAt(t, i)] <= t.low[NodeAt(t, i)]
        /\ t.index[y] \in Nat
    BY <1>t, <1>n, <1>5, FramesAreOpen, OpenIsMet
  <2>2. Under(t, i, x)
    <3>1. i < n => i + 1 \in 1 .. n
      BY <1>n
    <3> QED
      BY <3>1, <1>n, <1>3, <1>4 DEF Under
  <2>3. CASE Followed(W, t, x, y)
    <3>1. t.low[NodeAt(t, i)] <= t.index[y]
      BY <2>2, <2>3, <1>t, <1>n DEF Bounded
    <3> QED
      BY <2>1, <3>1
  <2>4. CASE x = u /\ y = v
    <3>1. i = n
      <4> SUFFICES ASSUME i < n
                   PROVE  FALSE
        BY <1>n
      <4>1. i + 1 \in 1 .. n /\ (i + 1 = n \/ i + 1 < n)
        BY <1>n
      <4>2. t.index[u] < Mark(t, i + 1)
        BY <2>2, <2>4, <1>n DEF Under
      <4>3. Mark(t, i + 1) \in Nat /\ Mark(t, n) \in Nat /\ Mark(t, n) = t.index[u]
        BY <4>1, <1>t, <1>n, <1>1, FramesAreOpen DEF Mark
      <4>4. i + 1 < n => Mark(t, i + 1) < Mark(t, n)
        BY <4>1, <1>t, <1>n DEF Stacked
      <4> QED
        BY <4>1, <4>2, <4>3, <4>4
    <3> QED
      BY <2>4, <3>1, <1>1, <1>5
  <2> QED
    BY <2>3, <2>4, <1>6
<1>13. Witnessed(W, s)
  <2> SUFFICES ASSUME NEW i \in 1 .. n
               PROVE  \E x \in Open(t) : t.index[x] = s.low[NodeAt(t, i)]
                                           /\ Reach(W, NodeAt(t, i), x)
    BY <1>3, <1>4 DEF Witnessed
  <2>1. PICK x \in Open(t) : t.index[x] = t.low[NodeAt(t, i)] /\ Reach(W, NodeAt(t, i), x)
    BY <1>t, <1>n DEF Witnessed
  <2>2. NodeAt(t, i) \in UnitsOf(W)
    BY <1>t, <1>n, FramesAreOpen
  <2>3. CASE s.low[NodeAt(t, i)] = t.low[NodeAt(t, i)]
    BY <2>1, <2>3
  <2>4. CASE NodeAt(t, i) = u /\ v \in Open(t) /\ s.low[u] = t.index[v]
    BY <2>4, <1>1, <1>2, ReachesNext
  <2> QED
    BY <2>2, <2>3, <2>4, <1>5
<1>14. Strong(W, s)
  BY <1>t DEF Strong, Sees
<1> QED
  BY <1>7, <1>8, <1>9, <1>10, <1>11, <1>12, <1>13, <1>14 DEF Searching

-----------------------------------------------------------------------------
(* A unit all of whose links have been followed is left.                   *)

Exhausts(W, t, s, n, u) ==
    /\ n = Len(t.frames) /\ n # 0 /\ u = NodeAt(t, n)
    /\ \A y \in UnitsOf(W) : Leads(W, u, y) => y <= t.frames[n].seen
    /\ s.index = t.index /\ s.frames = Front(t.frames)

\* What both ways of leaving a unit have in common.
Shortened(W, t, s, n, u) ==
    /\ n \in Nat /\ n = Len(t.frames) /\ n \in 1 .. n
    /\ u = NodeAt(t, n) /\ u \in Open(t) /\ u \in UnitsOf(W) /\ Mark(t, n) = t.index[u]
    /\ t.index[u] \in Nat /\ t.low[u] \in Nat /\ t.low[u] <= t.index[u]
    /\ s.frames \in Seq(Frame(W)) /\ Len(s.frames) = n - 1
    /\ \A i \in 1 .. (n - 1) :
          /\ i \in 1 .. n /\ NodeAt(s, i) = NodeAt(t, i) /\ Mark(s, i) = Mark(t, i)
          /\ NodeAt(t, i) \in Open(t) /\ NodeAt(t, i) \in UnitsOf(W)
          /\ Mark(t, i) = t.index[NodeAt(t, i)]
          /\ Mark(t, i) \in Nat /\ Mark(t, i) < t.index[u] /\ t.low[NodeAt(t, i)] \in Nat
          /\ t.low[NodeAt(t, i)] <= Mark(t, i)
    /\ Met(W, s) = Met(W, t)
    /\ \A x, y : Followed(W, s, x, y) => Followed(W, t, x, y)

LEMMA ExhaustingShortens ==
    ASSUME NEW W, NEW t, Searching(W, t), NEW s, NEW n, NEW u, Exhausts(W, t, s, n, u)
    PROVE  Shortened(W, t, s, n, u)
<1>t. Typed(W, t) /\ Numbered(W, t) /\ Stacked(W, t)
  BY DEF Searching
<1>n. n \in Nat /\ n = Len(t.frames) /\ n \in 1 .. n /\ n - 1 \in Nat
  BY <1>t DEF Exhausts, Typed
<1>1. /\ u = NodeAt(t, n) /\ u \in Open(t) /\ u \in UnitsOf(W) /\ Mark(t, n) = t.index[u]
      /\ t.index[u] \in Nat /\ t.low[u] \in Nat /\ t.low[u] <= t.index[u]
  <2>1. u = NodeAt(t, n) /\ u \in Open(t) /\ u \in UnitsOf(W)
    BY <1>t, <1>n, FramesAreOpen DEF Exhausts
  <2> QED
    BY <1>t, <2>1 DEF Typed, Numbered, Mark
<1>2. /\ s.frames \in Seq(Frame(W)) /\ Len(s.frames) = n - 1
      /\ \A i \in 1 .. (n - 1) : s.frames[i] = t.frames[i]
  <2>1. t.frames \in Seq(Frame(W)) /\ s.frames = SubSeq(t.frames, 1, n - 1)
    BY <1>t, <1>n DEF Typed, Exhausts, Front
  <2> QED
    BY <2>1, <1>n
<1>3. ASSUME NEW i \in 1 .. (n - 1)
      PROVE  /\ i \in 1 .. n /\ NodeAt(s, i) = NodeAt(t, i) /\ Mark(s, i) = Mark(t, i)
             /\ NodeAt(t, i) \in Open(t) /\ NodeAt(t, i) \in UnitsOf(W)
             /\ Mark(t, i) = t.index[NodeAt(t, i)]
             /\ Mark(t, i) \in Nat /\ Mark(t, i) < t.index[u] /\ t.low[NodeAt(t, i)] \in Nat
             /\ t.low[NodeAt(t, i)] <= Mark(t, i)
  <2>1. i \in 1 .. n /\ i < n
    BY <1>n
  <2>2. NodeAt(s, i) = NodeAt(t, i) /\ Mark(s, i) = Mark(t, i)
    BY <1>2 DEF NodeAt, Mark, Exhausts
  <2>3. /\ NodeAt(t, i) \in Open(t) /\ NodeAt(t, i) \in UnitsOf(W)
        /\ Mark(t, i) \in Nat /\ t.low[NodeAt(t, i)] \in Nat
    BY <2>1, <1>t, <1>n, FramesAreOpen
  <2>4. Mark(t, i) < Mark(t, n)
    BY <2>1, <1>t, <1>n DEF Stacked
  <2>5. t.low[NodeAt(t, i)] <= Mark(t, i)
    BY <2>3, <1>t DEF Numbered, Mark
  <2> QED
    BY <2>1, <2>2, <2>3, <2>4, <2>5, <1>1 DEF Mark
<1>4. Met(W, s) = Met(W, t)
  BY DEF Met, Exhausts
<1>5. ASSUME NEW x, NEW y, Followed(W, s, x, y)
      PROVE  Followed(W, t, x, y)
  <2>1. /\ x \in Met(W, t) /\ y \in UnitsOf(W) /\ Leads(W, x, y)
        /\ \A i \in 1 .. (n - 1) : NodeAt(s, i) = x => y <= s.frames[i].seen
    BY <1>2, <1>4, <1>5 DEF Followed
  <2>2. SUFFICES ASSUME NEW i \in 1 .. n, NodeAt(t, i) = x
                 PROVE  y <= t.frames[i].seen
    BY <2>1, <1>n DEF Followed
  <2>3. CASE i = n
    BY <2>1, <2>2, <2>3 DEF Exhausts
  <2>4. CASE i \in 1 .. (n - 1)
    BY <2>1, <2>2, <2>4, <1>2, <1>3
  <2> QED
    BY <2>3, <2>4, <1>n
<1> QED
  BY <1>n, <1>1, <1>2, <1>3, <1>4, <1>5 DEF Shortened

\* It is no root of a component: its low number is handed to the unit before.
Leaves(W, t, s, n, u) ==
    /\ Exhausts(W, t, s, n, u)
    /\ t.low[u] # t.index[u]
    /\ s.stack = t.stack /\ s.components = t.components
    /\ s.low \in [UnitsOf(W) -> Nat]
    /\ \A x \in UnitsOf(W) :
          s.low[x] = IF n > 1 /\ x = NodeAt(t, n - 1) /\ t.low[u] < t.low[x]
                     THEN t.low[u] ELSE t.low[x]

LEMMA LeavingKeeps ==
    ASSUME NEW W, NEW t, Searching(W, t), NEW s, NEW n, NEW u, Leaves(W, t, s, n, u)
    PROVE  Searching(W, s)
<1>t. /\ Typed(W, t) /\ Numbered(W, t) /\ Stacked(W, t) /\ Connected(W, t)
      /\ Explored(W, t) /\ Bounded(W, t) /\ Witnessed(W, t) /\ Strong(W, t)
  BY DEF Searching
<1>d. Shortened(W, t, s, n, u)
  BY ExhaustingShortens DEF Leaves
<1>1. n \in Nat /\ n = Len(t.frames) /\ n \in 1 .. n /\ t.low[u] \in Nat
      /\ t.index[u] \in Nat /\ t.low[u] < t.index[u] /\ Mark(t, n) = t.index[u]
      /\ u \in Open(t) /\ u \in UnitsOf(W) /\ u = NodeAt(t, n) /\ Len(s.frames) = n - 1
  BY <1>d DEF Shortened, Leaves
<1>2. Met(W, s) = Met(W, t) /\ Open(s) = Open(t) /\ Shut(s) = Shut(t) /\ s.index = t.index
      /\ s.components = t.components /\ s.stack = t.stack
  BY <1>d DEF Shortened, Leaves, Exhausts, Open, Shut
<1>3. \A i \in 1 .. (n - 1) :
          /\ i \in 1 .. n /\ NodeAt(s, i) = NodeAt(t, i) /\ Mark(s, i) = Mark(t, i)
          /\ NodeAt(t, i) \in Open(t) /\ NodeAt(t, i) \in UnitsOf(W)
          /\ Mark(t, i) \in Nat /\ Mark(t, i) < t.index[u] /\ t.low[NodeAt(t, i)] \in Nat
          /\ t.low[NodeAt(t, i)] <= Mark(t, i)
  BY <1>d DEF Shortened
<1>4. PICK w \in Open(t) : t.index[w] = t.low[u] /\ Reach(W, u, w)
  BY <1>t, <1>1 DEF Witnessed
<1>5. PICK j \in 1 .. (n - 1) : Mark(t, j) <= t.low[u] /\ Reach(W, u, NodeAt(t, j))
  <2>1. PICK j \in 1 .. n : Mark(t, j) <= t.index[w] /\ Reach(W, w, NodeAt(t, j))
    BY <1>t, <1>1 DEF Connected
  <2>2. j # n
    BY <2>1, <1>1, <1>4
  <2>3. j \in 1 .. (n - 1)
    BY <2>1, <2>2, <1>1
  <2> QED
    BY <2>1, <2>3, <1>4, ReachesOn
<1>6. n > 1 /\ n - 1 \in 1 .. (n - 1)
  BY <1>1, <1>5
<1>7. /\ s.low \in [UnitsOf(W) -> Nat]
      /\ \A x \in UnitsOf(W) : s.low[x] <= t.low[x]
      /\ \A x \in UnitsOf(W) :
            \/ s.low[x] = t.low[x]
            \/ x = NodeAt(t, n - 1) /\ s.low[x] = t.low[u]
      /\ s.low[NodeAt(t, n - 1)] <= t.low[u]
  <2>1. t.low \in [UnitsOf(W) -> Nat] /\ NodeAt(t, n - 1) \in UnitsOf(W)
    BY <1>t, <1>3, <1>6 DEF Typed
  <2>2. \A x \in UnitsOf(W) : t.low[x] \in Nat
    BY <2>1
  <2>3. s.low \in [UnitsOf(W) -> Nat]
        /\ \A x \in UnitsOf(W) :
              s.low[x] = IF x = NodeAt(t, n - 1) /\ t.low[u] < t.low[x]
                         THEN t.low[u] ELSE t.low[x]
    BY <1>6 DEF Leaves
  <2> QED
    BY <2>1, <2>2, <2>3, <1>1
<1>8. Typed(W, s)
  BY <1>t, <1>2, <1>7, <1>d DEF Typed, Shortened
<1>9. Numbered(W, s)
  <2>1. ASSUME NEW x \in UnitsOf(W)
        PROVE  s.index[x] <= Cardinality(Met(W, s)) /\ s.low[x] <= s.index[x]
    <3>1. /\ t.index[x] <= Cardinality(Met(W, t)) /\ t.low[x] <= t.index[x]
          /\ t.index[x] \in Nat /\ t.low[x] \in Nat /\ s.low[x] \in Nat
      BY <1>t, <1>7 DEF Numbered, Typed
    <3> QED
      BY <3>1, <1>2, <1>7
  <2> QED
    BY <2>1, <1>2, <1>t DEF Numbered
<1>10. Stacked(W, s)
  <2>1. \A i, k \in 1 .. (n - 1) : i < k => Mark(s, i) < Mark(s, k)
    BY <1>t, <1>1, <1>3 DEF Stacked
  <2> QED
    BY <2>1, <1>t, <1>1, <1>2, <1>3 DEF Stacked
<1>11. Connected(W, s)
  <2>1. ASSUME NEW i \in 1 .. (n - 1), NEW x \in Open(t), Mark(s, i) <= t.index[x]
        PROVE  Reach(W, NodeAt(s, i), x)
    BY <2>1, <1>t, <1>1, <1>3 DEF Connected
  <2>2. ASSUME NEW x \in Open(t)
        PROVE  \E i \in 1 .. (n - 1) : Mark(s, i) <= t.index[x] /\ Reach(W, x, NodeAt(s, i))
    <3>1. PICK i \in 1 .. n : Mark(t, i) <= t.index[x] /\ Reach(W, x, NodeAt(t, i))
      BY <1>t, <1>1 DEF Connected
    <3>2. CASE i = n
      <4>1. Reach(W, x, NodeAt(t, j))
        BY <3>1, <3>2, <1>1, <1>5, ReachesOn
      <4>2. Mark(t, j) <= t.index[x]
        <5>1. t.index[x] \in Nat /\ Mark(t, j) \in Nat
          BY <1>t, <1>3, OpenIsMet
        <5>2. t.index[u] <= t.index[x]
          BY <3>1, <3>2, <1>1
        <5> QED
          BY <5>1, <5>2, <1>1, <1>5
      <4> QED
        BY <4>1, <4>2, <1>3, <1>5
    <3>3. CASE i # n
      <4>1. i \in 1 .. (n - 1)
        BY <3>1, <3>3, <1>1
      <4> QED
        BY <4>1, <3>1, <1>3
    <3> QED
      BY <3>2, <3>3
  <2> QED
    BY <2>1, <2>2, <1>1, <1>2 DEF Connected
<1>12. Explored(W, s)
  <2>1. \A x, y : Followed(W, s, x, y) => Followed(W, t, x, y)
    BY <1>d DEF Shortened
  <2> QED
    BY <2>1, <1>t, <1>2 DEF Explored
<1>13. Bounded(W, s)
  <2> SUFFICES ASSUME NEW i \in 1 .. (n - 1), NEW x \in Open(t), NEW y \in Open(t),
                      Under(s, i, x), Followed(W, s, x, y)
               PROVE  s.low[NodeAt(s, i)] <= t.index[y]
    BY <1>1, <1>2 DEF Bounded
  <2>1. Followed(W, t, x, y)
    BY <1>d DEF Shortened
  <2>2. /\ NodeAt(s, i) = NodeAt(t, i) /\ NodeAt(t, i) \in UnitsOf(W)
        /\ t.low[NodeAt(t, i)] \in Nat /\ s.low[NodeAt(t, i)] \in Nat
        /\ s.low[NodeAt(t, i)] <= t.low[NodeAt(t, i)]
        /\ t.index[x] \in Nat /\ t.index[y] \in Nat
    BY <1>t, <1>3, <1>7, OpenIsMet
  <2>3. Mark(t, i) <= t.index[x]
    BY <1>2, <1>3 DEF Under
  <2>4. CASE Under(t, i, x)
    <3>1. t.low[NodeAt(t, i)] <= t.index[y]
      BY <2>1, <2>4, <1>3, <1>t, <1>1 DEF Bounded
    <3> QED
      BY <3>1, <2>2
  <2>5. CASE ~ Under(t, i, x)
    <3>1. t.index[x] >= Mark(t, i + 1) /\ i + 1 \in 1 .. n /\ Mark(t, i + 1) \in Nat
      <4>1. i + 1 \in 1 .. n
        BY <1>1
      <4>2. Mark(t, i + 1) \in Nat
        BY <4>1, <1>t, <1>1, FramesAreOpen
      <4> QED
        BY <2>2, <2>3, <2>5, <4>1, <4>2, <1>1 DEF Under
    <3>2. i = n - 1
      <4> SUFFICES ASSUME i < n - 1 PROVE FALSE
        BY <1>1
      <4>1. i + 1 \in 1 .. (n - 1)
        BY <1>1
      <4>2. s.index[x] < Mark(s, i + 1)
        BY <1>1 DEF Under
      <4> QED
        BY <2>2, <3>1, <4>1, <4>2, <1>2, <1>3
    <3>3. Under(t, n, x)
      BY <3>1, <3>2, <2>2, <1>1 DEF Under
    <3>4. t.low[u] <= t.index[y]
      BY <2>1, <3>3, <1>t, <1>1 DEF Bounded
    <3> QED
      BY <3>2, <3>4, <2>2, <1>1, <1>7
  <2> QED
    BY <2>4, <2>5
<1>14. Witnessed(W, s)
  <2> SUFFICES ASSUME NEW i \in 1 .. (n - 1)
               PROVE  \E x \in Open(t) : t.index[x] = s.low[NodeAt(t, i)]
                                           /\ Reach(W, NodeAt(t, i), x)
    BY <1>1, <1>2, <1>3 DEF Witnessed
  <2>1. CASE s.low[NodeAt(t, i)] = t.low[NodeAt(t, i)]
    BY <2>1, <1>3, <1>1, <1>t DEF Witnessed
  <2>2. CASE s.low[NodeAt(t, i)] = t.low[u]
    <3>1. Reach(W, NodeAt(t, i), u)
      BY <1>t, <1>1, <1>3 DEF Connected
    <3> QED
      BY <2>2, <3>1, <1>4, ReachesOn
  <2> QED
    BY <2>1, <2>2, <1>3, <1>7
<1>15. Strong(W, s)
  BY <1>t, <1>2 DEF Strong
<1> QED
  BY <1>8, <1>9, <1>10, <1>11, <1>12, <1>13, <1>14, <1>15 DEF Searching

\* It is the root of a component: all that lies above it on the stack.
Closes(W, t, s, n, u, p) ==
    /\ Exhausts(W, t, s, n, u)
    /\ t.low[u] = t.index[u]
    /\ s.low = t.low
    /\ p \in 1 .. Len(t.stack) /\ t.stack[p] = u
    /\ s.stack = SubSeq(t.stack, 1, p - 1)
    /\ s.components = t.components \cup {ToSet(SubSeq(t.stack, p, Len(t.stack)))}

LEMMA ClosingKeeps ==
    ASSUME NEW W, NEW t, Searching(W, t), NEW s, NEW n, NEW u, NEW p, Closes(W, t, s, n, u, p)
    PROVE  Searching(W, s)
<1> DEFINE m == Len(t.stack)
           rest == SubSeq(t.stack, p, m)
           C == ToSet(rest)
<1>t. /\ Typed(W, t) /\ Numbered(W, t) /\ Stacked(W, t) /\ Connected(W, t)
      /\ Explored(W, t) /\ Bounded(W, t) /\ Witnessed(W, t) /\ Strong(W, t)
  BY DEF Searching
<1>d. Shortened(W, t, s, n, u)
  BY ExhaustingShortens DEF Closes
<1>1. n \in Nat /\ n = Len(t.frames) /\ n \in 1 .. n /\ Mark(t, n) = t.index[u]
      /\ t.index[u] \in Nat /\ t.low[u] = t.index[u]
      /\ u \in Open(t) /\ u \in UnitsOf(W) /\ u = NodeAt(t, n) /\ Len(s.frames) = n - 1
  BY <1>d DEF Shortened, Closes
<1>2. Met(W, s) = Met(W, t) /\ s.index = t.index /\ s.low = t.low
      /\ s.components = t.components \cup {C}
  BY <1>d DEF Shortened, Closes, Exhausts
<1>3. \A i \in 1 .. (n - 1) :
          /\ i \in 1 .. n /\ NodeAt(s, i) = NodeAt(t, i) /\ Mark(s, i) = Mark(t, i)
          /\ NodeAt(t, i) \in Open(t) /\ NodeAt(t, i) \in UnitsOf(W)
          /\ Mark(t, i) = t.index[NodeAt(t, i)]
          /\ Mark(t, i) \in Nat /\ Mark(t, i) < t.index[u] /\ t.low[NodeAt(t, i)] \in Nat
          /\ t.low[NodeAt(t, i)] <= Mark(t, i)
  BY <1>d DEF Shortened
<1>4. /\ m \in Nat /\ p \in 1 .. m /\ t.stack[p] = u /\ t.stack \in Seq(UnitsOf(W))
      /\ \A i \in 1 .. m : t.stack[i] \in Open(t) /\ t.index[t.stack[i]] \in Nat
      /\ \A x \in Open(t) : \E i \in 1 .. m : x = t.stack[i]
      /\ \A i, j \in 1 .. m : i < j => t.index[t.stack[i]] < t.index[t.stack[j]]
  <2>1. t.stack \in Seq(UnitsOf(W)) /\ m \in Nat /\ p \in 1 .. m /\ t.stack[p] = u
    BY <1>t DEF Typed, Closes
  <2>2. /\ \A i \in 1 .. m : t.stack[i] \in Open(t)
        /\ \A x \in Open(t) : \E i \in 1 .. m : x = t.stack[i]
    BY <2>1 DEF Open, ToSet
  <2>3. \A i \in 1 .. m : t.index[t.stack[i]] \in Nat
    BY <2>2, <1>t, OpenIsMet
  <2> QED
    BY <2>1, <2>2, <2>3, <1>t DEF Stacked
<1>5. /\ s.stack \in Seq(UnitsOf(W)) /\ Len(s.stack) = p - 1
      /\ \A i \in 1 .. (p - 1) : s.stack[i] = t.stack[i]
  BY <1>4 DEF Closes
<1>6. /\ rest \in Seq(UnitsOf(W)) /\ Len(rest) = m - p + 1
      /\ \A i \in 1 .. (m - p + 1) : rest[i] = t.stack[p + i - 1]
  <2>1. p \in Nat /\ m \in Nat /\ 1 <= p /\ p <= m /\ t.stack \in Seq(UnitsOf(W)) /\ m = Len(t.stack)
    BY <1>4
  <2>2. rest \in Seq(UnitsOf(W))
    <3> HIDE DEF m
    <3>1. \A i \in p .. m : t.stack[i] \in UnitsOf(W)
      BY <2>1
    <3> QED
      BY <2>1, <3>1
  <2>3. Len(rest) = m - p + 1
    <3> HIDE DEF m
    <3> QED
      BY <2>1
  <2>4. \A i \in 1 .. (m - p + 1) : rest[i] = t.stack[p + i - 1]
    <3> HIDE DEF m
    <3> QED
      BY <2>1
  <2> QED
    BY <2>2, <2>3, <2>4
<1> HIDE DEF rest
<1>7. Open(s) = {x \in Open(t) : t.index[x] < t.index[u]}
  <2>1. ASSUME NEW x \in Open(s)
        PROVE  x \in Open(t) /\ t.index[x] < t.index[u]
    <3>1. PICK i \in 1 .. (p - 1) : x = s.stack[i]
      BY <1>5 DEF Open, ToSet
    <3>2. i \in 1 .. m /\ i < p
      BY <1>4
    <3> QED
      BY <3>1, <3>2, <1>4, <1>5
  <2>2. ASSUME NEW x \in Open(t), t.index[x] < t.index[u]
        PROVE  x \in Open(s)
    <3>1. PICK i \in 1 .. m : x = t.stack[i]
      BY <1>4
    <3>2. i \in 1 .. (p - 1)
      <4>1. t.index[t.stack[i]] < t.index[t.stack[p]]
        BY <2>2, <3>1, <1>4
      <4>2. ~ (p < i) /\ i # p
        BY <4>1, <1>4
      <4> QED
        BY <4>2, <1>4
    <3>3. \A k \in 1 .. (p - 1) : s.stack[k] \in Open(s)
      BY <1>5 DEF Open, ToSet
    <3> QED
      BY <3>1, <3>2, <3>3, <1>5
  <2> QED
    BY <2>1, <2>2
<1>8. C = {x \in Open(t) : t.index[u] <= t.index[x]}
  <2>1. ASSUME NEW x \in C
        PROVE  x \in Open(t) /\ t.index[u] <= t.index[x]
    <3>1. PICK i \in 1 .. (m - p + 1) : x = rest[i]
      BY <1>6 DEF ToSet
    <3>2. p + i - 1 \in 1 .. m /\ (p < p + i - 1 \/ p = p + i - 1) /\ x = t.stack[p + i - 1]
      BY <3>1, <1>4, <1>6
    <3> QED
      BY <3>2, <1>4
  <2>2. ASSUME NEW x \in Open(t), t.index[u] <= t.index[x]
        PROVE  x \in C
    <3>1. PICK i \in 1 .. m : x = t.stack[i]
      BY <1>4
    <3>2. ~ (i < p)
      BY <2>2, <3>1, <1>4
    <3>3. i - p + 1 \in 1 .. (m - p + 1) /\ p + (i - p + 1) - 1 = i
      BY <3>2, <1>4
    <3>4. \A k \in 1 .. (m - p + 1) : rest[k] \in C
      BY <1>6 DEF ToSet
    <3> QED
      BY <3>1, <3>3, <3>4, <1>6
  <2> QED
    BY <2>1, <2>2
<1> HIDE DEF C, m
<1>9. \A x \in Open(t) : /\ x \in UnitsOf(W) /\ x \in Met(W, t) /\ t.index[x] \in Nat
                         /\ (x \in Open(s) \/ x \in C) /\ ~ (x \in Open(s) /\ x \in C)
  <2> TAKE x \in Open(t)
  <2>1. x \in UnitsOf(W) /\ x \in Met(W, t) /\ t.index[x] \in Nat
    BY <1>t, OpenIsMet
  <2> QED
    BY <2>1, <1>1, <1>7, <1>8
<1>10. C \subseteq Open(t) /\ Open(s) \subseteq Open(t)
  BY <1>7, <1>8
<1>11. Shut(s) = Shut(t) \cup C
  BY <1>2 DEF Shut
<1>12. \A x \in C : Reach(W, u, x) /\ Reach(W, x, u)
  <2> TAKE x \in C
  <2>1. x \in Open(t) /\ t.index[u] <= t.index[x]
    BY <1>8
  <2>2. Reach(W, u, x)
    BY <2>1, <1>t, <1>1 DEF Connected
  <2>3. PICK i \in 1 .. n : Mark(t, i) <= t.index[x] /\ Reach(W, x, NodeAt(t, i))
    BY <2>1, <1>t, <1>1 DEF Connected
  <2>4. Mark(t, i) <= t.index[u]
    <3>1. i = n \/ i \in 1 .. (n - 1)
      BY <1>1
    <3> QED
      BY <3>1, <1>1, <1>3
  <2>5. Reach(W, NodeAt(t, i), u)
    BY <2>4, <1>t, <1>1 DEF Connected
  <2> QED
    BY <2>2, <2>3, <2>5, ReachesOn
<1>13. IsSealed(W, Shut(s))
  <2> SUFFICES ASSUME NEW a \in Shut(s), NEW b \in UnitsOf(W), Leads(W, a, b)
               PROVE  b \in Shut(s)
    <3>1. Shut(s) \subseteq UnitsOf(W)
      BY <1>9, <1>10, <1>11, <1>t DEF Explored, IsSealed
    <3> QED
      BY <3>1 DEF IsSealed
  <2>1. CASE a \in Shut(t)
    BY <2>1, <1>11, <1>t DEF Explored, IsSealed
  <2>2. CASE a \in C
    <3>1. a \in Open(t) /\ a \in Met(W, t) /\ t.index[u] <= t.index[a] /\ t.index[a] \in Nat
      BY <2>2, <1>8, <1>9
    <3>2. Followed(W, t, a, b)
      <4> SUFFICES ASSUME NEW i \in 1 .. n, NodeAt(t, i) = a
                   PROVE  b <= t.frames[i].seen
        BY <3>1, <1>1 DEF Followed
      <4>1. i \notin 1 .. (n - 1)
        BY <3>1, <1>1, <1>3
      <4>2. i = n /\ a = u
        BY <4>1, <1>1
      <4> QED
        BY <4>2 DEF Closes, Exhausts
    <3>3. b \in Open(t) \/ b \in Shut(t)
      BY <3>1, <3>2, <1>9, <1>t DEF Explored, Stacked
    <3>4. CASE b \in Open(t)
      <4>1. Under(t, n, a)
        BY <3>1, <1>1 DEF Under
      <4>2. t.low[u] <= t.index[b]
        BY <3>1, <3>2, <3>4, <4>1, <1>t, <1>1 DEF Bounded
      <4> QED
        BY <3>4, <4>2, <1>1, <1>8, <1>11
    <3> QED
      BY <3>3, <3>4, <1>11
  <2> QED
    BY <2>1, <2>2, <1>11
<1>14. Strong(W, s)
  <2> SUFFICES ASSUME NEW c \in s.components, NEW x \in c
               PROVE  c = {v \in UnitsOf(W) : Reach(W, x, v) /\ Reach(W, v, x)}
    BY DEF Strong
  <2>1. CASE c \in t.components
    BY <2>1, <1>t DEF Strong
  <2>2. CASE c = C
    <3>1. x \in C /\ x \in Open(t) /\ x \in Shut(s) /\ x \notin Shut(t)
      BY <2>2, <1>10, <1>11, <1>t DEF Stacked
    <3>2. ASSUME NEW v \in C
          PROVE  v \in UnitsOf(W) /\ Reach(W, x, v) /\ Reach(W, v, x)
      BY <3>1, <3>2, <1>9, <1>10, <1>12, ReachesOn
    <3>3. ASSUME NEW v, Reach(W, x, v), Reach(W, v, x)
          PROVE  v \in C
      <4>1. v \in Shut(s)
        BY <3>1, <3>3, <1>13, SealedIsLeftByNone
      <4>2. v \notin Shut(t)
        BY <3>1, <3>3, <1>t, SealedIsLeftByNone DEF Explored
      <4> QED
        BY <4>1, <4>2, <1>11
    <3> QED
      BY <2>2, <3>2, <3>3
  <2> QED
    BY <2>1, <2>2, <1>2
<1>15. Typed(W, s)
  <2>1. C \in SUBSET UnitsOf(W)
    BY <1>9, <1>10
  <2> QED
    BY <2>1, <1>t, <1>2, <1>5, <1>d DEF Typed, Shortened
<1>16. Numbered(W, s)
  BY <1>t, <1>2 DEF Numbered
<1>17. Stacked(W, s)
  <2>1. Open(s) \cup Shut(s) = Met(W, s) /\ Open(s) \cap Shut(s) = {}
    BY <1>2, <1>9, <1>10, <1>11, <1>t DEF Stacked
  <2>2. \A i, j \in 1 .. (p - 1) : i < j => s.index[s.stack[i]] < s.index[s.stack[j]]
    <3>1. 1 .. (p - 1) \subseteq 1 .. m
      BY <1>4
    <3> QED
      BY <3>1, <1>2, <1>4, <1>5
  <2>3. \A i \in 1 .. (n - 1) : NodeAt(s, i) \in Open(s)
    BY <1>3, <1>7
  <2>4. \A i, j \in 1 .. (n - 1) : i < j => Mark(s, i) < Mark(s, j)
    BY <1>t, <1>1, <1>3 DEF Stacked
  <2> QED
    BY <2>1, <2>2, <2>3, <2>4, <1>1, <1>5 DEF Stacked
<1>18. Connected(W, s)
  <2>1. ASSUME NEW i \in 1 .. (n - 1), NEW x \in Open(s), Mark(s, i) <= t.index[x]
        PROVE  Reach(W, NodeAt(s, i), x)
    BY <2>1, <1>t, <1>1, <1>3, <1>10 DEF Connected
  <2>2. ASSUME NEW x \in Open(s)
        PROVE  \E i \in 1 .. (n - 1) : Mark(s, i) <= t.index[x] /\ Reach(W, x, NodeAt(s, i))
    <3>1. x \in Open(t) /\ t.index[x] \in Nat /\ t.index[x] < t.index[u]
      BY <1>7, <1>9
    <3>2. PICK i \in 1 .. n : Mark(t, i) <= t.index[x] /\ Reach(W, x, NodeAt(t, i))
      BY <3>1, <1>t, <1>1 DEF Connected
    <3>3. i # n
      BY <3>1, <3>2, <1>1
    <3>4. i \in 1 .. (n - 1)
      BY <3>3, <1>1
    <3> QED
      BY <3>2, <3>4, <1>3
  <2> QED
    BY <2>1, <2>2, <1>1, <1>2 DEF Connected
<1>19. Explored(W, s)
  <2>1. \A x, y : Followed(W, s, x, y) => Followed(W, t, x, y)
    BY <1>d DEF Shortened
  <2> QED
    BY <2>1, <1>t, <1>2, <1>13 DEF Explored
<1>20. Bounded(W, s)
  <2> SUFFICES ASSUME NEW i \in 1 .. (n - 1), NEW x \in Open(s), NEW y \in Open(s),
                      Under(s, i, x), Followed(W, s, x, y)
               PROVE  t.low[NodeAt(s, i)] <= t.index[y]
    BY <1>1, <1>2 DEF Bounded
  <2>1. Followed(W, t, x, y)
    BY <1>d DEF Shortened
  <2>2. x \in Open(t) /\ y \in Open(t) /\ t.index[x] < t.index[u]
    BY <1>7
  <2>3. Under(t, i, x)
    <3>1. Mark(t, i) <= t.index[x]
      BY <1>2, <1>3 DEF Under
    <3>2. CASE i = n - 1
      BY <3>1, <3>2, <2>2, <1>1 DEF Under
    <3>3. CASE i < n - 1
      <4>1. i + 1 \in 1 .. (n - 1)
        BY <3>3, <1>1
      <4>2. s.index[x] < Mark(s, i + 1)
        BY <3>3, <1>1 DEF Under
      <4> QED
        BY <3>1, <4>1, <4>2, <1>2, <1>3 DEF Under
    <3> QED
      BY <3>2, <3>3, <1>1
  <2> QED
    BY <2>1, <2>2, <2>3, <1>3, <1>t, <1>1 DEF Bounded
<1>21. Witnessed(W, s)
  <2> SUFFICES ASSUME NEW i \in 1 .. (n - 1)
               PROVE  \E x \in Open(s) : t.index[x] = t.low[NodeAt(t, i)]
                                           /\ Reach(W, NodeAt(t, i), x)
    BY <1>1, <1>2, <1>3 DEF Witnessed
  <2>1. PICK x \in Open(t) : t.index[x] = t.low[NodeAt(t, i)] /\ Reach(W, NodeAt(t, i), x)
    BY <1>3, <1>1, <1>t DEF Witnessed
  <2>2. t.index[x] < t.index[u]
    <3>1. t.index[x] <= Mark(t, i) /\ t.index[x] \in Nat
      BY <2>1, <1>3
    <3>2. Mark(t, i) \in Nat /\ Mark(t, i) < t.index[u]
      BY <1>3
    <3>3. t.index[u] \in Nat
      BY <1>1
    <3> QED
      BY <3>1, <3>2, <3>3
  <2> QED
    BY <2>1, <2>2, <1>7
<1> QED
  BY <1>14, <1>15, <1>16, <1>17, <1>18, <1>19, <1>20, <1>21 DEF Searching

-----------------------------------------------------------------------------
(* The actions.                                                            *)

\* What the record of the algorithm holds besides.
Fields(t) == t = [index |-> t.index, low |-> t.low, stack |-> t.stack, frames |-> t.frames,
                  components |-> t.components]

Search1 == Searching(weight, tarjan) /\ Fields(tarjan)

LEMMA NextIsLeast ==
    ASSUME NEW S, S \subseteq Nat, S # {}
    PROVE  NextUnit(S) \in S /\ \A v \in S : NextUnit(S) <= v
BY LeastNumber DEF NextUnit

LEMMA UnitsAreUnits == Units = UnitsOf(weight)
BY DEF Units, UnitsOf

\* t1 is t or has another top frame.
LEMMA EnteredEnters ==
    ASSUME NEW t, Searching(weight, t), NEW t1, Fields(t1), NEW u \in Units, t.index[u] = 0,
           t1.index = t.index, t1.low = t.low, t1.stack = t.stack, t1.components = t.components,
           t1.frames \in Seq(Frame(weight)), Len(t1.frames) = Len(t.frames),
           \A i \in 1 .. Len(t.frames) :
              /\ t1.frames[i].node = t.frames[i].node
              /\ i # Len(t.frames) => t1.frames[i].seen = t.frames[i].seen
              /\ i = Len(t.frames) =>
                    /\ t1.frames[i].seen = u /\ Leads(weight, t1.frames[i].node, u)
                    /\ \A v \in UnitsOf(weight) :
                          Leads(weight, t1.frames[i].node, v) /\ v <= u
                             => v <= t.frames[i].seen \/ v = u
    PROVE  Searching(weight, Entered(t1, u)) /\ Fields(Entered(t1, u))
<1> DEFINE s == Entered(t1, u)
           k == Cardinality(Met(weight, t)) + 1
<1>1. Cardinality({v \in Units : t1.index[v] # 0}) + 1 = k
  BY UnitsAreUnits DEF Met
<1>2. s = [index |-> [t.index EXCEPT ![u] = k], low |-> [t.low EXCEPT ![u] = k],
           stack |-> Append(t.stack, u),
           frames |-> Append(t1.frames, [node |-> u, seen |-> 0]),
           components |-> t.components]
  <2>1. s = [t1 EXCEPT !.index[u] = k, !.low[u] = k, !.stack = Append(t1.stack, u),
                       !.frames = Append(t1.frames, [node |-> u, seen |-> 0])]
    BY <1>1 DEF Entered
  <2>2. t1 = [index |-> t.index, low |-> t.low, stack |-> t.stack, frames |-> t1.frames,
              components |-> t.components]
    BY DEF Fields
  <2> HIDE DEF s, k
  <2> QED
    BY <2>1, <2>2
<1> HIDE DEF s
<1>3. /\ s.index = [t.index EXCEPT ![u] = k] /\ s.low = [t.low EXCEPT ![u] = k]
      /\ s.stack = Append(t.stack, u)
      /\ s.frames = Append(t1.frames, [node |-> u, seen |-> 0])
      /\ s.components = t.components
      /\ Fields(s)
  BY <1>2 DEF Fields
<1>4. Enters(weight, t, s, u, t1.frames)
  <2>1. u \in UnitsOf(weight)
    BY UnitsAreUnits
  <2> QED
    BY <1>3, <2>1 DEF Enters
<1>5. Searching(weight, s)
  BY <1>4, EnteringKeeps
<1> QED
  BY <1>3, <1>5 DEF s

LEMMA EnterRootKeeps ==
    ASSUME Search1, EnterRoot
    PROVE  Search1'
<1> DEFINE S == {u \in Units : tarjan.index[u] = 0}
           u == NextUnit(S)
<1>1. S \subseteq Nat /\ S # {}
  BY UnitsAreUnits DEF EnterRoot, Search1, Searching, Typed
<1>2. u \in Units /\ tarjan.index[u] = 0
  <2> HIDE DEF S
  <2>1. u \in S
    BY <1>1, NextIsLeast
  <2> QED
    BY <2>1 DEF S
<1>3. tarjan' = Entered(tarjan, u) /\ tarjan.frames = <<>> /\ weight' = weight
  BY DEF EnterRoot
<1> HIDE DEF S, u
<1>4. Searching(weight, tarjan) /\ Fields(tarjan) /\ tarjan.frames \in Seq(Frame(weight))
  BY DEF Search1, Searching, Typed
<1>5. Len(tarjan.frames) = 0
  BY <1>3
<1>6. Searching(weight, Entered(tarjan, u)) /\ Fields(Entered(tarjan, u))
  BY <1>2, <1>4, <1>5, EnteredEnters
<1> QED
  BY <1>3, <1>6 DEF Search1

LEMMA FollowEdgeKeeps ==
    ASSUME Search1, FollowEdge
    PROVE  Search1'
<1> DEFINE n == Len(tarjan.frames)
           u == NodeAt(tarjan, n)
           v == NextUnit(Ahead)
           t1 == [tarjan EXCEPT !.frames[n].seen = v]
<1>t. Searching(weight, tarjan) /\ Fields(tarjan) /\ Typed(weight, tarjan) /\ Stacked(weight, tarjan)
  BY DEF Search1, Searching
<1>1. /\ tarjan.frames # <<>> /\ Ahead # {} /\ tarjan' = LookAt(t1, Top.node, v)
      /\ weight' = weight
  BY DEF FollowEdge
<1>2. n \in Nat /\ n # 0 /\ n \in 1 .. n /\ Top = tarjan.frames[n] /\ tarjan.frames \in Seq(Frame(weight))
  BY <1>t, <1>1 DEF Typed, Top, Last
<1>3. Top.node = u /\ u \in UnitsOf(weight) /\ u \in Met(weight, tarjan) /\ tarjan.frames[n].seen \in Nat
  BY <1>t, <1>2, FramesAreOpen DEF NodeAt
<1>4. /\ v \in UnitsOf(weight) /\ v \in Nat /\ Leads(weight, u, v)
      /\ \A y \in UnitsOf(weight) : Leads(weight, u, y) /\ y <= v => y <= tarjan.frames[n].seen \/ y = v
  <2>1. Ahead = {x \in UnitsOf(weight) : Leads(weight, u, x) /\ x > tarjan.frames[n].seen}
    BY <1>2, <1>3, UnitsAreUnits DEF Ahead, Linked, Leads
  <2>2. UnitsOf(weight) \subseteq Nat
    BY <1>t DEF Typed
  <2>3. v \in Ahead /\ \A x \in Ahead : v <= x
    BY <1>1, <2>1, <2>2, NextIsLeast
  <2> HIDE DEF v, n, u
  <2> QED
    BY <1>3, <2>1, <2>2, <2>3
<1> HIDE DEF v, u
<1>5. t1 = [index |-> tarjan.index, low |-> tarjan.low, stack |-> tarjan.stack,
            frames |-> [tarjan.frames EXCEPT ![n].seen = v], components |-> tarjan.components]
  <2>1. tarjan = [index |-> tarjan.index, low |-> tarjan.low, stack |-> tarjan.stack,
                  frames |-> tarjan.frames, components |-> tarjan.components]
    BY <1>t DEF Fields
  <2>2. t1 = [tarjan EXCEPT !.frames = [tarjan.frames EXCEPT ![n].seen = v]]
    BY <2>1
  <2> HIDE DEF t1, n
  <2> QED
    BY <2>1, <2>2
<1> HIDE DEF t1
<1>6. /\ t1.index = tarjan.index /\ t1.low = tarjan.low /\ t1.stack = tarjan.stack
      /\ t1.frames = [tarjan.frames EXCEPT ![n].seen = v] /\ t1.components = tarjan.components
      /\ Fields(t1)
  BY <1>5 DEF Fields
<1> HIDE DEF n
<1>7. CASE tarjan.index[v] = 0
  <2>1. tarjan' = Entered(t1, v)
    BY <1>1, <1>6, <1>7 DEF LookAt
  <2>2. \A i \in 1 .. n : tarjan.frames[i] \in Frame(weight)
    BY <1>2 DEF n
  <2>3. \A i \in 1 .. n : t1.frames[i] = IF i = n THEN [tarjan.frames[i] EXCEPT !.seen = v]
                                         ELSE tarjan.frames[i]
    BY <1>2, <1>6 DEF n
  <2>4. \A i \in 1 .. n : /\ t1.frames[i].node = tarjan.frames[i].node
                          /\ t1.frames[i].seen = IF i = n THEN v ELSE tarjan.frames[i].seen
                          /\ t1.frames[i] \in Frame(weight)
    BY <2>2, <2>3, <1>4 DEF Frame
  <2>5. t1.frames \in Seq(Frame(weight)) /\ Len(t1.frames) = n
    BY <1>2, <1>6, <2>4 DEF n
  <2>6. t1.frames[n].node = u
    BY <1>2, <2>4 DEF u, NodeAt
  <2>7. v \in Units
    BY <1>4, UnitsAreUnits
  <2>8. \A i \in 1 .. Len(tarjan.frames) :
              /\ t1.frames[i].node = tarjan.frames[i].node
              /\ i # Len(tarjan.frames) => t1.frames[i].seen = tarjan.frames[i].seen
              /\ i = Len(tarjan.frames) =>
                    /\ t1.frames[i].seen = v /\ Leads(weight, t1.frames[i].node, v)
                    /\ \A y \in UnitsOf(weight) :
                          Leads(weight, t1.frames[i].node, y) /\ y <= v
                             => y <= tarjan.frames[i].seen \/ y = v
    BY <1>4, <2>4, <2>6 DEF n
  <2>9. Searching(weight, Entered(t1, v)) /\ Fields(Entered(t1, v))
    <3>1. Len(t1.frames) = Len(tarjan.frames)
      BY <2>5 DEF n
    <3> QED
      BY <1>t, <1>6, <1>7, <2>5, <2>7, <2>8, <3>1, EnteredEnters
  <2> QED
    BY <1>1, <2>1, <2>9 DEF Search1
<1>8. CASE tarjan.index[v] # 0
  <2> DEFINE s == LookAt(t1, u, v)
  <2>1. s = [index |-> tarjan.index,
             low |-> IF v \in Open(tarjan) /\ tarjan.index[v] < tarjan.low[u]
                     THEN [tarjan.low EXCEPT ![u] = tarjan.index[v]] ELSE tarjan.low,
             stack |-> tarjan.stack,
             frames |-> [tarjan.frames EXCEPT ![n].seen = v], components |-> tarjan.components]
    <3>1. s = IF v \in Open(tarjan) /\ tarjan.index[v] < tarjan.low[u]
              THEN [t1 EXCEPT !.low[u] = tarjan.index[v]] ELSE t1
      BY <1>6, <1>8 DEF LookAt, Open
    <3> HIDE DEF s
    <3> QED
      BY <3>1, <1>5
  <2>2. tarjan' = s
    BY <1>1, <1>3
  <2> HIDE DEF s
  <2>3. Fields(s)
    BY <2>1 DEF Fields
  <2>4. v \in Met(weight, tarjan)
    BY <1>4, <1>8 DEF Met
  <2>5. /\ s.index = tarjan.index /\ s.stack = tarjan.stack /\ s.components = tarjan.components
        /\ s.frames = [tarjan.frames EXCEPT ![n].seen = v]
        /\ s.low = IF v \in Open(tarjan) /\ tarjan.index[v] < tarjan.low[u]
                   THEN [tarjan.low EXCEPT ![u] = tarjan.index[v]] ELSE tarjan.low
    BY <2>1
  <2>6. Sees(weight, tarjan, s, n, u, v)
    BY <1>2, <1>4, <2>4, <2>5 DEF Sees, n, u
  <2>7. Searching(weight, s)
    BY <1>t, <2>6, SeeingKeeps
  <2> QED
    BY <1>1, <2>2, <2>3, <2>7 DEF Search1
<1> QED
  BY <1>7, <1>8

LEMMA LeaveNodeKeeps ==
    ASSUME Search1, LeaveNode
    PROVE  Search1'
<1> DEFINE n == Len(tarjan.frames)
           u == NodeAt(tarjan, n)
           left == [tarjan EXCEPT !.frames = Front(tarjan.frames)]
           parent == IF left.frames = <<>> THEN u ELSE Last(left.frames).node
           told == IF left.low[u] < left.low[parent]
                   THEN [left EXCEPT !.low[parent] = left.low[u]] ELSE left
<1>t. /\ Searching(weight, tarjan) /\ Fields(tarjan) /\ Typed(weight, tarjan)
      /\ Stacked(weight, tarjan) /\ Numbered(weight, tarjan)
  BY DEF Search1, Searching
<1>1. tarjan.frames # <<>> /\ Ahead = {} /\ weight' = weight
  BY DEF LeaveNode
<1>2. n \in Nat /\ n # 0 /\ n \in 1 .. n /\ Top = tarjan.frames[n] /\ tarjan.frames \in Seq(Frame(weight))
  BY <1>t, <1>1 DEF Typed, Top, Last
<1>3. /\ Top.node = u /\ u \in UnitsOf(weight) /\ u \in Open(tarjan)
      /\ tarjan.index[u] \in Nat /\ tarjan.low[u] \in Nat
      /\ tarjan.frames[n].seen \in Nat
  <2>1. Top.node = u /\ u \in UnitsOf(weight) /\ u \in Open(tarjan) /\ tarjan.frames[n].seen \in Nat
    BY <1>t, <1>2, FramesAreOpen DEF NodeAt
  <2> HIDE DEF u, n
  <2> QED
    BY <2>1, <1>t DEF Typed
<1>4. tarjan' = IF told.low[u] = told.index[u] THEN Closed(told, u) ELSE told
  BY <1>3 DEF LeaveNode
<1>5. \A y \in UnitsOf(weight) : Leads(weight, u, y) => y <= tarjan.frames[n].seen
  <2>1. Ahead = {x \in UnitsOf(weight) : Leads(weight, u, x) /\ x > tarjan.frames[n].seen}
    BY <1>2, <1>3, UnitsAreUnits DEF Ahead, Linked, Leads
  <2>2. UnitsOf(weight) \subseteq Nat
    BY <1>t DEF Typed
  <2> HIDE DEF n, u
  <2> QED
    BY <2>1, <2>2, <1>1, <1>3
<1> HIDE DEF u
<1>6. /\ left = [index |-> tarjan.index, low |-> tarjan.low, stack |-> tarjan.stack,
                 frames |-> Front(tarjan.frames), components |-> tarjan.components]
  <2>1. tarjan = [index |-> tarjan.index, low |-> tarjan.low, stack |-> tarjan.stack,
                  frames |-> tarjan.frames, components |-> tarjan.components]
    BY <1>t DEF Fields
  <2> QED
    BY <2>1
<1> HIDE DEF left
<1>7. /\ Len(Front(tarjan.frames)) = n - 1
      /\ n > 1 => /\ Front(tarjan.frames)[n - 1] = tarjan.frames[n - 1]
                  /\ NodeAt(tarjan, n - 1) \in UnitsOf(weight)
                  /\ NodeAt(tarjan, n - 1) # u
                  /\ tarjan.low[NodeAt(tarjan, n - 1)] \in Nat
                  /\ tarjan.low[NodeAt(tarjan, n - 1)] < tarjan.index[u]
  <2>1. /\ Len(Front(tarjan.frames)) = n - 1
        /\ n > 1 => Front(tarjan.frames)[n - 1] = tarjan.frames[n - 1]
    BY <1>2 DEF Front
  <2>2. ASSUME n > 1
        PROVE  /\ NodeAt(tarjan, n - 1) \in UnitsOf(weight)
               /\ NodeAt(tarjan, n - 1) # u
               /\ tarjan.low[NodeAt(tarjan, n - 1)] \in Nat
               /\ tarjan.low[NodeAt(tarjan, n - 1)] < tarjan.index[u]
    <3>1. n - 1 \in 1 .. n /\ n - 1 < n
      BY <2>2, <1>2
    <3>2. NodeAt(tarjan, n - 1) \in UnitsOf(weight) /\ Mark(tarjan, n - 1) \in Nat
          /\ tarjan.low[NodeAt(tarjan, n - 1)] \in Nat
      BY <3>1, <1>t, FramesAreOpen
    <3>3. Mark(tarjan, n - 1) < Mark(tarjan, n) /\ Mark(tarjan, n) = tarjan.index[u]
      BY <3>1, <1>t, <1>2 DEF Stacked, Mark, u
    <3>4. tarjan.low[NodeAt(tarjan, n - 1)] <= Mark(tarjan, n - 1)
      BY <3>2, <1>t DEF Numbered, Mark
    <3>5. NodeAt(tarjan, n - 1) # u
      BY <3>2, <3>3 DEF Mark
    <3> HIDE DEF n
    <3> QED
      BY <3>2, <3>3, <3>4, <3>5, <1>3
  <2> QED
    BY <2>1, <2>2
<1>8. parent = IF n = 1 THEN u ELSE NodeAt(tarjan, n - 1)
  <2>1. left.frames = Front(tarjan.frames)
    BY <1>6
  <2>2. CASE n = 1
    BY <2>1, <2>2, <1>2, <1>7 DEF Front
  <2>3. CASE n # 1
    <3>1. n > 1
      <4> HIDE DEF n
      <4> QED
        BY <2>3, <1>2
    <3>2. left.frames # <<>> /\ Last(left.frames) = tarjan.frames[n - 1]
      BY <2>1, <3>1, <1>2, <1>7 DEF Last
    <3> QED
      BY <2>3, <3>2 DEF NodeAt
  <2> QED
    BY <2>2, <2>3
<1> HIDE DEF parent
<1>9. /\ told = [index |-> tarjan.index, low |-> told.low, stack |-> tarjan.stack,
                 frames |-> Front(tarjan.frames), components |-> tarjan.components]
      /\ told.low \in [UnitsOf(weight) -> Nat]
      /\ \A x \in UnitsOf(weight) :
            told.low[x] = IF n > 1 /\ x = NodeAt(tarjan, n - 1) /\ tarjan.low[u] < tarjan.low[x]
                          THEN tarjan.low[u] ELSE tarjan.low[x]
  <2>1. tarjan.low \in [UnitsOf(weight) -> Nat]
    BY <1>t DEF Typed
  <2>2. parent \in UnitsOf(weight) /\ tarjan.low[parent] \in Nat
    <3> HIDE DEF n
    <3> QED
      BY <2>1, <1>2, <1>3, <1>7, <1>8
  <2>3. CASE tarjan.low[u] < tarjan.low[parent]
    <3>1. told = [index |-> tarjan.index, low |-> [tarjan.low EXCEPT ![parent] = tarjan.low[u]],
                  stack |-> tarjan.stack,
                  frames |-> Front(tarjan.frames), components |-> tarjan.components]
      BY <2>3, <1>6
    <3>2. n > 1 /\ parent = NodeAt(tarjan, n - 1)
      <4> HIDE DEF n
      <4>1. n # 1
        BY <2>3, <1>3, <1>8
      <4> QED
        BY <4>1, <1>2, <1>8
    <3>3. told.low = [tarjan.low EXCEPT ![parent] = tarjan.low[u]]
      BY <3>1
    <3> HIDE DEF told, n
    <3> QED
      BY <2>1, <2>2, <2>3, <3>1, <3>2, <3>3, <1>3
  <2>4. CASE ~ (tarjan.low[u] < tarjan.low[parent])
    <3>1. told = left
      BY <2>4, <1>6
    <3>2. told.low = tarjan.low
      BY <3>1, <1>6
    <3>3. n > 1 => parent = NodeAt(tarjan, n - 1)
      <4> HIDE DEF n
      <4> QED
        BY <1>8
    <3> HIDE DEF told, n
    <3> QED
      BY <2>1, <2>4, <3>1, <3>2, <3>3, <1>6
  <2> QED
    BY <2>3, <2>4
<1>10. /\ told.index = tarjan.index /\ told.stack = tarjan.stack
       /\ told.frames = Front(tarjan.frames) /\ told.components = tarjan.components
  BY <1>9
<1> HIDE DEF told
<1>11. told.low[u] = tarjan.low[u]
  <2> HIDE DEF n
  <2> QED
    BY <1>3, <1>7, <1>9
<1>12. CASE tarjan.low[u] = tarjan.index[u]
  <2> DEFINE p == CHOOSE i \in DOMAIN told.stack : told.stack[i] = u
             s == Closed(told, u)
  <2>1. p \in 1 .. Len(tarjan.stack) /\ tarjan.stack[p] = u
    <3>1. \E i \in DOMAIN tarjan.stack : tarjan.stack[i] = u
      BY <1>3 DEF Open, ToSet
    <3>2. DOMAIN tarjan.stack = 1 .. Len(tarjan.stack)
      BY <1>t DEF Typed
    <3> QED
      BY <3>1, <3>2, <1>10
  <2>2. s = [told EXCEPT !.stack = SubSeq(told.stack, 1, p - 1),
                         !.components = @ \cup {ToSet(SubSeq(told.stack, p, Len(told.stack)))}]
    BY DEF Closed
  <2> HIDE DEF s, p
  <2>3. s = [index |-> tarjan.index, low |-> told.low,
             stack |-> SubSeq(tarjan.stack, 1, p - 1), frames |-> Front(tarjan.frames),
             components |-> tarjan.components \cup {ToSet(SubSeq(tarjan.stack, p, Len(tarjan.stack)))}]
    BY <2>2, <1>9, <1>10
  <2>4. told.low = tarjan.low
    <3>1. tarjan.low \in [UnitsOf(weight) -> Nat]
      BY <1>t DEF Typed
    <3>2. ASSUME NEW x \in UnitsOf(weight)
          PROVE  told.low[x] = tarjan.low[x]
      <4> HIDE DEF n
      <4> QED
        BY <1>3, <1>7, <1>9, <1>12
    <3> QED
      BY <3>1, <3>2, <1>9
  <2>5. Closes(weight, tarjan, s, n, u, p)
    BY <2>1, <2>3, <2>4, <1>2, <1>5, <1>12 DEF Closes, Exhausts, u
  <2>6. Searching(weight, s)
    BY <2>5, <1>t, ClosingKeeps
  <2>7. tarjan' = s
    BY <1>4, <1>10, <1>11, <1>12 DEF s
  <2>8. Fields(s)
    BY <2>3 DEF Fields
  <2> QED
    BY <2>6, <2>7, <2>8, <1>1 DEF Search1
<1>13. CASE tarjan.low[u] # tarjan.index[u]
  <2>1. Leaves(weight, tarjan, told, n, u)
    BY <1>2, <1>5, <1>9, <1>10, <1>13 DEF Leaves, Exhausts, u
  <2>2. Searching(weight, told)
    BY <2>1, <1>t, LeavingKeeps
  <2>3. tarjan' = told
    BY <1>4, <1>10, <1>11, <1>13
  <2>4. Fields(told)
    BY <1>9 DEF Fields
  <2> QED
    BY <2>2, <2>3, <2>4, <1>1 DEF Search1
<1> QED
  BY <1>12, <1>13

-----------------------------------------------------------------------------
(* Before the first unit is met.                                           *)

LEMMA NothingIsMet ==
    ASSUME NEW W, UnitsOf(W) \subseteq Nat \ {0}, IsFiniteSet(UnitsOf(W)),
           NEW t, t = [index |-> [u \in UnitsOf(W) |-> 0], low |-> [u \in UnitsOf(W) |-> 0],
                       stack |-> <<>>, frames |-> <<>>, components |-> {}]
    PROVE  Searching(W, t) /\ Fields(t)
<1>1. /\ t.index = [u \in UnitsOf(W) |-> 0] /\ t.low = [u \in UnitsOf(W) |-> 0]
      /\ t.stack = <<>> /\ t.frames = <<>> /\ t.components = {} /\ Fields(t)
  BY DEF Fields
<1>2. Met(W, t) = {} /\ Open(t) = {} /\ Shut(t) = {} /\ Len(t.frames) = 0 /\ Len(t.stack) = 0
  BY <1>1 DEF Met, Open, Shut, ToSet
<1>3. Typed(W, t)
  BY <1>1 DEF Typed
<1>4. Numbered(W, t)
  <2>1. Cardinality(Met(W, t)) = 0
    BY <1>2, FS_EmptySet
  <2>2. \A u \in UnitsOf(W) : t.index[u] = 0 /\ t.low[u] = 0
    BY <1>1
  <2>3. \A u, v \in Met(W, t) : t.index[u] = t.index[v] => u = v
    BY <1>2
  <2>4. \A u \in UnitsOf(W) : t.index[u] <= Cardinality(Met(W, t)) /\ t.low[u] <= t.index[u]
    BY <2>1, <2>2
  <2> QED
    BY <2>3, <2>4 DEF Numbered
<1>5. Stacked(W, t)
  <2>1. /\ \A i, j \in 1 .. Len(t.stack) : i < j => t.index[t.stack[i]] < t.index[t.stack[j]]
        /\ \A i \in 1 .. Len(t.frames) : NodeAt(t, i) \in Open(t)
        /\ \A i, j \in 1 .. Len(t.frames) : i < j => Mark(t, i) < Mark(t, j)
    BY <1>2
  <2> QED
    BY <2>1, <1>2 DEF Stacked
<1>6. Connected(W, t) /\ Bounded(W, t)
  BY <1>2 DEF Connected, Bounded
<1>7. Witnessed(W, t)
  BY <1>2 DEF Witnessed
<1>8. Explored(W, t) /\ Strong(W, t)
  BY <1>1, <1>2 DEF Explored, Strong, Followed, IsSealed
<1> QED
  BY <1>1, <1>3, <1>4, <1>5, <1>6, <1>7, <1>8 DEF Searching

LEMMA FiniteImage ==
    ASSUME NEW S, IsFiniteSet(S), NEW f, f = [x \in S |-> f[x]]
    PROVE  IsFiniteSet({f[x] : x \in S})
<1> DEFINE T == {f[x] : x \in S}
<1>1. f \in Surjection(S, T)
  BY DEF Surjection
<1> HIDE DEF T
<1>2. IsFiniteSet(T)
  BY <1>1, FS_Surjection
<1> QED
  BY <1>2 DEF T

LEMMA UnitsOfProjection ==
    ASSUME NEW G, NEW level, NEW filter, Analysable(G, level)
    PROVE  /\ UnitsOf(Projected(G, level, filter)) \subseteq Nat \ {0}
           /\ IsFiniteSet(UnitsOf(Projected(G, level, filter)))
<1> DEFINE members == Members(G, level)
           name == [m \in members |-> UnitName(G, level, m)]
           unit == [n \in members |-> Unit(G, level, n)]
           units == {unit[n] : n \in members}
<1>1. members \subseteq 1 .. Len(G.nodes) /\ IsFiniteSet(members)
  <2>1. members \subseteq Nodes(G)
    BY DEF Members
  <2>2. Nodes(G) = 1 .. Len(G.nodes) /\ Len(G.nodes) \in Nat
    BY DEF Analysable, IsGraph, Nodes
  <2>3. IsFiniteSet(1 .. Len(G.nodes))
    BY <2>2, FS_Interval
  <2> QED
    BY <2>1, <2>2, <2>3, FS_Subset
<1>2. \A m \in members : name[m] \in Nat /\ name[m] = UnitName(G, level, m)
  <2> TAKE m \in members
  <2>1. m \in Nodes(G) /\ m \in Nat
    BY <1>1 DEF Nodes, Analysable, IsGraph
  <2> QED
    BY <2>1 DEF UnitName, Analysable
<1>3. ASSUME NEW n \in members
      PROVE  unit[n] \in Nat \ {0}
  <2> DEFINE below == {m \in members : name[m] <= name[n]}
             names == {name[m] : m \in below}
  <2>1. unit[n] = Cardinality(names)
    <3>1. below = {m \in members : UnitName(G, level, m) <= UnitName(G, level, n)}
      BY <1>2
    <3>2. names = {UnitName(G, level, m) : m \in below}
      BY <1>2
    <3> HIDE DEF below, names
    <3> QED
      BY <3>1, <3>2 DEF Unit
  <2>2. IsFiniteSet(names)
    <3>1. IsFiniteSet(below)
      BY <1>1, FS_Subset
    <3> DEFINE f == [m \in below |-> name[m]]
    <3>2. IsFiniteSet({f[m] : m \in below})
      <4>1. f = [m \in below |-> f[m]]
        OBVIOUS
      <4> HIDE DEF f, below
      <4> QED
        BY <3>1, <4>1, FiniteImage
    <3>3. names = {f[m] : m \in below}
      OBVIOUS
    <3> QED
      BY <3>2, <3>3
  <2>3. names # {}
    <3>1. n \in below
      BY <1>2
    <3> QED
      BY <3>1
  <2> HIDE DEF names
  <2> QED
    BY <2>1, <2>2, <2>3, FS_CardinalityType, FS_EmptySet
<1>4. IsFiniteSet(units)
  <2>1. unit = [n \in members |-> unit[n]]
    OBVIOUS
  <2> HIDE DEF unit, members
  <2> QED
    BY <1>1, <2>1, FiniteImage
<1>5. UnitsOf(Projected(G, level, filter)) = units
  <2>1. DOMAIN Projected(G, level, filter) = units \X units
    BY DEF Projected
  <2> HIDE DEF units
  <2>2. \A u \in units : <<u, u>> \in units \X units /\ <<u, u>>[1] = u
    OBVIOUS
  <2>3. \A p \in units \X units : p[1] \in units
    OBVIOUS
  <2> QED
    BY <2>1, <2>2, <2>3 DEF UnitsOf
<1>6. units \subseteq Nat \ {0}
  <2> HIDE DEF unit
  <2> QED
    BY <1>3
<1> QED
  BY <1>4, <1>5, <1>6

-----------------------------------------------------------------------------
(* An analysis from its first step to its last.                            *)

Searched ==
    /\ stage = "project" => Analysable(graph, options.level)
    /\ stage # "project" => Search1
    /\ stage \notin {"project", "components"} =>
          tarjan.frames = <<>> /\ \A u \in Units : tarjan.index[u] # 0

LEMMA IdleIsSearched ==
    ASSUME NEW G, NEW opts, NEW first, first = "project" => Analysable(G, opts.level),
           first \in {"project", "idle"}, Idle(G, opts, first)
    PROVE  Searched
<1>1. /\ graph = G /\ options = opts /\ stage = first /\ weight = <<>>
      /\ tarjan = [index |-> <<>>, low |-> <<>>, stack |-> <<>>, frames |-> <<>>, components |-> {}]
  BY DEF Idle
<1>2. UnitsOf(weight) = {}
  BY <1>1 DEF UnitsOf
<1>3. [u \in UnitsOf(weight) |-> 0] = <<>>
  BY <1>2
<1>4. Searching(weight, tarjan) /\ Fields(tarjan)
  <2>1. tarjan = [index |-> [u \in UnitsOf(weight) |-> 0], low |-> [u \in UnitsOf(weight) |-> 0],
                  stack |-> <<>>, frames |-> <<>>, components |-> {}]
    BY <1>1, <1>3
  <2>2. UnitsOf(weight) \subseteq Nat \ {0} /\ IsFiniteSet(UnitsOf(weight))
    BY <1>2, FS_EmptySet
  <2> QED
    BY <2>1, <2>2, NothingIsMet
<1>5. tarjan.frames = <<>> /\ \A u \in Units : tarjan.index[u] # 0
  BY <1>1, <1>2, UnitsAreUnits
<1> QED
  BY <1>1, <1>4, <1>5 DEF Searched, Search1

LEMMA AnalyseKeeps ==
    ASSUME Searched, Analyse
    PROVE  Searched'
<1>1. CASE Project
  <2>1. /\ stage = "project" /\ stage' = "components"
        /\ weight' = Projected(graph, options.level, options.filter)
        /\ tarjan' = [index |-> [u \in UnitsOf(weight') |-> 0], low |-> [u \in UnitsOf(weight') |-> 0],
                      stack |-> <<>>, frames |-> <<>>, components |-> {}]
    BY <1>1 DEF Project, UnitsOf
  <2>2. UnitsOf(weight') \subseteq Nat \ {0} /\ IsFiniteSet(UnitsOf(weight'))
    BY <2>1, UnitsOfProjection DEF Searched
  <2>3. Searching(weight', tarjan') /\ Fields(tarjan')
    BY <2>1, <2>2, NothingIsMet
  <2> QED
    BY <2>1, <2>3 DEF Searched, Search1
<1>2. CASE EnterRoot
  BY <1>2, EnterRootKeeps DEF Searched, EnterRoot
<1>3. CASE FollowEdge
  BY <1>3, FollowEdgeKeeps DEF Searched, FollowEdge
<1>4. CASE LeaveNode
  BY <1>4, LeaveNodeKeeps DEF Searched, LeaveNode
<1>5. CASE ComponentsDone
  BY <1>5 DEF Searched, Search1, ComponentsDone, Units
<1>6. CASE SearchCycles
  BY <1>6 DEF Searched, Search1, SearchCycles, Units
<1>7. CASE CyclesDone
  BY <1>7 DEF Searched, Search1, CyclesDone, Units
<1>8. CASE PropagateLabels
  <2>1. stage = "communities" /\ stage' \in {"report", "communities"} /\ UNCHANGED <<weight, tarjan>>
    BY <1>8 DEF PropagateLabels
  <2> QED
    BY <2>1 DEF Searched, Search1, Units
<1>9. CASE Report
  BY <1>9 DEF Searched, Search1, Report, Units
<1> QED
  BY <1>1, <1>2, <1>3, <1>4, <1>5, <1>6, <1>7, <1>8, <1>9 DEF Analyse

LEMMA SearchedIsStrong ==
    ASSUME Searched
    PROVE  ComponentsAreStrong
<1> SUFFICES ASSUME stage # "project"
             PROVE  ComponentsAreStrong
  BY DEF ComponentsAreStrong
<1> DEFINE reaches(u, v) == \A S \in Sealed : u \in S => v \in S
<1>1. Searching(weight, tarjan)
  BY DEF Searched, Search1
<1>2. Sealed = {S \in SUBSET UnitsOf(weight) : IsSealed(weight, S)}
  BY UnitsAreUnits DEF Sealed, IsSealed, Linked, Leads
<1>3. \A u, v : reaches(u, v) <=> Reach(weight, u, v)
  BY <1>2 DEF Reach
<1>4. \A c \in tarjan.components : \A u \in c :
         c = {v \in Units : reaches(u, v) /\ reaches(v, u)}
  <2> HIDE DEF reaches
  <2>1. \A u : {v \in Units : reaches(u, v) /\ reaches(v, u)}
                  = {v \in UnitsOf(weight) : Reach(weight, u, v) /\ Reach(weight, v, u)}
    BY <1>3, UnitsAreUnits
  <2> QED
    BY <2>1, <1>1 DEF Searching, Strong
<1>5. ToSet(tarjan.stack) = {u \in Units : tarjan.index[u] # 0} \ UNION tarjan.components
  BY <1>1, UnitsAreUnits DEF Searching, Stacked, Open, Shut, Met
<1>6. stage # "components" => UNION tarjan.components = Units
  <2> SUFFICES ASSUME stage # "components"
               PROVE  UNION tarjan.components = Units
    OBVIOUS
  <2>1. Len(tarjan.frames) = 0 /\ Met(weight, tarjan) = Units
    BY UnitsAreUnits DEF Searched, Met
  <2>2. Open(tarjan) = {}
    BY <2>1, <1>1 DEF Searching, Connected
  <2> QED
    BY <2>1, <2>2, <1>1 DEF Searching, Stacked, Shut
<1> QED
  BY <1>4, <1>5, <1>6 DEF ComponentsAreStrong

-----------------------------------------------------------------------------
(* Sorting by keys, and sequences.                                         *)

\* Tuples of equal length are ordered by the first place they differ at.
LEMMA BeforeIsOrder ==
    ASSUME NEW K \in Nat, NEW s \in [1 .. K -> Int], NEW t \in [1 .. K -> Int]
    PROVE  /\ ~ Before(s, s)
           /\ s # t => Before(s, t) \/ Before(t, s)
           /\ Before(s, t) => ~ Before(t, s)
           /\ \A u \in [1 .. K -> Int] : Before(s, t) /\ Before(t, u) => Before(s, u)
<1>0. DOMAIN s = 1 .. K /\ DOMAIN t = 1 .. K
  OBVIOUS
<1>1. ~ Before(s, s)
  BY <1>0 DEF Before
<1>2. ASSUME s # t
      PROVE  Before(s, t) \/ Before(t, s)
  <2> DEFINE D == {i \in 1 .. K : s[i] # t[i]}
  <2>1. D # {} /\ D \subseteq Nat
    BY <1>2
  <2>2. PICK i \in D : \A j \in D : i <= j
    BY <2>1, LeastNumber
  <2>3. \A j \in 1 .. i - 1 : s[j] = t[j]
    BY <2>2
  <2>4. s[i] \in Int /\ t[i] \in Int /\ s[i] # t[i] /\ i \in 1 .. K
    BY <2>2
  <2>5. CASE s[i] < t[i]
    BY <1>0, <2>3, <2>4, <2>5 DEF Before
  <2>6. CASE t[i] < s[i]
    BY <1>0, <2>3, <2>4, <2>6 DEF Before
  <2> QED
    BY <2>4, <2>5, <2>6
<1>3. ASSUME NEW u \in [1 .. K -> Int], Before(s, t), Before(t, u)
      PROVE  Before(s, u)
  <2>1. PICK i \in 1 .. K : s[i] < t[i] /\ \A j \in 1 .. i - 1 : s[j] = t[j]
    BY <1>0, <1>3 DEF Before
  <2>2. PICK k \in 1 .. K : t[k] < u[k] /\ \A j \in 1 .. k - 1 : t[j] = u[j]
    BY <1>0, <1>3 DEF Before
  <2>3. \A x \in 1 .. K : s[x] \in Int /\ t[x] \in Int /\ u[x] \in Int
    OBVIOUS
  <2>4. CASE i < k
    <3>1. t[i] = u[i] /\ \A j \in 1 .. i - 1 : s[j] = u[j]
      BY <2>1, <2>2, <2>4
    <3> QED
      BY <1>0, <2>1, <3>1 DEF Before
  <2>5. CASE k < i
    <3>1. s[k] = t[k] /\ \A j \in 1 .. k - 1 : s[j] = u[j]
      BY <2>1, <2>2, <2>5
    <3> QED
      BY <1>0, <2>2, <3>1 DEF Before
  <2>6. CASE k = i
    <3>1. s[i] < u[i] /\ \A j \in 1 .. i - 1 : s[j] = u[j]
      BY <2>1, <2>2, <2>3, <2>6
    <3> QED
      BY <1>0, <3>1 DEF Before
  <2> QED
    BY <2>4, <2>5, <2>6
<1>4. ASSUME Before(s, t), Before(t, s)
      PROVE  FALSE
  BY <1>1, <1>3, <1>4
<1> QED
  BY <1>1, <1>2, <1>3, <1>4

Ranks(key) ==
    [x \in DOMAIN key |-> Cardinality({y \in DOMAIN key : Before(key[y], key[x])})]

LEMMA RanksOfKeys ==
    ASSUME NEW key, IsFiniteSet(DOMAIN key), NEW K \in Nat,
           \A x \in DOMAIN key : key[x] \in [1 .. K -> Int],
           \A x, y \in DOMAIN key : key[x] = key[y] => x = y
    PROVE  /\ Ranks(key) \in [DOMAIN key -> 0 .. Cardinality(DOMAIN key) - 1]
           /\ \A x, y \in DOMAIN key : Before(key[x], key[y]) => Ranks(key)[x] < Ranks(key)[y]
           /\ \A x, y \in DOMAIN key : Ranks(key)[x] = Ranks(key)[y] => x = y
           /\ \A i \in 0 .. Cardinality(DOMAIN key) - 1 : \E x \in DOMAIN key : Ranks(key)[x] = i
<1>0. PICK rank : rank = Ranks(key)
  OBVIOUS
<1> DEFINE D == DOMAIN key
           n == Cardinality(D)
           B(x) == {y \in D : Before(key[y], key[x])}
<1>1. n \in Nat
  BY FS_CardinalityType
<1>2. \A x \in D : IsFiniteSet(B(x)) /\ Cardinality(B(x)) \in Nat
  <2> TAKE x \in D
  <2>1. B(x) \subseteq D
    OBVIOUS
  <2> QED
    BY <2>1, FS_Subset, FS_CardinalityType
<1>3. \A x \in D : x \notin B(x)
  BY BeforeIsOrder
<1>4. ASSUME NEW x \in D
      PROVE  Cardinality(B(x)) \in 0 .. n - 1
  <2>1. B(x) \subseteq D \ {x}
    BY <1>3
  <2>2. IsFiniteSet(D \ {x}) /\ Cardinality(D \ {x}) = n - 1
    BY FS_RemoveElement
  <2>3. Cardinality(B(x)) <= n - 1
    BY <2>1, <2>2, FS_Subset
  <2> HIDE DEF B, n
  <2> QED
    BY <1>1, <1>2, <2>3
<1>r. rank = [x \in D |-> Cardinality(B(x))]
  BY <1>0 DEF Ranks
<1>5. rank \in [D -> 0 .. n - 1]
  BY <1>4, <1>r
<1>6. ASSUME NEW x \in D, NEW y \in D, Before(key[x], key[y])
      PROVE  rank[x] < rank[y]
  <2>1. B(x) \cup {x} \subseteq B(y)
    <3>1. \A z \in B(x) : Before(key[z], key[y])
      BY <1>6, BeforeIsOrder
    <3> QED
      BY <1>6, <3>1
  <2>2. Cardinality(B(x) \cup {x}) = Cardinality(B(x)) + 1
    BY <1>2, <1>3, FS_AddElement
  <2>3. Cardinality(B(x)) + 1 <= Cardinality(B(y))
    <3>1. Cardinality(B(x) \cup {x}) <= Cardinality(B(y))
      BY <1>2, <2>1, FS_Subset
    <3> QED
      BY <2>2, <3>1
  <2>4. rank[x] = Cardinality(B(x)) /\ rank[y] = Cardinality(B(y))
    BY <1>r
  <2> HIDE DEF B
  <2> QED
    BY <1>2, <2>3, <2>4
<1>7. ASSUME NEW x \in D, NEW y \in D, rank[x] = rank[y]
      PROVE  x = y
  <2>1. rank[x] \in Nat /\ rank[y] \in Nat
    BY <1>1, <1>5
  <2>2. ~ (rank[x] < rank[y]) /\ ~ (rank[y] < rank[x])
    BY <1>7, <2>1
  <2>3. ~ Before(key[x], key[y]) /\ ~ Before(key[y], key[x])
    BY <1>6, <2>2, Zenon
  <2>4. key[x] = key[y]
    BY <2>3, BeforeIsOrder
  <2> QED
    BY <2>4
<1>8. rank \in Injection(D, 0 .. n - 1)
  <2> HIDE DEF n
  <2> QED
    BY <1>5, <1>7 DEF Injection, IsInjective
<1>9. IsFiniteSet(0 .. n - 1) /\ Cardinality(0 .. n - 1) = n
  <2> HIDE DEF n
  <2>1. 0 \in Int /\ n - 1 \in Int
    BY <1>1
  <2>2. IsFiniteSet(0 .. n - 1)
        /\ Cardinality(0 .. n - 1) = IF 0 > n - 1 THEN 0 ELSE n - 1 - 0 + 1
    BY <2>1, FS_Interval
  <2> QED
    BY <1>1, <2>2
<1>10. rank \in Surjection(D, 0 .. n - 1)
  BY <1>8, <1>9, FS_Injection
<1>11. \A i \in 0 .. n - 1 : \E x \in D : rank[x] = i
  <2> HIDE DEF n
  <2> QED
    BY <1>10 DEF Surjection
<1> QED
  BY <1>0, <1>5, <1>6, <1>7, <1>11

\* Sorting loses nothing, adds nothing and repeats nothing.
LEMMA SortedByKeys ==
    ASSUME NEW key, IsFiniteSet(DOMAIN key), NEW K \in Nat,
           \A x \in DOMAIN key : key[x] \in [1 .. K -> Int],
           \A x, y \in DOMAIN key : key[x] = key[y] => x = y
    PROVE  /\ Cardinality(DOMAIN key) \in Nat
           /\ ByKeys(key) \in [1 .. Cardinality(DOMAIN key) -> DOMAIN key]
           /\ \A i, j \in 1 .. Cardinality(DOMAIN key) :
                i < j => Before(key[ByKeys(key)[i]], key[ByKeys(key)[j]])
           /\ \A i, j \in 1 .. Cardinality(DOMAIN key) : ByKeys(key)[i] = ByKeys(key)[j] => i = j
           /\ \A x \in DOMAIN key : \E i \in 1 .. Cardinality(DOMAIN key) : ByKeys(key)[i] = x
<1> DEFINE D == DOMAIN key
           n == Cardinality(D)
           rank == Ranks(key)
           pairs == {<<Cardinality({y \in D : Before(key[y], key[x])}), x>> : x \in D}
           o == [i \in 1 .. n |-> (CHOOSE p \in pairs : p[1] = i - 1)[2]]
<1>1. n \in Nat
  BY FS_CardinalityType
<1>2. ByKeys(key) = o
  BY DEF ByKeys
<1>3. /\ rank \in [D -> 0 .. n - 1]
      /\ \A x, y \in D : Before(key[x], key[y]) => rank[x] < rank[y]
      /\ \A x, y \in D : rank[x] = rank[y] => x = y
      /\ \A i \in 0 .. n - 1 : \E x \in D : rank[x] = i
  BY RanksOfKeys
<1>p. \A p : p \in pairs <=> \E x \in D : p = <<rank[x], x>>
  BY DEF Ranks
<1> HIDE DEF rank, n, pairs
<1>4. \A i \in 1 .. n : o[i] \in D /\ rank[o[i]] = i - 1
  <2> TAKE i \in 1 .. n
  <2>1. i - 1 \in 0 .. n - 1
    BY <1>1
  <2>2. \E p \in pairs : p[1] = i - 1
    <3>1. PICK x \in D : rank[x] = i - 1
      BY <1>3, <2>1
    <3>2. <<rank[x], x>> \in pairs /\ <<rank[x], x>>[1] = i - 1
      BY <1>p, <3>1
    <3> QED
      BY <3>2
  <2> DEFINE q == CHOOSE p \in pairs : p[1] = i - 1
  <2>3. q \in pairs /\ q[1] = i - 1
    BY <2>2
  <2>4. o[i] = q[2]
    OBVIOUS
  <2> HIDE DEF q, o
  <2> QED
    BY <1>p, <2>3, <2>4
<1>5. o \in [1 .. n -> D]
  BY <1>4
<1> HIDE DEF o
<1>6. ASSUME NEW i \in 1 .. n, NEW j \in 1 .. n, i < j
      PROVE  Before(key[o[i]], key[o[j]])
  <2>1. o[i] \in D /\ o[j] \in D /\ rank[o[i]] = i - 1 /\ rank[o[j]] = j - 1
    BY <1>4
  <2>2. ~ (rank[o[j]] < rank[o[i]]) /\ rank[o[i]] # rank[o[j]]
    BY <1>1, <1>6, <2>1
  <2>3. ~ Before(key[o[j]], key[o[i]]) /\ key[o[i]] # key[o[j]]
    BY <1>3, <2>1, <2>2
  <2> QED
    BY <2>1, <2>3, BeforeIsOrder
<1>7. \A i, j \in 1 .. n : o[i] = o[j] => i = j
  <2> TAKE i, j \in 1 .. n
  <2> HAVE o[i] = o[j]
  <2>1. i - 1 = j - 1
    BY <1>4
  <2> QED
    BY <1>1, <2>1
<1>8. \A x \in D : \E i \in 1 .. n : o[i] = x
  <2> TAKE x \in D
  <2>1. rank[x] \in 0 .. n - 1
    BY <1>3
  <2>2. rank[x] + 1 \in 1 .. n /\ (rank[x] + 1) - 1 = rank[x]
    BY <1>1, <2>1
  <2>3. o[rank[x] + 1] \in D /\ rank[o[rank[x] + 1]] = rank[x]
    BY <1>4, <2>2
  <2>4. o[rank[x] + 1] = x
    BY <1>3, <2>3
  <2> QED
    BY <2>2, <2>4
<1> QED
  BY <1>1, <1>2, <1>5, <1>6, <1>7, <1>8 DEF n

\* What is given place by place is a sequence of that length.
LEMMA PlacesMakeASequence ==
    ASSUME NEW S, NEW n \in Nat, NEW f \in [1 .. n -> S]
    PROVE  f \in Seq(S) /\ Len(f) = n
<1>1. f \in Seq(S)
  BY SeqDef
<1>2. 1 .. Len(f) = 1 .. n /\ Len(f) \in Nat
  BY <1>1, LenProperties
<1> QED
  BY <1>1, <1>2

LEMMA SortedIsASequence ==
    ASSUME NEW key, IsFiniteSet(DOMAIN key), NEW K \in Nat,
           \A x \in DOMAIN key : key[x] \in [1 .. K -> Int],
           \A x, y \in DOMAIN key : key[x] = key[y] => x = y
    PROVE  /\ ByKeys(key) \in Seq(DOMAIN key)
           /\ Len(ByKeys(key)) = Cardinality(DOMAIN key)
           /\ \A x \in DOMAIN key : \E i \in 1 .. Len(ByKeys(key)) : ByKeys(key)[i] = x
           /\ \A i, j \in 1 .. Len(ByKeys(key)) : ByKeys(key)[i] = ByKeys(key)[j] => i = j
<1> DEFINE n == Cardinality(DOMAIN key)
           o == ByKeys(key)
<1>1. /\ n \in Nat /\ o \in [1 .. n -> DOMAIN key]
      /\ \A i, j \in 1 .. n : o[i] = o[j] => i = j
      /\ \A x \in DOMAIN key : \E i \in 1 .. n : o[i] = x
  BY SortedByKeys
<1> HIDE DEF n, o
<1>2. o \in Seq(DOMAIN key) /\ Len(o) = n
  BY <1>1, PlacesMakeASequence
<1> QED
  BY <1>1, <1>2 DEF n, o

\* Numbers in order.
LEMMA NamesInOrder ==
    ASSUME NEW S, IsFiniteSet(S), S \subseteq Int
    PROVE  /\ ByName(S) \in Seq(S) /\ Len(ByName(S)) = Cardinality(S)
           /\ \A x \in S : \E i \in 1 .. Len(ByName(S)) : ByName(S)[i] = x
           /\ \A i, j \in 1 .. Len(ByName(S)) : i < j => ByName(S)[i] < ByName(S)[j]
<1> DEFINE key == [n \in S |-> <<n>>]
           N == Cardinality(S)
<1>1. ByName(S) = ByKeys(key)
  BY DEF ByName, InOrder
<1>2. /\ DOMAIN key = S /\ 1 \in Nat
      /\ \A n \in S : key[n] \in [1 .. 1 -> Int]
      /\ \A m, n \in S : key[m] = key[n] => m = n
  OBVIOUS
<1>3. \A m, n \in S : Before(key[m], key[n]) => m < n
  <2> TAKE m, n \in S
  <2>1. Before(<<m>>, <<n>>) => m < n
    BY DEF Before
  <2> QED
    BY <2>1
<1> HIDE DEF key
<1>4. /\ ByKeys(key) \in Seq(S) /\ Len(ByKeys(key)) = N
      /\ \A x \in S : \E i \in 1 .. Len(ByKeys(key)) : ByKeys(key)[i] = x
  BY <1>2, SortedIsASequence
<1>5. \A i, j \in 1 .. N : i < j => Before(key[ByKeys(key)[i]], key[ByKeys(key)[j]])
  BY <1>2, SortedByKeys
<1> HIDE DEF N
<1>6. PICK o : o = ByKeys(key)
  OBVIOUS
<1>7. o \in Seq(S) /\ Len(o) = N /\ \A i \in 1 .. N : o[i] \in S
  BY <1>4, <1>6, LenProperties
<1>8. \A i, j \in 1 .. N : i < j => o[i] < o[j]
  BY <1>3, <1>5, <1>6, <1>7
<1> QED
  BY <1>1, <1>4, <1>6, <1>7, <1>8 DEF N

\* The first elements of a sequence, as many as the limit allows.
Cut(s, limit, r) ==
    /\ Len(r) \in Nat /\ DOMAIN r = 1 .. Len(r)
    /\ Len(r) = IF Len(s) < limit THEN Len(s) ELSE limit
    /\ \A i \in 1 .. Len(r) : r[i] = s[i] /\ i \in 1 .. Len(s)

LEMMA LimitCuts ==
    ASSUME NEW S, NEW s \in Seq(S), NEW limit \in Nat
    PROVE  Limited(s, limit) \in Seq(S) /\ Cut(s, limit, Limited(s, limit))
<1> DEFINE n == IF Len(s) < limit THEN Len(s) ELSE limit
<1>1. PICK r : r = Limited(s, limit)
  OBVIOUS
<1>2. r = SubSeq(s, 1, n)
  BY <1>1 DEF Limited
<1>3. Len(s) \in Nat /\ n \in Nat /\ n <= Len(s)
  BY LenProperties
<1> HIDE DEF n
<1>4. \A i \in 1 .. n : s[i] \in S /\ i \in 1 .. Len(s)
  BY <1>3, LenProperties
<1>5. 1 \in Int /\ n \in Int /\ n - 1 + 1 = n /\ \A i \in 1 .. n : 1 + i - 1 = i
  BY <1>3
<1>6. /\ r \in Seq(S) /\ Len(r) = (IF 1 <= n THEN n - 1 + 1 ELSE 0)
      /\ \A i \in 1 .. n - 1 + 1 : r[i] = s[1 + i - 1]
  BY <1>2, <1>4, <1>5, SubSeqProperties
<1>7. Len(r) = n
  BY <1>3, <1>6
<1>8. \A i \in 1 .. n : r[i] = s[i]
  BY <1>5, <1>6
<1>9. DOMAIN r = 1 .. Len(r)
  BY <1>6, LenProperties
<1> QED
  BY <1>1, <1>3, <1>4, <1>6, <1>7, <1>8, <1>9 DEF Cut, n

\* A queue behind which others are put.
Joined(s, led, t) ==
    /\ Len(s) \in Nat /\ Len(led) \in Nat /\ Len(t) = Len(s) + Len(led)
    /\ \A i \in 1 .. Len(s) : t[i] = s[i] /\ i \in 1 .. Len(t)
    /\ \A i \in 1 .. Len(led) : t[Len(s) + i] = led[i] /\ Len(s) + i \in 1 .. Len(t)
    /\ \A i \in 1 .. Len(t) : i \in 1 .. Len(s) \/ \E j \in 1 .. Len(led) : i = Len(s) + j

LEMMA Appended ==
    ASSUME NEW S, NEW s \in Seq(S), NEW led \in Seq(S)
    PROVE  s \o led \in Seq(S) /\ Joined(s, led, s \o led)
<1>1. PICK r : r = s \o led
  OBVIOUS
<1>2. PICK p : p = Len(s)
  OBVIOUS
<1>3. PICK q : q = Len(led)
  OBVIOUS
<1>4. p \in Nat /\ q \in Nat
  BY <1>2, <1>3, LenProperties
<1>5. /\ r \in Seq(S) /\ Len(r) = p + q
      /\ \A i \in 1 .. p + q : r[i] = IF i <= p THEN s[i] ELSE led[i - p]
  BY <1>1, <1>2, <1>3, ConcatProperties, Zenon
<1>6. ASSUME NEW i \in 1 .. p
      PROVE  r[i] = s[i] /\ i \in 1 .. p + q
  <2>1. i \in 1 .. p + q /\ i <= p
    BY <1>4
  <2> QED
    BY <1>5, <2>1
<1>7. ASSUME NEW i \in 1 .. q
      PROVE  r[p + i] = led[i] /\ p + i \in 1 .. p + q
  <2>1. p + i \in 1 .. p + q /\ ~ (p + i <= p) /\ (p + i) - p = i
    BY <1>4
  <2> QED
    BY <1>5, <2>1
<1>8. ASSUME NEW i \in 1 .. p + q
      PROVE  i \in 1 .. p \/ \E j \in 1 .. q : i = p + j
  <2>1. CASE i <= p
    BY <1>4, <2>1
  <2>2. CASE i > p
    <3>1. i - p \in 1 .. q /\ i = p + (i - p)
      BY <1>4, <2>2
    <3> QED
      BY <3>1
  <2> QED
    BY <1>4, <2>1, <2>2
<1> QED
  BY <1>1, <1>2, <1>3, <1>4, <1>5, <1>6, <1>7, <1>8 DEF Joined

\* What a sequence holds, and that it repeats nothing.
Holds(r, x) == \E i \in 1 .. Len(r) : r[i] = x
Injective(r) == \A i, j \in 1 .. Len(r) : r[i] = r[j] => i = j

LEMMA JoinedHolds ==
    ASSUME NEW r, NEW s, NEW t, Joined(r, s, t)
    PROVE  /\ \A x : Holds(t, x) <=> Holds(r, x) \/ Holds(s, x)
           /\ Injective(r) /\ Injective(s) /\ (\A x : ~ (Holds(r, x) /\ Holds(s, x)))
                => Injective(t)
<1>1. /\ Len(r) \in Nat /\ Len(s) \in Nat
      /\ \A i \in 1 .. Len(r) : t[i] = r[i] /\ i \in 1 .. Len(t)
      /\ \A i \in 1 .. Len(s) : t[Len(r) + i] = s[i] /\ Len(r) + i \in 1 .. Len(t)
      /\ \A i \in 1 .. Len(t) : i \in 1 .. Len(r) \/ \E j \in 1 .. Len(s) : i = Len(r) + j
  BY DEF Joined
<1>2. ASSUME NEW x
      PROVE  Holds(t, x) <=> Holds(r, x) \/ Holds(s, x)
  <2>1. ASSUME Holds(t, x)
        PROVE  Holds(r, x) \/ Holds(s, x)
    <3>1. PICK i \in 1 .. Len(t) : t[i] = x
      BY <2>1 DEF Holds
    <3>2. CASE i \in 1 .. Len(r)
      <4>1. r[i] = x
        BY <1>1, <3>1, <3>2
      <4> QED
        BY <3>2, <4>1 DEF Holds
    <3>3. ASSUME NEW j \in 1 .. Len(s), i = Len(r) + j
          PROVE  Holds(s, x)
      <4>1. s[j] = x
        BY <1>1, <3>1, <3>3
      <4> QED
        BY <4>1 DEF Holds
    <3> QED
      BY <1>1, <3>2, <3>3
  <2>2. ASSUME Holds(r, x)
        PROVE  Holds(t, x)
    BY <1>1, <2>2 DEF Holds
  <2>3. ASSUME Holds(s, x)
        PROVE  Holds(t, x)
    BY <1>1, <2>3 DEF Holds
  <2> QED
    BY <2>1, <2>2, <2>3
<1>3. ASSUME Injective(r), Injective(s), \A x : ~ (Holds(r, x) /\ Holds(s, x)),
             NEW i \in 1 .. Len(t), NEW j \in 1 .. Len(t), t[i] = t[j]
      PROVE  i = j
  <2>1. ASSUME NEW k \in 1 .. Len(r), NEW l \in 1 .. Len(s), r[k] = s[l]
        PROVE  FALSE
    <3>1. Holds(r, r[k]) /\ Holds(s, r[k])
      BY <2>1 DEF Holds
    <3> QED
      BY <1>3, <3>1
  <2>2. CASE i \in 1 .. Len(r) /\ j \in 1 .. Len(r)
    BY <1>1, <1>3, <2>2 DEF Injective
  <2>3. ASSUME NEW k \in 1 .. Len(s), i = Len(r) + k, j \in 1 .. Len(r)
        PROVE  FALSE
    <3>1. t[i] = s[k] /\ t[j] = r[j]
      BY <1>1, <2>3
    <3> QED
      BY <1>3, <2>1, <2>3, <3>1
  <2>4. ASSUME NEW l \in 1 .. Len(s), j = Len(r) + l, i \in 1 .. Len(r)
        PROVE  FALSE
    <3>1. t[j] = s[l] /\ t[i] = r[i]
      BY <1>1, <2>4
    <3> QED
      BY <1>3, <2>1, <2>4, <3>1
  <2>5. ASSUME NEW k \in 1 .. Len(s), i = Len(r) + k, NEW l \in 1 .. Len(s), j = Len(r) + l
        PROVE  i = j
    <3>1. t[i] = s[k] /\ t[j] = s[l]
      BY <1>1, <2>5
    <3>2. k = l
      BY <1>3, <3>1 DEF Injective
    <3> QED
      BY <2>5, <3>2
  <2> QED
    BY <1>1, <2>2, <2>3, <2>4, <2>5
<1>4. Injective(r) /\ Injective(s) /\ (\A x : ~ (Holds(r, x) /\ Holds(s, x))) => Injective(t)
  BY <1>3 DEF Injective
<1> QED
  BY <1>2, <1>4

LEMMA CutHolds ==
    ASSUME NEW S, NEW s \in Seq(S), NEW most \in Nat, Injective(s)
    PROVE  /\ Limited(s, most) \in Seq(S) /\ Injective(Limited(s, most))
           /\ Len(Limited(s, most)) <= most
           /\ \A p : Holds(Limited(s, most), p) => Holds(s, p)
           /\ Len(Limited(s, most)) = most \/ \A p : Holds(s, p) => Holds(Limited(s, most), p)
<1>1. PICK r : r = Limited(s, most)
  OBVIOUS
<1>2. r \in Seq(S) /\ Cut(s, most, r)
  BY <1>1, LimitCuts
<1>3. PICK n \in Nat : n = Len(s)
  BY LenProperties
<1>4. /\ Len(r) \in Nat /\ Len(r) = IF n < most THEN n ELSE most
      /\ \A i \in 1 .. Len(r) : r[i] = s[i] /\ i \in 1 .. n
  BY <1>2, <1>3 DEF Cut
<1>5. Injective(r)
  BY <1>3, <1>4 DEF Injective
<1>6. Len(r) <= most
  BY <1>4
<1>7. \A p : Holds(r, p) => Holds(s, p)
  BY <1>3, <1>4 DEF Holds
<1>8. Len(r) # most => Len(r) = n
  BY <1>4
<1>9. Len(r) # most => \A p : Holds(s, p) => Holds(r, p)
  BY <1>3, <1>4, <1>8 DEF Holds
<1> QED
  BY <1>1, <1>2, <1>5, <1>6, <1>7, <1>9

\* A sequence that repeats nothing is as long as what it holds.
LEMMA InjectiveCounts ==
    ASSUME NEW A, NEW s \in Seq(A), Injective(s)
    PROVE  /\ Len(s) = Cardinality(ToSet(s)) /\ Len(s) \in Nat
           /\ \A x : x \in ToSet(s) <=> Holds(s, x)
<1>1. PICK n \in Nat : n = Len(s)
  BY LenProperties
<1>2. DOMAIN s = 1 .. n /\ s \in [1 .. n -> A]
  BY <1>1, LenProperties
<1> DEFINE T == ToSet(s)
<1>3. \A x : x \in T <=> \E i \in 1 .. n : s[i] = x
  BY <1>2 DEF ToSet
<1> HIDE DEF T
<1>4. s \in [1 .. n -> T]
  BY <1>2, <1>3
<1>5. \A i, j \in 1 .. n : s[i] = s[j] => i = j
  BY <1>1 DEF Injective
<1>6. s \in Injection(1 .. n, T) /\ s \in Surjection(1 .. n, T)
  BY <1>3, <1>4, <1>5 DEF Injection, IsInjective, Surjection
<1>7. IsFiniteSet(1 .. n) /\ Cardinality(1 .. n) = n
  <2>1. IsFiniteSet(1 .. n) /\ Cardinality(1 .. n) = IF 1 > n THEN 0 ELSE n - 1 + 1
    BY FS_Interval
  <2> QED
    BY <2>1
<1>8. Cardinality(T) = Cardinality(1 .. n)
  BY <1>6, <1>7, FS_Surjection
<1>9. Len(s) = Cardinality(T)
  BY <1>1, <1>7, <1>8
<1> QED
  BY <1>1, <1>3, <1>9 DEF T, Holds

-----------------------------------------------------------------------------
(* Cycles: what they are, and how many.                                    *)

\* A path the search may be on, and a cycle it may find.
OnTheWay(p) ==
    /\ p \in Seq(Units) /\ Len(p) \in 1 .. MaxLength
    /\ \A i \in 1 .. Len(p) - 1 : Linked(p[i], p[i + 1])
    /\ \A i \in 2 .. Len(p) : p[1] < p[i]
    /\ Injective(p)
IsCycle(p) == OnTheWay(p) /\ Len(p) >= 2 /\ Linked(p[Len(p)], p[1])

LEMMA CyclesAreSimple ==
    ASSUME Units \subseteq Nat
    PROVE  \A p : p \in SimpleCycles <=> IsCycle(p)
<1> DEFINE Fit(k, p) == /\ \A i \in 1 .. k : /\ Linked(p[i], p[IF i = k THEN 1 ELSE i + 1])
                                             /\ i > 1 => p[1] < p[i]
                        /\ \A i, j \in 1 .. k : i # j => p[i] # p[j]
<1>1. SimpleCycles = UNION {{p \in [1 .. k -> Units] : Fit(k, p)} : k \in 2 .. MaxLength}
  BY DEF SimpleCycles
<1>2. MaxLength \in Nat
  BY BoundsAssumption
<1>3. \A p : p \in SimpleCycles <=> \E k \in 2 .. MaxLength : p \in [1 .. k -> Units] /\ Fit(k, p)
  <2> HIDE DEF Fit
  <2> QED
    BY <1>1
<1>4. ASSUME NEW p, NEW k \in 2 .. MaxLength, p \in [1 .. k -> Units], Fit(k, p)
      PROVE  IsCycle(p)
  <2>1. k \in Nat /\ k >= 2 /\ k \in 1 .. MaxLength
    BY <1>2
  <2>2. p \in Seq(Units) /\ Len(p) = k
    BY <1>4, <2>1, PlacesMakeASequence
  <2>3. \A i \in 1 .. k - 1 : Linked(p[i], p[i + 1])
    <3> TAKE i \in 1 .. k - 1
    <3>1. i \in 1 .. k /\ i # k
      BY <2>1
    <3>2. Linked(p[i], p[IF i = k THEN 1 ELSE i + 1])
      BY <1>4, <3>1
    <3> QED
      BY <3>1, <3>2
  <2>4. Linked(p[k], p[1])
    <3>1. k \in 1 .. k
      BY <2>1
    <3>2. Linked(p[k], p[IF k = k THEN 1 ELSE k + 1])
      BY <1>4, <3>1
    <3> QED
      BY <3>2
  <2>5. \A i \in 2 .. k : p[1] < p[i]
    <3> TAKE i \in 2 .. k
    <3>1. i \in 1 .. k /\ i > 1
      BY <2>1
    <3> QED
      BY <1>4, <3>1
  <2>6. Injective(p)
    BY <1>4, <2>2 DEF Injective
  <2> QED
    BY <2>1, <2>2, <2>3, <2>4, <2>5, <2>6 DEF IsCycle, OnTheWay
<1>5. ASSUME NEW p, IsCycle(p)
      PROVE  p \in SimpleCycles
  <2>1. PICK k \in Nat : k = Len(p)
    BY <1>5, LenProperties DEF IsCycle, OnTheWay
  <2>2. k \in 2 .. MaxLength
    BY <1>2, <1>5, <2>1 DEF IsCycle, OnTheWay
  <2>3. p \in [1 .. k -> Units]
    BY <1>5, <2>1, LenProperties DEF IsCycle, OnTheWay
  <2>4. Fit(k, p)
    <3>1. ASSUME NEW i \in 1 .. k
          PROVE  Linked(p[i], p[IF i = k THEN 1 ELSE i + 1]) /\ (i > 1 => p[1] < p[i])
      <4>1. CASE i = k
        BY <1>5, <2>1, <2>2, <4>1 DEF IsCycle, OnTheWay
      <4>2. CASE i # k
        <5>1. i \in 1 .. k - 1
          BY <4>2
        <5>2. Linked(p[i], p[i + 1])
          BY <1>5, <2>1, <5>1 DEF IsCycle, OnTheWay
        <5>3. i > 1 => p[1] < p[i]
          BY <1>5, <2>1 DEF IsCycle, OnTheWay
        <5> QED
          BY <4>2, <5>2, <5>3
      <4> QED
        BY <4>1, <4>2
    <3>2. \A i, j \in 1 .. k : i # j => p[i] # p[j]
      BY <1>5, <2>1 DEF IsCycle, OnTheWay, Injective
    <3> QED
      BY <3>1, <3>2
  <2> HIDE DEF Fit
  <2> QED
    BY <1>3, <2>2, <2>3, <2>4
<1> HIDE DEF Fit
<1> QED
  BY <1>3, <1>4, <1>5

\* There are finitely many sequences of one length.
LEMMA PlacesAreFinite ==
    ASSUME NEW S, IsFiniteSet(S), NEW k \in Nat
    PROVE  IsFiniteSet([1 .. k -> S])
<1> DEFINE P == {n \in Nat : IsFiniteSet([1 .. n -> S])}
<1>1. 0 \in P
  <2>1. [1 .. 0 -> S] = {<<>>}
    <3>1. 1 .. 0 = {}
      OBVIOUS
    <3>2. \A f \in [1 .. 0 -> S] : f = <<>>
      <4> TAKE f \in [1 .. 0 -> S]
      <4>1. f \in Seq(S) /\ Len(f) = 0
        BY PlacesMakeASequence
      <4> QED
        BY <4>1, EmptySeq
    <3>3. <<>> \in [1 .. 0 -> S]
      BY <3>1
    <3> QED
      BY <3>2, <3>3
  <2> QED
    BY <2>1, FS_Singleton
<1>2. ASSUME NEW n \in Nat, n \in P
      PROVE  n + 1 \in P
  <2> DEFINE T == [1 .. n -> S] \X S
             g == [t \in T |-> [i \in 1 .. n + 1 |-> IF i = n + 1 THEN t[2] ELSE t[1][i]]]
  <2>1. IsFiniteSet(T)
    BY <1>2, FS_Product
  <2>2. g = [t \in T |-> g[t]]
    OBVIOUS
  <2>3. \A f \in [1 .. n + 1 -> S] : \E t \in T : f = g[t]
    <3> TAKE f \in [1 .. n + 1 -> S]
    <3>1. PICK a : a = [i \in 1 .. n |-> f[i]]
      OBVIOUS
    <3>2. a \in [1 .. n -> S] /\ f[n + 1] \in S
      BY <3>1
    <3>3. PICK t : t = <<a, f[n + 1]>>
      OBVIOUS
    <3>4. t \in T /\ t[1] = a /\ t[2] = f[n + 1]
      BY <3>2, <3>3
    <3>5. g[t] = [i \in 1 .. n + 1 |-> IF i = n + 1 THEN f[n + 1] ELSE a[i]]
      BY <3>4
    <3>6. \A i \in 1 .. n + 1 : f[i] = IF i = n + 1 THEN f[n + 1] ELSE a[i]
      BY <3>1
    <3>7. f = [i \in 1 .. n + 1 |-> IF i = n + 1 THEN f[n + 1] ELSE a[i]]
      BY <3>6
    <3> QED
      BY <3>4, <3>5, <3>7
  <2> HIDE DEF g, T
  <2>4. IsFiniteSet({g[t] : t \in T})
    BY <2>1, <2>2, FiniteImage
  <2>5. [1 .. n + 1 -> S] \subseteq {g[t] : t \in T}
    BY <2>3
  <2> QED
    BY <2>4, <2>5, FS_Subset
<1> HIDE DEF P
<1>3. k \in P
  BY <1>1, <1>2, NumbersByInduction
<1> QED
  BY <1>3 DEF P

LEMMA CyclesAreFinite ==
    ASSUME Units \subseteq Nat, IsFiniteSet(Units)
    PROVE  IsFiniteSet(SimpleCycles)
<1> DEFINE K == 2 .. MaxLength
           of == [k \in K |-> [1 .. k -> Units]]
           T == {of[k] : k \in K}
<1>1. MaxLength \in Int
  BY BoundsAssumption
<1>2. IsFiniteSet(K)
  BY <1>1, FS_Interval
<1>3. of = [k \in K |-> of[k]]
  OBVIOUS
<1>4. \A k \in K : k \in Nat /\ of[k] = [1 .. k -> Units]
  BY <1>1
<1> HIDE DEF K, of
<1>5. \A k \in K : IsFiniteSet(of[k])
  BY <1>4, PlacesAreFinite
<1>6. IsFiniteSet(T)
  BY <1>2, <1>3, FiniteImage
<1>7. IsFiniteSet(UNION T)
  <2>1. \A t \in T : IsFiniteSet(t)
    BY <1>5
  <2> HIDE DEF T
  <2> QED
    BY <1>6, <2>1, FS_UNION
<1>8. ASSUME NEW p \in SimpleCycles
      PROVE  p \in UNION T
  <2>1. IsCycle(p)
    BY CyclesAreSimple
  <2>2. p \in Seq(Units) /\ Len(p) \in 2 .. MaxLength
    BY <2>1, <1>1 DEF IsCycle, OnTheWay
  <2>3. PICK k \in K : k = Len(p)
    BY <2>2 DEF K
  <2>4. p \in of[k]
    BY <1>4, <2>2, <2>3, LenProperties
  <2> QED
    BY <2>4
<1> QED
  BY <1>7, <1>8, FS_Subset

-----------------------------------------------------------------------------
(* The search for the cycles that begin with a path.                       *)

\* What the search for components leaves.
Parted == Searching(weight, tarjan) /\ UNION tarjan.components = Units

LEMMA PartedUnits ==
    ASSUME Parted
    PROVE  /\ Units \subseteq Nat \ {0} /\ Units \subseteq Nat /\ Units \subseteq Int /\ IsFiniteSet(Units)
           /\ \A u \in Units : /\ ComponentOf(u) \in tarjan.components /\ u \in ComponentOf(u)
                               /\ ComponentOf(u) \subseteq Units
<1>1. Units \subseteq Nat \ {0} /\ IsFiniteSet(Units)
  BY UnitsAreUnits DEF Parted, Searching, Typed
<1>2. ASSUME NEW u \in Units
      PROVE  /\ ComponentOf(u) \in tarjan.components /\ u \in ComponentOf(u)
             /\ ComponentOf(u) \subseteq Units
  <2>1. \E c \in tarjan.components : u \in c
    BY DEF Parted
  <2>2. ComponentOf(u) \in tarjan.components /\ u \in ComponentOf(u)
    BY <2>1 DEF ComponentOf
  <2> QED
    BY <2>2 DEF Parted
<1> QED
  BY <1>1, <1>2

LEMMA CycleInComponent ==
    ASSUME Parted, NEW p, IsCycle(p)
    PROVE  \A i \in 1 .. Len(p) : p[i] \in ComponentOf(p[1])
<1>1. PICK n \in Nat : n = Len(p)
  BY LenProperties DEF IsCycle, OnTheWay
<1>2. n >= 2 /\ \A i \in 1 .. n : p[i] \in UnitsOf(weight)
  BY <1>1, LenProperties, UnitsAreUnits DEF IsCycle, OnTheWay
<1>3. \A i \in 1 .. n - 1 : Leads(weight, p[i], p[i + 1])
  BY <1>1 DEF IsCycle, OnTheWay, Linked, Leads
<1>4. Leads(weight, p[n], p[1])
  BY <1>1 DEF IsCycle, Linked, Leads
<1> DEFINE There == {k \in Nat : k < n => Reach(weight, p[1], p[k + 1])}
           Back == {k \in Nat : k < n => Reach(weight, p[n - k], p[1])}
<1>5. Nat \subseteq There
  <2>1. 0 \in There
    BY ReachesItself
  <2>2. ASSUME NEW k \in Nat, k \in There
        PROVE  k + 1 \in There
    <3> SUFFICES ASSUME k + 1 < n
                 PROVE  Reach(weight, p[1], p[(k + 1) + 1])
      OBVIOUS
    <3>1. Reach(weight, p[1], p[k + 1]) /\ k + 1 \in 1 .. n - 1 /\ k + 1 \in 1 .. n /\ (k + 1) + 1 \in 1 .. n
      BY <2>2
    <3>2. Reach(weight, p[k + 1], p[(k + 1) + 1])
      BY <1>2, <1>3, <3>1, ReachesNext
    <3> QED
      BY <3>1, <3>2, ReachesOn
  <2> HIDE DEF There
  <2> QED
    BY <2>1, <2>2, NumbersByInduction
<1>6. Nat \subseteq Back
  <2>1. 0 \in Back
    <3>1. n - 0 = n /\ n \in 1 .. n /\ 1 \in 1 .. n
      BY <1>2
    <3>2. Reach(weight, p[n], p[1])
      BY <1>2, <1>4, <3>1, ReachesNext
    <3> QED
      BY <3>1, <3>2
  <2>2. ASSUME NEW k \in Nat, k \in Back
        PROVE  k + 1 \in Back
    <3> SUFFICES ASSUME k + 1 < n
                 PROVE  Reach(weight, p[n - (k + 1)], p[1])
      OBVIOUS
    <3>1. PICK m \in Nat : m = n - (k + 1)
      OBVIOUS
    <3>2. m \in 1 .. n - 1 /\ m \in 1 .. n /\ m + 1 \in 1 .. n /\ n - k = m + 1 /\ k < n
      BY <3>1
    <3>3. Reach(weight, p[m + 1], p[1])
      BY <2>2, <3>2
    <3>4. Reach(weight, p[m], p[m + 1])
      BY <1>2, <1>3, <3>2, ReachesNext
    <3> QED
      BY <3>1, <3>3, <3>4, ReachesOn
  <2> HIDE DEF Back
  <2> QED
    BY <2>1, <2>2, NumbersByInduction
<1>7. 1 \in 1 .. n /\ p[1] \in Units
  BY <1>2, UnitsAreUnits
<1>8. PICK c \in tarjan.components : c = ComponentOf(p[1]) /\ p[1] \in c
  BY <1>7, PartedUnits
<1>9. c = {v \in UnitsOf(weight) : Reach(weight, p[1], v) /\ Reach(weight, v, p[1])}
  BY <1>8 DEF Parted, Searching, Strong
<1>10. ASSUME NEW i \in 1 .. n
       PROVE  p[i] \in c
  <2>1. i - 1 \in Nat /\ i - 1 < n /\ (i - 1) + 1 = i /\ n - i \in Nat /\ n - i < n /\ n - (n - i) = i
    OBVIOUS
  <2>2. i - 1 \in There /\ n - i \in Back
    BY <1>5, <1>6, <2>1
  <2>3. Reach(weight, p[1], p[i]) /\ Reach(weight, p[i], p[1])
    BY <2>1, <2>2
  <2> QED
    BY <1>2, <1>9, <2>3
<1> QED
  BY <1>1, <1>8, <1>10

\* A path of the search, and the cycles that begin with it.
Begins(path, p) == Len(path) <= Len(p) /\ \A i \in 1 .. Len(path) : p[i] = path[i]
Round(path) == {p \in SimpleCycles : Begins(path, p)}

\* Where such a cycle leads from the end of the path.
Turn(path, p) == IF Len(p) > Len(path) THEN p[Len(path) + 1] ELSE p[1]
Turned(path, v) == {p \in Round(path) : Turn(path, p) = v}

\* A search that is to add the cycles of a set T to those found has added
\* nothing else, and all of them unless it stopped at the limit.
Bag(found) ==
    /\ found \in SUBSET Seq(Units) /\ IsFiniteSet(found)
    /\ Cardinality(found) \in Nat /\ Cardinality(found) <= MaxCycles
Collected(T, found, r) ==
    /\ Bag(r) /\ \A p \in found : p \in r
    /\ \A p \in r : p \in found \/ p \in T
    /\ Cardinality(r) = MaxCycles \/ \A p \in T : p \in r

LEMMA CollectedInTurn ==
    ASSUME NEW T1, NEW T2, NEW T, \A p : p \in T <=> p \in T1 \/ p \in T2, NEW found, NEW r, NEW s,
           Collected(T1, found, r), Collected(T2, r, s)
    PROVE  Collected(T, found, s)
<1>1. Bag(r) /\ Bag(s) /\ \A p \in r : p \in s
  BY DEF Collected
<1>2. Cardinality(r) = MaxCycles => Cardinality(s) = MaxCycles
  <2>1. r \subseteq s /\ IsFiniteSet(s)
    BY <1>1 DEF Bag
  <2>2. Cardinality(r) <= Cardinality(s)
    BY <2>1, FS_Subset
  <2>3. Cardinality(r) \in Nat /\ Cardinality(s) \in Nat /\ Cardinality(s) <= MaxCycles /\ MaxCycles \in Nat
    BY <1>1, BoundsAssumption DEF Bag
  <2> QED
    BY <2>2, <2>3
<1>3. \A p \in found : p \in s
  BY DEF Collected
<1>4. \A p \in s : p \in found \/ p \in T
  BY DEF Collected
<1>5. Cardinality(s) = MaxCycles \/ \A p \in T : p \in s
  BY <1>1, <1>2 DEF Collected
<1> QED
  BY <1>1, <1>3, <1>4, <1>5 DEF Collected

\* What the search does for a path of len nodes.
Deep(deeper, len) ==
    \A q, s : OnTheWay(q) /\ Len(q) = len /\ Bag(s) => Collected(Round(q), s, deeper[<<q, s>>])

LEMMA RoundIsCycles ==
    ASSUME Parted
    PROVE  /\ \A path, p : p \in Round(path) <=> IsCycle(p) /\ Begins(path, p)
           /\ \A path, v, p : p \in Turned(path, v) <=>
                                IsCycle(p) /\ Begins(path, p) /\ Turn(path, p) = v
BY PartedUnits, CyclesAreSimple DEF Round, Turned

\* Further on: the path is longer by one.
LEMMA FurtherOn ==
    ASSUME Parted, NEW path, OnTheWay(path), NEW v \in Units, Linked(Last(path), v),
           v > Head(path), v \notin ToSet(path), Len(path) < MaxLength
    PROVE  /\ OnTheWay(Append(path, v)) /\ Len(Append(path, v)) = Len(path) + 1
           /\ \A p : p \in Round(Append(path, v)) <=> p \in Turned(path, v)
<1>1. PICK n \in Nat : n = Len(path)
  BY LenProperties DEF OnTheWay
<1>2. /\ path \in Seq(Units) /\ n >= 1 /\ n < MaxLength /\ MaxLength \in Nat
      /\ \A i \in 1 .. n : path[i] \in Units
      /\ \A i \in 1 .. n - 1 : Linked(path[i], path[i + 1])
      /\ \A i \in 2 .. n : path[1] < path[i]
      /\ \A i, j \in 1 .. n : path[i] = path[j] => i = j
  BY <1>1, LenProperties, BoundsAssumption DEF OnTheWay, Injective
<1>3. PICK q : q = Append(path, v)
  OBVIOUS
<1>4. /\ q \in Seq(Units) /\ Len(q) = n + 1 /\ q[n + 1] = v
      /\ \A i \in 1 .. n : q[i] = path[i]
  BY <1>1, <1>2, <1>3, AppendProperties
<1>5. Linked(path[n], v) /\ v > path[1] /\ \A i \in 1 .. n : path[i] # v
  <2>1. Last(path) = path[n] /\ Head(path) = path[1]
    BY <1>1, <1>2 DEF Last
  <2>2. ToSet(path) = {path[i] : i \in 1 .. n}
    BY <1>1, <1>2, LenProperties DEF ToSet
  <2> QED
    BY <2>1, <2>2
<1>6. OnTheWay(q)
  <2>1. \A i \in 1 .. n : Linked(q[i], q[i + 1])
    <3> TAKE i \in 1 .. n
    <3>1. CASE i = n
      BY <1>4, <1>5, <3>1
    <3>2. CASE i # n
      <4>1. i \in 1 .. n - 1 /\ i + 1 \in 1 .. n
        BY <3>2
      <4> QED
        BY <1>2, <1>4, <4>1
    <3> QED
      BY <3>1, <3>2
  <2>2. 1 \in 1 .. n /\ q[1] = path[1]
    BY <1>2, <1>4
  <2>3. \A i \in 2 .. n + 1 : q[1] < q[i]
    <3> TAKE i \in 2 .. n + 1
    <3>1. CASE i = n + 1
      <4>1. path[1] \in Nat /\ v \in Nat
        BY <1>2, <2>2, PartedUnits
      <4> QED
        BY <1>4, <1>5, <2>2, <3>1, <4>1
    <3>2. CASE i # n + 1
      <4>1. i \in 2 .. n /\ i \in 1 .. n
        BY <3>2
      <4> QED
        BY <1>2, <1>4, <2>2, <4>1
    <3> QED
      BY <3>1, <3>2
  <2>4. \A i, j \in 1 .. n + 1 : q[i] = q[j] => i = j
    <3> TAKE i, j \in 1 .. n + 1
    <3>1. \A k \in 1 .. n + 1 : k = n + 1 \/ k \in 1 .. n
      OBVIOUS
    <3> QED
      BY <1>2, <1>4, <1>5, <3>1
  <2>5. n + 1 \in 1 .. MaxLength /\ (n + 1) - 1 = n
    BY <1>2
  <2> QED
    BY <1>4, <2>1, <2>3, <2>4, <2>5 DEF OnTheWay, Injective
<1>7. ASSUME NEW p, IsCycle(p)
      PROVE  Begins(q, p) <=> Begins(path, p) /\ Turn(path, p) = v
  <2>1. PICK m \in Nat : m = Len(p)
    BY <1>7, LenProperties DEF IsCycle, OnTheWay
  <2>2. Begins(q, p) <=> n + 1 <= m /\ \A i \in 1 .. n + 1 : p[i] = q[i]
    BY <1>4, <2>1 DEF Begins
  <2>3. Begins(path, p) <=> n <= m /\ \A i \in 1 .. n : p[i] = path[i]
    BY <1>1, <2>1 DEF Begins
  <2>4. Turn(path, p) = IF m > n THEN p[n + 1] ELSE p[1]
    BY <1>1, <2>1 DEF Turn
  <2>5. ASSUME Begins(q, p)
        PROVE  Begins(path, p) /\ Turn(path, p) = v
    <3>1. n + 1 <= m /\ \A i \in 1 .. n + 1 : p[i] = q[i]
      BY <2>2, <2>5
    <3>2. n + 1 \in 1 .. n + 1 /\ n <= m /\ m > n /\ \A i \in 1 .. n : i \in 1 .. n + 1
      BY <3>1
    <3> QED
      BY <1>4, <2>3, <2>4, <3>1, <3>2
  <2>6. ASSUME Begins(path, p), Turn(path, p) = v
        PROVE  Begins(q, p)
    <3>1. n <= m /\ \A i \in 1 .. n : p[i] = path[i]
      BY <2>3, <2>6
    <3>2. m > n
      <4> SUFFICES ASSUME ~ (m > n)
                   PROVE  FALSE
        OBVIOUS
      <4>1. p[1] = v /\ 1 \in 1 .. n
        BY <1>2, <2>4, <2>6
      <4> QED
        BY <1>5, <3>1, <4>1
    <3>3. p[n + 1] = v /\ n + 1 <= m
      BY <2>4, <2>6, <3>2
    <3>4. \A i \in 1 .. n + 1 : p[i] = q[i]
      <4> TAKE i \in 1 .. n + 1
      <4>1. i = n + 1 \/ i \in 1 .. n
        OBVIOUS
      <4> QED
        BY <1>4, <3>1, <3>3, <4>1
    <3> QED
      BY <2>2, <3>3, <3>4
  <2> QED
    BY <2>5, <2>6
<1>8. \A p : p \in Round(q) <=> p \in Turned(path, v)
  BY <1>7, RoundIsCycles
<1> QED
  BY <1>1, <1>3, <1>4, <1>6, <1>8

\* Back at the start: the path is a cycle, or has one node.
LEMMA BackAtTheStart ==
    ASSUME Parted, NEW path, OnTheWay(path), NEW v \in Units, Linked(Last(path), v), v = Head(path)
    PROVE  /\ Len(path) = 1 => \A p : p \notin Turned(path, v)
           /\ Len(path) # 1 => \A p : p \in Turned(path, v) <=> p = path
<1>1. PICK n \in Nat : n = Len(path)
  BY LenProperties DEF OnTheWay
<1>2. path \in Seq(Units) /\ n >= 1 /\ v = path[1] /\ Last(path) = path[n] /\ 1 \in 1 .. n
  BY <1>1 DEF OnTheWay, Last
<1>3. ASSUME NEW p, p \in Turned(path, v)
      PROVE  n # 1 /\ p = path
  <2>1. IsCycle(p) /\ Begins(path, p) /\ Turn(path, p) = v
    BY <1>3, RoundIsCycles
  <2>2. PICK m \in Nat : m = Len(p)
    BY <2>1, LenProperties DEF IsCycle, OnTheWay
  <2>3. /\ n <= m /\ \A i \in 1 .. n : p[i] = path[i]
        /\ v = IF m > n THEN p[n + 1] ELSE p[1]
    BY <1>1, <2>1, <2>2 DEF Begins, Turn
  <2>4. p \in Seq(Units) /\ m >= 2 /\ \A i, j \in 1 .. m : p[i] = p[j] => i = j
    BY <2>1, <2>2 DEF IsCycle, OnTheWay, Injective
  <2>5. ~ (m > n)
    <3> SUFFICES ASSUME m > n
                 PROVE  FALSE
      OBVIOUS
    <3>1. n + 1 \in 1 .. m /\ 1 \in 1 .. m /\ n + 1 # 1
      BY <1>2
    <3>2. p[n + 1] = p[1]
      BY <1>2, <2>3
    <3> QED
      BY <2>4, <3>1, <3>2
  <2>6. m = n
    BY <2>3, <2>5
  <2>7. p = path
    BY <1>1, <1>2, <2>2, <2>3, <2>4, <2>6, SeqEqual
  <2> QED
    BY <2>4, <2>6, <2>7
<1>4. ASSUME n # 1
      PROVE  path \in Turned(path, v)
  <2>1. Linked(path[n], path[1])
    BY <1>2
  <2>2. IsCycle(path)
    BY <1>1, <1>2, <1>4, <2>1 DEF IsCycle
  <2>3. Begins(path, path) /\ Turn(path, path) = v
    BY <1>1, <1>2 DEF Begins, Turn
  <2> QED
    BY <2>2, <2>3, RoundIsCycles
<1> QED
  BY <1>1, <1>3, <1>4

\* To no purpose: no cycle goes on that way.
LEMMA NoFurther ==
    ASSUME Parted, NEW path, OnTheWay(path), NEW v \in Units, v # Head(path),
           ~ (v \notin ToSet(path) /\ Len(path) < MaxLength /\ v > Head(path))
    PROVE  \A p : p \notin Turned(path, v)
<1> SUFFICES ASSUME NEW p, p \in Turned(path, v)
             PROVE  v \notin ToSet(path) /\ Len(path) < MaxLength /\ v > Head(path)
  OBVIOUS
<1>1. PICK n \in Nat : n = Len(path)
  BY LenProperties DEF OnTheWay
<1>2. path \in Seq(Units) /\ n >= 1 /\ Head(path) = path[1] /\ 1 \in 1 .. n
  BY <1>1 DEF OnTheWay
<1>3. IsCycle(p) /\ Begins(path, p) /\ Turn(path, p) = v
  BY RoundIsCycles
<1>4. PICK m \in Nat : m = Len(p)
  BY <1>3, LenProperties DEF IsCycle, OnTheWay
<1>5. /\ n <= m /\ \A i \in 1 .. n : p[i] = path[i]
      /\ v = IF m > n THEN p[n + 1] ELSE p[1]
  BY <1>1, <1>3, <1>4 DEF Begins, Turn
<1>6. /\ m <= MaxLength /\ MaxLength \in Nat /\ \A i, j \in 1 .. m : p[i] = p[j] => i = j
      /\ \A i \in 2 .. m : p[1] < p[i]
  BY <1>3, <1>4, BoundsAssumption DEF IsCycle, OnTheWay, Injective
<1>7. m > n /\ v = p[n + 1]
  <2>1. p[1] # v
    BY <1>2, <1>5
  <2> QED
    BY <1>5, <2>1
<1>8. n + 1 \in 2 .. m /\ n + 1 \in 1 .. m /\ \A i \in 1 .. n : i \in 1 .. m /\ i # n + 1
  BY <1>2, <1>7
<1>9. v > Head(path)
  <2>1. p[1] < v /\ p[1] = path[1]
    BY <1>2, <1>5, <1>6, <1>7, <1>8
  <2>2. path[1] \in Nat /\ v \in Nat
    BY <1>1, <1>2, PartedUnits, LenProperties
  <2> QED
    BY <1>2, <2>1, <2>2
<1>10. v \notin ToSet(path)
  <2> SUFFICES ASSUME v \in ToSet(path)
               PROVE  FALSE
    OBVIOUS
  <2>1. ToSet(path) = {path[i] : i \in 1 .. n}
    BY <1>1, <1>2, LenProperties DEF ToSet
  <2>2. PICK i \in 1 .. n : v = path[i]
    BY <2>1
  <2> QED
    BY <1>5, <1>6, <1>7, <1>8, <2>2
<1>11. n < MaxLength
  BY <1>6, <1>7
<1> QED
  BY <1>1, <1>9, <1>10, <1>11

\* One neighbour of the end of a path.
LEMMA VisitCollects ==
    ASSUME Parted, NEW path, OnTheWay(path), NEW v \in Units, Linked(Last(path), v),
           NEW found, Bag(found), NEW deeper, Deep(deeper, Len(path) + 1)
    PROVE  Collected(Turned(path, v), found, VisitNode(deeper, path, found, v))
<1>1. PICK r : r = VisitNode(deeper, path, found, v)
  OBVIOUS
<1>2. Cardinality(found) \in Nat /\ Cardinality(found) <= MaxCycles /\ MaxCycles \in Nat
  BY BoundsAssumption DEF Bag
<1>3. CASE Cardinality(found) >= MaxCycles
  <2>1. r = found /\ Cardinality(found) = MaxCycles
    BY <1>1, <1>2, <1>3 DEF VisitNode
  <2> QED
    BY <1>1, <2>1 DEF Collected
<1>4. CASE Cardinality(found) < MaxCycles /\ v = Head(path) /\ Len(path) = 1
  <2>1. r = found
    BY <1>1, <1>2, <1>4 DEF VisitNode
  <2>2. \A p : p \notin Turned(path, v)
    BY <1>4, BackAtTheStart
  <2> QED
    BY <1>1, <2>1, <2>2 DEF Collected
<1>5. CASE Cardinality(found) < MaxCycles /\ v = Head(path) /\ Len(path) # 1
  <2>1. r = found \cup {path}
    BY <1>1, <1>2, <1>5 DEF VisitNode
  <2>2. \A p : p \in Turned(path, v) <=> p = path
    BY <1>5, BackAtTheStart
  <2>3. IsFiniteSet(r) /\ Cardinality(r) = IF path \in found THEN Cardinality(found) ELSE Cardinality(found) + 1
    BY <2>1, FS_AddElement DEF Bag
  <2>4. Cardinality(r) \in Nat /\ Cardinality(r) <= MaxCycles
    BY <1>2, <1>5, <2>3
  <2>5. Bag(r)
    BY <2>1, <2>3, <2>4 DEF Bag, OnTheWay
  <2> QED
    BY <1>1, <2>1, <2>2, <2>5 DEF Collected
<1>6. CASE /\ Cardinality(found) < MaxCycles /\ v # Head(path)
           /\ v \notin ToSet(path) /\ Len(path) < MaxLength /\ v > Head(path)
  <2>1. r = deeper[<<Append(path, v), found>>]
    BY <1>1, <1>2, <1>6 DEF VisitNode
  <2>2. /\ OnTheWay(Append(path, v)) /\ Len(Append(path, v)) = Len(path) + 1
        /\ \A p : p \in Round(Append(path, v)) <=> p \in Turned(path, v)
    BY <1>6, FurtherOn
  <2>3. Collected(Round(Append(path, v)), found, r)
    BY <2>1, <2>2 DEF Deep
  <2>4. Round(Append(path, v)) = Turned(path, v)
    BY <2>2
  <2> QED
    BY <1>1, <2>3, <2>4
<1>7. CASE /\ Cardinality(found) < MaxCycles /\ v # Head(path)
           /\ ~ (v \notin ToSet(path) /\ Len(path) < MaxLength /\ v > Head(path))
  <2>1. r = found
    BY <1>1, <1>2, <1>7 DEF VisitNode
  <2>2. \A p : p \notin Turned(path, v)
    BY <1>7, NoFurther
  <2> QED
    BY <1>1, <2>1, <2>2 DEF Collected
<1> QED
  BY <1>2, <1>3, <1>4, <1>5, <1>6, <1>7

\* The searches of one room.
Ways == Seq(Units) \ {<<>>}
Founds == SUBSET Seq(Units)
Searches == [Ways \X Founds -> Founds]

LEMMA VisitIsTyped ==
    ASSUME NEW deeper \in Searches, NEW path \in Ways, NEW found \in Founds, NEW v \in Units
    PROVE  VisitNode(deeper, path, found, v) \in Founds
<1>1. path \in Seq(Units) /\ Append(path, v) \in Seq(Units) /\ Append(path, v) # <<>>
  BY AppendProperties DEF Ways
<1>2. deeper[<<Append(path, v), found>>] \in Founds
  BY <1>1 DEF Searches, Ways
<1>3. found \cup {path} \in Founds
  BY <1>1 DEF Founds
<1> QED
  BY <1>2, <1>3 DEF VisitNode

Beyond(path) == {v \in ComponentOf(Head(path)) : Linked(Last(path), v)}

LEMMA BeyondInOrder ==
    ASSUME Parted, NEW path \in Ways, NEW next, next = ByName(Beyond(path))
    PROVE  /\ Len(next) \in Nat /\ \A j \in 1 .. Len(next) : next[j] \in Units /\ Linked(Last(path), next[j])
           /\ \A v \in Beyond(path) : \E j \in 1 .. Len(next) : next[j] = v
<1>1. path[1] \in Units /\ Head(path) = path[1]
  <2>1. path \in Seq(Units) /\ path # <<>>
    BY DEF Ways
  <2> QED
    BY <2>1
<1>2. Beyond(path) \subseteq Units /\ \A v \in Beyond(path) : Linked(Last(path), v)
  BY <1>1, PartedUnits DEF Beyond
<1> DEFINE S == Beyond(path)
<1>3. IsFiniteSet(S) /\ S \subseteq Int
  BY <1>2, PartedUnits, FS_Subset
<1>4. S \subseteq Units /\ \A v \in S : Linked(Last(path), v)
  BY <1>2
<1> HIDE DEF S
<1>5. next \in Seq(S) /\ \A v \in S : \E j \in 1 .. Len(next) : next[j] = v
  BY <1>3, NamesInOrder DEF S
<1>6. Len(next) \in Nat /\ \A j \in 1 .. Len(next) : next[j] \in S
  BY <1>5, LenProperties
<1> QED
  BY <1>4, <1>5, <1>6 DEF S

\* The loop over the neighbours, step by step.
Visiting(deeper, path, found, next, U) ==
    /\ U \in [0 .. Len(next) -> Founds] /\ U[0] = found
    /\ \A j \in 1 .. Len(next) : U[j] = VisitNode(deeper, path, U[j - 1], next[j])

LEMMA VisitsByNumbers ==
    ASSUME Parted, NEW deeper \in Searches, NEW path \in Ways, NEW found \in Founds,
           NEW next, next = ByName(Beyond(path))
    PROVE  \E U : /\ Visiting(deeper, path, found, next, U)
                  /\ VisitNext(deeper, path, found) = U[Len(next)]
<1> DEFINE N == Len(next)
           A == Founds
           Stepped(g) == g = [j \in 0 .. N |-> IF j = 0 THEN found
                                              ELSE VisitNode(deeper, path, g[j - 1], next[j])]
           U == CHOOSE g : Stepped(g)
<1>1. VisitNext(deeper, path, found) = U[N]
  BY DEF VisitNext, Beyond
<1>2. N \in Nat /\ \A j \in 1 .. N : next[j] \in Units
  BY BeyondInOrder
<1> HIDE DEF N
<1>3. \E f : Stepped(f)
  <2> DEFINE step == [q \in (1 .. N) \X A |-> VisitNode(deeper, path, q[2], next[q[1]])]
  <2>1. \A j \in 1 .. N : \A s \in A : VisitNode(deeper, path, s, next[j]) \in A
    BY <1>2, VisitIsTyped
  <2>2. found \in A
    OBVIOUS
  <2>3. /\ step \in [(1 .. N) \X A -> A]
        /\ \A j \in 1 .. N : \A s \in A : step[<<j, s>>] = VisitNode(deeper, path, s, next[j])
    BY <2>1
  <2> HIDE DEF step, A
  <2>a. PICK f : Recurring(f, A, found, N, step)
    BY <1>2, <2>2, <2>3, StepwiseExists DEF Mapping
  <2>4. f \in [0 .. N -> A] /\ f[0] = found /\ \A j \in 1 .. N : f[j] = step[<<j, f[j - 1]>>]
    BY <2>a DEF Recurring
  <2>5. ASSUME NEW j \in 0 .. N
        PROVE  f[j] = IF j = 0 THEN found ELSE VisitNode(deeper, path, f[j - 1], next[j])
    <3>1. CASE j = 0
      BY <2>4, <3>1
    <3>2. CASE j # 0
      <4>1. j \in 1 .. N /\ j - 1 \in 0 .. N
        BY <1>2, <3>2
      <4>2. f[j - 1] \in A
        BY <2>4, <4>1
      <4> QED
        BY <2>3, <2>4, <3>2, <4>1, <4>2
    <3> QED
      BY <3>1, <3>2
  <2>6. Stepped(f)
    BY <2>4, <2>5
  <2> QED
    BY <2>6
<1>4. Stepped(U)
  BY <1>3
<1> HIDE DEF U
<1>5. U[0] = found /\ \A j \in 1 .. N : U[j] = VisitNode(deeper, path, U[j - 1], next[j])
  <2>1. 0 \in 0 .. N /\ \A j \in 1 .. N : j \in 0 .. N /\ j # 0
    BY <1>2
  <2> QED
    BY <1>4, <2>1
<1>6. \A j \in 0 .. N : U[j] \in A
  <2> DEFINE P == {j \in Nat : j <= N => U[j] \in A}
  <2>1. 0 \in P
    BY <1>5
  <2>2. ASSUME NEW j \in Nat, j \in P
        PROVE  j + 1 \in P
    <3> SUFFICES ASSUME j + 1 <= N
                 PROVE  U[j + 1] \in A
      OBVIOUS
    <3>1. j + 1 \in 1 .. N /\ (j + 1) - 1 = j /\ j <= N
      BY <1>2
    <3>2. U[j] \in A
      BY <2>2, <3>1
    <3>3. U[j + 1] = VisitNode(deeper, path, U[j], next[j + 1])
      BY <1>5, <3>1
    <3> QED
      BY <1>2, <3>1, <3>2, <3>3, VisitIsTyped
  <2> HIDE DEF P
  <2>3. Nat \subseteq P
    BY <2>1, <2>2, NumbersByInduction
  <2> QED
    BY <1>2, <2>3 DEF P
<1>7. U \in [0 .. N -> A]
  BY <1>4, <1>6
<1>8. Visiting(deeper, path, found, next, U)
  BY <1>5, <1>7 DEF Visiting, N
<1> QED
  BY <1>1, <1>8 DEF N

\* The cycles by the first j neighbours.
ByFirst(path, next, j) == {p \in Round(path) : \E i \in 1 .. j : Turn(path, p) = next[i]}

\* A cycle goes on to a neighbour in the component of its first node.
LEMMA CyclesTurnBeyond ==
    ASSUME Parted, NEW path, OnTheWay(path), NEW p \in Round(path)
    PROVE  Turn(path, p) \in Beyond(path)
<1>1. PICK n \in Nat : n = Len(path)
  BY LenProperties DEF OnTheWay
<1>2. /\ path \in Seq(Units) /\ n >= 1 /\ Head(path) = path[1] /\ Last(path) = path[n]
      /\ 1 \in 1 .. n /\ n \in 1 .. n
  BY <1>1 DEF OnTheWay, Last
<1>3. IsCycle(p) /\ Begins(path, p)
  BY RoundIsCycles
<1>4. PICK m \in Nat : m = Len(p)
  BY <1>3, LenProperties DEF IsCycle, OnTheWay
<1>5. /\ n <= m /\ p[1] = path[1] /\ p[n] = path[n]
      /\ Turn(path, p) = IF m > n THEN p[n + 1] ELSE p[1]
  BY <1>1, <1>2, <1>3, <1>4 DEF Begins, Turn
<1>6. /\ \A i \in 1 .. m : p[i] \in ComponentOf(p[1])
      /\ \A i \in 1 .. m - 1 : Linked(p[i], p[i + 1])
      /\ Linked(p[m], p[1])
  BY <1>3, <1>4, CycleInComponent DEF IsCycle, OnTheWay
<1>7. CASE m > n
  <2>1. n \in 1 .. m - 1 /\ n + 1 \in 1 .. m
    BY <1>2, <1>7
  <2> QED
    BY <1>2, <1>5, <1>6, <1>7, <2>1 DEF Beyond
<1>8. CASE ~ (m > n)
  <2>1. m = n /\ 1 \in 1 .. m
    BY <1>2, <1>5, <1>8
  <2> QED
    BY <1>2, <1>5, <1>6, <1>8, <2>1 DEF Beyond
<1> QED
  BY <1>7, <1>8

LEMMA NextCollects ==
    ASSUME Parted, NEW path, OnTheWay(path), NEW found, Bag(found), NEW deeper \in Searches,
           Deep(deeper, Len(path) + 1)
    PROVE  Collected(Round(path), found, VisitNext(deeper, path, found))
<1>1. path \in Ways /\ found \in Founds
  BY DEF OnTheWay, Ways, Bag, Founds
<1>2. PICK next : next = ByName(Beyond(path))
  OBVIOUS
<1>3. PICK U : /\ Visiting(deeper, path, found, next, U)
               /\ VisitNext(deeper, path, found) = U[Len(next)]
  BY <1>1, <1>2, VisitsByNumbers
<1>4. PICK n \in Nat : n = Len(next)
  BY <1>1, <1>2, BeyondInOrder
<1>5. /\ \A j \in 1 .. n : next[j] \in Units /\ Linked(Last(path), next[j])
      /\ \A v \in Beyond(path) : \E j \in 1 .. n : next[j] = v
  BY <1>1, <1>2, <1>4, BeyondInOrder
<1>6. U[0] = found /\ \A j \in 1 .. n : U[j] = VisitNode(deeper, path, U[j - 1], next[j])
  BY <1>3, <1>4 DEF Visiting
<1> DEFINE P == {j \in Nat : j <= n => Collected(ByFirst(path, next, j), found, U[j])}
<1>7. 0 \in P
  <2>1. ByFirst(path, next, 0) = {}
    BY DEF ByFirst
  <2>2. Collected({}, found, found)
    BY DEF Collected
  <2> QED
    BY <1>6, <2>1, <2>2
<1>8. ASSUME NEW j \in Nat, j \in P
      PROVE  j + 1 \in P
  <2> SUFFICES ASSUME j + 1 <= n
               PROVE  Collected(ByFirst(path, next, j + 1), found, U[j + 1])
    OBVIOUS
  <2>1. j + 1 \in 1 .. n /\ (j + 1) - 1 = j /\ j <= n
    OBVIOUS
  <2>2. Collected(ByFirst(path, next, j), found, U[j])
    BY <1>8, <2>1
  <2>3. PICK v \in Units : v = next[j + 1] /\ Linked(Last(path), v)
    BY <1>5, <2>1
  <2>4. U[j + 1] = VisitNode(deeper, path, U[j], v)
    BY <1>6, <2>1, <2>3
  <2>5. Bag(U[j])
    BY <2>2 DEF Collected
  <2>6. Collected(Turned(path, v), U[j], U[j + 1])
    BY <2>3, <2>4, <2>5, VisitCollects
  <2>7. \A p : p \in ByFirst(path, next, j + 1)
                  <=> p \in ByFirst(path, next, j) \/ p \in Turned(path, v)
    <3> TAKE p
    <3>1. (\E i \in 1 .. j + 1 : Turn(path, p) = next[i])
             <=> (\E i \in 1 .. j : Turn(path, p) = next[i]) \/ Turn(path, p) = v
      <4>1. \A i \in 1 .. j + 1 : i \in 1 .. j \/ i = j + 1
        OBVIOUS
      <4>2. j + 1 \in 1 .. j + 1 /\ \A i \in 1 .. j : i \in 1 .. j + 1
        OBVIOUS
      <4> QED
        BY <2>3, <4>1, <4>2
    <3> QED
      BY <3>1 DEF ByFirst, Turned
  <2> QED
    BY <2>2, <2>6, <2>7, CollectedInTurn
<1> HIDE DEF P
<1>9. n \in P
  BY <1>7, <1>8, NumbersByInduction
<1>10. Collected(ByFirst(path, next, n), found, U[n])
  BY <1>9 DEF P
<1>11. ByFirst(path, next, n) = Round(path)
  <2>1. \A p \in Round(path) : \E i \in 1 .. n : Turn(path, p) = next[i]
    BY <1>5, CyclesTurnBeyond
  <2> QED
    BY <2>1 DEF ByFirst
<1> QED
  BY <1>3, <1>4, <1>10, <1>11

\* The searches, one room after another.
Rooms(R) ==
    /\ \A room \in 0 .. MaxLength : R[room] \in Searches
    /\ \A room \in 1 .. MaxLength : \A path, found :
          path \in Ways /\ found \in Founds =>
             R[room][<<path, found>>] = VisitNext(R[room - 1], path, found)

LEMMA SearchesByRoom ==
    ASSUME Parted
    PROVE  Rooms(DfsCycles)
<1> DEFINE D == Ways \X Founds
           First == [q \in D |-> q[2]]
           Wider(g) == [q \in D |-> VisitNext(g, q[1], q[2])]
           Stepped(g) == g = [room \in 0 .. MaxLength |->
                                [q \in D |-> IF room = 0 THEN q[2] ELSE VisitNext(g[room - 1], q[1], q[2])]]
           R == CHOOSE g : Stepped(g)
<1>1. DfsCycles = R
  BY DEF DfsCycles, Ways, Founds
<1>2. MaxLength \in Nat
  BY BoundsAssumption
<1>3. First \in Searches
  BY DEF Searches
<1>4. ASSUME NEW g \in Searches
      PROVE  Wider(g) \in Searches
  <2>1. ASSUME NEW path \in Ways, NEW found \in Founds
        PROVE  VisitNext(g, path, found) \in Founds
    <3>1. PICK next : next = ByName(Beyond(path))
      OBVIOUS
    <3>2. PICK U : /\ Visiting(g, path, found, next, U)
                   /\ VisitNext(g, path, found) = U[Len(next)]
      BY <3>1, VisitsByNumbers
    <3>3. Len(next) \in Nat
      BY <3>1, BeyondInOrder
    <3> QED
      BY <3>2, <3>3 DEF Visiting
  <2>2. \A q \in D : VisitNext(g, q[1], q[2]) \in Founds
    BY <2>1
  <2> QED
    BY <2>2 DEF Searches
<1> HIDE DEF First
<1>5. \E f : Stepped(f)
  <2> DEFINE step == [q \in (1 .. MaxLength) \X Searches |-> Wider(q[2])]
  <2>1. \A s \in Searches : Wider(s) \in Searches
    BY <1>4
  <2> HIDE DEF Wider
  <2>2. /\ step \in [(1 .. MaxLength) \X Searches -> Searches]
        /\ \A k \in 1 .. MaxLength : \A s \in Searches : step[<<k, s>>] = Wider(s)
    BY <2>1
  <2> HIDE DEF step
  <2>3. PICK f : Recurring(f, Searches, First, MaxLength, step)
    BY <1>2, <1>3, <2>2, StepwiseExists DEF Mapping
  <2>4. /\ f \in [0 .. MaxLength -> Searches] /\ f[0] = First
        /\ \A k \in 1 .. MaxLength : f[k] = step[<<k, f[k - 1]>>]
    BY <2>3 DEF Recurring
  <2>5. ASSUME NEW room \in 0 .. MaxLength
        PROVE  f[room] = [q \in D |-> IF room = 0 THEN q[2] ELSE VisitNext(f[room - 1], q[1], q[2])]
    <3>1. CASE room = 0
      BY <2>4, <3>1 DEF First
    <3>2. CASE room # 0
      <4>1. room \in 1 .. MaxLength /\ room - 1 \in 0 .. MaxLength
        BY <1>2, <3>2
      <4>2. f[room - 1] \in Searches
        BY <2>4, <4>1
      <4>3. f[room] = Wider(f[room - 1])
        BY <2>2, <2>4, <4>1, <4>2
      <4> QED
        BY <3>2, <4>3 DEF Wider
    <3> QED
      BY <3>1, <3>2
  <2>6. Stepped(f)
    BY <2>4, <2>5
  <2> QED
    BY <2>6
<1>6. Stepped(R)
  BY <1>5
<1> HIDE DEF R
<1>7. R[0] = First
  BY <1>2, <1>6 DEF First
<1>8. \A room \in 1 .. MaxLength : R[room] = Wider(R[room - 1])
  <2> TAKE room \in 1 .. MaxLength
  <2>1. room \in 0 .. MaxLength /\ room # 0
    BY <1>2
  <2>2. R[room] = [q \in D |-> IF room = 0 THEN q[2] ELSE VisitNext(R[room - 1], q[1], q[2])]
    BY <1>6, <2>1
  <2> QED
    BY <2>1, <2>2
<1> HIDE DEF Stepped
<1>9. \A room \in 0 .. MaxLength : R[room] \in Searches
  <2> DEFINE P == {k \in Nat : k <= MaxLength => R[k] \in Searches}
  <2>1. 0 \in P
    BY <1>3, <1>7
  <2>2. ASSUME NEW k \in Nat, k \in P
        PROVE  k + 1 \in P
    <3> SUFFICES ASSUME k + 1 <= MaxLength
                 PROVE  R[k + 1] \in Searches
      OBVIOUS
    <3>1. k + 1 \in 1 .. MaxLength /\ (k + 1) - 1 = k /\ k <= MaxLength
      BY <1>2
    <3>2. R[k] \in Searches
      BY <2>2, <3>1
    <3>3. R[k + 1] = Wider(R[k])
      BY <1>8, <3>1
    <3> HIDE DEF Wider
    <3> QED
      BY <1>4, <3>2, <3>3
  <2> HIDE DEF P
  <2>3. Nat \subseteq P
    BY <2>1, <2>2, NumbersByInduction
  <2> QED
    BY <1>2, <2>3 DEF P
<1>10. \A room \in 1 .. MaxLength : \A path, found :
          path \in Ways /\ found \in Founds =>
             R[room][<<path, found>>] = VisitNext(R[room - 1], path, found)
  BY <1>8
<1> QED
  BY <1>1, <1>9, <1>10 DEF Rooms

LEMMA CyclesFromCollects ==
    ASSUME Parted, NEW u \in Units
    PROVE  Collected({p \in SimpleCycles : p[1] = u}, {}, CyclesFrom(u))
<1>1. MaxLength \in Nat /\ MaxLength >= 1 /\ MaxCycles \in Nat
  BY BoundsAssumption
<1>2. PICK R : R = DfsCycles /\ Rooms(R)
  BY SearchesByRoom
<1> DEFINE P == {k \in Nat : k <= MaxLength => Deep(R[k], MaxLength + 1 - k)}
<1>3. 0 \in P
  <2>1. \A q : ~ (OnTheWay(q) /\ Len(q) = MaxLength + 1)
    BY <1>1 DEF OnTheWay
  <2>2. MaxLength + 1 - 0 = MaxLength + 1
    BY <1>1
  <2> QED
    BY <2>1, <2>2 DEF Deep
<1>4. ASSUME NEW k \in Nat, k \in P
      PROVE  k + 1 \in P
  <2> SUFFICES ASSUME k + 1 <= MaxLength
               PROVE  Deep(R[k + 1], MaxLength + 1 - (k + 1))
    OBVIOUS
  <2>1. k <= MaxLength /\ k \in 0 .. MaxLength /\ k + 1 \in 1 .. MaxLength /\ (k + 1) - 1 = k
    BY <1>1
  <2>2. Deep(R[k], MaxLength + 1 - k) /\ R[k] \in Searches
    BY <1>2, <1>4, <2>1 DEF Rooms
  <2>3. ASSUME NEW q, NEW s, OnTheWay(q), Len(q) = MaxLength + 1 - (k + 1), Bag(s)
        PROVE  Collected(Round(q), s, R[k + 1][<<q, s>>])
    <3>1. q \in Ways /\ s \in Founds
      BY <2>3 DEF OnTheWay, Ways, Bag, Founds
    <3>2. R[k + 1][<<q, s>>] = VisitNext(R[k], q, s)
      BY <1>2, <2>1, <3>1 DEF Rooms
    <3>3. Len(q) + 1 = MaxLength + 1 - k
      BY <1>1, <2>3
    <3> QED
      BY <2>2, <2>3, <3>2, <3>3, NextCollects
  <2> QED
    BY <2>3 DEF Deep
<1> HIDE DEF P
<1>5. MaxLength \in P
  BY <1>1, <1>3, <1>4, NumbersByInduction
<1>6. Deep(R[MaxLength], 1)
  <2>1. MaxLength + 1 - MaxLength = 1
    BY <1>1
  <2> QED
    BY <1>1, <1>5, <2>1 DEF P
<1>7. PICK q : q = <<u>>
  OBVIOUS
<1>8. q \in Seq(Units) /\ Len(q) = 1 /\ q[1] = u
  BY <1>7
<1>9. OnTheWay(q)
  BY <1>1, <1>8 DEF OnTheWay, Injective
<1>10. Bag({})
  BY <1>1, FS_EmptySet DEF Bag
<1>11. Collected(Round(q), {}, R[MaxLength][<<q, {}>>])
  BY <1>6, <1>8, <1>9, <1>10 DEF Deep
<1>12. Round(q) = {p \in SimpleCycles : p[1] = u}
  <2>1. ASSUME NEW p \in SimpleCycles
        PROVE  Begins(q, p) <=> p[1] = u
    <3>1. IsCycle(p)
      BY PartedUnits, CyclesAreSimple
    <3>2. Len(p) \in Nat /\ Len(p) >= 2
      BY <3>1, LenProperties DEF IsCycle, OnTheWay
    <3> QED
      BY <1>8, <3>2 DEF Begins
  <2> QED
    BY <2>1 DEF Round
<1> QED
  BY <1>2, <1>7, <1>11, <1>12 DEF CyclesFrom

\* No two cycles have one key.
LEMMA PathKeysDiffer ==
    ASSUME Parted
    PROVE  \A p \in SimpleCycles : \A q \in SimpleCycles : PathKey(p) = PathKey(q) => p = q
<1>1. PICK n \in Nat : n = Cardinality(Units)
  BY PartedUnits, FS_CardinalityType
<1>2. ASSUME NEW p \in SimpleCycles
      PROVE  /\ p \in Seq(Units) /\ Len(p) \in Nat /\ Len(p) <= n
             /\ \A i \in 1 .. Len(p) : p[i] \in Nat /\ p[i] # 0
             /\ \A i \in 1 .. n : PathKey(p)[i] = IF i <= Len(p) THEN p[i] ELSE 0
  <2>1. p \in Seq(Units) /\ Injective(p)
    BY PartedUnits, CyclesAreSimple DEF IsCycle, OnTheWay
  <2>2. Len(p) \in Nat /\ \A i \in 1 .. Len(p) : p[i] \in Units
    BY <2>1, LenProperties
  <2>3. Len(p) = Cardinality(ToSet(p))
    BY <2>1, InjectiveCounts
  <2>4. ToSet(p) \subseteq Units
    BY <2>1, <2>2, LenProperties DEF ToSet
  <2>5. Cardinality(ToSet(p)) <= n
    BY <1>1, <2>4, PartedUnits, FS_Subset
  <2>6. \A i \in 1 .. Len(p) : p[i] \in Nat /\ p[i] # 0
    BY <2>2, PartedUnits
  <2>7. PathKey(p) = [i \in 1 .. n |-> IF i <= Len(p) THEN p[i] ELSE 0]
    BY <1>1 DEF PathKey
  <2>8. \A i \in 1 .. n : PathKey(p)[i] = IF i <= Len(p) THEN p[i] ELSE 0
    BY <2>7
  <2> QED
    BY <2>1, <2>2, <2>3, <2>5, <2>6, <2>8
<1>3. ASSUME NEW p \in SimpleCycles, NEW q \in SimpleCycles, PathKey(p) = PathKey(q)
      PROVE  ~ (Len(p) < Len(q))
  <2> SUFFICES ASSUME Len(p) < Len(q)
               PROVE  FALSE
    OBVIOUS
  <2>1. PICK i \in Nat : i = Len(p) + 1
    BY <1>2
  <2>2. /\ Len(p) \in Nat /\ Len(q) \in Nat /\ Len(q) <= n
    BY <1>2
  <2>3. i \in 1 .. n /\ i \in 1 .. Len(q) /\ ~ (i <= Len(p)) /\ i <= Len(q)
    BY <2>1, <2>2
  <2>4. PathKey(p)[i] = 0
    BY <1>2, <2>3
  <2>5. PathKey(q)[i] = q[i] /\ q[i] # 0
    BY <1>2, <2>3
  <2> QED
    BY <1>3, <2>4, <2>5
<1>4. ASSUME NEW p \in SimpleCycles, NEW q \in SimpleCycles, PathKey(p) = PathKey(q)
      PROVE  p = q
  <2>1. PICK m \in Nat : m = Len(p)
    BY <1>2
  <2>2. Len(q) = m /\ m <= n
    <3>1. ~ (Len(p) < Len(q)) /\ ~ (Len(q) < Len(p))
      BY <1>3, <1>4
    <3>2. Len(q) \in Nat /\ m <= n
      BY <1>2, <2>1
    <3> QED
      BY <2>1, <3>1, <3>2
  <2>3. \A i \in 1 .. m : p[i] = q[i]
    <3> TAKE i \in 1 .. m
    <3>1. i \in 1 .. n /\ i <= m
      BY <2>2
    <3>2. PathKey(p)[i] = p[i] /\ PathKey(q)[i] = q[i]
      BY <1>2, <2>1, <2>2, <3>1
    <3> QED
      BY <1>4, <3>2
  <2> QED
    BY <1>2, <2>1, <2>2, <2>3, SeqEqual
<1> QED
  BY <1>4

\* Those that are taken of the cycles from u.
LEMMA TakenFromThose ==
    ASSUME Parted, NEW S, \A p \in S : p \in SimpleCycles, IsFiniteSet(S), NEW most \in Nat,
           NEW r, r = ToSet(Limited(InOrder(S, PathKey), most))
    PROVE  /\ \A p \in r : p \in S
           /\ IsFiniteSet(r) /\ Cardinality(r) \in Nat /\ Cardinality(r) <= most
           /\ Cardinality(r) = most \/ \A p \in S : p \in r
<1> DEFINE key == [p \in S |-> PathKey(p)]
<1>1. PICK n \in Nat : n = Cardinality(Units)
  BY PartedUnits, FS_CardinalityType
<1>2. DOMAIN key = S /\ IsFiniteSet(DOMAIN key)
  OBVIOUS
<1>3. \A p \in S : key[p] = PathKey(p)
  OBVIOUS
<1>4. \A p \in S : PathKey(p) \in [1 .. n -> Int]
  <2> TAKE p \in S
  <2>1. PathKey(p) = [i \in 1 .. n |-> IF i <= Len(p) THEN p[i] ELSE 0]
    BY <1>1 DEF PathKey
  <2>2. p \in Seq(Units)
    BY PartedUnits, CyclesAreSimple DEF IsCycle, OnTheWay
  <2>3. Len(p) \in Nat /\ \A i \in 1 .. Len(p) : p[i] \in Units
    BY <2>2, LenProperties
  <2>4. \A i \in 1 .. n : (IF i <= Len(p) THEN p[i] ELSE 0) \in Int
    BY <2>3, PartedUnits
  <2> QED
    BY <2>1, <2>4
<1>5. InOrder(S, PathKey) = ByKeys(key)
  BY DEF InOrder
<1> HIDE DEF key
<1>6. \A p, q \in DOMAIN key : key[p] = key[q] => p = q
  BY <1>2, <1>3, PathKeysDiffer
<1>7. /\ ByKeys(key) \in Seq(DOMAIN key)
      /\ \A p \in DOMAIN key : \E i \in 1 .. Len(ByKeys(key)) : ByKeys(key)[i] = p
      /\ \A i, j \in 1 .. Len(ByKeys(key)) : ByKeys(key)[i] = ByKeys(key)[j] => i = j
  <2>1. \A p \in DOMAIN key : key[p] \in [1 .. n -> Int]
    BY <1>2, <1>3, <1>4
  <2> QED
    BY <1>2, <1>6, <2>1, SortedIsASequence
<1>8. PICK s : s = ByKeys(key)
  OBVIOUS
<1>9. s \in Seq(S) /\ Injective(s) /\ \A p \in S : Holds(s, p)
  BY <1>2, <1>7, <1>8 DEF Injective, Holds
<1>10. PICK t : t = Limited(s, most)
  OBVIOUS
<1>11. /\ t \in Seq(S) /\ Injective(t) /\ Len(t) <= most
       /\ Len(t) = most \/ \A p : Holds(s, p) => Holds(t, p)
  BY <1>9, <1>10, CutHolds
<1>12. Len(t) = Cardinality(ToSet(t)) /\ Len(t) \in Nat /\ \A p : p \in ToSet(t) <=> Holds(t, p)
  BY <1>11, InjectiveCounts
<1>13. r = ToSet(t)
  BY <1>5, <1>8, <1>10
<1>14. \A p \in r : p \in S
  <2>1. \A i \in 1 .. Len(t) : t[i] \in S
    BY <1>11, LenProperties
  <2> QED
    BY <1>12, <1>13, <2>1 DEF Holds
<1>15. IsFiniteSet(r)
  BY <1>14, FS_Subset
<1> QED
  BY <1>9, <1>11, <1>12, <1>13, <1>14, <1>15

-----------------------------------------------------------------------------
(* The starts of the search.                                               *)

\* The components in the order of the code.
LEMMA ComponentsInOrder ==
    ASSUME Searching(weight, tarjan), {} \notin tarjan.components
    PROVE  /\ Components \in Seq(tarjan.components)
           /\ \A i, j \in 1 .. Len(Components) : Components[i] = Components[j] => i = j
           /\ \A c \in tarjan.components : Holds(Components, c)
<1> DEFINE C == tarjan.components
           key == [c \in C |-> <<Cardinality(Units) - Cardinality(c), Smallest(c)>>]
<1>1. Units = UnitsOf(weight) /\ Units \subseteq Nat /\ IsFiniteSet(Units) /\ C \subseteq SUBSET Units
  BY UnitsAreUnits DEF Searching, Typed
<1>2. \A c \in C : c \subseteq Nat /\ c # {} /\ Smallest(c) \in c
  <2> TAKE c \in C
  <2>1. c \subseteq Nat /\ c # {}
    BY <1>1
  <2> QED
    BY <2>1, NextIsLeast DEF Smallest
<1>3. \A c, d \in C : Smallest(c) = Smallest(d) => c = d
  <2> TAKE c, d \in C
  <2> SUFFICES ASSUME Smallest(c) = Smallest(d)
               PROVE  c = d
    OBVIOUS
  <2> DEFINE u == Smallest(c)
             class == {v \in UnitsOf(weight) : Reach(weight, u, v) /\ Reach(weight, v, u)}
  <2>1. u \in c /\ u \in d
    BY <1>2
  <2>2. c = class /\ d = class
    BY <2>1 DEF Searching, Strong
  <2> QED
    BY <2>2
<1>4. IsFiniteSet(C)
  BY <1>1, FS_SUBSET, FS_Subset
<1>5. \A c \in C : Cardinality(Units) - Cardinality(c) \in Int /\ Smallest(c) \in Int
  <2> TAKE c \in C
  <2>1. IsFiniteSet(c)
    BY <1>1, FS_Subset
  <2>2. Cardinality(Units) \in Nat /\ Cardinality(c) \in Nat
    BY <1>1, <2>1, FS_CardinalityType
  <2>3. Smallest(c) \in Nat
    BY <1>2
  <2> QED
    BY <2>2, <2>3
<1>6. /\ DOMAIN key = C /\ 2 \in Nat
      /\ \A c \in C : key[c] \in [1 .. 2 -> Int]
      /\ \A c, d \in C : key[c] = key[d] => c = d
  BY <1>3, <1>5
<1>7. Components = ByKeys(key)
  BY DEF Components, InOrder
<1> HIDE DEF key, C
<1>8. /\ ByKeys(key) \in Seq(C)
      /\ \A c \in C : \E i \in 1 .. Len(ByKeys(key)) : ByKeys(key)[i] = c
      /\ \A i, j \in 1 .. Len(ByKeys(key)) : ByKeys(key)[i] = ByKeys(key)[j] => i = j
  BY <1>4, <1>6, SortedIsASequence
<1> QED
  BY <1>7, <1>8 DEF C, Holds

\* No unit is in two components.
LEMMA ComponentsAreDisjoint ==
    ASSUME Searching(weight, tarjan), NEW c \in tarjan.components, NEW d \in tarjan.components,
           NEW u, u \in c, u \in d
    PROVE  c = d
<1> DEFINE class == {v \in UnitsOf(weight) : Reach(weight, u, v) /\ Reach(weight, v, u)}
<1>1. c = class /\ d = class
  BY DEF Searching, Strong
<1> QED
  BY <1>1

\* The loop over the components, step by step.
Starting(sorted, U) ==
    /\ U \in [0 .. Len(sorted) -> Seq(Units)] /\ U[0] = <<>>
    /\ \A k \in 1 .. Len(sorted) :
          U[k] = IF Cardinality(sorted[k]) = 1 THEN U[k - 1] ELSE U[k - 1] \o ByName(sorted[k])

LEMMA StartsByNumbers ==
    ASSUME Searching(weight, tarjan), {} \notin tarjan.components, NEW sorted, sorted = Components
    PROVE  \E U : Starting(sorted, U) /\ CycleStarts = U[Len(sorted)]
<1> DEFINE N == Len(sorted)
           A == Seq(Units)
           next(k, s) == IF Cardinality(sorted[k]) = 1 THEN s ELSE s \o ByName(sorted[k])
           Stepped(g) == g = [k \in 0 .. N |->
                                IF k = 0 THEN <<>>
                                ELSE IF Cardinality(sorted[k]) = 1 THEN g[k - 1]
                                ELSE g[k - 1] \o ByName(sorted[k])]
           U == CHOOSE g : Stepped(g)
<1>1. CycleStarts = U[N]
  BY DEF CycleStarts
<1>2. Units = UnitsOf(weight) /\ Units \subseteq Nat /\ IsFiniteSet(Units)
      /\ tarjan.components \subseteq SUBSET Units
  BY UnitsAreUnits DEF Searching, Typed
<1>3. N \in Nat /\ \A k \in 1 .. N : sorted[k] \subseteq Units
  <2>1. sorted \in Seq(tarjan.components)
    BY ComponentsInOrder
  <2>2. N \in Nat /\ \A k \in 1 .. N : sorted[k] \in tarjan.components
    BY <2>1, LenProperties
  <2> QED
    BY <1>2, <2>2
<1>4. ASSUME NEW k \in 1 .. N
      PROVE  ByName(sorted[k]) \in Seq(Units)
  <2>1. PICK c : c = sorted[k]
    OBVIOUS
  <2>2. c \subseteq Units /\ c \subseteq Int /\ IsFiniteSet(c)
    BY <1>2, <1>3, <2>1, FS_Subset
  <2>3. ByName(c) \in Seq(c)
    BY <2>2, NamesInOrder
  <2>4. ByName(c) \in Seq(Units)
    BY <2>2, <2>3
  <2> QED
    BY <2>1, <2>4
<1>5. ASSUME NEW k \in 1 .. N, NEW s \in A
      PROVE  next(k, s) \in A
  <2> HIDE DEF N
  <2>1. s \o ByName(sorted[k]) \in Seq(Units)
    BY <1>4, ConcatProperties
  <2> QED
    BY <2>1
<1> HIDE DEF N
<1>6. \E f : Stepped(f)
  <2> DEFINE step == [q \in (1 .. N) \X A |-> next(q[1], q[2])]
  <2>1. <<>> \in A
    OBVIOUS
  <2> HIDE DEF A
  <2>2. \A k \in 1 .. N : \A s \in A : next(k, s) \in A
    BY <1>5
  <2> HIDE DEF next
  <2>3. /\ step \in [(1 .. N) \X A -> A]
        /\ \A k \in 1 .. N : \A s \in A : step[<<k, s>>] = next(k, s)
    BY <2>2
  <2> HIDE DEF step
  <2>4. PICK f : Recurring(f, A, <<>>, N, step)
    BY <1>3, <2>1, <2>3, StepwiseExists DEF Mapping
  <2>5. f \in [0 .. N -> A] /\ f[0] = <<>> /\ \A k \in 1 .. N : f[k] = step[<<k, f[k - 1]>>]
    BY <2>4 DEF Recurring
  <2>6. ASSUME NEW k \in 0 .. N
        PROVE  f[k] = IF k = 0 THEN <<>>
                      ELSE IF Cardinality(sorted[k]) = 1 THEN f[k - 1]
                      ELSE f[k - 1] \o ByName(sorted[k])
    <3>1. CASE k = 0
      BY <2>5, <3>1
    <3>2. CASE k # 0
      <4>1. k \in 1 .. N /\ k - 1 \in 0 .. N
        BY <1>3, <3>2
      <4>2. f[k - 1] \in A
        BY <2>5, <4>1
      <4>3. f[k] = next(k, f[k - 1])
        BY <2>3, <2>5, <4>1, <4>2
      <4> QED
        BY <3>2, <4>3 DEF next
    <3> QED
      BY <3>1, <3>2
  <2>7. Stepped(f)
    BY <2>5, <2>6
  <2> QED
    BY <2>7
<1>7. Stepped(U)
  BY <1>6
<1> HIDE DEF U
<1>8. U[0] = <<>> /\ \A k \in 1 .. N : U[k] = next(k, U[k - 1])
  <2>1. 0 \in 0 .. N /\ \A k \in 1 .. N : k \in 0 .. N /\ k # 0
    BY <1>3
  <2> QED
    BY <1>7, <2>1
<1>9. \A k \in 0 .. N : U[k] \in A
  <2> DEFINE P == {k \in Nat : k <= N => U[k] \in A}
  <2>1. 0 \in P
    <3>1. <<>> \in Seq(Units)
      OBVIOUS
    <3> QED
      BY <1>8, <3>1
  <2>2. ASSUME NEW k \in Nat, k \in P
        PROVE  k + 1 \in P
    <3> SUFFICES ASSUME k + 1 <= N
                 PROVE  U[k + 1] \in A
      OBVIOUS
    <3>1. k + 1 \in 1 .. N /\ (k + 1) - 1 = k /\ k <= N
      BY <1>3
    <3>2. U[k] \in A
      BY <2>2, <3>1
    <3> HIDE DEF next, A
    <3>3. U[k + 1] = next(k + 1, U[k])
      BY <1>8, <3>1
    <3> QED
      BY <1>5, <3>1, <3>2, <3>3
  <2> HIDE DEF P
  <2>3. Nat \subseteq P
    BY <2>1, <2>2, NumbersByInduction
  <2> QED
    BY <1>3, <2>3 DEF P
<1>10. U \in [0 .. N -> A]
  BY <1>7, <1>9
<1>11. Starting(sorted, U)
  BY <1>8, <1>10 DEF Starting, N
<1> QED
  BY <1>1, <1>11 DEF N

\* The search starts once from each unit of a component of several.
LEMMA CycleStartsAreUnits ==
    ASSUME Searching(weight, tarjan), {} \notin tarjan.components
    PROVE  /\ CycleStarts \in Seq(Units) /\ Injective(CycleStarts)
           /\ \A c \in tarjan.components : Cardinality(c) # 1 => \A u \in c : Holds(CycleStarts, u)
<1>1. PICK sorted : sorted = Components
  OBVIOUS
<1>2. PICK U : Starting(sorted, U) /\ CycleStarts = U[Len(sorted)]
  BY <1>1, StartsByNumbers
<1>3. PICK N \in Nat : N = Len(sorted)
  BY <1>1, ComponentsInOrder, LenProperties
<1>4. /\ \A k \in 1 .. N : sorted[k] \in tarjan.components
      /\ \A i, j \in 1 .. N : sorted[i] = sorted[j] => i = j
      /\ \A c \in tarjan.components : \E i \in 1 .. N : sorted[i] = c
  BY <1>1, <1>3, ComponentsInOrder, LenProperties DEF Holds
<1>5. /\ \A k \in 0 .. N : U[k] \in Seq(Units)
      /\ U[0] = <<>>
      /\ \A k \in 1 .. N :
            U[k] = IF Cardinality(sorted[k]) = 1 THEN U[k - 1] ELSE U[k - 1] \o ByName(sorted[k])
  BY <1>2, <1>3 DEF Starting
<1>6. Units \subseteq Int /\ IsFiniteSet(Units) /\ \A c \in tarjan.components : c \subseteq Units
  BY UnitsAreUnits DEF Searching, Typed
<1> DEFINE Upto(k, x) == \E i \in 1 .. k : Cardinality(sorted[i]) # 1 /\ x \in sorted[i]
           P == {k \in Nat : k <= N => Injective(U[k]) /\ \A x : Holds(U[k], x) <=> Upto(k, x)}
<1>7. 0 \in P
  <2>1. Len(U[0]) = 0
    BY <1>5
  <2>2. Injective(U[0]) /\ \A x : ~ Holds(U[0], x)
    BY <2>1 DEF Injective, Holds
  <2>3. \A x : ~ Upto(0, x)
    OBVIOUS
  <2> QED
    BY <2>2, <2>3
<1>8. ASSUME NEW k \in Nat, k \in P
      PROVE  k + 1 \in P
  <2> SUFFICES ASSUME k + 1 <= N
               PROVE  Injective(U[k + 1]) /\ \A x : Holds(U[k + 1], x) <=> Upto(k + 1, x)
    OBVIOUS
  <2>1. k + 1 \in 1 .. N /\ (k + 1) - 1 = k /\ k <= N /\ k \in 0 .. N
    BY <1>3
  <2>2. Injective(U[k]) /\ \A x : Holds(U[k], x) <=> Upto(k, x)
    BY <1>8, <2>1
  <2>3. PICK c \in tarjan.components : c = sorted[k + 1]
    BY <1>4, <2>1
  <2>4. U[k + 1] = IF Cardinality(c) = 1 THEN U[k] ELSE U[k] \o ByName(c)
    BY <1>5, <2>1, <2>3
  <2>5. \A x : Upto(k + 1, x) <=> Upto(k, x) \/ (Cardinality(c) # 1 /\ x \in c)
    <3>1. \A i \in 1 .. k + 1 : i \in 1 .. k \/ i = k + 1
      OBVIOUS
    <3>2. k + 1 \in 1 .. k + 1 /\ \A i \in 1 .. k : i \in 1 .. k + 1
      OBVIOUS
    <3> QED
      BY <2>3, <3>1, <3>2
  <2>6. \A x : ~ (Upto(k, x) /\ x \in c)
    <3> SUFFICES ASSUME NEW i \in 1 .. k, NEW x \in sorted[i], x \in c
                 PROVE  FALSE
      OBVIOUS
    <3>1. i \in 1 .. N /\ i # k + 1
      BY <2>1
    <3>2. sorted[i] \in tarjan.components
      BY <1>4, <3>1
    <3>3. sorted[i] = c
      BY <3>2, ComponentsAreDisjoint
    <3> QED
      BY <1>4, <2>1, <2>3, <3>1, <3>3
  <2> HIDE DEF Upto, P
  <2>7. CASE Cardinality(c) = 1
    <3>1. U[k + 1] = U[k]
      BY <2>4, <2>7
    <3>2. \A x : Upto(k + 1, x) <=> Upto(k, x)
      BY <2>5, <2>7
    <3> QED
      BY <2>2, <3>1, <3>2
  <2>8. CASE Cardinality(c) # 1
    <3>1. PICK s : s = ByName(c)
      OBVIOUS
    <3>2. c \subseteq Int /\ IsFiniteSet(c) /\ c \subseteq Units
      BY <1>6, FS_Subset
    <3>3. /\ s \in Seq(c) /\ \A x \in c : \E i \in 1 .. Len(s) : s[i] = x
          /\ \A i, j \in 1 .. Len(s) : i < j => s[i] < s[j]
      BY <3>1, <3>2, NamesInOrder
    <3>4. PICK n \in Nat : n = Len(s)
      BY <3>3, LenProperties
    <3>s. s \in Seq(c)
      BY <3>3
    <3>t. \A i \in 1 .. n : s[i] \in c
      BY <3>s, <3>4, LenProperties
    <3>5. \A i \in 1 .. n : s[i] \in c /\ s[i] \in Int
      BY <3>t, <3>2
    <3>6. \A x : Holds(s, x) <=> x \in c
      BY <3>3, <3>4, <3>5 DEF Holds
    <3>7. Injective(s)
      <4>1. ASSUME NEW i \in 1 .. n, NEW j \in 1 .. n, s[i] = s[j]
            PROVE  i = j
        <5>1. ~ (i < j) /\ ~ (j < i)
          BY <3>3, <3>4, <3>5, <4>1
        <5> QED
          BY <5>1
      <4> QED
        BY <3>4, <4>1 DEF Injective
    <3>8. s \in Seq(Units)
      <4>1. c \subseteq Units
        BY <1>6
      <4> QED
        BY <3>s, <4>1
    <3>9. Joined(U[k], s, U[k + 1])
      <4>1. U[k] \in Seq(Units) /\ U[k + 1] = U[k] \o s
        BY <1>5, <2>1, <2>4, <2>8, <3>1
      <4> QED
        BY <3>8, <4>1, Appended
    <3>10. \A x : Holds(U[k + 1], x) <=> Holds(U[k], x) \/ Holds(s, x)
      BY <3>9, JoinedHolds
    <3>11. \A x : ~ (Holds(U[k], x) /\ Holds(s, x))
      BY <2>2, <2>6, <3>6
    <3>12. Injective(U[k + 1])
      BY <2>2, <3>7, <3>9, <3>11, JoinedHolds
    <3>13. \A x : Upto(k + 1, x) <=> Upto(k, x) \/ x \in c
      BY <2>5, <2>8
    <3>14. \A x : Holds(U[k + 1], x) <=> Upto(k + 1, x)
      BY <2>2, <3>6, <3>10, <3>13
    <3> QED
      BY <3>12, <3>14
  <2> QED
    BY <2>7, <2>8
<1> HIDE DEF P, Upto
<1>9. N \in P
  BY <1>7, <1>8, NumbersByInduction
<1>10. Injective(U[N]) /\ \A x : Holds(U[N], x) <=> Upto(N, x)
  BY <1>9 DEF P
<1>11. N \in 0 .. N
  BY <1>3
<1>12. \A c \in tarjan.components : Cardinality(c) # 1 => \A u \in c : Upto(N, u)
  BY <1>4 DEF Upto
<1> QED
  BY <1>2, <1>3, <1>5, <1>10, <1>11, <1>12

-----------------------------------------------------------------------------
(* What the state of an analysis holds.                                    *)

LEMMA VotesAreBounded ==
    ASSUME IsFiniteSet(Units), \A u, v \in Units : Tie(u, v) \in Nat, NEW u \in Units
    PROVE  \E n \in Nat : \A label : Votes(u, label) \in 0 .. n
<1> DEFINE cast == [v \in Units |-> {v} \X (1 .. Tie(u, v))]
           all == UNION {cast[v] : v \in Units}
<1>1. ASSUME NEW v \in Units
      PROVE  IsFiniteSet({v} \X (1 .. Tie(u, v)))
  <2>1. PICK t \in Nat : t = Tie(u, v)
    OBVIOUS
  <2>2. IsFiniteSet(1 .. t)
    BY FS_Interval
  <2>3. IsFiniteSet({v})
    BY FS_Singleton
  <2> QED
    BY <2>1, <2>2, <2>3, FS_Product
<1>2. IsFiniteSet(all)
  <2> DEFINE T == {cast[v] : v \in Units}
  <2>1. cast = [v \in Units |-> cast[v]] /\ \A v \in Units : IsFiniteSet(cast[v])
    BY <1>1
  <2> HIDE DEF cast
  <2>2. IsFiniteSet(T)
    BY <2>1, FiniteImage
  <2>3. \A t \in T : IsFiniteSet(t)
    BY <2>1
  <2> HIDE DEF T
  <2>4. IsFiniteSet(UNION T)
    BY <2>2, <2>3, FS_UNION
  <2> QED
    BY <2>4 DEF T
<1>3. PICK c \in Nat : c = Cardinality(all)
  BY <1>2, FS_CardinalityType
<1>4. ASSUME NEW label
      PROVE  Votes(u, label) \in 0 .. c + 1
  <2> DEFINE S == {v \in Units : labels[v] = label}
             some == UNION {{v} \X (1 .. Tie(u, v)) : v \in S}
  <2>1. some \subseteq all
    <3>1. \A v \in S : v \in Units /\ {v} \X (1 .. Tie(u, v)) = cast[v]
      OBVIOUS
    <3> HIDE DEF cast, S
    <3> QED
      BY <3>1
  <2> HIDE DEF some, all
  <2>2. Cardinality(some) \in Nat /\ Cardinality(some) <= c
    BY <1>2, <1>3, <2>1, FS_Subset, FS_CardinalityType
  <2>3. Votes(u, label) = Cardinality(some) + (IF labels[u] = label THEN 1 ELSE 0)
    BY DEF Votes, some
  <2> QED
    BY <1>3, <2>2, <2>3
<1> QED
  BY <1>3, <1>4

\* What a round gives is the label of some unit.
LEMMA ElectedIsAUnit ==
    ASSUME IsFiniteSet(Units), Units \subseteq Nat, \A u, v \in Units : Tie(u, v) \in Nat,
           \A u \in Units : labels[u] \in Units, NEW u \in Units
    PROVE  Elected(u) \in Units
<1> DEFINE heard == {labels[v] : v \in {v \in Units : Tie(u, v) > 0}} \cup {labels[u]}
           most == {l \in heard : \A k \in heard : Votes(u, k) <= Votes(u, l)}
           numbers == {Votes(u, l) : l \in heard}
<1>1. heard \subseteq Units /\ labels[u] \in heard
  OBVIOUS
<1>2. PICK n \in Nat : \A label : Votes(u, label) \in 0 .. n
  BY VotesAreBounded
<1>3. Elected(u) \in {labels[u], NextUnit(most)}
  BY DEF Elected
<1> HIDE DEF heard
<1>4. numbers \subseteq 0 .. n /\ numbers # {}
  BY <1>1, <1>2
<1>5. PICK m \in numbers : \A y \in numbers : y <= m
  <2> HIDE DEF numbers
  <2> QED
    BY <1>4, GreatestNumber
<1>6. PICK l \in heard : m = Votes(u, l)
  BY <1>5
<1>7. l \in most
  BY <1>5, <1>6
<1>8. most \subseteq Nat /\ most \subseteq Units
  BY <1>1
<1> HIDE DEF most
<1>9. NextUnit(most) \in most
  BY <1>7, <1>8, NextIsLeast
<1> QED
  BY <1>3, <1>8, <1>9

Weighed(W) == \A u, v \in UnitsOf(W) : W[<<u, v>>] \in Nat

LEMMA ProjectionCounts ==
    ASSUME NEW G, IsGraph(G), NEW level, NEW filter
    PROVE  Weighed(Projected(G, level, filter))
<1> DEFINE members == Members(G, level)
           unit == [n \in members |-> Unit(G, level, n)]
           units == {unit[n] : n \in members}
           counted == {e \in G.edges : Counts(e, filter) /\ {e.from, e.to} \subseteq members}
           W == [p \in units \X units |->
                   Cardinality({e \in counted : unit[e.from] = p[1] /\ unit[e.to] = p[2]})]
<1>1. Projected(G, level, filter) = W
  BY DEF Projected
<1>2. ASSUME NEW p \in units \X units
      PROVE  W[p] \in Nat
  <2> DEFINE some == {e \in counted : unit[e.from] = p[1] /\ unit[e.to] = p[2]}
  <2>1. some \subseteq G.edges /\ IsFiniteSet(G.edges)
    BY DEF IsGraph
  <2>2. W[p] = Cardinality(some)
    OBVIOUS
  <2> HIDE DEF some, W
  <2>3. IsFiniteSet(some)
    BY <2>1, FS_Subset
  <2> QED
    BY <2>2, <2>3, FS_CardinalityType
<1>3. DOMAIN W = units \X units
  OBVIOUS
<1> HIDE DEF W, units
<1>4. UnitsOf(W) \subseteq units
  BY <1>3 DEF UnitsOf
<1>5. \A u, v \in UnitsOf(W) : W[<<u, v>>] \in Nat
  BY <1>2, <1>4
<1> QED
  BY <1>1, <1>5 DEF Weighed

\* What besides the state of Tarjan's algorithm an analysis needs.
Shaped ==
    /\ stage \in {"idle", "project", "components", "cycles", "communities", "report", "done"}
    /\ \A u \in Units : labels[u] \in Units
    /\ Weighed(weight)
    /\ starts \in Seq(Units)
    /\ round \in 0 .. MaxRounds
    /\ {} \notin tarjan.components
    /\ stage = "project" => starts = <<>> /\ Units = {}

LEMMA IdleIsShaped ==
    ASSUME NEW G, NEW opts, NEW first, first \in {"project", "idle"}, Idle(G, opts, first)
    PROVE  Shaped
<1>1. /\ stage = first /\ weight = <<>> /\ starts = <<>> /\ round = 0
      /\ tarjan = [index |-> <<>>, low |-> <<>>, stack |-> <<>>, frames |-> <<>>, components |-> {}]
  BY DEF Idle
<1>2. Units = {} /\ UnitsOf(weight) = {}
  BY <1>1 DEF Units, UnitsOf
<1>3. Weighed(weight) /\ starts \in Seq(Units) /\ round \in 0 .. MaxRounds
  BY <1>1, <1>2, BoundsAssumption DEF Weighed
<1> QED
  BY <1>1, <1>2, <1>3 DEF Shaped

LEMMA ProjectShapes ==
    ASSUME Searched, Shaped, Project
    PROVE  Shaped'
<1>1. /\ stage = "project" /\ stage' = "components" /\ starts' = starts /\ round' = round
      /\ weight' = Projected(graph, options.level, options.filter)
      /\ labels' = [u \in UnitsOf(weight') |-> u]
      /\ tarjan'.components = {}
  BY DEF Project, UnitsOf
<1>2. Weighed(weight')
  BY <1>1, ProjectionCounts DEF Searched, Analysable
<1>3. Units' = UnitsOf(weight')
  BY DEF Units, UnitsOf
<1>4. \A u \in Units' : labels'[u] \in Units'
  BY <1>1, <1>3
<1>5. starts' = <<>> /\ starts' \in Seq(Units')
  BY <1>1 DEF Shaped
<1> QED
  BY <1>1, <1>2, <1>4, <1>5 DEF Shaped

\* Meeting a unit closes no component.
LEMMA EnteringClosesNone ==
    ASSUME NEW t, Fields(t), NEW u
    PROVE  Entered(t, u).components = t.components
BY DEF Entered, Fields

LEMMA SearchingShapes ==
    ASSUME Searched, Shaped, EnterRoot \/ FollowEdge \/ LeaveNode
    PROVE  Shaped'
<1>t. Fields(tarjan) /\ Searching(weight, tarjan) /\ Typed(weight, tarjan) /\ Stacked(weight, tarjan)
  BY DEF Searched, Search1, Searching, EnterRoot, FollowEdge, LeaveNode
<1>u. /\ stage = "components" /\ UNCHANGED <<stage, weight, starts, labels, round>>
      /\ Units' = Units
  BY DEF EnterRoot, FollowEdge, LeaveNode, Units
<1>1. CASE EnterRoot
  <2>1. tarjan'.components = tarjan.components
    BY <1>1, <1>t, EnteringClosesNone DEF EnterRoot
  <2> QED
    BY <2>1, <1>u DEF Shaped
<1>2. CASE FollowEdge
  <2> DEFINE v == NextUnit(Ahead)
             t1 == [tarjan EXCEPT !.frames[Len(tarjan.frames)].seen = v]
             u == Top.node
  <2>1. Fields(t1) /\ t1.components = tarjan.components
    BY <1>t DEF Fields
  <2>2. tarjan' = LookAt(t1, u, v)
    BY <1>2 DEF FollowEdge
  <2> HIDE DEF t1, u, v
  <2>3. [t1 EXCEPT !.low[u] = t1.index[v]].components = t1.components
    BY <2>1 DEF Fields
  <2>4. tarjan'.components = tarjan.components
    BY <2>1, <2>2, <2>3, EnteringClosesNone DEF LookAt
  <2> QED
    BY <2>4, <1>u DEF Shaped
<1>3. CASE LeaveNode
  <2> DEFINE n == Len(tarjan.frames)
             u == Top.node
             left == [tarjan EXCEPT !.frames = Front(tarjan.frames)]
             parent == IF left.frames = <<>> THEN u ELSE Last(left.frames).node
             told == IF left.low[u] < left.low[parent]
                     THEN [left EXCEPT !.low[parent] = left.low[u]] ELSE left
             at == CHOOSE i \in DOMAIN tarjan.stack : tarjan.stack[i] = u
             closed == ToSet(SubSeq(tarjan.stack, at, Len(tarjan.stack)))
  <2>1. tarjan' = IF told.low[u] = told.index[u] THEN Closed(told, u) ELSE told
    BY <1>3 DEF LeaveNode
  <2>2. Fields(left) /\ left.components = tarjan.components /\ left.stack = tarjan.stack
    BY <1>t DEF Fields
  <2> HIDE DEF left, parent
  <2>3. Fields(told) /\ told.components = tarjan.components /\ told.stack = tarjan.stack
    <3>1. CASE left.low[u] < left.low[parent]
      <4>1. told = [left EXCEPT !.low[parent] = left.low[u]]
        BY <3>1
      <4> HIDE DEF told
      <4> QED
        BY <4>1, <2>2 DEF Fields
    <3>2. CASE ~ (left.low[u] < left.low[parent])
      BY <3>2, <2>2
    <3> QED
      BY <3>1, <3>2
  <2> HIDE DEF told
  <2>4. n \in 1 .. n /\ u = NodeAt(tarjan, n)
    <3>1. tarjan.frames # <<>> /\ tarjan.frames \in Seq(Frame(weight))
      BY <1>3, <1>t DEF LeaveNode, Typed
    <3>2. n \in Nat /\ n # 0
      BY <3>1
    <3>3. Top = tarjan.frames[n]
      BY DEF Top, Last
    <3> HIDE DEF n
    <3> QED
      BY <3>2, <3>3 DEF NodeAt
  <2>5. u \in Open(tarjan) /\ tarjan.stack \in Seq(UnitsOf(weight))
    BY <1>t, <2>4, FramesAreOpen DEF Typed
  <2> HIDE DEF u, n
  <2>6. at \in DOMAIN tarjan.stack /\ at \in 1 .. Len(tarjan.stack) /\ Len(tarjan.stack) \in Nat
    <3>1. \E i \in DOMAIN tarjan.stack : tarjan.stack[i] = u
      BY <2>5 DEF Open, ToSet
    <3>2. at \in DOMAIN tarjan.stack
      BY <3>1
    <3> HIDE DEF at
    <3> QED
      BY <3>2, <2>5
  <2>7. closed # {}
    <3> DEFINE rest == SubSeq(tarjan.stack, at, Len(tarjan.stack))
    <3> HIDE DEF at
    <3>1. Len(rest) = Len(tarjan.stack) - at + 1 /\ rest \in Seq(UnitsOf(weight))
      BY <2>5, <2>6, SubSeqProperties
    <3> HIDE DEF rest
    <3>2. 1 \in DOMAIN rest
      BY <3>1, <2>6
    <3>3. rest[1] \in ToSet(rest)
      BY <3>2 DEF ToSet
    <3> QED
      BY <3>3 DEF rest
  <2>8. Closed(told, u).components = tarjan.components \cup {closed}
    <3>1. Closed(told, u) = [told EXCEPT !.stack = SubSeq(tarjan.stack, 1, at - 1),
                                         !.components = @ \cup {closed}]
      BY <2>3 DEF Closed
    <3> HIDE DEF closed, at
    <3> QED
      BY <3>1, <2>3 DEF Fields
  <2> HIDE DEF closed, at
  <2>9. {} \notin tarjan'.components
    BY <2>1, <2>3, <2>7, <2>8 DEF Shaped
  <2> QED
    BY <2>9, <1>u DEF Shaped
<1> QED
  BY <1>1, <1>2, <1>3

LEMMA AnalyseShapes ==
    ASSUME Searched, Shaped, Analyse
    PROVE  Shaped'
<1>1. CASE Project
  BY <1>1, ProjectShapes
<1>2. CASE EnterRoot \/ FollowEdge \/ LeaveNode
  BY <1>2, SearchingShapes
<1>3. CASE ComponentsDone
  <2>1. Searching(weight, tarjan)
    BY <1>3 DEF Searched, Search1, ComponentsDone
  <2>2. CycleStarts \in Seq(Units)
    BY <2>1, CycleStartsAreUnits DEF Shaped
  <2>3. /\ starts' = CycleStarts /\ stage' = "cycles" /\ Units' = Units
        /\ UNCHANGED <<weight, tarjan, labels, round>>
    BY <1>3 DEF ComponentsDone, Units
  <2> QED
    BY <2>2, <2>3 DEF Shaped
<1>4. CASE SearchCycles
  <2>1. /\ stage = "cycles" /\ starts # <<>> /\ starts' = Tail(starts) /\ Units' = Units
        /\ UNCHANGED <<stage, weight, tarjan, labels, round>>
    BY <1>4 DEF SearchCycles, Units
  <2>2. starts' \in Seq(Units)
    <3>1. starts \in Seq(Units)
      BY DEF Shaped
    <3> QED
      BY <2>1, <3>1
  <2> QED
    BY <2>1, <2>2 DEF Shaped
<1>5. CASE CyclesDone
  BY <1>5 DEF Shaped, CyclesDone, Units
<1>6. CASE PropagateLabels
  <2>1. /\ stage = "communities" /\ stage' \in {"report", "communities"} /\ round < MaxRounds
        /\ labels' = [u \in Units |-> Elected(u)] /\ round' = round + 1
        /\ UNCHANGED <<weight, tarjan, starts>> /\ Units' = Units
    BY <1>6 DEF PropagateLabels, Units
  <2>2. round' \in 0 .. MaxRounds
    BY <2>1, BoundsAssumption DEF Shaped
  <2>3. IsFiniteSet(Units) /\ Units \subseteq Nat
    BY <2>1, UnitsAreUnits DEF Searched, Search1, Searching, Typed
  <2>4. \A u, v \in Units : Tie(u, v) \in Nat
    <3> TAKE u, v \in Units
    <3>1. weight[<<u, v>>] \in Nat /\ weight[<<v, u>>] \in Nat
      BY UnitsAreUnits DEF Shaped, Weighed
    <3>2. Tie(u, v) = weight[<<u, v>>] + weight[<<v, u>>]
      BY DEF Tie
    <3> QED
      BY <3>1, <3>2
  <2>5. \A u \in Units : labels[u] \in Units
    BY DEF Shaped
  <2>6. \A u \in Units : Elected(u) \in Units
    BY <2>3, <2>4, <2>5, ElectedIsAUnit
  <2> QED
    BY <2>1, <2>2, <2>6 DEF Shaped
<1>7. CASE Report
  BY <1>7 DEF Shaped, Report, Units
<1> QED
  BY <1>1, <1>2, <1>3, <1>4, <1>5, <1>6, <1>7 DEF Analyse

-----------------------------------------------------------------------------
(* The search from all starts.                                             *)

\* Between two starts of the search: it has every cycle from the units before,
\* unless it stopped at the limit.
Between ==
    /\ Injective(starts)
    /\ IsFiniteSet(cycles) /\ Cardinality(cycles) \in Nat /\ Cardinality(cycles) <= MaxCycles
    /\ \A p \in cycles : p \in SimpleCycles /\ ~ Holds(starts, p[1])
    /\ Cardinality(cycles) = MaxCycles \/ \A p \in SimpleCycles : p \in cycles \/ Holds(starts, p[1])

Cycling ==
    /\ stage = "idle" => Units = {}
    /\ stage \in {"idle", "project", "components"} => cycles = {}
    /\ stage = "cycles" => Parted /\ Between
    /\ CyclesAreComplete

LEMMA NoUnitsNoCycles ==
    ASSUME Units = {}
    PROVE  SimpleCycles = {}
<1>1. \A p : ~ IsCycle(p)
  <2> SUFFICES ASSUME NEW p, IsCycle(p)
               PROVE  FALSE
    OBVIOUS
  <2>1. p \in Seq(Units) /\ Len(p) >= 2
    BY DEF IsCycle, OnTheWay
  <2>2. 1 \in 1 .. Len(p)
    BY <2>1
  <2>3. p[1] \in Units
    BY <2>1, <2>2, LenProperties
  <2> QED
    BY <2>3
<1> QED
  BY <1>1, CyclesAreSimple

LEMMA SameWeightSameCycles ==
    ASSUME weight' = weight
    PROVE  SimpleCycles' = SimpleCycles
BY DEF SimpleCycles, Units, Linked

LEMMA AllFoundIsComplete ==
    ASSUME Parted, IsFiniteSet(cycles), Cardinality(cycles) \in Nat, Cardinality(cycles) <= MaxCycles,
           \A p \in cycles : p \in SimpleCycles,
           Cardinality(cycles) = MaxCycles \/ \A p \in SimpleCycles : p \in cycles
    PROVE  /\ cycles \subseteq SimpleCycles
           /\ Cardinality(cycles)
                = IF Cardinality(SimpleCycles) < MaxCycles THEN Cardinality(SimpleCycles) ELSE MaxCycles
<1>1. IsFiniteSet(SimpleCycles)
  BY PartedUnits, CyclesAreFinite
<1>2. PICK n \in Nat : n = Cardinality(SimpleCycles)
  BY <1>1, FS_CardinalityType
<1>3. cycles \subseteq SimpleCycles
  OBVIOUS
<1>4. Cardinality(cycles) <= n
  BY <1>1, <1>2, <1>3, FS_Subset
<1>5. MaxCycles \in Nat
  BY BoundsAssumption
<1>6. CASE Cardinality(cycles) = MaxCycles
  BY <1>2, <1>3, <1>4, <1>5, <1>6
<1>7. CASE \A p \in SimpleCycles : p \in cycles
  <2>1. cycles = SimpleCycles
    BY <1>3, <1>7
  <2>2. Cardinality(cycles) = n
    BY <1>2, <2>1
  <2> QED
    BY <1>2, <1>3, <1>5, <2>2
<1> QED
  BY <1>6, <1>7

\* One start more.
LEMMA SearchKeepsBetween ==
    ASSUME Parted, Between, starts \in Seq(Units), SearchCycles
    PROVE  Between'
<1>1. /\ starts # <<>> /\ Cardinality(cycles) < MaxCycles /\ starts' = Tail(starts)
      /\ SimpleCycles' = SimpleCycles
  BY SameWeightSameCycles DEF SearchCycles
<1>2. PICK u \in Units : u = Head(starts)
  BY <1>1
<1>3. PICK most \in Nat : most = MaxCycles - Cardinality(cycles)
  BY <1>1, BoundsAssumption DEF Between
<1>4. PICK S : S = CyclesFrom(u)
  OBVIOUS
<1>5. PICK r : r = ToSet(Limited(InOrder(S, PathKey), most))
  OBVIOUS
<1>6. cycles' = cycles \cup r
  BY <1>2, <1>3, <1>4, <1>5 DEF SearchCycles
<1>7. /\ IsFiniteSet(S) /\ Cardinality(S) \in Nat /\ Cardinality(S) <= MaxCycles
      /\ \A p \in S : p \in SimpleCycles /\ p[1] = u
      /\ Cardinality(S) = MaxCycles \/ \A p \in SimpleCycles : p[1] = u => p \in S
  <2>1. Collected({p \in SimpleCycles : p[1] = u}, {}, S)
    BY <1>4, CyclesFromCollects
  <2> QED
    BY <2>1 DEF Collected, Bag
<1>8. /\ \A p \in r : p \in S
      /\ IsFiniteSet(r) /\ Cardinality(r) \in Nat /\ Cardinality(r) <= most
      /\ Cardinality(r) = most \/ \A p \in S : p \in r
  BY <1>5, <1>7, TakenFromThose
<1>9. PICK n \in Nat : n = Len(starts)
  BY LenProperties
<1>10. /\ n >= 1 /\ u = starts[1] /\ Len(starts') = n - 1
       /\ \A i \in 1 .. n - 1 : starts'[i] = starts[i + 1]
  BY <1>1, <1>2, <1>9, HeadTailProperties
<1>11. \A x : Holds(starts, x) <=> x = u \/ Holds(starts', x)
  <2> TAKE x
  <2>1. Holds(starts, x) <=> \E i \in 1 .. n : starts[i] = x
    BY <1>9 DEF Holds
  <2>2. Holds(starts', x) <=> \E i \in 1 .. n - 1 : starts[i + 1] = x
    BY <1>10 DEF Holds
  <2>3. \A i \in 1 .. n : i = 1 \/ (i - 1 \in 1 .. n - 1 /\ (i - 1) + 1 = i)
    OBVIOUS
  <2>4. 1 \in 1 .. n /\ \A i \in 1 .. n - 1 : i + 1 \in 1 .. n
    BY <1>10
  <2> QED
    BY <1>10, <2>1, <2>2, <2>3, <2>4
<1>12. Injective(starts') /\ ~ Holds(starts', u)
  <2>1. \A i, j \in 1 .. n : starts[i] = starts[j] => i = j
    BY <1>9 DEF Between, Injective
  <2>2. 1 \in 1 .. n /\ \A i \in 1 .. n - 1 : i + 1 \in 1 .. n /\ i + 1 # 1
    BY <1>10
  <2>3. \A i, j \in 1 .. n - 1 : i + 1 = j + 1 => i = j
    OBVIOUS
  <2>4. \A i, j \in 1 .. n - 1 : starts'[i] = starts'[j] => i = j
    BY <1>10, <2>1, <2>2, <2>3
  <2>5. \A i \in 1 .. n - 1 : starts'[i] # u
    BY <1>10, <2>1, <2>2
  <2> QED
    BY <1>10, <2>4, <2>5 DEF Injective, Holds
<1>13. /\ IsFiniteSet(cycles) /\ Cardinality(cycles) \in Nat
       /\ \A p \in cycles : p \in SimpleCycles /\ ~ Holds(starts, p[1])
       /\ \A p \in SimpleCycles : p \in cycles \/ Holds(starts, p[1])
  BY <1>1, BoundsAssumption DEF Between
<1>14. cycles \cap r = {}
  BY <1>7, <1>8, <1>11, <1>13
<1>15. /\ IsFiniteSet(cycles') /\ Cardinality(cycles') \in Nat
       /\ Cardinality(cycles') = Cardinality(cycles) + Cardinality(r)
  <2>1. IsFiniteSet(cycles')
    BY <1>6, <1>8, <1>13, FS_Union
  <2>2. Cardinality(cycles') = Cardinality(cycles) + Cardinality(r) - Cardinality(cycles \cap r)
    BY <1>6, <1>8, <1>13, FS_Union
  <2>3. Cardinality(cycles \cap r) = 0
    BY <1>14, FS_EmptySet
  <2> QED
    BY <1>8, <1>13, <2>1, <2>2, <2>3
<1>16. Cardinality(cycles') <= MaxCycles
  BY <1>3, <1>8, <1>13, <1>15, BoundsAssumption
<1>17. \A p \in cycles' : p \in SimpleCycles' /\ ~ Holds(starts', p[1])
  BY <1>1, <1>6, <1>7, <1>8, <1>11, <1>12, <1>13
<1>18. CASE Cardinality(r) = most
  <2>1. Cardinality(cycles') = MaxCycles
    BY <1>3, <1>13, <1>15, <1>18, BoundsAssumption
  <2> QED
    BY <1>12, <1>15, <1>16, <1>17, <2>1 DEF Between
<1>19. CASE Cardinality(r) # most
  <2>1. \A p \in S : p \in r
    BY <1>8, <1>19
  <2>2. r = S
    BY <1>8, <2>1
  <2>3. Cardinality(S) # MaxCycles
    BY <1>3, <1>8, <1>13, <1>19, <2>2, BoundsAssumption
  <2>4. \A p \in SimpleCycles : p[1] = u => p \in r
    BY <1>7, <2>2, <2>3
  <2>5. \A p \in SimpleCycles' : p \in cycles' \/ Holds(starts', p[1])
    BY <1>1, <1>6, <1>11, <1>13, <2>4
  <2> QED
    BY <1>12, <1>15, <1>16, <1>17, <2>5 DEF Between
<1> QED
  BY <1>18, <1>19

\* The loop of Tarjan's algorithm is over: every unit is in a component.
LEMMA AllMetIsParted ==
    ASSUME Searching(weight, tarjan), tarjan.frames = <<>>, \A u \in Units : tarjan.index[u] # 0
    PROVE  Parted
<1>1. Len(tarjan.frames) = 0 /\ Met(weight, tarjan) = Units
  BY UnitsAreUnits DEF Met
<1>2. Open(tarjan) = {}
  BY <1>1 DEF Searching, Connected
<1>3. UNION tarjan.components = Units
  BY <1>1, <1>2 DEF Searching, Stacked, Shut
<1> QED
  BY <1>3 DEF Parted

LEMMA FirstIsBetween ==
    ASSUME Parted, {} \notin tarjan.components, weight' = weight, starts' = CycleStarts, cycles' = {}
    PROVE  Between'
<1>1. Searching(weight, tarjan)
  BY DEF Parted
<1>2. /\ Injective(CycleStarts)
      /\ \A c \in tarjan.components : Cardinality(c) # 1 => \A u \in c : Holds(CycleStarts, u)
  BY <1>1, CycleStartsAreUnits
<1>3. ASSUME NEW p \in SimpleCycles
      PROVE  Holds(CycleStarts, p[1])
  <2>1. IsCycle(p)
    BY PartedUnits, CyclesAreSimple
  <2>2. PICK n \in Nat : n = Len(p)
    BY <2>1, LenProperties DEF IsCycle, OnTheWay
  <2>3. /\ n >= 2 /\ 1 \in 1 .. n /\ 2 \in 1 .. n
        /\ p[1] \in Units /\ p[1] # p[2]
    <3>1. n >= 2 /\ p \in Seq(Units) /\ \A i, j \in 1 .. n : p[i] = p[j] => i = j
      BY <2>1, <2>2 DEF IsCycle, OnTheWay, Injective
    <3>2. 1 \in 1 .. n /\ 2 \in 1 .. n
      BY <3>1
    <3>3. p[1] \in Units
      BY <2>2, <3>1, <3>2, LenProperties
    <3> QED
      BY <3>1, <3>2, <3>3
  <2>4. PICK c \in tarjan.components : c = ComponentOf(p[1]) /\ p[1] \in c /\ c \subseteq Units
    BY <2>3, PartedUnits
  <2>5. p[2] \in c
    BY <2>1, <2>2, <2>3, <2>4, CycleInComponent
  <2>6. Cardinality(c) # 1
    <3>1. IsFiniteSet(c)
      BY <2>4, PartedUnits, FS_Subset
    <3> SUFFICES ASSUME Cardinality(c) = 1
                 PROVE  FALSE
      OBVIOUS
    <3>2. PICK x : c = {x}
      BY <3>1, FS_Singleton
    <3> QED
      BY <2>3, <2>4, <2>5, <3>2
  <2> QED
    BY <1>2, <2>4, <2>6
<1>4. IsFiniteSet(cycles') /\ Cardinality(cycles') = 0 /\ MaxCycles \in Nat
  BY FS_EmptySet, BoundsAssumption
<1>5. SimpleCycles' = SimpleCycles
  BY SameWeightSameCycles
<1>6. \A p \in SimpleCycles' : Holds(starts', p[1])
  BY <1>3, <1>5
<1> QED
  BY <1>2, <1>4, <1>6 DEF Between

LEMMA LastIsComplete ==
    ASSUME Parted, Between, starts = <<>> \/ Cardinality(cycles) >= MaxCycles
    PROVE  /\ cycles \subseteq SimpleCycles
           /\ Cardinality(cycles)
                = IF Cardinality(SimpleCycles) < MaxCycles THEN Cardinality(SimpleCycles) ELSE MaxCycles
<1>1. /\ IsFiniteSet(cycles) /\ Cardinality(cycles) \in Nat /\ Cardinality(cycles) <= MaxCycles
      /\ \A p \in cycles : p \in SimpleCycles
  BY DEF Between
<1>2. Cardinality(cycles) = MaxCycles \/ \A p \in SimpleCycles : p \in cycles
  <2>1. CASE Cardinality(cycles) >= MaxCycles
    BY <1>1, <2>1, BoundsAssumption
  <2>2. CASE starts = <<>>
    <3>1. Len(starts) = 0
      BY <2>2
    <3>2. \A x : ~ Holds(starts, x)
      BY <3>1 DEF Holds
    <3> QED
      BY <3>2 DEF Between
  <2> QED
    BY <2>1, <2>2
<1> QED
  BY <1>1, <1>2, AllFoundIsComplete

LEMMA IdleIsCycling ==
    ASSUME NEW G, NEW opts, NEW first, first \in {"project", "idle"}, Idle(G, opts, first)
    PROVE  Cycling
<1>1. stage = first /\ weight = <<>> /\ cycles = {}
  BY DEF Idle
<1>2. Units = {}
  BY <1>1 DEF Units
<1> QED
  BY <1>1, <1>2 DEF Cycling, CyclesAreComplete

\* What is found stays.
LEMMA FoundStaysComplete ==
    ASSUME CyclesAreComplete, stage \in {"communities", "report", "done"}, weight' = weight, cycles' = cycles
    PROVE  CyclesAreComplete'
<1>1. SimpleCycles' = SimpleCycles
  BY SameWeightSameCycles
<1> QED
  BY <1>1 DEF CyclesAreComplete

LEMMA AnalyseCycles ==
    ASSUME Searched, Shaped, Cycling, Analyse
    PROVE  Cycling'
<1>1. CASE Project \/ EnterRoot \/ FollowEdge \/ LeaveNode
  <2>1. stage \in {"project", "components"} /\ stage' = "components" /\ cycles' = cycles
    BY <1>1 DEF Project, EnterRoot, FollowEdge, LeaveNode
  <2> QED
    BY <2>1 DEF Cycling, CyclesAreComplete
<1>2. CASE ComponentsDone
  <2>1. /\ stage = "components" /\ stage' = "cycles" /\ starts' = CycleStarts
        /\ UNCHANGED <<weight, tarjan, cycles>> /\ cycles = {}
    BY <1>2 DEF ComponentsDone, Cycling
  <2>2. Parted
    BY <1>2, <2>1, AllMetIsParted DEF ComponentsDone, Searched, Search1
  <2>3. Parted'
    BY <2>1, <2>2 DEF Parted, Units
  <2>4. Between'
    BY <2>1, <2>2, FirstIsBetween DEF Shaped
  <2> QED
    BY <2>1, <2>3, <2>4 DEF Cycling, CyclesAreComplete
<1>3. CASE SearchCycles
  <2>1. stage = "cycles" /\ stage' = "cycles" /\ UNCHANGED <<weight, tarjan>>
    BY <1>3 DEF SearchCycles
  <2>2. Parted /\ Between /\ starts \in Seq(Units)
    BY <2>1 DEF Cycling, Shaped
  <2>3. Between'
    BY <1>3, <2>2, SearchKeepsBetween
  <2>4. Parted'
    BY <2>1, <2>2 DEF Parted, Units
  <2> QED
    BY <2>1, <2>3, <2>4 DEF Cycling, CyclesAreComplete
<1>4. CASE CyclesDone
  <2>1. /\ stage = "cycles" /\ stage' = "communities" /\ UNCHANGED <<weight, tarjan, starts, cycles>>
        /\ starts = <<>> \/ Cardinality(cycles) >= MaxCycles
    BY <1>4 DEF CyclesDone
  <2>2. Parted /\ Between
    BY <2>1 DEF Cycling
  <2>3. /\ cycles \subseteq SimpleCycles
        /\ Cardinality(cycles)
             = IF Cardinality(SimpleCycles) < MaxCycles THEN Cardinality(SimpleCycles) ELSE MaxCycles
    BY <2>1, <2>2, LastIsComplete
  <2>4. SimpleCycles' = SimpleCycles /\ cycles' = cycles
    BY <2>1, SameWeightSameCycles
  <2>5. CyclesAreComplete'
    BY <2>3, <2>4 DEF CyclesAreComplete
  <2> QED
    BY <2>1, <2>5 DEF Cycling
<1>5. CASE PropagateLabels \/ Report
  <2>1. /\ stage \in {"communities", "report"} /\ stage' \in {"communities", "report", "done"}
        /\ weight' = weight /\ cycles' = cycles
    BY <1>5 DEF PropagateLabels, Report
  <2>2. CyclesAreComplete'
    BY <2>1, FoundStaysComplete DEF Cycling
  <2> QED
    BY <2>1, <2>2 DEF Cycling
<1> QED
  BY <1>1, <1>2, <1>3, <1>4, <1>5 DEF Analyse
=============================================================================
