-------------------------- MODULE LiveDaemonProofs --------------------------
(***************************************************************************)
(* What the live daemon guarantees for every set of files, every kind of   *)
(* change, every queue capacity and every number of failures.              *)
(*                                                                         *)
(* The first part is about the protocol: its inductive invariant says, for *)
(* each point of the daemon's loop, which health, dirty flag, queue and    *)
(* kind of reconciliation belong to it.  The second is about the data: the *)
(* types, and that the graph agrees with the files once every change has   *)
(* been taken in.                                                          *)
(***************************************************************************)
EXTENDS LiveDaemon, FiniteSetTheorems, FunctionTheorems, SequenceTheorems, TLAPS

\* No update is under way: the health and the dirty flag agree.
AtRest ==
    /\ mode = "none"
    /\ queue = <<>>
    /\ dirty \in BOOLEAN
    /\ health = IF dirty THEN "Failed" ELSE "Healthy"

\* What holds while the thread is at each point of its loop.
AtStart == dpc = "start" => AtRest
AtInput ==
    dpc \in {"recv", "flush"} =>
        /\ AtRest
        /\ status = [gen |-> gen, dirty |-> dirty, health |-> health]
AtOutput == dpc \in {"enqueue", "status"} => AtRest
AtUpdate == dpc = "update" => mode = "none" /\ ~dirty /\ health = "Healthy"
AtApply ==
    dpc = "apply" =>
        mode = "none" /\ queue = <<>> /\ dirty = FALSE /\ health = "Updating"
AtReconcile ==
    dpc = "reconcile" =>
        /\ queue = <<>>
        /\ dirty = TRUE
        /\ \/ mode = "overflow" /\ health \in {"Healthy", "Failed"}
           \/ mode = "recover" /\ health = "Dirty"
AtRead ==
    dpc \in {"scan", "read"} =>
        /\ queue = <<>>
        /\ \/ mode = "fallback" /\ dirty = FALSE /\ health = "Updating"
           \/ /\ mode \in {"overflow", "recover"}
              /\ dirty = TRUE
              /\ health = "Recovering"

ControlPoints == {"start", "recv", "flush", "update", "apply", "reconcile",
                  "scan", "read", "enqueue", "status"}

\* What was published is in the hands of the persistence worker, but for the
\* snapshot that is about to be handed over, and for one that made up for an
\* overflow.
HandedOn == dpc \in {"start", "enqueue"} \/ handed = gen \/ overflowed

IInv ==
    /\ dpc \in ControlPoints
    /\ HandedOn
    /\ AtStart /\ AtInput /\ AtOutput
    /\ AtUpdate /\ AtApply
    /\ AtReconcile /\ AtRead

-----------------------------------------------------------------------------
LEMMA InitIInv == Init => IInv
BY DEF Init, IInv, HandedOn, ControlPoints, AtRest, AtStart, AtInput, AtOutput,
       AtUpdate, AtApply, AtReconcile, AtRead

\* Changes to files do not touch the daemon thread.
LEMMA FilesChangeIsExternal ==
    FilesChange => UNCHANGED <<queueVars, snapVars, health, outVars, dpc,
                               workVars>>
BY DEF FilesChange, CreateFile, EditFile, DeleteFile, RenameFile, MoveIn,
       MoveOut, Change

\* Every step preserves the invariant.
LEMMA StepIInv == IInv /\ [Next]_vars => IInv'
<1> SUFFICES ASSUME IInv, [Next]_vars
             PROVE  IInv'
  OBVIOUS
<1> USE DEF IInv, HandedOn, ControlPoints, AtRest, AtStart, AtInput, AtOutput,
            AtUpdate, AtApply, AtReconcile, AtRead, queueVars, snapVars,
            outVars, workVars, Publish
<1>1. CASE FilesChange
  BY <1>1, FilesChangeIsExternal
<1>2. CASE CreateWatcher
  BY <1>2 DEF CreateWatcher
<1>3. CASE Receive
  BY <1>3 DEF Receive
<1>4. CASE ReceiveTimesOut
  BY <1>4 DEF ReceiveTimesOut
<1>5. ASSUME NEW c \in Cutoffs, FlushReady(c)
      PROVE  IInv'
  <2> DEFINE batches == Batches(pending, Ready(pending, c), OnDisk)
  <2>1. PICK actions \in batches :
             IF actions = <<>>
             THEN dpc' = "recv" /\ UNCHANGED <<queueVars, mode>>
             ELSE IF Overflows(actions)
                  THEN /\ queue' = IF dirty THEN queue ELSE <<>>
                       /\ dirty' = TRUE
                       /\ mode' = "overflow"
                       /\ dpc' = "reconcile"
                  ELSE /\ queue' = queue \o actions
                       /\ dpc' = "update"
                       /\ UNCHANGED <<dirty, mode>>
    BY <1>5 DEF FlushReady
  <2>2. /\ dpc = "flush"
        /\ UNCHANGED <<snapVars, health, outVars>>
    BY <1>5 DEF FlushReady
  <2>3. CASE actions = <<>>
    BY <2>1, <2>2, <2>3
  <2>4. CASE actions # <<>> /\ Overflows(actions)
    BY <2>1, <2>2, <2>4
  <2>5. CASE actions # <<>> /\ ~Overflows(actions)
    BY <2>1, <2>2, <2>5 DEF Overflows
  <2> QED
    BY <2>3, <2>4, <2>5
<1>6. CASE BeginUpdate
  BY <1>6 DEF BeginUpdate
<1>7. CASE ApplyUpsert
  BY <1>7 DEF ApplyUpsert
<1>8. CASE ApplyRemove
  BY <1>8 DEF ApplyRemove
<1>9. CASE ApplyRename
  BY <1>9 DEF ApplyRename
<1>10. CASE ApplyUnknownRename
  BY <1>10 DEF ApplyUnknownRename
<1>11. CASE ApplyFails
  BY <1>11 DEF ApplyFails
<1>12. CASE FinishUpdate
  BY <1>12 DEF FinishUpdate
<1>13. CASE BeginReconcile
  BY <1>13 DEF BeginReconcile
<1>14. CASE Scan
  BY <1>14 DEF Scan
<1>15. ASSUME NEW p \in Sources, ReadFile(p)
       PROVE  IInv'
  BY <1>15 DEF ReadFile
<1>16. CASE FileVanished
  BY <1>16 DEF FileVanished, ReconcileError
<1>17. CASE ReconcileFails
  BY <1>17 DEF ReconcileFails, ReconcileError
<1>18. CASE FinishFallback
  BY <1>18 DEF FinishFallback
<1>19. CASE FinishReconcile
  BY <1>19 DEF FinishReconcile
<1>20. CASE EnqueueSnapshot
  BY <1>20 DEF EnqueueSnapshot
<1>21. CASE WriteStatus
  BY <1>21 DEF WriteStatus
<1>22. CASE UNCHANGED vars
  BY <1>22 DEF vars
<1> QED
  BY <1>1, <1>2, <1>3, <1>4, <1>5, <1>6, <1>7, <1>8, <1>9, <1>10, <1>11,
     <1>12, <1>13, <1>14, <1>15, <1>16, <1>17, <1>18, <1>19, <1>20, <1>21,
     <1>22
     DEF Next, Daemon, Input, Update, Reconcile, Output, Fault

\* The inductive invariant holds in every reachable state.
THEOREM InvariantHolds == Spec => []IInv
BY InitIInv, StepIInv, PTL DEF Spec

\* Whenever the thread waits for events nothing is queued or half applied,
\* the health shows whether the last recovery failed, daemon.json says so,
\* and the newest snapshot was handed over for persistence unless it made up
\* for an overflow.
THEOREM SettledAlways == Spec => []SettledBetweenUpdates
<1>1. IInv => SettledBetweenUpdates
  BY DEF IInv, HandedOn, AtInput, AtRest, SettledBetweenUpdates
<1> QED
  BY <1>1, InvariantHolds, PTL

-----------------------------------------------------------------------------
(* The daemon implements the protocol of the live state.                   *)

LEMMA InitFollows == Init => State!Init
BY DEF Init, State!Init

\* Every step that touches health or snapshot is one of the protocol's, in
\* particular a failure keeps generation and snapshot.
LEMMA StepFollows == IInv /\ [Next]_vars => [State!Next]_(State!svars)
<1> SUFFICES ASSUME IInv, [Next]_vars
             PROVE  State!Next \/ UNCHANGED <<gen, live, health>>
  BY DEF State!svars
<1> USE DEF IInv, snapVars, Publish
<1>1. CASE FilesChange
  BY <1>1, FilesChangeIsExternal
<1>2. CASE CreateWatcher \/ Receive \/ ReceiveTimesOut
  BY <1>2 DEF CreateWatcher, Receive, ReceiveTimesOut
<1>3. ASSUME NEW c \in Cutoffs, FlushReady(c)
      PROVE  UNCHANGED <<gen, live, health>>
  BY <1>3 DEF FlushReady
<1>4. CASE BeginUpdate
  BY <1>4 DEF BeginUpdate, AtUpdate, State!Next, State!BeginUpdate
<1>5. CASE ApplyUpsert \/ ApplyRemove \/ ApplyRename \/ ApplyUnknownRename
  BY <1>5 DEF ApplyUpsert, ApplyRemove, ApplyRename, ApplyUnknownRename
<1>6. CASE ApplyFails
  BY <1>6 DEF ApplyFails, AtApply, State!Next, State!Fail
<1>7. CASE FinishUpdate
  BY <1>7 DEF FinishUpdate, AtApply, State!Next, State!Succeed,
              State!NothingToDo
<1>8. CASE BeginReconcile
  BY <1>8 DEF BeginReconcile, AtReconcile, State!Next, State!BeginRecovery
<1>9. CASE Scan \/ \E p \in Sources : ReadFile(p)
  BY <1>9 DEF Scan, ReadFile
<1>10. CASE FileVanished \/ ReconcileFails
  <2>1. ReconcileError /\ dpc \in {"scan", "read"}
    BY <1>10 DEF FileVanished, ReconcileFails
  <2> QED
    BY <2>1 DEF ReconcileError, AtRead, State!Next, State!Fail
<1>11. CASE FinishFallback
  BY <1>11 DEF FinishFallback, AtRead, State!Next, State!Succeed,
               State!NothingToDo
<1>12. CASE FinishReconcile
  BY <1>12 DEF FinishReconcile, AtRead, State!Next, State!Succeed
<1>13. CASE Output
  BY <1>13 DEF Output, EnqueueSnapshot, WriteStatus
<1>14. CASE UNCHANGED vars
  BY <1>14 DEF vars
<1> QED
  BY <1>1, <1>2, <1>3, <1>4, <1>5, <1>6, <1>7, <1>8, <1>9, <1>10, <1>11,
     <1>12, <1>13, <1>14
     DEF Next, Daemon, Input, Update, Reconcile, Fault

\* For every set of files, capacity and run of failures the published
\* snapshot follows the protocol of the live state: it is replaced as a
\* whole, under the next generation, by successful updates only.
THEOREM DaemonFollowsProtocol == Spec => FollowsProtocol
BY InitFollows, StepFollows, InvariantHolds, PTL
   DEF Spec, FollowsProtocol, State!Spec

-----------------------------------------------------------------------------
(* The batches of a flush.                                                 *)

\* An order of a finite set lists all of it, and nothing else.
LEMMA OrdersList ==
    ASSUME NEW A, IsFiniteSet(A), NEW s \in SetToSeqs(A)
    PROVE  /\ s \in Seq(A)
           /\ DOMAIN s = 1 .. Len(s)
           /\ \A a \in A : \E i \in 1 .. Len(s) : s[i] = a
<1> DEFINE n == Cardinality(A)
<1>1. n \in Nat
  BY FS_CardinalityType
<1>2. s \in [1 .. n -> A] /\ \A i, j \in 1 .. n : i # j => s[i] # s[j]
  BY DEF SetToSeqs
<1>3. s \in Seq(A) /\ Len(s) = n
  BY <1>1, <1>2
<1>4. s \in Injection(1 .. n, A)
  BY <1>2 DEF Injection, IsInjective
<1>5. IsFiniteSet(1 .. n) /\ Cardinality(1 .. n) = n
  BY <1>1, FS_Interval
<1>6. s \in Surjection(1 .. n, A)
  BY <1>4, <1>5, FS_Injection
<1>7. \A a \in A : \E i \in 1 .. n : s[i] = a
  BY <1>6 DEF Surjection
<1> QED
  BY <1>2, <1>3, <1>7

\* What a set makes one by one of another set is finite with it.
LEMMA MadeOneByOne ==
    ASSUME NEW S, IsFiniteSet(S), NEW A, NEW f \in [A -> S],
           \A a, b \in A : f[a] = f[b] => a = b
    PROVE  IsFiniteSet(A)
<1>1. f \in Injection(A, S)
  BY DEF Injection, IsInjective
<1> QED
  BY <1>1, FS_Injection

LEMMA GroupsAreFinite ==
    ASSUME NEW S \in SUBSET Paths, IsFiniteSet(S)
    PROVE  /\ IsFiniteSet({Removed(p) : p \in S})
           /\ IsFiniteSet({Created(p) : p \in S})
<1>1. IsFiniteSet({Removed(p) : p \in S})
  <2> DEFINE A == {Removed(p) : p \in S}
  <2> DEFINE f == [a \in A |-> a.path]
  <2>1. f \in [A -> S] /\ \A a, b \in A : f[a] = f[b] => a = b
    BY DEF Removed
  <2> HIDE DEF A, f
  <2>2. IsFiniteSet(A)
    BY <2>1, MadeOneByOne
  <2> QED
    BY <2>2 DEF A
<1>2. IsFiniteSet({Created(p) : p \in S})
  <2> DEFINE A == {Created(p) : p \in S}
  <2> DEFINE f == [a \in A |-> a.path]
  <2>1. f \in [A -> S] /\ \A a, b \in A : f[a] = f[b] => a = b
    BY DEF Created
  <2> HIDE DEF A, f
  <2>2. IsFiniteSet(A)
    BY <2>1, MadeOneByOne
  <2> QED
    BY <2>2 DEF A
<1> QED
  BY <1>1, <1>2

LEMMA PairedIsFinite ==
    ASSUME NEW froms, NEW tos, IsFiniteSet(froms),
           NEW pairs \in Pairings(froms, tos)
    PROVE  IsFiniteSet(Paired(pairs))
<1> DEFINE A == Paired(pairs)
<1> DEFINE f == [a \in A |-> a.from]
<1>1. \A x \in pairs : x \in froms \X tos
  BY DEF Pairings
<1>2. \A x, y \in pairs : x # y => x[1] # y[1]
  BY DEF Pairings
<1>3. \A a \in A : \E x \in pairs : a = Renamed(x[1], x[2])
  BY DEF Paired
<1>4. f \in [A -> froms]
  <2>1. \A a \in A : a.from \in froms
    BY <1>1, <1>3 DEF Renamed
  <2> QED
    BY <2>1
<1>5. \A a, b \in A : f[a] = f[b] => a = b
  <2> TAKE a, b \in A
  <2>1. PICK x \in pairs : a = Renamed(x[1], x[2])
    BY <1>3
  <2>2. PICK y \in pairs : b = Renamed(y[1], y[2])
    BY <1>3
  <2>3. f[a] = x[1] /\ f[b] = y[1]
    BY <2>1, <2>2 DEF Renamed
  <2> QED
    BY <1>2, <2>1, <2>2, <2>3
<1> HIDE DEF A, f
<1>6. IsFiniteSet(A)
  BY <1>4, <1>5, MadeOneByOne
<1> QED
  BY <1>6 DEF A

\* The entries of a flush that are no renames.
OtherEntries(entries, ready, exists) ==
    {q \in ready \cap Sources :
        /\ entries[q].kind \notin {"RenameFrom", "RenameTo"}
        /\ entries[q].kind = "Create" => q \in exists}

LEMMA SinglesAreActions ==
    ASSUME NEW entries, NEW ready \in SUBSET Paths, IsFiniteSet(ready),
           NEW exists,
           \A p \in ready : entries[p].kind \in PendingKinds
    PROVE  /\ IsFiniteSet(Singles(entries, ready, exists))
           /\ Singles(entries, ready, exists) \subseteq Actions
<1> DEFINE A == Singles(entries, ready, exists)
<1> DEFINE O == OtherEntries(entries, ready, exists)
<1>1. \A p \in O : /\ p \in ready /\ p \in Sources
                   /\ entries[p].kind \in {"Create", "Modify", "Remove"}
  BY DEF OtherEntries, PendingKinds
<1>2. \A a \in A : \E p \in O : a = Single(p, entries[p].kind, p \in exists)
  BY DEF Singles, OtherEntries
<1> HIDE DEF A, O
<1>3. \A p \in O : Single(p, entries[p].kind, p \in exists)
                       \in {Created(p), Modified(p), Removed(p)}
  BY <1>1 DEF Single
<1>4. \A a \in A : \E p \in O : a \in {Created(p), Modified(p), Removed(p)}
  BY <1>2, <1>3
<1>5. A \subseteq Actions
  BY <1>1, <1>4 DEF Actions
<1>6. IsFiniteSet(A)
  <2> DEFINE f == [a \in A |-> a.path]
  <2>1. f \in [A -> ready]
    BY <1>1, <1>4 DEF Created, Modified, Removed
  <2>2. \A a, b \in A : f[a] = f[b] => a = b
    <3> TAKE a, b \in A
    <3>1. PICK p \in O : a = Single(p, entries[p].kind, p \in exists)
      BY <1>2
    <3>2. PICK q \in O : b = Single(q, entries[q].kind, q \in exists)
      BY <1>2
    <3>3. a.path = p
      <4>1. a \in {Created(p), Modified(p), Removed(p)}
        BY <1>3, <3>1
      <4> QED
        BY <4>1 DEF Created, Modified, Removed
    <3>4. b.path = q
      <4>1. b \in {Created(q), Modified(q), Removed(q)}
        BY <1>3, <3>2
      <4> QED
        BY <4>1 DEF Created, Modified, Removed
    <3> QED
      BY <3>1, <3>2, <3>3, <3>4
  <2> HIDE DEF f
  <2> QED
    BY <2>1, <2>2, MadeOneByOne
<1> QED
  BY <1>5, <1>6 DEF A

LEMMA OrdersParts ==
    ASSUME NEW A, NEW B, NEW C, NEW D, NEW x \in Orders(A, B, C, D)
    PROVE  \E r \in SetToSeqs(A), g \in SetToSeqs(B), c \in SetToSeqs(C),
              s \in SetToSeqs(D) : x = r \o g \o c \o s
BY DEF Orders

\* A batch is a sequence of actions.
LEMMA BatchesAreActions ==
    ASSUME NEW entries, NEW ready \in SUBSET Paths, IsFiniteSet(ready),
           NEW exists,
           \A p \in ready : entries[p].kind \in PendingKinds,
           NEW actions \in Batches(entries, ready, exists)
    PROVE  actions \in Seq(Actions)
<1> DEFINE froms == {p \in ready : entries[p].kind = "RenameFrom"}
<1> DEFINE tos == {p \in ready : entries[p].kind = "RenameTo"}
<1> DEFINE F(pairs) == Unpaired(froms, {a[1] : a \in pairs})
<1> DEFINE T(pairs) == Unpaired(tos, {a[2] : a \in pairs})
<1> DEFINE G(pairs) == Orders(Paired(pairs), {Removed(p) : p \in F(pairs)},
                              {Created(p) : p \in T(pairs)},
                              Singles(entries, ready, exists))
<1>0. actions \in UNION {G(pairs) : pairs \in Pairings(froms, tos)}
  BY Zenon DEF Batches
<1> HIDE DEF G
<1>1. PICK pairs \in Pairings(froms, tos) : actions \in G(pairs)
  BY <1>0
<1> USE DEF G
<1>2. F(pairs) \in SUBSET Sources /\ T(pairs) \in SUBSET Sources
      /\ F(pairs) \in SUBSET froms /\ T(pairs) \in SUBSET tos
  BY DEF Unpaired
<1>3. froms \in SUBSET Paths /\ tos \in SUBSET Paths /\ IsFiniteSet(froms)
      /\ IsFiniteSet(tos)
  <2>1. froms \in SUBSET ready /\ tos \in SUBSET ready
    OBVIOUS
  <2> HIDE DEF froms, tos
  <2> QED
    BY <2>1, FS_Subset
<1> HIDE DEF froms, tos, F, T
<1>4. PICK r \in SetToSeqs(Paired(pairs)),
           g \in SetToSeqs({Removed(p) : p \in F(pairs)}),
           c \in SetToSeqs({Created(p) : p \in T(pairs)}),
           s \in SetToSeqs(Singles(entries, ready, exists)) :
             actions = r \o g \o c \o s
  <2> DEFINE R == {Removed(p) : p \in F(pairs)}
  <2> DEFINE C == {Created(p) : p \in T(pairs)}
  <2>1. actions \in Orders(Paired(pairs), R, C, Singles(entries, ready, exists))
    BY <1>1
  <2> HIDE DEF R, C
  <2>2. \E r \in SetToSeqs(Paired(pairs)), g \in SetToSeqs(R),
           c \in SetToSeqs(C), s \in SetToSeqs(Singles(entries, ready, exists)) :
             actions = r \o g \o c \o s
    BY <2>1, OrdersParts
  <2> QED
    BY <2>2 DEF R, C
<1>5. IsFiniteSet(F(pairs)) /\ IsFiniteSet(T(pairs))
  BY <1>2, <1>3, FS_Subset
<1>6. F(pairs) \in SUBSET Paths /\ T(pairs) \in SUBSET Paths
  BY <1>2, <1>3
<1>7. r \in Seq(Actions)
  <2>1. \A a \in pairs : a[1] \in froms /\ a[2] \in tos
    BY DEF Pairings
  <2>2. Paired(pairs) \subseteq Actions
    BY <1>3, <2>1 DEF Paired, Actions
  <2>3. r \in Seq(Paired(pairs))
    BY <1>3, PairedIsFinite, OrdersList
  <2> QED
    BY <2>2, <2>3, SeqMonotonic
<1>8. g \in Seq(Actions)
  <2>1. {Removed(p) : p \in F(pairs)} \subseteq Actions
    BY <1>2 DEF Actions
  <2>2. g \in Seq({Removed(p) : p \in F(pairs)})
    BY <1>5, <1>6, GroupsAreFinite, OrdersList
  <2> QED
    BY <2>1, <2>2, SeqMonotonic
<1>9. c \in Seq(Actions)
  <2>1. {Created(p) : p \in T(pairs)} \subseteq Actions
    BY <1>2 DEF Actions
  <2>2. c \in Seq({Created(p) : p \in T(pairs)})
    BY <1>5, <1>6, GroupsAreFinite, OrdersList
  <2> QED
    BY <2>1, <2>2, SeqMonotonic
<1>10. s \in Seq(Actions)
  <2>1. s \in Seq(Singles(entries, ready, exists))
    BY SinglesAreActions, OrdersList
  <2> QED
    BY <2>1, SinglesAreActions, SeqMonotonic
<1> QED
  BY <1>4, <1>7, <1>8, <1>9, <1>10

-----------------------------------------------------------------------------
(* Types.                                                                  *)

Events == [kind : PendingKinds, path : Paths]
          \cup [kind : {"RenameBoth"}, from : Paths, to : Paths]

\* The entries of the debouncer, last touched by an event up to `now'.
EntriesOK(entries, now) ==
    /\ DOMAIN entries \subseteq Paths
    /\ IsFiniteSet(DOMAIN entries)
    /\ \A p \in DOMAIN entries : /\ entries[p].kind \in PendingKinds
                                 /\ entries[p].seen \in 1 .. now

\* The types, with those of what the daemon receives.
Types ==
    /\ TypeOK
    /\ channel \in Seq(Events)
    /\ clock \in Nat
    /\ EntriesOK(pending, clock)

\* An event that is recorded leaves well-formed entries.
LEMMA RecordKeepsTypes ==
    ASSUME NEW entries, NEW p \in Paths, NEW kind \in PendingKinds,
           NEW now \in Nat \ {0}, EntriesOK(entries, now)
    PROVE  EntriesOK(Record(entries, p, kind, now), now)
<1> DEFINE cancels == /\ p \in DOMAIN entries
                      /\ entries[p].kind = "Create"
                      /\ kind = "Remove"
<1>1. CASE cancels
  <2>1. Record(entries, p, kind, now)
            = [x \in DOMAIN entries \ {p} |-> entries[x]]
    BY <1>1 DEF Record
  <2>2. IsFiniteSet(DOMAIN entries \ {p})
    BY FS_Subset DEF EntriesOK
  <2> QED
    BY <2>1, <2>2 DEF EntriesOK
<1>2. CASE ~cancels
  <2> DEFINE k == IF p \in DOMAIN entries
                  THEN Coalesce(entries[p].kind, kind) ELSE kind
  <2>1. k \in PendingKinds
    BY DEF Coalesce, PendingKinds, EntriesOK
  <2>2. Record(entries, p, kind, now)
            = [x \in DOMAIN entries \cup {p} |->
                 IF x # p THEN entries[x] ELSE [kind |-> k, seen |-> now]]
    BY <1>2 DEF Record
  <2>3. IsFiniteSet(DOMAIN entries \cup {p})
    BY FS_AddElement DEF EntriesOK
  <2> HIDE DEF k
  <2> QED
    BY <2>1, <2>2, <2>3 DEF EntriesOK
<1> QED
  BY <1>1, <1>2

LEMMA IngestKeepsTypes ==
    ASSUME NEW entries, NEW event \in Events, NEW now \in Nat,
           EntriesOK(entries, now)
    PROVE  EntriesOK(Ingest(entries, event, now + 1), now + 1)
<1> DEFINE later == now + 1
<1>1. later \in Nat \ {0} /\ EntriesOK(entries, later)
  BY DEF EntriesOK
<1> HIDE DEF later
<1>2. CASE event.kind = "RenameBoth"
  <2>1. event.from \in Paths /\ event.to \in Paths
    BY <1>2 DEF Events, PendingKinds
  <2>2. EntriesOK(Record(entries, event.from, "RenameFrom", later), later)
    BY <1>1, <2>1, RecordKeepsTypes DEF PendingKinds
  <2>3. EntriesOK(Record(Record(entries, event.from, "RenameFrom", later),
                         event.to, "RenameTo", later), later)
    BY <1>1, <2>1, <2>2, RecordKeepsTypes DEF PendingKinds
  <2> QED
    BY <1>2, <2>3 DEF Ingest, later
<1>3. CASE event.kind # "RenameBoth"
  <2>1. event.path \in Paths /\ event.kind \in PendingKinds
    BY <1>3 DEF Events
  <2>2. EntriesOK(Record(entries, event.path, event.kind, later), later)
    BY <1>1, <2>1, RecordKeepsTypes
  <2> QED
    BY <1>3, <2>2 DEF Ingest, later
<1> QED
  BY <1>2, <1>3

LEMMA InitTypes == Init => Types
<1> USE ParametersOK
<1> SUFFICES ASSUME Init PROVE Types
  OBVIOUS
<1>1. channel \in Seq(Events) /\ Len(channel) = 0
  BY DEF Init
<1>2. DOMAIN pending = {} /\ IsFiniteSet({})
  BY FS_EmptySet DEF Init, NoPending
<1>3. fs \in [Paths -> Contents]
  BY DEF Init, Contents, ParametersOK, Absent
<1>4. live \in [Sources -> Contents]
  BY <1>3 DEF Init, SourcesOf, Paths
<1>5. queue \in Seq(Actions) /\ Len(queue) = 0 /\ batch \in Seq(Actions)
  BY DEF Init
<1>6. cand \in [Sources -> Contents]
  BY DEF Init, Nothing, Contents, Absent, ParametersOK
<1>7. \A p \in DOMAIN pending : /\ pending[p].kind \in PendingKinds
                                 /\ pending[p].seen \in 1 .. clock
  BY <1>2
<1>8. /\ changes \in 0 .. MaxChanges /\ faults \in 0 .. MaxFaults
      /\ clock + Len(channel) <= changes
      /\ Len(queue) <= Capacity
  BY <1>1, <1>5 DEF Init, ParametersOK
<1>9. /\ watching \in BOOLEAN /\ dirty \in BOOLEAN /\ reread \in BOOLEAN
      /\ overflowed \in BOOLEAN
      /\ health = "Healthy" /\ dpc = "start" /\ mode = "none"
      /\ todo \subseteq Sources /\ changed \subseteq Paths
  BY DEF Init
<1>10. gen \in Nat \ {0} /\ handed \in 0 .. gen /\ status.gen \in 0 .. gen
  BY DEF Init
<1>11. TypeOK
  BY <1>2, <1>3, <1>4, <1>5, <1>6, <1>7, <1>8, <1>9,
     <1>10 DEF TypeOK
<1> QED
  BY <1>1, <1>2, <1>11 DEF Types, EntriesOK, Init

\* A change of the files adds at most one event.
\* A change adds at most one event and touches nothing else but the files.
OneEvent ==
    /\ channel' \in Seq(Events) /\ Len(channel') <= Len(channel) + 1
    /\ changes' = changes + 1 /\ changes < MaxChanges
    /\ UNCHANGED <<faults, watching, pending, clock, queueVars, snapVars,
                   health, outVars, dpc, workVars>>

LEMMA ChangeTypes ==
    ASSUME Types, NEW kind, NEW event \in Events, Change(kind, event)
    PROVE  OneEvent
BY DEF Types, Change, OneEvent

LEMMA FilesChangeTypes ==
    ASSUME Types, FilesChange
    PROVE  Types'
<1> USE ParametersOK
<1>1. OneEvent /\ fs' \in [Paths -> Contents]
  <2>1. changes < MaxChanges => NewContent \in Contents
    BY DEF NewContent, Contents, Types, TypeOK, ParametersOK
  <2>2. Absent \in Contents
    BY DEF Absent, Contents, ParametersOK
  <2>3. fs \in [Paths -> Contents]
    BY DEF Types, TypeOK
  <2>4. PICK p \in Paths :
            \/ CreateFile(p) \/ EditFile(p) \/ DeleteFile(p)
            \/ MoveIn(p) \/ MoveOut(p)
            \/ \E q \in Paths : RenameFile(p, q)
    BY DEF FilesChange
  <2>5. \A k \in PendingKinds : [kind |-> k, path |-> p] \in Events
    BY DEF Events
  <2>6. \A k, e : Change(k, e) => changes < MaxChanges
    BY DEF Change
  <2>7. CASE CreateFile(p)
    <3>1. Change("create", [kind |-> "Create", path |-> p])
      BY <2>7 DEF CreateFile
    <3>2. fs' \in [Paths -> Contents]
      BY <2>1, <2>3, <2>6, <2>7, <3>1 DEF CreateFile, ChangeKinds
    <3> QED
      BY <2>5, <3>1, <3>2, ChangeTypes DEF PendingKinds
  <2>8. CASE EditFile(p)
    <3>1. Change("edit", [kind |-> "Modify", path |-> p])
      BY <2>8 DEF EditFile
    <3>2. fs' \in [Paths -> Contents]
      BY <2>1, <2>3, <2>6, <2>8, <3>1 DEF EditFile, ChangeKinds
    <3> QED
      BY <2>5, <3>1, <3>2, ChangeTypes DEF PendingKinds
  <2>9. CASE DeleteFile(p)
    <3>1. Change("delete", [kind |-> "Remove", path |-> p])
      BY <2>9 DEF DeleteFile
    <3>2. fs' \in [Paths -> Contents]
      BY <2>2, <2>3, <2>9 DEF DeleteFile
    <3> QED
      BY <2>5, <3>1, <3>2, ChangeTypes DEF PendingKinds
  <2>10. CASE MoveIn(p)
    <3>1. Change("moveIn", [kind |-> "RenameTo", path |-> p])
      BY <2>10 DEF MoveIn
    <3>2. fs' \in [Paths -> Contents]
      BY <2>1, <2>3, <2>6, <2>10, <3>1 DEF MoveIn, ChangeKinds
    <3> QED
      BY <2>5, <3>1, <3>2, ChangeTypes DEF PendingKinds
  <2>11. CASE MoveOut(p)
    <3>1. Change("moveOut", [kind |-> "RenameFrom", path |-> p])
      BY <2>11 DEF MoveOut
    <3>2. fs' \in [Paths -> Contents]
      BY <2>2, <2>3, <2>11 DEF MoveOut
    <3> QED
      BY <2>5, <3>1, <3>2, ChangeTypes DEF PendingKinds
  <2>12. ASSUME NEW q \in Paths, RenameFile(p, q)
         PROVE  OneEvent /\ fs' \in [Paths -> Contents]
    <3>1. [kind |-> "RenameBoth", from |-> p, to |-> q] \in Events
      BY DEF Events
    <3>2. Change("rename", [kind |-> "RenameBoth", from |-> p, to |-> q])
      BY <2>12 DEF RenameFile
    <3>3. NewContent \in Contents
      BY <2>1, <2>6, <3>2 DEF ChangeKinds
    <3>4. fs' = [fs EXCEPT ![p] = Absent, ![q] = NewContent]
      BY <2>12 DEF RenameFile
    <3> HIDE DEF NewContent, Absent
    <3>5. fs' \in [Paths -> Contents]
      BY <2>2, <2>3, <3>3, <3>4
    <3> QED
      BY <3>1, <3>2, <3>5, ChangeTypes
  <2>13. CASE \E q \in Paths : RenameFile(p, q)
    BY <2>12, <2>13
  <2> QED
    BY <2>4, <2>7, <2>8, <2>9, <2>10, <2>11, <2>13
<1>2. clock' + Len(channel') <= changes'
  BY <1>1 DEF OneEvent, Types, TypeOK
<1>3. TypeOK'
  BY <1>1, <1>2 DEF OneEvent, Types, TypeOK, ParametersOK, queueVars,
     snapVars, outVars, workVars
<1> QED
  BY <1>1, <1>3 DEF OneEvent, Types, EntriesOK

\* Every step preserves the types.
LEMMA StepTypes == IInv /\ Types /\ [Next]_vars => Types'
<1> USE ParametersOK
<1> SUFFICES ASSUME IInv, Types, [Next]_vars
             PROVE  Types'
  OBVIOUS
<1> USE DEF inputVars, queueVars, snapVars, outVars, workVars, envVars
<1>t. TypeOK /\ channel \in Seq(Events) /\ clock \in Nat
      /\ EntriesOK(pending, clock)
  BY DEF Types
<1>a. Absent \in Contents
  BY DEF Absent, Contents, ParametersOK
<1>1. CASE FilesChange
  BY <1>1, FilesChangeTypes
<1>2. CASE CreateWatcher
  BY <1>2, <1>t DEF CreateWatcher, TypeOK, Types
<1>3. CASE Receive
  <2>1. Head(channel) \in Events /\ channel' \in Seq(Events)
        /\ Len(channel') = Len(channel) - 1
    BY <1>3, <1>t DEF Receive
  <2>2. clock' = clock + 1 /\ pending' = Ingest(pending, Head(channel), clock')
    BY <1>3 DEF Receive
  <2>3. EntriesOK(pending', clock')
    BY <1>t, <2>1, <2>2, IngestKeepsTypes
  <2>4. clock' + Len(channel') <= changes
    BY <1>t, <2>1, <2>2 DEF TypeOK
  <2>5. DOMAIN pending' \subseteq Paths
        /\ \A p \in DOMAIN pending' : /\ pending'[p].kind \in PendingKinds
                                      /\ pending'[p].seen \in 1 .. clock'
    BY <2>3 DEF EntriesOK
  <2>6. /\ dpc' = "flush"
        /\ UNCHANGED <<envVars, faults, watching, queueVars, snapVars, health,
                       outVars, workVars>>
    BY <1>3 DEF Receive
  <2>7. TypeOK'
    BY <1>t, <2>4, <2>5, <2>6 DEF TypeOK
  <2> QED
    BY <1>t, <2>1, <2>2, <2>3, <2>7 DEF Types
<1>4. CASE ReceiveTimesOut
  BY <1>4, <1>t DEF ReceiveTimesOut, TypeOK, Types
<1>5. ASSUME NEW c \in Cutoffs, FlushReady(c)
      PROVE  Types'
  <2> DEFINE ready == Ready(pending, c)
  <2>1. PICK actions \in Batches(pending, ready, OnDisk) :
             IF actions = <<>>
             THEN dpc' = "recv" /\ UNCHANGED <<queueVars, mode>>
             ELSE IF Overflows(actions)
                  THEN /\ queue' = IF dirty THEN queue ELSE <<>>
                       /\ dirty' = TRUE
                       /\ mode' = "overflow"
                       /\ dpc' = "reconcile"
                  ELSE /\ queue' = queue \o actions
                       /\ dpc' = "update"
                       /\ UNCHANGED <<dirty, mode>>
    BY <1>5 DEF FlushReady
  <2>2. /\ pending' = [p \in DOMAIN pending \ ready |-> pending[p]]
        /\ UNCHANGED <<envVars, faults, watching, channel, clock, snapVars,
                       health, outVars, batch, todo, cand, changed>>
    BY <1>5 DEF FlushReady
  <2>3. actions \in Seq(Actions)
    <3>1. ready \in SUBSET DOMAIN pending
      BY DEF Ready
    <3>2. IsFiniteSet(ready) /\ ready \in SUBSET Paths
      BY <1>t, <3>1, FS_Subset DEF EntriesOK
    <3>3. \A p \in ready : pending[p].kind \in PendingKinds
      BY <1>t, <3>1 DEF EntriesOK
    <3> QED
      BY <3>2, <3>3, BatchesAreActions
  <2> HIDE DEF ready
  <2>4. EntriesOK(pending', clock')
    <3>1. IsFiniteSet(DOMAIN pending \ ready)
      BY <1>t, FS_Subset DEF EntriesOK
    <3> QED
      BY <1>t, <2>2, <3>1 DEF EntriesOK
  <2>5. queue' \in Seq(Actions) /\ Len(queue') <= Capacity
    <3>1. queue \in Seq(Actions) /\ Len(queue) <= Capacity
      BY <1>t DEF TypeOK
    <3>2. \/ queue' = queue
          \/ queue' = <<>>
          \/ queue' = queue \o actions /\ ~Overflows(actions)
      BY <2>1, Zenon DEF queueVars
    <3>3. CASE queue' = queue \o actions /\ ~Overflows(actions)
      <4>1. Len(actions) \in Nat /\ Len(queue) \in Nat /\ Capacity \in Nat
        BY <2>3, <3>1 DEF ParametersOK
      <4>2. ~(Len(queue) + Len(actions) > Capacity)
        BY <3>3 DEF Overflows
      <4> QED
        BY <2>3, <3>1, <3>3, <4>1, <4>2
    <3>4. CASE queue' = <<>>
      <4>1. Len(<<>>) = 0 /\ <<>> \in Seq(Actions) /\ Capacity \in Nat
        BY DEF ParametersOK
      <4> QED
        BY <3>4, <4>1
    <3>5. CASE queue' = queue
      BY <3>1, <3>5
    <3> QED
      BY <3>2, <3>3, <3>4, <3>5
  <2>6. dirty' \in BOOLEAN /\ mode' \in {"none", "overflow", "recover", "fallback"}
    BY <1>t, <2>1 DEF TypeOK
  <2>7. dpc' \in {"recv", "reconcile", "update"}
    BY <2>1
  <2>8. TypeOK'
    BY <1>t, <2>2, <2>4, <2>5, <2>6, <2>7 DEF TypeOK, EntriesOK
  <2> QED
    BY <1>t, <2>2, <2>4, <2>8 DEF Types
<1>6. CASE BeginUpdate
  BY <1>6, <1>t DEF BeginUpdate, TypeOK, Types, ParametersOK
<1>n. batch # <<>> => /\ Head(batch) \in Actions
                      /\ Tail(batch) \in Seq(Actions)
  BY <1>t DEF TypeOK
<1>p. \A a \in Actions : a.type # "Renamed" => a.path \in Sources
  BY DEF Actions, Created, Modified, Removed, Renamed
<1>q. \A a \in Actions : a.type = "Renamed" => a.from \in Paths /\ a.to \in Paths
  BY DEF Actions, Created, Modified, Removed, Renamed
<1>7. CASE ApplyUpsert
  <2>1. Head(batch).path \in Sources
    BY <1>7, <1>n, <1>p DEF ApplyUpsert
  <2>2. cand' \in [Sources -> Contents] /\ changed' \subseteq Paths
    BY <1>7, <1>t, <2>1 DEF ApplyUpsert, TypeOK, Paths
  <2> QED
    BY <1>7, <1>t, <1>n, <2>2 DEF ApplyUpsert, TypeOK, Types
<1>8. CASE ApplyRemove
  <2>1. Head(batch).path \in Sources
    BY <1>8, <1>n, <1>p DEF ApplyRemove
  <2>2. cand' \in [Sources -> Contents] /\ changed' \subseteq Paths
    BY <1>8, <1>t, <1>a, <2>1 DEF ApplyRemove, TypeOK, Paths
  <2> QED
    BY <1>8, <1>t, <1>n, <2>2 DEF ApplyRemove, TypeOK, Types
<1>9. CASE ApplyRename
  <2> DEFINE a == Head(batch)
  <2>1. a.from \in Paths /\ a.to \in Paths
    BY <1>9, <1>n, <1>q DEF ApplyRename
  <2>2. cand' = [p \in Sources |-> CASE p = a.to -> fs[p]
                                     [] p = a.from -> Absent
                                     [] OTHER -> cand[p]]
        /\ changed' = changed \cup {a.from, a.to}
    BY <1>9 DEF ApplyRename
  <2>3. cand \in [Sources -> Contents] /\ fs \in [Paths -> Contents]
    BY <1>t DEF TypeOK
  <2> HIDE DEF a
  <2>4. cand' \in [Sources -> Contents]
    <3>1. \A p \in Sources : (CASE p = a.to -> fs[p]
                                [] p = a.from -> Absent
                                [] OTHER -> cand[p]) \in Contents
      BY <1>a, <2>3 DEF Paths
    <3> QED
      BY <2>2, <3>1
  <2>5. changed' \subseteq Paths
    BY <1>t, <2>1, <2>2 DEF TypeOK
  <2> QED
    BY <1>9, <1>t, <1>n, <2>4, <2>5 DEF ApplyRename, TypeOK, Types
<1>10. CASE ApplyUnknownRename
  BY <1>10, <1>t DEF ApplyUnknownRename, TypeOK, Types
<1>11. CASE ApplyFails
  <2>1. faults' \in 0 .. MaxFaults
    BY <1>11, <1>t DEF ApplyFails, TypeOK, ParametersOK
  <2> QED
    BY <1>11, <1>t, <2>1 DEF ApplyFails, TypeOK, Types
<1>g. \A b : Publish(b) => /\ gen' = gen + 1
                           /\ live' \in [Sources -> Contents]
  BY <1>t DEF Publish, TypeOK
<1>o. \/ UNCHANGED <<gen, live, reread, overflowed, handed, status>>
      \/ /\ gen' = gen + 1 /\ live' \in [Sources -> Contents]
         /\ reread' \in BOOLEAN /\ overflowed' \in BOOLEAN
         /\ UNCHANGED <<handed, status>>
      => /\ live' \in [Sources -> Contents] /\ gen' \in Nat \ {0}
         /\ reread' \in BOOLEAN /\ overflowed' \in BOOLEAN
         /\ handed' \in 0 .. gen' /\ status'.gen \in 0 .. gen'
  BY <1>t DEF TypeOK
<1>12. CASE FinishUpdate
  <2>1. \/ UNCHANGED <<gen, live, reread, overflowed, handed, status>>
        \/ /\ gen' = gen + 1 /\ live' \in [Sources -> Contents]
           /\ reread' \in BOOLEAN /\ overflowed' \in BOOLEAN
           /\ UNCHANGED <<handed, status>>
    BY <1>12, <1>t DEF FinishUpdate, Publish, TypeOK
  <2> QED
    BY <1>12, <1>t, <1>o, <2>1 DEF FinishUpdate, TypeOK, Types
<1>13. CASE BeginReconcile
  BY <1>13, <1>t DEF BeginReconcile, TypeOK, Types
<1>14. CASE Scan
  <2>1. cand' \in [Sources -> Contents]
    BY <1>14, <1>a DEF Scan, Nothing
  <2> QED
    BY <1>14, <1>t, <2>1 DEF Scan, TypeOK, Types
<1>15. ASSUME NEW p \in Sources, ReadFile(p)
       PROVE  Types'
  <2>1. cand' \in [Sources -> Contents]
    BY <1>15, <1>t DEF ReadFile, TypeOK, Paths
  <2> QED
    BY <1>15, <1>t, <2>1 DEF ReadFile, TypeOK, Types
<1>16. CASE FileVanished \/ ReconcileFails
  <2>1. ReconcileError /\ faults' \in 0 .. MaxFaults
    BY <1>16, <1>t DEF FileVanished, ReconcileFails, TypeOK, ParametersOK
  <2>2. /\ health' \in {"Healthy", "Updating", "Dirty", "Recovering", "Failed"}
        /\ mode' \in {"none", "overflow", "recover", "fallback"}
        /\ dpc' \in {"reconcile", "enqueue", "status"}
    <3>1. mode \in {"fallback", "recover", "overflow"}
      BY <1>16 DEF IInv, AtRead, FileVanished, ReconcileFails
    <3> QED
      BY <2>1, <3>1 DEF ReconcileError
  <2>3. /\ dirty' = TRUE /\ todo' = {}
        /\ UNCHANGED <<envVars, inputVars, queue, snapVars, outVars, batch, cand,
                       changed>>
    BY <2>1 DEF ReconcileError
  <2>4. TypeOK'
    BY <1>t, <2>1, <2>2, <2>3 DEF TypeOK
  <2> QED
    BY <1>t, <2>3, <2>4 DEF Types
<1>17. CASE FinishFallback
  <2>1. \/ UNCHANGED <<gen, live, reread, overflowed, handed, status>>
        \/ /\ gen' = gen + 1 /\ live' \in [Sources -> Contents]
           /\ reread' \in BOOLEAN /\ overflowed' \in BOOLEAN
           /\ UNCHANGED <<handed, status>>
    BY <1>17, <1>t DEF FinishFallback, Publish, TypeOK
  <2> QED
    BY <1>17, <1>t, <1>o, <2>1 DEF FinishFallback, TypeOK, Types
<1>18. CASE FinishReconcile
  <2>1. \/ UNCHANGED <<gen, live, reread, overflowed, handed, status>>
        \/ /\ gen' = gen + 1 /\ live' \in [Sources -> Contents]
           /\ reread' \in BOOLEAN /\ overflowed' \in BOOLEAN
           /\ UNCHANGED <<handed, status>>
    BY <1>18, <1>t DEF FinishReconcile, Publish, TypeOK
  <2>2. queue' \in Seq(Actions) /\ Len(queue') <= Capacity
    BY <1>18 DEF FinishReconcile, ParametersOK
  <2>3. dpc' \in {"status", "enqueue"} /\ mode' = "none" /\ dirty' = FALSE
    BY <1>18 DEF FinishReconcile
  <2> QED
    BY <1>18, <1>t, <1>o, <2>1, <2>2, <2>3 DEF FinishReconcile, TypeOK, Types
<1>19. CASE EnqueueSnapshot
  BY <1>19, <1>t DEF EnqueueSnapshot, TypeOK, Types
<1>20. CASE WriteStatus
  BY <1>20, <1>t DEF WriteStatus, TypeOK, Types
<1>21. CASE UNCHANGED vars
  BY <1>21, <1>t DEF vars, TypeOK, Types
<1> QED
  BY <1>1, <1>2, <1>3, <1>4, <1>5, <1>6, <1>7, <1>8, <1>9, <1>10, <1>11,
     <1>12, <1>13, <1>14, <1>15, <1>16, <1>17, <1>18, <1>19, <1>20, <1>21
     DEF Next, Daemon, Input, Update, Reconcile, Output, Fault

\* For any files, kinds of changes, capacity and failures the state of the
\* daemon has its types; among others, the update queue never holds more
\* actions than its capacity, no event is counted twice, and a generation is
\* reported and handed over only once it was published.
THEOREM TypesHold == Spec => []TypeOK
<1>1. Types => TypeOK
  BY DEF Types
<1>2. Spec => []Types
  BY InitTypes, StepTypes, InvariantHolds, PTL DEF Spec
<1> QED
  BY <1>1, <1>2, PTL

-----------------------------------------------------------------------------
(* Convergence, when files are created, written and deleted only, and not  *)
(* before the watcher is there to see it.                                  *)

FilesOnly == Changes \subseteq {"create", "edit", "delete"} /\ ~Early

\* The events of files that are created, written and deleted.
FileEvents == [kind : {"Create", "Modify", "Remove"}, path : Paths]

\* An event leads from the files that exist before it to those that exist
\* after it.
Follows(before, event, after) ==
    \/ /\ event.kind = "Create" /\ event.path \notin before
       /\ after = before \cup {event.path}
    \/ /\ event.kind = "Modify" /\ event.path \in before
       /\ after = before
    \/ /\ event.kind = "Remove" /\ event.path \in before
       /\ after = before \ {event.path}

\* No event of p comes after the i-th one of the channel.
SilentAfter(i, p) ==
    \A j \in 1 .. Len(channel) : j > i => channel[j].path # p

Silent(p) == SilentAfter(0, p)

\* h[i] are the files that exist after the i-th event of the channel: those
\* before the first one are the ones the daemon has heard of, and after the
\* last event of a file it exists or not as it does on disk.
History(h) ==
    /\ h \in [0 .. Len(channel) -> SUBSET Paths]
    /\ \A i \in 1 .. Len(channel) : Follows(h[i - 1], channel[i], h[i])
    /\ \A i \in 0 .. Len(channel), p \in Paths :
          SilentAfter(i, p) => (p \in h[i] <=> fs[p] # Absent)

\* What an entry says of a file agrees with the events received.
EntriesKnown(entries, heard) ==
    \A p \in DOMAIN entries :
        /\ entries[p].kind \in {"Create", "Modify", "Remove"}
        /\ entries[p].kind = "Remove" <=> p \notin heard

\* No flush has told of the file since it appeared, if it has at all.
Untold(entries, heard, p) ==
    IF p \in DOMAIN entries THEN entries[p].kind = "Create" ELSE p \notin heard

\* `data' is up to date but for the files in `open', of which actions are
\* still to be applied: a file of which nothing is on its way has its last
\* content, and one that was not told of is not there, unless a
\* reconciliation has found it.
UpToDate(data, heard, open) ==
    \A p \in Sources \ open :
        /\ /\ p \notin DOMAIN pending
           /\ Silent(p)
           /\ fs[p] # Absent \/ ~reread
           => data[p] = fs[p]
        /\ ~reread /\ Untold(pending, heard, p) => data[p] = Absent

PathsOf(actions) == {actions[i].path : i \in 1 .. Len(actions)}

\* The actions under way are of files without an entry, an upsert of one that
\* existed when it was last heard of, a removal of one that is gone unless
\* there is news of it.
ActionsKnown(actions, heard) ==
    \A i \in 1 .. Len(actions) :
        LET a == actions[i]
        IN  /\ a.type \in {"Created", "Modified", "Removed"}
            /\ a.path \in Sources \ DOMAIN pending
            /\ a.type # "Removed" => a.path \in heard
            /\ a.type = "Removed" /\ Silent(a.path) => fs[a.path] = Absent

GraphKnown(heard) ==
    /\ dpc \in {"start", "recv", "flush", "enqueue", "status"} /\ ~dirty
          => UpToDate(live, heard, {})
    /\ dpc = "update" => /\ ActionsKnown(queue, heard)
                         /\ UpToDate(live, heard, PathsOf(queue))
    /\ dpc = "apply" => /\ ActionsKnown(batch, heard)
                        /\ UpToDate(cand, heard, PathsOf(batch))
                        /\ changed = {} => cand = live
    /\ dpc = "read" => \A p \in Sources \ todo :
                          fs[p] # Absent /\ Silent(p) => cand[p] = fs[p]

Known ==
    /\ channel \in Seq(FileEvents)
    /\ mode # "fallback"
    /\ \E h : History(h) /\ EntriesKnown(pending, h[0]) /\ GraphKnown(h[0])

LEMMA InitKnown == Init => Known
<1> SUFFICES ASSUME Init PROVE Known
  OBVIOUS
<1>1. channel = <<>> /\ Len(channel) = 0 /\ channel \in Seq(FileEvents)
  BY DEF Init
<1>2. PICK h : h = [i \in 0 .. Len(channel) |-> OnDisk]
  OBVIOUS
<1>3. h[0] = OnDisk
  BY <1>1, <1>2
<1>4. History(h)
  <2>1. h \in [0 .. Len(channel) -> SUBSET Paths]
    BY <1>2 DEF OnDisk
  <2>2. \A i \in 0 .. Len(channel), p \in Paths : p \in h[i] <=> fs[p] # Absent
    BY <1>2 DEF OnDisk
  <2> QED
    BY <1>1, <2>1, <2>2 DEF History
<1>5. EntriesKnown(pending, h[0])
  BY DEF Init, NoPending, EntriesKnown
<1>6. UpToDate(live, h[0], {})
  BY <1>3 DEF Init, UpToDate, Untold, OnDisk, SourcesOf, Paths, NoPending
<1>7. GraphKnown(h[0])
  BY <1>6 DEF GraphKnown, Init
<1> QED
  BY <1>1, <1>4, <1>5, <1>7 DEF Known, Init

\* A change of the files sends one event, which leads from the files there
\* were to the files there are.
LEMMA OneFileChanges ==
    ASSUME FilesOnly, Types, FilesChange
    PROVE  \E event \in FileEvents :
              /\ channel' = Append(channel, event)
              /\ Follows(OnDisk, event, OnDisk')
              /\ \A x \in Paths : x # event.path => fs'[x] = fs[x]
<1>1. PICK p \in Paths :
          \/ CreateFile(p) \/ EditFile(p) \/ DeleteFile(p)
          \/ MoveIn(p) \/ MoveOut(p)
          \/ \E q \in Paths : RenameFile(p, q)
  BY DEF FilesChange
<1>2. \A kind, event :
         Change(kind, event) => /\ kind \in {"create", "edit", "delete"}
                                /\ channel' = Append(channel, event)
  BY DEF Change, FilesOnly
<1>3. fs \in [Paths -> Contents] /\ NewContent # Absent
  BY DEF Types, TypeOK, NewContent, Absent
<1>4. \A kind \in {"Create", "Modify", "Remove"} :
         [kind |-> kind, path |-> p] \in FileEvents
  BY DEF FileEvents
<1>5. CASE CreateFile(p)
  <2> DEFINE e == [kind |-> "Create", path |-> p]
  <2>1. fs[p] = Absent /\ fs' = [fs EXCEPT ![p] = NewContent]
        /\ channel' = Append(channel, e)
    BY <1>2, <1>5 DEF CreateFile
  <2> HIDE DEF NewContent, Absent
  <2>2. Follows(OnDisk, e, OnDisk')
    BY <1>3, <2>1 DEF Follows, OnDisk
  <2> QED
    BY <1>3, <1>4, <2>1, <2>2
<1>6. CASE EditFile(p)
  <2> DEFINE e == [kind |-> "Modify", path |-> p]
  <2>1. fs[p] # Absent /\ fs' = [fs EXCEPT ![p] = NewContent]
        /\ channel' = Append(channel, e)
    BY <1>2, <1>6 DEF EditFile
  <2> HIDE DEF NewContent, Absent
  <2>2. Follows(OnDisk, e, OnDisk')
    BY <1>3, <2>1 DEF Follows, OnDisk
  <2> QED
    BY <1>3, <1>4, <2>1, <2>2
<1>7. CASE DeleteFile(p)
  <2> DEFINE e == [kind |-> "Remove", path |-> p]
  <2>1. fs[p] # Absent /\ fs' = [fs EXCEPT ![p] = Absent]
        /\ channel' = Append(channel, e)
    BY <1>2, <1>7 DEF DeleteFile
  <2> HIDE DEF NewContent, Absent
  <2>2. Follows(OnDisk, e, OnDisk')
    BY <1>3, <2>1 DEF Follows, OnDisk
  <2> QED
    BY <1>3, <1>4, <2>1, <2>2
<1>8. ~MoveIn(p) /\ ~MoveOut(p)
  BY <1>2 DEF MoveIn, MoveOut
<1>9. \A q \in Paths : ~RenameFile(p, q)
  <2> SUFFICES ASSUME NEW q \in Paths, RenameFile(p, q) PROVE FALSE
    OBVIOUS
  <2>1. Change("rename", [kind |-> "RenameBoth", from |-> p, to |-> q])
    BY DEF RenameFile
  <2> QED
    BY <1>2, <2>1
<1> QED
  BY <1>1, <1>5, <1>6, <1>7, <1>8, <1>9

LEMMA ChangeKnown ==
    ASSUME FilesOnly, Types, Known, FilesChange
    PROVE  Known'
<1>1. PICK event \in FileEvents :
          /\ channel' = Append(channel, event)
          /\ Follows(OnDisk, event, OnDisk')
          /\ \A x \in Paths : x # event.path => fs'[x] = fs[x]
  BY OneFileChanges
<1>2. PICK h : History(h) /\ EntriesKnown(pending, h[0]) /\ GraphKnown(h[0])
  BY DEF Known
<1>3. UNCHANGED <<pending, queue, dirty, live, reread, dpc, mode, batch, todo,
                  cand, changed>>
  BY DEF FilesChange, CreateFile, EditFile, DeleteFile, RenameFile, MoveIn,
         MoveOut, Change, queueVars, snapVars, workVars
<1> DEFINE n == Len(channel)
<1>4. channel \in Seq(FileEvents) /\ n \in Nat
  BY DEF Known
<1>5. /\ channel' \in Seq(FileEvents) /\ Len(channel') = n + 1
      /\ \A i \in 1 .. n : channel'[i] = channel[i]
      /\ channel'[n + 1] = event
  BY <1>1, <1>4
<1>6. event.path \in Paths
  BY DEF FileEvents
<1>7. h[n] = OnDisk
  BY <1>2, <1>4 DEF History, SilentAfter, OnDisk
<1> HIDE DEF n
<1>8. PICK g : g = [i \in 0 .. n + 1 |-> IF i <= n THEN h[i] ELSE OnDisk']
  OBVIOUS
<1>9. g[0] = h[0]
  BY <1>4, <1>8
<1>10. ASSUME NEW i \in 0 .. n + 1, NEW p \in Paths, SilentAfter(i, p)'
       PROVE  i = n + 1 \/ (i \in 0 .. n /\ SilentAfter(i, p) /\ p # event.path)
  <2>1. \A j \in 1 .. n + 1 : j > i => channel'[j].path # p
    BY <1>5, <1>10 DEF SilentAfter
  <2>2. CASE i = n + 1
    BY <2>2
  <2>3. CASE i \in 0 .. n
    <3>1. p # event.path
      <4>1. n + 1 \in 1 .. n + 1 /\ n + 1 > i
        BY <1>4, <2>3
      <4> QED
        BY <1>5, <2>1, <4>1
    <3>2. \A j \in 1 .. n : j > i => channel[j].path # p
      <4>1. \A j \in 1 .. n : j \in 1 .. n + 1
        BY <1>4
      <4> QED
        BY <1>5, <2>1, <4>1
    <3> QED
      BY <2>3, <3>1, <3>2 DEF SilentAfter, n
  <2> QED
    BY <1>4, <2>2, <2>3
<1>11. History(g)'
  <2>1. g \in [0 .. Len(channel)' -> SUBSET Paths]
    <3>1. h \in [0 .. n -> SUBSET Paths]
      BY <1>2 DEF History, n
    <3>2. OnDisk' \in SUBSET Paths
      BY DEF OnDisk
    <3> QED
      BY <1>4, <1>5, <1>8, <3>1, <3>2
  <2>2. ASSUME NEW i \in 1 .. n + 1
        PROVE  Follows(g[i - 1], channel'[i], g[i])
    <3>1. CASE i = n + 1
      BY <1>1, <1>4, <1>5, <1>7, <1>8, <3>1
    <3>2. CASE i \in 1 .. n
      <4>1. Follows(h[i - 1], channel[i], h[i])
        BY <1>2, <3>2 DEF History, n
      <4>2. g[i - 1] = h[i - 1] /\ g[i] = h[i]
        BY <1>4, <1>8, <3>2
      <4> QED
        BY <1>5, <3>2, <4>1, <4>2
    <3> QED
      BY <1>4, <3>1, <3>2
  <2>3. ASSUME NEW i \in 0 .. n + 1, NEW p \in Paths, SilentAfter(i, p)'
        PROVE  p \in g[i] <=> fs'[p] # Absent
    <3>1. CASE i = n + 1
      BY <1>4, <1>8, <3>1 DEF OnDisk
    <3>2. CASE i \in 0 .. n /\ SilentAfter(i, p) /\ p # event.path
      <4>1. p \in h[i] <=> fs[p] # Absent
        BY <1>2, <3>2 DEF History, n
      <4>2. g[i] = h[i]
        BY <1>4, <1>8, <3>2
      <4> QED
        BY <1>1, <3>2, <4>1, <4>2
    <3> QED
      BY <1>10, <2>3, <3>1, <3>2
  <2> QED
    BY <1>5, <2>1, <2>2, <2>3 DEF History
<1>12. \A p \in Paths : Silent(p)' => Silent(p) /\ p # event.path
  <2>1. n + 1 # 0 /\ 0 \in 0 .. n + 1
    BY <1>4
  <2> QED
    BY <1>10, <2>1 DEF Silent
<1>13. \A p \in Sources : Silent(p)' => Silent(p) /\ fs'[p] = fs[p]
  BY <1>1, <1>12 DEF Paths
<1>14. EntriesKnown(pending, h[0])'
  BY <1>2, <1>3 DEF EntriesKnown
<1>15. GraphKnown(h[0])'
  <2> DEFINE heard == h[0]
  <2> HIDE DEF heard
  <2>0. GraphKnown(heard)
    BY <1>2 DEF heard
  <2>1. ASSUME NEW data, NEW open, UpToDate(data, heard, open)
        PROVE  \A p \in Sources \ open :
                 /\ /\ p \notin DOMAIN pending'
                    /\ Silent(p)'
                    /\ fs'[p] # Absent \/ ~reread'
                    => data[p] = fs'[p]
                 /\ ~reread' /\ Untold(pending', heard, p) => data[p] = Absent
    BY <1>3, <1>13, <2>1 DEF UpToDate, Untold
  <2>2. \A actions : ActionsKnown(actions, heard) =>
          \A i \in 1 .. Len(actions) :
            LET a == actions[i]
            IN  /\ a.type \in {"Created", "Modified", "Removed"}
                /\ a.path \in Sources \ DOMAIN pending'
                /\ a.type # "Removed" => a.path \in heard
                /\ a.type = "Removed" /\ Silent(a.path)' => fs'[a.path] = Absent
    BY <1>3, <1>13 DEF ActionsKnown
  <2>3. dpc \in {"start", "recv", "flush", "enqueue", "status"} /\ ~dirty
          => UpToDate(live, heard, {})'
    BY <1>3, <2>0, <2>1 DEF GraphKnown, UpToDate
  <2>4. dpc = "update" => /\ ActionsKnown(queue, heard)'
                          /\ UpToDate(live, heard, PathsOf(queue))'
    <3> SUFFICES ASSUME dpc = "update"
                 PROVE  /\ ActionsKnown(queue, heard)'
                        /\ UpToDate(live, heard, PathsOf(queue))'
      OBVIOUS
    <3>1. ActionsKnown(queue, heard) /\ UpToDate(live, heard, PathsOf(queue))
      BY <2>0 DEF GraphKnown
    <3>2. ActionsKnown(queue, heard)'
      BY <1>3, <2>2, <3>1 DEF ActionsKnown
    <3>3. PathsOf(queue)' = PathsOf(queue) /\ live' = live
      BY <1>3 DEF PathsOf
    <3>4. UpToDate(live, heard, PathsOf(queue))'
      BY <2>1, <3>1, <3>3 DEF UpToDate
    <3> QED
      BY <3>2, <3>4
  <2>5. dpc = "apply" => /\ ActionsKnown(batch, heard)'
                         /\ UpToDate(cand, heard, PathsOf(batch))'
                         /\ (changed = {} => cand = live)'
    <3> SUFFICES ASSUME dpc = "apply"
                 PROVE  /\ ActionsKnown(batch, heard)'
                        /\ UpToDate(cand, heard, PathsOf(batch))'
                        /\ (changed = {} => cand = live)'
      OBVIOUS
    <3>1. /\ ActionsKnown(batch, heard) /\ UpToDate(cand, heard, PathsOf(batch))
          /\ changed = {} => cand = live
      BY <2>0 DEF GraphKnown
    <3>2. ActionsKnown(batch, heard)'
      BY <1>3, <2>2, <3>1 DEF ActionsKnown
    <3>3. PathsOf(batch)' = PathsOf(batch) /\ cand' = cand
      BY <1>3 DEF PathsOf
    <3>4. UpToDate(cand, heard, PathsOf(batch))'
      BY <2>1, <3>1, <3>3 DEF UpToDate
    <3> QED
      BY <1>3, <3>1, <3>2, <3>4
  <2>6. dpc = "read" => \A p \in Sources \ todo :
                          fs'[p] # Absent /\ Silent(p)' => cand[p] = fs'[p]
    BY <1>13, <2>0 DEF GraphKnown
  <2>7. GraphKnown(heard)'
    BY <1>3, <2>3, <2>4, <2>5, <2>6 DEF GraphKnown
  <2> QED
    BY <2>7 DEF heard
<1> QED
  BY <1>3, <1>5, <1>9, <1>11, <1>14, <1>15 DEF Known

\* A received event is heard, and recorded on the entry of its file.
LEMMA RecordKnown ==
    ASSUME NEW event \in FileEvents, NEW q, q = event.path,
           NEW heard, NEW after, Follows(heard, event, after),
           NEW entries, EntriesKnown(entries, heard),
           NEW now, NEW later, later = Ingest(entries, event, now)
    PROVE  /\ EntriesKnown(later, after)
           /\ \A p : p # q => /\ p \in DOMAIN later <=> p \in DOMAIN entries
                              /\ p \in DOMAIN entries => later[p] = entries[p]
                              /\ p \in after <=> p \in heard
           /\ Untold(later, after, q) => Untold(entries, heard, q)
           /\ q \notin DOMAIN later => /\ q \notin after
                                       /\ Untold(entries, heard, q)
<1> DEFINE cancels == /\ q \in DOMAIN entries
                      /\ entries[q].kind = "Create"
                      /\ event.kind = "Remove"
<1>1. event.kind \in {"Create", "Modify", "Remove"}
  BY DEF FileEvents
<1>2. later = Record(entries, q, event.kind, now)
  BY <1>1 DEF Ingest
<1>3. \A p : p # q => (p \in after <=> p \in heard)
  BY DEF Follows
<1>4. CASE cancels
  <2>1. later = [x \in DOMAIN entries \ {q} |-> entries[x]]
    BY <1>2, <1>4 DEF Record
  <2>2. q \notin after
    BY <1>1, <1>4 DEF Follows
  <2> QED
    BY <1>3, <1>4, <2>1, <2>2 DEF EntriesKnown, Untold
<1>5. CASE ~cancels
  <2> DEFINE k == IF q \in DOMAIN entries
                  THEN Coalesce(entries[q].kind, event.kind) ELSE event.kind
  <2>1. later = [x \in DOMAIN entries \cup {q} |->
                    IF x # q THEN entries[x] ELSE [kind |-> k, seen |-> now]]
    BY <1>2, <1>5 DEF Record
  <2>2. /\ k \in {"Create", "Modify", "Remove"}
        /\ k = "Remove" <=> q \notin after
        /\ k = "Create" => IF q \in DOMAIN entries
                           THEN entries[q].kind = "Create" ELSE q \notin heard
    BY <1>1, <1>5 DEF Follows, EntriesKnown, Coalesce
  <2> HIDE DEF k
  <2> QED
    BY <1>3, <2>1, <2>2 DEF EntriesKnown, Untold
<1> QED
  BY <1>4, <1>5

LEMMA ReceiveKnown ==
    ASSUME IInv, Types, Known, Receive
    PROVE  Known'
<1>1. PICK h : History(h) /\ EntriesKnown(pending, h[0]) /\ GraphKnown(h[0])
  BY DEF Known
<1> DEFINE n == Len(channel)
<1> DEFINE event == Head(channel)
<1> DEFINE q == event.path
<1>2. /\ dpc = "recv" /\ dpc' = "flush"
      /\ channel # <<>> /\ channel' = Tail(channel)
      /\ pending' = Ingest(pending, event, clock')
      /\ UNCHANGED <<fs, queue, dirty, live, reread, mode, batch, todo, cand,
                     changed>>
  BY DEF Receive, envVars, queueVars, snapVars, workVars
<1>3. /\ channel \in Seq(FileEvents) /\ n \in Nat \ {0}
      /\ event \in FileEvents /\ event = channel[1]
      /\ channel' \in Seq(FileEvents) /\ Len(channel') = n - 1
      /\ \A i \in 1 .. n - 1 : channel'[i] = channel[i + 1]
  BY <1>2 DEF Known
<1> HIDE DEF n, event
<1>4. PICK g : g = [i \in 0 .. n - 1 |-> h[i + 1]]
  OBVIOUS
<1>5. g[0] = h[1]
  BY <1>3, <1>4
<1>6. ASSUME NEW i \in 0 .. n - 1, NEW p, SilentAfter(i, p)'
      PROVE  SilentAfter(i + 1, p)
  <2>1. \A j \in 1 .. n - 1 : j > i => channel[j + 1].path # p
    BY <1>3, <1>6 DEF SilentAfter
  <2>2. ASSUME NEW j \in 1 .. n, j > i + 1 PROVE channel[j].path # p
    <3>1. j - 1 \in 1 .. n - 1 /\ j - 1 > i /\ (j - 1) + 1 = j
      BY <1>3, <2>2
    <3> QED
      BY <2>1, <3>1
  <2> QED
    BY <2>2 DEF SilentAfter, n
<1>7. History(g)'
  <2>1. g \in [0 .. n - 1 -> SUBSET Paths]
    <3>1. h \in [0 .. n -> SUBSET Paths]
      BY <1>1 DEF History, n
    <3> QED
      BY <1>3, <1>4, <3>1
  <2>2. ASSUME NEW i \in 1 .. n - 1
        PROVE  Follows(g[i - 1], channel'[i], g[i])
    <3>1. i + 1 \in 1 .. n /\ (i + 1) - 1 = i
      BY <1>3
    <3>2. Follows(h[i], channel[i + 1], h[i + 1])
      BY <1>1, <3>1 DEF History, n
    <3>3. g[i - 1] = h[i] /\ g[i] = h[i + 1]
      BY <1>3, <1>4
    <3> QED
      BY <1>3, <3>2, <3>3
  <2>3. ASSUME NEW i \in 0 .. n - 1, NEW p \in Paths, SilentAfter(i, p)'
        PROVE  p \in g[i] <=> fs'[p] # Absent
    <3>1. SilentAfter(i + 1, p) /\ i + 1 \in 0 .. n
      BY <1>3, <1>6, <2>3
    <3>2. p \in h[i + 1] <=> fs[p] # Absent
      BY <1>1, <3>1 DEF History, n
    <3> QED
      BY <1>2, <1>4, <3>2
  <2> QED
    BY <1>3, <2>1, <2>2, <2>3 DEF History
<1>8. Follows(h[0], event, h[1])
  <2>1. 1 \in 1 .. n /\ 1 - 1 = 0
    BY <1>3
  <2> QED
    BY <1>1, <1>3, <2>1 DEF History, n
<1>9. /\ EntriesKnown(pending', h[1])
      /\ \A p : p # q => /\ p \in DOMAIN pending' <=> p \in DOMAIN pending
                         /\ p \in DOMAIN pending => pending'[p] = pending[p]
                         /\ p \in h[1] <=> p \in h[0]
      /\ Untold(pending', h[1], q) => Untold(pending, h[0], q)
      /\ q \notin DOMAIN pending' => /\ q \notin h[1]
                                     /\ Untold(pending, h[0], q)
  BY <1>1, <1>2, <1>3, <1>8, RecordKnown
<1> HIDE DEF q
<1>10. ~dirty => UpToDate(live, h[1], {})'
  <2> SUFFICES ASSUME ~dirty, NEW p \in Sources
               PROVE  /\ /\ p \notin DOMAIN pending'
                         /\ Silent(p)'
                         /\ fs[p] # Absent \/ ~reread
                         => live[p] = fs[p]
                      /\ ~reread /\ Untold(pending', h[1], p) => live[p] = Absent
    BY <1>2 DEF UpToDate
  <2>1. /\ p \notin DOMAIN pending /\ Silent(p) /\ (fs[p] # Absent \/ ~reread)
           => live[p] = fs[p]
        /\ ~reread /\ Untold(pending, h[0], p) => live[p] = Absent
    BY <1>1, <1>2 DEF GraphKnown, UpToDate
  <2>2. Silent(p)' => SilentAfter(1, p)
    <3>1. 0 \in 0 .. n - 1 /\ 0 + 1 = 1
      BY <1>3
    <3> QED
      BY <1>6, <3>1 DEF Silent
  <2>3. CASE p = q
    <3>1. 1 \in 0 .. n /\ p \in Paths
      BY <1>3 DEF Paths
    <3>2. \A i \in 0 .. n, x \in Paths :
             SilentAfter(i, x) => (x \in h[i] <=> fs[x] # Absent)
      BY <1>1 DEF History, n
    <3>3. SilentAfter(1, p) => (p \in h[1] <=> fs[p] # Absent)
      BY <3>1, <3>2
    <3> QED
      BY <1>9, <2>1, <2>2, <2>3, <3>3
  <2>4. CASE p # q
    <3>1. SilentAfter(1, p) => Silent(p)
      <4> SUFFICES ASSUME SilentAfter(1, p), NEW j \in 1 .. n
                   PROVE  channel[j].path # p
        BY DEF Silent, SilentAfter, n
      <4>1. CASE j = 1
        BY <1>3, <2>4, <4>1 DEF q
      <4>2. CASE j > 1
        BY <4>2 DEF SilentAfter, n
      <4> QED
        BY <1>3, <4>1, <4>2
    <3>2. Untold(pending', h[1], p) => Untold(pending, h[0], p)
      BY <1>9, <2>4 DEF Untold
    <3> QED
      BY <1>9, <2>1, <2>2, <2>4, <3>1, <3>2
  <2> QED
    BY <2>3, <2>4
<1>11. GraphKnown(h[1])'
  BY <1>2, <1>10 DEF GraphKnown
<1> QED
  BY <1>2, <1>3, <1>5, <1>7, <1>9, <1>11 DEF Known

\* Without renames a batch is an order of the actions of its entries.
LEMMA BatchesWithoutRenames ==
    ASSUME NEW entries, NEW ready \in SUBSET Paths, IsFiniteSet(ready),
           NEW exists,
           \A p \in ready : entries[p].kind \in {"Create", "Modify", "Remove"},
           NEW actions \in Batches(entries, ready, exists)
    PROVE  actions \in SetToSeqs(Singles(entries, ready, exists))
<1> DEFINE froms == {p \in ready : entries[p].kind = "RenameFrom"}
<1> DEFINE tos == {p \in ready : entries[p].kind = "RenameTo"}
<1> DEFINE F(pairs) == {Removed(p) : p \in Unpaired(froms, {a[1] : a \in pairs})}
<1> DEFINE T(pairs) == {Created(p) : p \in Unpaired(tos, {a[2] : a \in pairs})}
<1> DEFINE G(pairs) == Orders(Paired(pairs), F(pairs), T(pairs),
                              Singles(entries, ready, exists))
<1>1. actions \in UNION {G(pairs) : pairs \in Pairings(froms, tos)}
  BY Zenon DEF Batches
<1>2. froms = {} /\ tos = {}
  OBVIOUS
<1> HIDE DEF G
<1>3. PICK pairs \in Pairings(froms, tos) : actions \in G(pairs)
  BY <1>1
<1> USE DEF G
<1>4. pairs = {}
  BY <1>2 DEF Pairings
<1>a. actions \in Orders(Paired(pairs), F(pairs), T(pairs),
                         Singles(entries, ready, exists))
  BY <1>3
<1>5. Paired(pairs) = {} /\ F(pairs) = {} /\ T(pairs) = {}
  <2>1. \A x : Unpaired(froms, x) = {} /\ Unpaired(tos, x) = {}
    BY <1>2 DEF Unpaired
  <2>2. Paired(pairs) = {}
    BY <1>4 DEF Paired
  <2>3. Unpaired(froms, {a[1] : a \in pairs}) = {}
        /\ Unpaired(tos, {a[2] : a \in pairs}) = {}
    BY <2>1
  <2> HIDE DEF froms, tos
  <2>4. F(pairs) = {} /\ T(pairs) = {}
    BY <2>3
  <2> QED
    BY <2>2, <2>4
<1> HIDE DEF F, T, froms, tos
<1>6. PICK r \in SetToSeqs(Paired(pairs)), g \in SetToSeqs(F(pairs)),
           c \in SetToSeqs(T(pairs)),
           s \in SetToSeqs(Singles(entries, ready, exists)) :
             actions = r \o g \o c \o s
  BY <1>a, OrdersParts
<1>7. r \in SetToSeqs({}) /\ g \in SetToSeqs({}) /\ c \in SetToSeqs({})
  BY <1>5
<1>8. ASSUME NEW e \in SetToSeqs({}) PROVE e = <<>>
  <2>1. IsFiniteSet({})
    BY FS_EmptySet
  <2>2. e \in Seq({})
    BY <2>1, OrdersList
  <2> QED
    BY <2>2
<1>9. r = <<>> /\ g = <<>> /\ c = <<>>
  BY <1>7, <1>8
<1>10. s \in Seq(Singles(entries, ready, exists))
  <2>1. \A p \in ready : entries[p].kind \in PendingKinds
    BY DEF PendingKinds
  <2> QED
    BY <2>1, SinglesAreActions, OrdersList
<1> QED
  BY <1>6, <1>9, <1>10

\* What a flush tells: each ready entry of a source file has its action, but
\* that of a new file that is gone.
LEMMA FlushTells ==
    ASSUME NEW entries, NEW ready \in SUBSET Paths, IsFiniteSet(ready),
           NEW exists,
           \A p \in ready : entries[p].kind \in {"Create", "Modify", "Remove"},
           NEW actions \in Batches(entries, ready, exists)
    PROVE  /\ actions \in Seq(Actions)
           /\ \A i \in 1 .. Len(actions) :
                 /\ actions[i].path \in ready \cap Sources
                 /\ \/ /\ actions[i].type \in {"Created", "Modified"}
                       /\ entries[actions[i].path].kind # "Remove"
                    \/ /\ actions[i].type = "Removed"
                       /\ \/ entries[actions[i].path].kind = "Remove"
                          \/ actions[i].path \notin exists
           /\ \A p \in ready \cap Sources :
                 p \in PathsOf(actions) \/ (/\ entries[p].kind = "Create"
                                            /\ p \notin exists)
<1> DEFINE A == Singles(entries, ready, exists)
<1> DEFINE O == OtherEntries(entries, ready, exists)
<1>1. \A p \in ready : entries[p].kind \in PendingKinds
  BY DEF PendingKinds
<1>2. IsFiniteSet(A) /\ A \subseteq Actions
  BY <1>1, SinglesAreActions
<1>3. actions \in SetToSeqs(A)
  BY BatchesWithoutRenames
<1>4. \A p : p \in O <=> /\ p \in ready \cap Sources
                         /\ entries[p].kind = "Create" => p \in exists
  BY DEF OtherEntries
<1>5. /\ \A a \in A : \E p \in O :
            a = Single(p, entries[p].kind, p \in exists)
      /\ \A p \in O : Single(p, entries[p].kind, p \in exists) \in A
  BY DEF Singles, OtherEntries
<1> HIDE DEF A, O
<1>6. /\ actions \in Seq(A)
      /\ \A a \in A : \E i \in 1 .. Len(actions) : actions[i] = a
  BY <1>2, <1>3, OrdersList
<1>7. actions \in Seq(Actions)
  BY <1>2, <1>6, SeqMonotonic
<1>8. \A p \in O :
        LET a == Single(p, entries[p].kind, p \in exists)
        IN  /\ a.path = p
            /\ \/ a.type \in {"Created", "Modified"} /\ entries[p].kind # "Remove"
               \/ /\ a.type = "Removed"
                  /\ entries[p].kind = "Remove" \/ p \notin exists
  BY <1>4 DEF Single, Created, Modified, Removed
<1>9. ASSUME NEW i \in 1 .. Len(actions)
      PROVE  /\ actions[i].path \in ready \cap Sources
             /\ \/ /\ actions[i].type \in {"Created", "Modified"}
                   /\ entries[actions[i].path].kind # "Remove"
                \/ /\ actions[i].type = "Removed"
                   /\ \/ entries[actions[i].path].kind = "Remove"
                      \/ actions[i].path \notin exists
  <2>1. actions[i] \in A
    BY <1>6
  <2>2. PICK p \in O : actions[i] = Single(p, entries[p].kind, p \in exists)
    BY <1>5, <2>1
  <2> QED
    BY <1>4, <1>8, <2>2
<1>10. ASSUME NEW p \in ready \cap Sources
       PROVE  p \in PathsOf(actions) \/ (/\ entries[p].kind = "Create"
                                         /\ p \notin exists)
  <2> SUFFICES ASSUME p \in O PROVE p \in PathsOf(actions)
    BY <1>4
  <2>1. PICK i \in 1 .. Len(actions) :
             actions[i] = Single(p, entries[p].kind, p \in exists)
    BY <1>5, <1>6
  <2>2. actions[i].path = p
    BY <1>8, <2>1
  <2> QED
    BY <2>2 DEF PathsOf
<1> QED
  BY <1>7, <1>9, <1>10

LEMMA FlushKnown ==
    ASSUME IInv, Types, Known, NEW c \in Cutoffs, FlushReady(c)
    PROVE  Known'
<1>1. PICK h : History(h) /\ EntriesKnown(pending, h[0]) /\ GraphKnown(h[0])
  BY DEF Known
<1> DEFINE heard == h[0]
<1> DEFINE ready == Ready(pending, c)
<1>2. PICK actions \in Batches(pending, ready, OnDisk) :
           IF actions = <<>>
           THEN dpc' = "recv" /\ UNCHANGED <<queueVars, mode>>
           ELSE IF Overflows(actions)
                THEN /\ queue' = IF dirty THEN queue ELSE <<>>
                     /\ dirty' = TRUE
                     /\ mode' = "overflow"
                     /\ dpc' = "reconcile"
                ELSE /\ queue' = queue \o actions
                     /\ dpc' = "update"
                     /\ UNCHANGED <<dirty, mode>>
  BY DEF FlushReady
<1>3. /\ dpc = "flush"
      /\ pending' = [p \in DOMAIN pending \ ready |-> pending[p]]
      /\ UNCHANGED <<fs, channel, live, reread>>
  BY DEF FlushReady, envVars, snapVars
<1>4. queue = <<>> /\ mode = "none" /\ dirty \in BOOLEAN
  BY <1>3 DEF IInv, AtInput, AtRest
<1>5. ready \in SUBSET Paths /\ IsFiniteSet(ready) /\ ready \subseteq DOMAIN pending
  <2>1. ready \subseteq DOMAIN pending
    BY DEF Ready
  <2>2. DOMAIN pending \subseteq Paths /\ IsFiniteSet(DOMAIN pending)
    BY DEF Types, EntriesOK
  <2> QED
    BY <2>1, <2>2, FS_Subset
<1> HIDE DEF ready
<1>6. \A p \in ready : pending[p].kind \in {"Create", "Modify", "Remove"}
  BY <1>1, <1>5 DEF EntriesKnown
<1>7. /\ actions \in Seq(Actions)
      /\ \A i \in 1 .. Len(actions) :
            /\ actions[i].path \in ready \cap Sources
            /\ \/ /\ actions[i].type \in {"Created", "Modified"}
                  /\ pending[actions[i].path].kind # "Remove"
               \/ /\ actions[i].type = "Removed"
                  /\ \/ pending[actions[i].path].kind = "Remove"
                     \/ actions[i].path \notin OnDisk
      /\ \A p \in ready \cap Sources :
            p \in PathsOf(actions) \/ (/\ pending[p].kind = "Create"
                                       /\ p \notin OnDisk)
  BY <1>5, <1>6, FlushTells
<1>8. History(h)'
  BY <1>1, <1>3 DEF History, SilentAfter
<1>9. EntriesKnown(pending', heard)
  BY <1>1, <1>3 DEF EntriesKnown
<1>10. \A p \in Paths : Silent(p) => (p \in heard <=> fs[p] # Absent)
  <2>1. 0 \in 0 .. Len(channel)
    BY DEF Known
  <2> QED
    BY <1>1, <2>1 DEF History, Silent
<1>11. \A p : p \in ready => /\ p \in DOMAIN pending
                             /\ pending[p].kind = "Remove" <=> p \notin heard
  BY <1>1, <1>5 DEF EntriesKnown
<1> HIDE DEF heard
<1>12. ActionsKnown(actions, heard)'
  <2> SUFFICES ASSUME NEW i \in 1 .. Len(actions)
               PROVE  LET a == actions[i]
                      IN  /\ a.type \in {"Created", "Modified", "Removed"}
                          /\ a.path \in Sources \ DOMAIN pending'
                          /\ a.type # "Removed" => a.path \in heard
                          /\ a.type = "Removed" /\ Silent(a.path)'
                                => fs'[a.path] = Absent
    BY DEF ActionsKnown
  <2> DEFINE q == actions[i].path
  <2>1. q \in ready /\ q \in Sources /\ q \in Paths /\ q \notin DOMAIN pending'
    BY <1>3, <1>7 DEF Paths
  <2>2. Silent(q)' => Silent(q)
    BY <1>3 DEF Silent, SilentAfter
  <2>3. q \notin OnDisk => fs[q] = Absent
    BY <2>1 DEF OnDisk
  <2> QED
    BY <1>3, <1>7, <1>10, <1>11, <2>1, <2>2, <2>3
<1>13. ~dirty => UpToDate(live, heard, PathsOf(actions))'
  <2> SUFFICES ASSUME ~dirty, NEW p \in Sources, p \notin PathsOf(actions)
               PROVE  /\ /\ p \notin DOMAIN pending'
                         /\ Silent(p)'
                         /\ fs[p] # Absent \/ ~reread
                         => live[p] = fs[p]
                      /\ ~reread /\ Untold(pending', heard, p)
                            => live[p] = Absent
    BY <1>3 DEF UpToDate, PathsOf
  <2>1. /\ p \notin DOMAIN pending /\ Silent(p) /\ (fs[p] # Absent \/ ~reread)
           => live[p] = fs[p]
        /\ ~reread /\ Untold(pending, heard, p) => live[p] = Absent
    BY <1>1, <1>3 DEF GraphKnown, UpToDate, heard
  <2>2. Silent(p)' <=> Silent(p)
    BY <1>3 DEF Silent, SilentAfter
  <2>3. CASE p \in ready
    <3>1. pending[p].kind = "Create" /\ fs[p] = Absent /\ p \in heard
      BY <1>7, <1>11, <2>3 DEF OnDisk, Paths
    <3>2. ~Silent(p)
      BY <1>10, <3>1 DEF Paths
    <3>3. ~Untold(pending', heard, p)
      BY <1>3, <2>3, <3>1 DEF Untold
    <3> QED
      BY <2>2, <3>2, <3>3
  <2>4. CASE p \notin ready
    <3>1. /\ p \in DOMAIN pending' <=> p \in DOMAIN pending
          /\ p \in DOMAIN pending' => pending'[p] = pending[p]
      BY <1>3, <2>4
    <3>2. Untold(pending', heard, p) => Untold(pending, heard, p)
      BY <3>1 DEF Untold
    <3> QED
      BY <2>1, <2>2, <3>1, <3>2
  <2> QED
    BY <2>3, <2>4
<1>14. GraphKnown(heard)' /\ mode' # "fallback"
  <2>1. CASE actions = <<>>
    <3>1. PathsOf(actions) = {}
      BY <2>1 DEF PathsOf
    <3>2. dpc' = "recv" /\ dirty' = dirty /\ mode' = mode
      BY <1>2, <2>1 DEF queueVars
    <3>3. ~dirty' => UpToDate(live, heard, {})'
      BY <1>13, <3>1, <3>2 DEF UpToDate
    <3> QED
      BY <1>4, <3>2, <3>3 DEF GraphKnown
  <2>2. CASE dpc' = "reconcile" /\ mode' = "overflow"
    BY <2>2 DEF GraphKnown
  <2>3. CASE /\ queue' = queue \o actions /\ dpc' = "update"
             /\ UNCHANGED <<dirty, mode>> /\ ~Overflows(actions)
    <3>1. queue' = actions
      BY <1>4, <1>7, <2>3
    <3>2. ~dirty
      BY <2>3 DEF Overflows
    <3>3. ActionsKnown(queue, heard)' /\ UpToDate(live, heard, PathsOf(queue))'
      BY <1>12, <1>13, <3>1, <3>2 DEF ActionsKnown, UpToDate, PathsOf
    <3> QED
      BY <1>4, <2>3, <3>3 DEF GraphKnown
  <2> QED
    BY <1>2, <2>1, <2>2, <2>3, Zenon
<1> QED
  BY <1>3, <1>8, <1>9, <1>14 DEF Known, heard

\* Steps of the daemon that do not touch files, events or entries.
InsideStep == UNCHANGED <<fs, channel, pending>>

LEMMA InsideKnown ==
    ASSUME InsideStep, Known,
           \A heard : GraphKnown(heard) => GraphKnown(heard)',
           mode' # "fallback"
    PROVE  Known'
BY DEF InsideStep, Known, History, SilentAfter

LEMMA ApplyKnown ==
    ASSUME IInv, Types, Known, NEW heard, GraphKnown(heard),
           ApplyUpsert \/ ApplyRemove
    PROVE  GraphKnown(heard)'
<1> DEFINE a == Head(batch)
<1>1. /\ dpc = "apply" /\ dpc' = "apply" /\ batch # <<>> /\ batch' = Tail(batch)
      /\ changed' # {}
      /\ UNCHANGED <<fs, channel, pending, reread>>
      /\ \/ /\ a.type \in {"Created", "Modified"}
            /\ cand' = [cand EXCEPT ![a.path] = fs[a.path]]
         \/ /\ a.type = "Removed"
            /\ cand' = [cand EXCEPT ![a.path] = Absent]
  BY DEF ApplyUpsert, ApplyRemove, envVars, inputVars, snapVars
<1>2. batch \in Seq(Actions) /\ cand \in [Sources -> Contents]
  BY DEF Types, TypeOK
<1> DEFINE n == Len(batch)
<1>3. /\ n \in Nat \ {0} /\ a = batch[1] /\ Len(batch') = n - 1
      /\ \A i \in 1 .. n - 1 : batch'[i] = batch[i + 1]
  BY <1>1, <1>2
<1>4. /\ ActionsKnown(batch, heard)
      /\ UpToDate(cand, heard, PathsOf(batch))
  BY <1>1 DEF GraphKnown
<1>5. /\ a.path \in Sources \ DOMAIN pending
      /\ a.type # "Removed" => a.path \in heard
      /\ a.type = "Removed" /\ Silent(a.path) => fs[a.path] = Absent
  <2>1. 1 \in 1 .. Len(batch)
    BY <1>3
  <2> QED
    BY <1>3, <1>4, <2>1 DEF ActionsKnown
<1>6. \A p : Silent(p)' <=> Silent(p)
  BY <1>1 DEF Silent, SilentAfter
<1>7. ActionsKnown(batch, heard)'
  <2>1. ASSUME NEW i \in 1 .. n - 1
        PROVE  LET b == batch[i + 1]
               IN  /\ b.type \in {"Created", "Modified", "Removed"}
                   /\ b.path \in Sources \ DOMAIN pending'
                   /\ b.type # "Removed" => b.path \in heard
                   /\ b.type = "Removed" /\ Silent(b.path)
                         => fs'[b.path] = Absent
    <3>1. i + 1 \in 1 .. Len(batch)
      BY <1>3
    <3> QED
      BY <1>1, <1>4, <3>1 DEF ActionsKnown
  <2>2. ASSUME NEW i \in 1 .. Len(batch')
        PROVE  /\ batch'[i].type \in {"Created", "Modified", "Removed"}
               /\ batch'[i].path \in Sources \ DOMAIN pending'
               /\ batch'[i].type # "Removed" => batch'[i].path \in heard
               /\ /\ batch'[i].type = "Removed"
                  /\ \A j \in 1 .. Len(channel) :
                        j > 0 => channel[j].path # batch'[i].path
                  => fs'[batch'[i].path] = Absent
    <3>1. i \in 1 .. n - 1 /\ batch'[i] = batch[i + 1]
      BY <1>3
    <3> QED
      BY <2>1, <3>1 DEF Silent, SilentAfter
  <2> QED
    BY <1>1, <2>2 DEF ActionsKnown, Silent, SilentAfter
<1>8. \A p \in PathsOf(batch) : p = a.path \/ p \in PathsOf(batch')
  <2> SUFFICES ASSUME NEW i \in 1 .. n, i # 1
               PROVE  batch[i].path \in PathsOf(batch')
    BY <1>3 DEF PathsOf
  <2>1. i - 1 \in 1 .. n - 1 /\ batch'[i - 1] = batch[i]
    BY <1>3
  <2> QED
    BY <1>3, <2>1 DEF PathsOf
<1> HIDE DEF a, n
<1>9. UpToDate(cand, heard, PathsOf(batch))'
  <2> SUFFICES ASSUME NEW p \in Sources, p \notin PathsOf(batch')
               PROVE  /\ /\ p \notin DOMAIN pending
                         /\ Silent(p)
                         /\ fs[p] # Absent \/ ~reread
                         => cand'[p] = fs[p]
                      /\ ~reread /\ Untold(pending, heard, p)
                            => cand'[p] = Absent
    BY <1>1, <1>6 DEF UpToDate, PathsOf
  <2>1. CASE p = a.path
    BY <1>1, <1>2, <1>5, <2>1 DEF Untold
  <2>2. CASE p # a.path
    <3>1. p \notin PathsOf(batch) /\ cand'[p] = cand[p]
      BY <1>1, <1>2, <1>8, <2>2
    <3> QED
      BY <1>4, <3>1 DEF UpToDate
  <2> QED
    BY <2>1, <2>2
<1> QED
  BY <1>1, <1>7, <1>9 DEF GraphKnown

\* A finished update or recovery makes the graph as current as its candidate.
LEMMA FinishKnown ==
    ASSUME IInv, Types, Known, NEW heard, GraphKnown(heard),
           FinishUpdate \/ FinishReconcile
    PROVE  GraphKnown(heard)'
<1>1. UNCHANGED <<fs, channel, pending>> /\ dpc' \in {"enqueue", "status"}
  BY DEF FinishUpdate, FinishReconcile, envVars, inputVars
<1>2. \A p : Silent(p)' <=> Silent(p)
  BY <1>1 DEF Silent, SilentAfter
<1>3. CASE FinishUpdate
  <2>1. dpc = "apply" /\ batch = <<>> /\ reread \in BOOLEAN
    BY <1>3 DEF FinishUpdate, Types, TypeOK
  <2>2. /\ UpToDate(cand, heard, PathsOf(batch))
        /\ changed = {} => cand = live
    BY <2>1 DEF GraphKnown
  <2>3. PathsOf(batch) = {}
    BY <2>1 DEF PathsOf
  <2>4. live' = cand /\ reread' = reread
    BY <1>3, <2>1, <2>2 DEF FinishUpdate, Publish, snapVars
  <2>5. UpToDate(live, heard, {})'
    BY <1>1, <1>2, <2>2, <2>3, <2>4 DEF UpToDate
  <2> QED
    BY <1>1, <2>5 DEF GraphKnown
<1>4. CASE FinishReconcile
  <2>1. dpc = "read" /\ todo = {} /\ live' = cand /\ reread' = TRUE
    BY <1>4 DEF FinishReconcile, Publish
  <2>2. \A p \in Sources : fs[p] # Absent /\ Silent(p) => cand[p] = fs[p]
    BY <2>1 DEF GraphKnown
  <2>3. UpToDate(live, heard, {})'
    BY <1>1, <1>2, <2>1, <2>2 DEF UpToDate
  <2> QED
    BY <1>1, <2>3 DEF GraphKnown
<1> QED
  BY <1>3, <1>4

\* A reconciliation reads the files that were there when it listed them; of
\* those that are not read yet, or are new since, there is news.
LEMMA ReadKnown ==
    ASSUME IInv, Types, Known, NEW heard, GraphKnown(heard),
           Scan \/ \E p \in Sources : ReadFile(p)
    PROVE  GraphKnown(heard)'
<1>1. UNCHANGED <<fs, channel, pending>> /\ dpc' = "read"
  BY DEF Scan, ReadFile, envVars, inputVars
<1>2. \A p : Silent(p)' <=> Silent(p)
  BY <1>1 DEF Silent, SilentAfter
<1>3. CASE Scan
  <2>1. todo' = OnDisk \cap Sources
    BY <1>3 DEF Scan
  <2>2. \A p \in Sources \ todo' : fs[p] = Absent
    BY <2>1 DEF OnDisk, Paths
  <2> QED
    BY <1>1, <2>2 DEF GraphKnown
<1>4. ASSUME NEW p \in Sources, ReadFile(p) PROVE GraphKnown(heard)'
  <2>1. dpc = "read" /\ cand' = [cand EXCEPT ![p] = fs[p]] /\ todo' = todo \ {p}
    BY <1>4 DEF ReadFile
  <2>2. cand \in [Sources -> Contents]
    BY DEF Types, TypeOK
  <2>3. \A x \in Sources \ todo' :
           fs[x] # Absent /\ Silent(x) => cand'[x] = fs[x]
    BY <2>1, <2>2 DEF GraphKnown
  <2> QED
    BY <1>1, <1>2, <2>3 DEF GraphKnown
<1> QED
  BY <1>3, <1>4

\* The other steps move the thread on and leave the graph alone.
LEMMA PassKnown ==
    ASSUME IInv, Types, Known, NEW heard, GraphKnown(heard),
           CreateWatcher \/ ReceiveTimesOut \/ BeginUpdate
           \/ EnqueueSnapshot \/ WriteStatus
    PROVE  GraphKnown(heard)'
<1>1. UNCHANGED <<fs, channel, pending, live, reread, dirty>>
  BY DEF CreateWatcher, ReceiveTimesOut, BeginUpdate, EnqueueSnapshot,
         WriteStatus, envVars, inputVars, snapVars, queueVars
<1>2. \A p : Silent(p)' <=> Silent(p)
  BY <1>1 DEF Silent, SilentAfter
<1>3. CASE BeginUpdate
  <2>1. /\ dpc = "update" /\ dpc' = "apply"
        /\ batch' = queue /\ cand' = live
    BY <1>3 DEF BeginUpdate
  <2>2. ActionsKnown(queue, heard) /\ UpToDate(live, heard, PathsOf(queue))
    BY <2>1 DEF GraphKnown
  <2>3. ActionsKnown(batch, heard)'
    BY <1>1, <2>1, <2>2 DEF ActionsKnown, Silent, SilentAfter
  <2>4. PathsOf(batch') = PathsOf(queue)
    BY <2>1
  <2>5. UpToDate(cand, heard, PathsOf(batch))'
    BY <1>1, <1>2, <2>1, <2>2, <2>4 DEF UpToDate
  <2> QED
    BY <1>1, <2>1, <2>3, <2>5 DEF GraphKnown
<1>4. CASE CreateWatcher \/ ReceiveTimesOut \/ EnqueueSnapshot \/ WriteStatus
  <2>1. /\ dpc \in {"start", "recv", "flush", "enqueue", "status"}
        /\ dpc' \in {"recv", "flush", "enqueue", "status"}
    BY <1>4 DEF CreateWatcher, ReceiveTimesOut, EnqueueSnapshot, WriteStatus
  <2>2. ~dirty => UpToDate(live, heard, {})
    BY <2>1 DEF GraphKnown
  <2>3. ~dirty => UpToDate(live, heard, {})'
    BY <1>1, <1>2, <2>2 DEF UpToDate
  <2> QED
    BY <1>1, <2>1, <2>3 DEF GraphKnown
<1> QED
  BY <1>3, <1>4

LEMMA NoRenames ==
    ASSUME Types, Known
    PROVE  ~ApplyRename /\ ~ApplyUnknownRename /\ ~FinishFallback
<1>1. ~FinishFallback
  BY DEF Known, FinishFallback
<1>2. ASSUME dpc = "apply", batch # <<>>
      PROVE  Head(batch).type # "Renamed"
  <2>1. PICK h : GraphKnown(h[0])
    BY DEF Known
  <2>2. ActionsKnown(batch, h[0])
    BY <1>2, <2>1 DEF GraphKnown
  <2>3. 1 \in 1 .. Len(batch) /\ Head(batch) = batch[1]
    BY <1>2 DEF Types, TypeOK
  <2> QED
    BY <2>2, <2>3 DEF ActionsKnown
<1> QED
  BY <1>1, <1>2 DEF ApplyRename, ApplyUnknownRename

\* Every step preserves what is known.
LEMMA StepKnown ==
    ASSUME FilesOnly
    PROVE  IInv /\ Types /\ Known /\ [Next]_vars => Known'
<1> SUFFICES ASSUME IInv, Types, Known, [Next]_vars
             PROVE  Known'
  OBVIOUS
<1>1. CASE FilesChange
  BY <1>1, ChangeKnown
<1>2. CASE Receive
  BY <1>2, ReceiveKnown
<1>3. ASSUME NEW c \in Cutoffs, FlushReady(c) PROVE Known'
  BY <1>3, FlushKnown
<1>m. mode # "fallback"
  BY DEF Known
<1>4. CASE ApplyUpsert \/ ApplyRemove
  <2>1. InsideStep /\ mode' # "fallback"
    BY <1>4, <1>m DEF ApplyUpsert, ApplyRemove, InsideStep, envVars, inputVars
  <2>2. \A heard : GraphKnown(heard) => GraphKnown(heard)'
    BY <1>4, ApplyKnown
  <2> QED
    BY <2>1, <2>2, InsideKnown
<1>5. CASE FinishUpdate \/ FinishReconcile
  <2>1. InsideStep /\ mode' # "fallback"
    BY <1>5, <1>m DEF FinishUpdate, FinishReconcile, InsideStep, envVars,
       inputVars, workVars
  <2>2. \A heard : GraphKnown(heard) => GraphKnown(heard)'
    BY <1>5, FinishKnown
  <2> QED
    BY <2>1, <2>2, InsideKnown
<1>6. CASE Scan \/ \E p \in Sources : ReadFile(p)
  <2>1. InsideStep /\ mode' # "fallback"
    BY <1>6, <1>m DEF Scan, ReadFile, InsideStep, envVars, inputVars
  <2>2. \A heard : GraphKnown(heard) => GraphKnown(heard)'
    BY <1>6, ReadKnown
  <2> QED
    BY <2>1, <2>2, InsideKnown
<1>7. CASE CreateWatcher \/ ReceiveTimesOut \/ BeginUpdate
           \/ EnqueueSnapshot \/ WriteStatus
  <2>1. InsideStep /\ mode' # "fallback"
    BY <1>7, <1>m DEF CreateWatcher, ReceiveTimesOut, BeginUpdate,
       EnqueueSnapshot, WriteStatus, InsideStep, envVars, inputVars, workVars
  <2>2. \A heard : GraphKnown(heard) => GraphKnown(heard)'
    BY <1>7, PassKnown
  <2> QED
    BY <2>1, <2>2, InsideKnown
<1>8. CASE ApplyFails \/ BeginReconcile
  <2>1. InsideStep /\ mode' # "fallback" /\ dpc' \in {"reconcile", "scan"}
    BY <1>8, <1>m DEF ApplyFails, BeginReconcile, InsideStep, envVars,
       inputVars, workVars
  <2>2. \A heard : GraphKnown(heard)'
    BY <2>1 DEF GraphKnown
  <2> QED
    BY <2>1, <2>2, InsideKnown
<1>9. CASE FileVanished \/ ReconcileFails
  <2>1. ReconcileError /\ dpc \in {"scan", "read"}
    BY <1>9 DEF FileVanished, ReconcileFails
  <2>2. mode \in {"overflow", "recover"}
    BY <1>m, <2>1 DEF IInv, AtRead
  <2>3. /\ InsideStep /\ mode' # "fallback"
        /\ dpc' \in {"enqueue", "status"} /\ dirty' = TRUE
    BY <2>1, <2>2 DEF ReconcileError, InsideStep, envVars, inputVars
  <2>4. \A heard : GraphKnown(heard)'
    BY <2>3 DEF GraphKnown
  <2> QED
    BY <2>3, <2>4, InsideKnown
<1>10. CASE UNCHANGED vars
  BY <1>10 DEF vars, Known, History, SilentAfter, EntriesKnown, GraphKnown,
               ActionsKnown, UpToDate, Untold, PathsOf, Silent
<1> QED
  BY <1>1, <1>2, <1>3, <1>4, <1>5, <1>6, <1>7, <1>8, <1>9, <1>10, NoRenames
     DEF Next, Daemon, Input, Update, Reconcile, Output, Fault

\* As long as files are created, written and deleted only, and not before the
\* watcher is there, the live graph converges: once the daemon has taken in
\* every change and has not given up, every file that exists is in the graph
\* with its last content, and without a reconciliation no file that is gone
\* is left in it; for any files, queue capacity, changes, failures, and any
\* interleaving of the changes with the daemon's reading.
THEOREM GraphConverges ==
    ASSUME FilesOnly
    PROVE  Spec => []ConvergesWhenQuiet
<1>1. Types /\ Known => ConvergesWhenQuiet
  <2> SUFFICES ASSUME Types, Known, Quiet, NEW p \in Sources,
                      fs[p] # Absent \/ ~reread
               PROVE  live[p] = fs[p]
    BY DEF ConvergesWhenQuiet
  <2>1. PICK h : GraphKnown(h[0])
    BY DEF Known
  <2>2. UpToDate(live, h[0], {})
    BY <2>1 DEF GraphKnown, Quiet
  <2>3. p \notin DOMAIN pending /\ Silent(p)
    BY DEF Quiet, NoPending, Silent, SilentAfter
  <2> QED
    BY <2>2, <2>3 DEF UpToDate
<1>2. Spec => [](IInv /\ Types /\ Known)
  <2>1. Init => IInv /\ Types /\ Known
    BY InitIInv, InitTypes, InitKnown
  <2>2. IInv /\ Types /\ Known /\ [Next]_vars => (IInv /\ Types /\ Known)'
    BY StepIInv, StepTypes, StepKnown
  <2> QED
    BY <2>1, <2>2, PTL DEF Spec
<1> QED
  BY <1>1, <1>2, PTL
=============================================================================
