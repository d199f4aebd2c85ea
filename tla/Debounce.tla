------------------------------ MODULE Debounce ------------------------------
(***************************************************************************)
(* The debouncer: filesystem events are coalesced per path into one        *)
(* pending kind, and the entries that have been quiet for the debounce     *)
(* window leave it together as a batch of semantic actions.                *)
(*                                                                         *)
(* `pending' is a function from the paths that have an entry to records    *)
(* [kind, seen]; `seen' stands for last_seen, as the number of the event   *)
(* that touched the entry last.                                            *)
(***************************************************************************)
EXTENDS Naturals, Sequences, FiniteSets, SequencesExt

CONSTANTS Sources,  \* paths of source files: is_relevant_source_file holds
          Others    \* other paths that events may name: not a source file

Paths == Sources \cup Others

PendingKinds == {"Create", "Modify", "Remove", "RenameFrom", "RenameTo"}

NoPending == [p \in {} |-> [kind |-> "Modify", seen |-> 0]]

\* Semantic actions.
Created(p) == [type |-> "Created", path |-> p]
Modified(p) == [type |-> "Modified", path |-> p]
Removed(p) == [type |-> "Removed", path |-> p]
Renamed(p, q) == [type |-> "Renamed", from |-> p, to |-> q]

Actions == {Created(p) : p \in Sources} \cup {Modified(p) : p \in Sources}
           \cup {Removed(p) : p \in Sources}
           \cup {Renamed(p, q) : p \in Paths, q \in Paths}

-----------------------------------------------------------------------------
(* Slips a change to this code could make, each with the parameters of the *)
(* operator it would replace; never used by the model itself.              *)

\* The removal of any pending file cancels its entry, not only of a new one.
RecordCancelsRemoval(pending, p, kind, now) ==
    IF p \in DOMAIN pending /\ kind = "Remove"
    THEN [x \in DOMAIN pending \ {p} |-> pending[x]]
    ELSE [x \in DOMAIN pending \cup {p} |->
             IF x = p THEN [kind |-> kind, seen |-> now] ELSE pending[x]]

\* The window must have elapsed strictly before the entry last seen.
ReadyStrictly(pending, cutoff) ==
    {p \in DOMAIN pending : pending[p].seen < cutoff}

-----------------------------------------------------------------------------
\* record_path: the kind an entry has after a further event.  A new file that
\* is written to stays new, a re-creation after a removal is a modification,
\* otherwise the later kind wins.
Coalesce(old, new) ==
    CASE old = "Create" /\ new = "Modify" -> "Create"
      [] old = "Remove" /\ new = "Create" -> "Modify"
      [] OTHER -> new

\* record_path: the event is recorded on the entry of p, or makes one; only
\* the removal of a file that was pending as new deletes the entry instead.
Record(pending, p, kind, now) ==
    IF p \in DOMAIN pending /\ pending[p].kind = "Create" /\ kind = "Remove"
    THEN [x \in DOMAIN pending \ {p} |-> pending[x]]
    ELSE [x \in DOMAIN pending \cup {p} |->
             IF x # p THEN pending[x]
             ELSE [kind |-> IF p \in DOMAIN pending
                            THEN Coalesce(pending[p].kind, kind)
                            ELSE kind,
                   seen |-> now]]

\* ingest_event: a rename that names both paths is recorded on both.
Ingest(pending, event, now) ==
    IF event.kind = "RenameBoth"
    THEN Record(Record(pending, event.from, "RenameFrom", now),
                event.to, "RenameTo", now)
    ELSE Record(pending, event.path, event.kind, now)

-----------------------------------------------------------------------------
(* flush_ready                                                             *)

\* The entries whose window has elapsed: all those last seen by `cutoff'.
Ready(pending, cutoff) == {p \in DOMAIN pending : pending[p].seen <= cutoff}

\* The action for the entry of a source file that is no rename; exists is
\* read at the flush, and a new file that is gone again needs none.
Single(p, kind, exists) ==
    CASE kind = "Create" -> Created(p)
      [] kind = "Modify" -> IF exists THEN Modified(p) ELSE Removed(p)
      [] kind = "Remove" -> Removed(p)

\* Renames are paired in the order the hash map yields the paths, which is
\* any order, so any of them can meet, until one side is used up.
Pairings(froms, tos) ==
    {pairs \in SUBSET (froms \X tos) :
        /\ Cardinality(pairs) = Min({Cardinality(froms), Cardinality(tos)})
        /\ \A a, b \in pairs : a # b => a[1] # b[1] /\ a[2] # b[2]}

\* Pairs that do not touch a source file are dropped.
Paired(pairs) ==
    {Renamed(a[1], a[2]) :
        a \in {b \in pairs : b[1] \in Sources \/ b[2] \in Sources}}

\* The source files of a side that are left unpaired.
Unpaired(side, paired) == (side \ paired) \cap Sources

\* The actions of the other entries.
Singles(pending, ready, exists) ==
    {Single(p, pending[p].kind, p \in exists) :
        p \in {q \in ready \cap Sources :
                  /\ pending[q].kind \notin {"RenameFrom", "RenameTo"}
                  /\ pending[q].kind = "Create" => q \in exists}}

\* A batch has the renames, then what is left of them as removals and
\* creations, then the other actions, each in the order of the hash map.
Orders(renames, removals, creations, singles) ==
    {r \o g \o c \o s : r \in SetToSeqs(renames), g \in SetToSeqs(removals),
                        c \in SetToSeqs(creations), s \in SetToSeqs(singles)}

\* The batches a flush of the entries `ready' can produce.
Batches(pending, ready, exists) ==
    LET ofKind(k) == {p \in ready : pending[p].kind = k}
        froms == ofKind("RenameFrom")
        tos == ofKind("RenameTo")
    IN  UNION {Orders(Paired(pairs),
                      {Removed(p) :
                          p \in Unpaired(froms, {a[1] : a \in pairs})},
                      {Created(p) :
                          p \in Unpaired(tos, {a[2] : a \in pairs})},
                      Singles(pending, ready, exists)) :
               pairs \in Pairings(froms, tos)}
=============================================================================
