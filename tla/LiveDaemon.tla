----------------------------- MODULE LiveDaemon -----------------------------
(***************************************************************************)
(* The live daemon: files of the repository change, the watcher sends      *)
(* events, and the daemon thread ingests them, flushes what the debouncer  *)
(* has ready into the update queue, and brings the live graph up to date,  *)
(* selectively or, after an overflow or a failure, by reading everything.  *)
(*                                                                         *)
(* The content of a file is the number of the change that wrote it, and    *)
(* the graph is represented by the content of each source file it was      *)
(* built from; 0 stands for "no such file".  Files change between any two  *)
(* steps of the daemon thread, in particular while it reads them.          *)
(***************************************************************************)
EXTENDS Debounce

CONSTANTS Changes,   \* the kinds of file changes that happen
          Early,     \* whether files may change before the watcher is set up
          Capacity,  \* capacity of the update queue
          MaxChanges,\* bound: file changes
          MaxFaults  \* bound: reads that fail though the file exists

ChangeKinds == {"create", "edit", "delete", "rename", "moveIn", "moveOut"}

ASSUME ParametersOK ==
    /\ Changes \subseteq ChangeKinds
    /\ Early \in BOOLEAN
    /\ Capacity \in Nat
    /\ MaxChanges \in Nat
    /\ MaxFaults \in Nat

Absent == 0
Contents == 0 .. MaxChanges + 1

VARIABLES
    fs,       \* content of each path
    changes,  \* changes made so far
    faults,   \* faults so far (bound only)
    watching, \* the watcher exists
    channel,  \* events sent and not yet received
    pending,  \* the debouncer's entries
    clock,    \* events ingested so far
    queue,    \* UpdateQueue.queue
    dirty,    \* UpdateQueue.dirty
    live,     \* workspace and published graph: content used of each source
    gen,      \* generation of the published snapshot
    reread,   \* observer: a reconciliation was published
    overflowed, \* observer: the published snapshot made up for an overflow
    health,   \* DaemonHealth
    handed,   \* generation last handed to the persistence worker
    status,   \* what daemon.json says
    dpc,      \* control of the daemon thread
    mode,     \* which reconciliation is under way
    batch,    \* actions of the update under way still to apply
    todo,     \* listed files the reconciliation still has to read
    cand,     \* the candidate workspace
    changed   \* changed_files of the update under way

envVars == <<fs, changes>>
inputVars == <<watching, channel, pending, clock>>
queueVars == <<queue, dirty>>
snapVars == <<live, gen, reread, overflowed>>
outVars == <<handed, status>>
workVars == <<mode, batch, todo, cand, changed>>
vars == <<fs, changes, faults, watching, channel, pending, clock, queue,
          dirty, live, gen, reread, overflowed, health, handed, status, dpc,
          mode, batch, todo, cand, changed>>

Nothing == [p \in Sources |-> Absent]
OnDisk == {p \in Paths : fs[p] # Absent}
SourcesOf(files) == [p \in Sources |-> files[p]]

\* The candidate, made by an update or by a reconciliation of some mode,
\* replaces the published snapshot under the next generation.
Publish(by) ==
    /\ live' = cand
    /\ gen' = gen + 1
    /\ reread' = (reread \/ by # "update")
    /\ overflowed' = (by = "overflow")

\* new() has built the graph; run() has not set up the watcher yet.
Init ==
    /\ fs \in [Paths -> {Absent, 1}]
    /\ changes = 0
    /\ faults = 0
    /\ watching = FALSE
    /\ channel = <<>>
    /\ pending = NoPending
    /\ clock = 0
    /\ queue = <<>>
    /\ dirty = FALSE
    /\ live = SourcesOf(fs)
    /\ gen = 1
    /\ reread = FALSE
    /\ overflowed = FALSE
    /\ health = "Healthy"
    /\ handed = 0
    /\ status = [gen |-> 0, dirty |-> FALSE, health |-> "Healthy"]
    /\ dpc = "start"
    /\ mode = "none"
    /\ batch = <<>>
    /\ todo = {}
    /\ cand = Nothing
    /\ changed = {}

-----------------------------------------------------------------------------
(* Slips a change to this code could make.  Each stands for the definition  *)
(* of the same parameters it would replace and is never part of Next; the   *)
(* runs show which property would notice it.                                *)

\* push_batch looks at what is queued only, not at what is added.
OverflowsLate(actions) == dirty \/ Len(queue) > Capacity

\* push_batch accepts actions while dirty.
OverflowsByLength(actions) == Len(queue) + Len(actions) > Capacity

\* A failed update publishes what it had applied so far.
ApplyFailsPublishes ==
    /\ dpc = "apply"
    /\ batch # <<>>
    /\ Head(batch).type # "Removed"
    /\ faults < MaxFaults
    /\ faults' = faults + 1
    /\ batch' = <<>>
    /\ Publish("update")
    /\ health' = "Dirty"
    /\ dirty' = TRUE
    /\ mode' = "recover"
    /\ dpc' = "reconcile"
    /\ UNCHANGED <<envVars, inputVars, queue, outVars, todo, cand, changed>>

\* No recovery hands its snapshot over for persistence.
FinishReconcileSilently ==
    /\ dpc = "read"
    /\ todo = {}
    /\ mode \in {"overflow", "recover"}
    /\ Publish(mode)
    /\ health' = "Healthy"
    /\ dirty' = FALSE
    /\ queue' = <<>>
    /\ dpc' = "status"
    /\ mode' = "none"
    /\ UNCHANGED <<envVars, faults, inputVars, outVars, batch, todo, cand,
                   changed>>

\* A successful recovery leaves the dirty flag set.
FinishReconcileDirty ==
    /\ dpc = "read"
    /\ todo = {}
    /\ mode \in {"overflow", "recover"}
    /\ Publish(mode)
    /\ health' = "Healthy"
    /\ dpc' = IF mode = "overflow" THEN "status" ELSE "enqueue"
    /\ mode' = "none"
    /\ UNCHANGED <<envVars, faults, inputVars, queueVars, outVars, batch,
                   todo, cand, changed>>

-----------------------------------------------------------------------------
(* Files change, and the watcher sends the event.                          *)

\* A change of the given kind that sends `event' if somebody watches.
Change(kind, event) ==
    /\ kind \in Changes
    /\ changes < MaxChanges
    /\ watching \/ Early
    /\ changes' = changes + 1
    /\ channel' = IF watching THEN Append(channel, event) ELSE channel
    /\ UNCHANGED <<faults, watching, pending, clock, queueVars, snapVars,
                   health, outVars, dpc, workVars>>

NewContent == changes + 2

CreateFile(p) ==
    /\ fs[p] = Absent
    /\ fs' = [fs EXCEPT ![p] = NewContent]
    /\ Change("create", [kind |-> "Create", path |-> p])

EditFile(p) ==
    /\ fs[p] # Absent
    /\ fs' = [fs EXCEPT ![p] = NewContent]
    /\ Change("edit", [kind |-> "Modify", path |-> p])

DeleteFile(p) ==
    /\ fs[p] # Absent
    /\ fs' = [fs EXCEPT ![p] = Absent]
    /\ Change("delete", [kind |-> "Remove", path |-> p])

\* A rename inside the repository, over an existing file or not.
RenameFile(p, q) ==
    /\ p # q
    /\ fs[p] # Absent
    /\ fs' = [fs EXCEPT ![p] = Absent, ![q] = NewContent]
    /\ Change("rename", [kind |-> "RenameBoth", from |-> p, to |-> q])

\* Renames across the border of the repository.
MoveIn(p) ==
    /\ fs' = [fs EXCEPT ![p] = NewContent]
    /\ Change("moveIn", [kind |-> "RenameTo", path |-> p])

MoveOut(p) ==
    /\ fs[p] # Absent
    /\ fs' = [fs EXCEPT ![p] = Absent]
    /\ Change("moveOut", [kind |-> "RenameFrom", path |-> p])

FilesChange ==
    \E p \in Paths :
        \/ CreateFile(p) \/ EditFile(p) \/ DeleteFile(p)
        \/ MoveIn(p) \/ MoveOut(p)
        \/ \E q \in Paths : RenameFile(p, q)

-----------------------------------------------------------------------------
(* The daemon thread: the watcher, the debouncer and the queue.            *)

\* run() sets up the watcher, enqueues the initial snapshot and writes the
\* first status file.
CreateWatcher ==
    /\ dpc = "start"
    /\ watching' = TRUE
    /\ dpc' = "enqueue"
    /\ UNCHANGED <<envVars, faults, channel, pending, clock, queueVars,
                   snapVars, health, outVars, workVars>>

\* recv_timeout yields an event, and the debouncer ingests it.
Receive ==
    /\ dpc = "recv"
    /\ channel # <<>>
    /\ channel' = Tail(channel)
    /\ clock' = clock + 1
    /\ pending' = Ingest(pending, Head(channel), clock')
    /\ dpc' = "flush"
    /\ UNCHANGED <<envVars, faults, watching, queueVars, snapVars, health,
                   outVars, workVars>>

ReceiveTimesOut ==
    /\ dpc = "recv"
    /\ channel = <<>>
    /\ dpc' = "flush"
    /\ UNCHANGED <<envVars, faults, inputVars, queueVars, snapVars, health,
                   outVars, workVars>>

\* push_batch turns the batch down.
Overflows(actions) == dirty \/ Len(queue) + Len(actions) > Capacity

\* The debounce window of every entry last seen by `cutoff' has elapsed.
\* push_batch takes the batch as a whole; a batch that does not fit, and
\* every batch while dirty, leads to a reconciliation instead.
FlushReady(cutoff) ==
    /\ dpc = "flush"
    /\ LET ready == Ready(pending, cutoff)
       IN  /\ pending' = [p \in DOMAIN pending \ ready |-> pending[p]]
           /\ \E actions \in Batches(pending, ready, OnDisk) :
                IF actions = <<>>
                THEN dpc' = "recv" /\ UNCHANGED <<queueVars, mode>>
                ELSE IF Overflows(actions)
                     THEN /\ queue' = IF dirty THEN queue ELSE <<>>
                          /\ dirty' = TRUE
                          /\ mode' = "overflow"
                          /\ dpc' = "reconcile"
                     ELSE /\ queue' = queue \o actions
                          /\ dpc' = "update"
                          /\ UNCHANGED <<dirty, mode>>
    /\ UNCHANGED <<envVars, faults, watching, channel, clock, snapVars,
                   health, outVars, batch, todo, cand, changed>>

Cutoffs == {0} \cup {pending[p].seen : p \in DOMAIN pending}

-----------------------------------------------------------------------------
(* The daemon thread: a selective update (apply_actions).                  *)

\* The queue is drained and a clone of the workspace prepared.
BeginUpdate ==
    /\ dpc = "update"
    /\ batch' = queue
    /\ queue' = <<>>
    /\ health' = "Updating"
    /\ cand' = live
    /\ changed' = {}
    /\ dpc' = "apply"
    /\ UNCHANGED <<envVars, faults, inputVars, dirty, snapVars, outVars, mode,
                   todo>>

\* Created and Modified read the file, or forget it when it is gone.
ApplyUpsert ==
    /\ dpc = "apply"
    /\ batch # <<>>
    /\ LET a == Head(batch)
       IN  /\ a.type \in {"Created", "Modified"}
           /\ cand' = [cand EXCEPT ![a.path] = fs[a.path]]
           /\ changed' = changed \cup {a.path}
    /\ batch' = Tail(batch)
    /\ UNCHANGED <<envVars, faults, inputVars, queueVars, snapVars, health,
                   outVars, dpc, mode, todo>>

ApplyRemove ==
    /\ dpc = "apply"
    /\ batch # <<>>
    /\ LET a == Head(batch)
       IN  /\ a.type = "Removed"
           /\ cand' = [cand EXCEPT ![a.path] = Absent]
           /\ changed' = changed \cup {a.path}
    /\ batch' = Tail(batch)
    /\ UNCHANGED <<envVars, faults, inputVars, queueVars, snapVars, health,
                   outVars, dpc, mode, todo>>

\* The source of the rename is a file of the candidate and its target exists.
KnownRename(a) ==
    /\ a.from \in Sources /\ cand[a.from] # Absent
    /\ fs[a.to] # Absent

ApplyRename ==
    /\ dpc = "apply"
    /\ batch # <<>>
    /\ LET a == Head(batch)
       IN  /\ a.type = "Renamed"
           /\ KnownRename(a)
           /\ cand' = [p \in Sources |-> CASE p = a.to -> fs[p]
                                           [] p = a.from -> Absent
                                           [] OTHER -> cand[p]]
           /\ changed' = changed \cup {a.from, a.to}
    /\ batch' = Tail(batch)
    /\ UNCHANGED <<envVars, faults, inputVars, queueVars, snapVars, health,
                   outVars, dpc, mode, todo>>

\* An unknown rename gives up the rest of the batch and reads everything.
ApplyUnknownRename ==
    /\ dpc = "apply"
    /\ batch # <<>>
    /\ Head(batch).type = "Renamed"
    /\ ~KnownRename(Head(batch))
    /\ batch' = <<>>
    /\ mode' = "fallback"
    /\ dpc' = "scan"
    /\ UNCHANGED <<envVars, faults, inputVars, queueVars, snapVars, health,
                   outVars, todo, cand, changed>>

\* A file that exists cannot be read or parsed: the update fails.
ApplyFails ==
    /\ dpc = "apply"
    /\ batch # <<>>
    /\ LET a == Head(batch)
           p == IF a.type = "Renamed" THEN a.to ELSE a.path
       IN  /\ a.type # "Removed"
           /\ fs[p] # Absent
           /\ a.type = "Renamed" => KnownRename(a)
    /\ faults < MaxFaults
    /\ faults' = faults + 1
    /\ batch' = <<>>
    /\ health' = "Dirty"
    /\ dirty' = TRUE
    /\ mode' = "recover"
    /\ dpc' = "reconcile"
    /\ UNCHANGED <<envVars, inputVars, queue, snapVars, outVars, todo, cand,
                   changed>>

\* The whole batch is applied: the candidate is published if anything was
\* affected.
FinishUpdate ==
    /\ dpc = "apply"
    /\ batch = <<>>
    /\ IF changed # {}
       THEN Publish("update")
       ELSE UNCHANGED snapVars
    /\ health' = "Healthy"
    /\ dpc' = "enqueue"
    /\ UNCHANGED <<envVars, faults, inputVars, queueVars, outVars, workVars>>

-----------------------------------------------------------------------------
(* The daemon thread: reconciliation (reconcile_full), after an overflow or *)
(* a failure, or as the fallback of a selective update.                     *)

BeginReconcile ==
    /\ dpc = "reconcile"
    /\ health' = "Recovering"
    /\ dpc' = "scan"
    /\ UNCHANGED <<envVars, faults, inputVars, queueVars, snapVars, outVars,
                   workVars>>

\* scan_repo lists the source files.
Scan ==
    /\ dpc = "scan"
    /\ todo' = OnDisk \cap Sources
    /\ cand' = Nothing
    /\ dpc' = "read"
    /\ UNCHANGED <<envVars, faults, inputVars, queueVars, snapVars, health,
                   outVars, mode, batch, changed>>

ReadFile(p) ==
    /\ dpc = "read"
    /\ p \in todo
    /\ fs[p] # Absent
    /\ cand' = [cand EXCEPT ![p] = fs[p]]
    /\ todo' = todo \ {p}
    /\ UNCHANGED <<envVars, faults, inputVars, queueVars, snapVars, health,
                   outVars, dpc, mode, batch, changed>>

\* What the callers do with an error of reconcile_full.
ReconcileError ==
    /\ dirty' = TRUE
    /\ todo' = {}
    /\ CASE mode = "fallback" -> /\ health' = "Dirty"
                                 /\ mode' = "recover"
                                 /\ dpc' = "reconcile"
         [] mode = "recover"  -> /\ health' = "Failed"
                                 /\ mode' = "none"
                                 /\ dpc' = "enqueue"
         [] mode = "overflow" -> /\ health' = "Failed"
                                 /\ mode' = "none"
                                 /\ dpc' = "status"
    /\ UNCHANGED <<envVars, inputVars, queue, snapVars, outVars, batch, cand,
                   changed>>

\* A listed file is gone when it is read.
FileVanished ==
    /\ dpc = "read"
    /\ \E p \in todo : fs[p] = Absent
    /\ ReconcileError
    /\ UNCHANGED faults

\* The walk, a read or a parse fails.
ReconcileFails ==
    /\ \/ dpc = "scan"
       \/ dpc = "read" /\ \E p \in todo : fs[p] # Absent
    /\ faults < MaxFaults
    /\ faults' = faults + 1
    /\ ReconcileError

\* The selective update whose fallback this was publishes the result only if
\* it had changed files; dirty and queue are not touched.
FinishFallback ==
    /\ dpc = "read"
    /\ todo = {}
    /\ mode = "fallback"
    /\ IF changed # {}
       THEN Publish(mode)
       ELSE UNCHANGED snapVars
    /\ health' = "Healthy"
    /\ mode' = "none"
    /\ dpc' = "enqueue"
    /\ UNCHANGED <<envVars, faults, inputVars, queueVars, outVars, batch,
                   todo, cand, changed>>

\* A recovery publishes and clears the dirty state; after an overflow the
\* snapshot is not handed over for persistence.
FinishReconcile ==
    /\ dpc = "read"
    /\ todo = {}
    /\ mode \in {"overflow", "recover"}
    /\ Publish(mode)
    /\ health' = "Healthy"
    /\ dirty' = FALSE
    /\ queue' = <<>>
    /\ dpc' = IF mode = "overflow" THEN "status" ELSE "enqueue"
    /\ mode' = "none"
    /\ UNCHANGED <<envVars, faults, inputVars, outVars, batch, todo, cand,
                   changed>>

-----------------------------------------------------------------------------
(* The daemon thread: what it hands on.                                    *)

\* persistence.enqueue(read_snapshot())
EnqueueSnapshot ==
    /\ dpc = "enqueue"
    /\ handed' = gen
    /\ dpc' = "status"
    /\ UNCHANGED <<envVars, faults, inputVars, queueVars, snapVars, health,
                   status, workVars>>

WriteStatus ==
    /\ dpc = "status"
    /\ status' = [gen |-> gen, dirty |-> dirty, health |-> health]
    /\ dpc' = "recv"
    /\ UNCHANGED <<envVars, faults, inputVars, queueVars, snapVars, health,
                   handed, workVars>>

Input == Receive \/ ReceiveTimesOut \/ \E c \in Cutoffs : FlushReady(c)

Update ==
    \/ BeginUpdate \/ ApplyUpsert \/ ApplyRemove \/ ApplyRename
    \/ ApplyUnknownRename \/ FinishUpdate

Reconcile ==
    \/ BeginReconcile \/ Scan \/ (\E p \in Sources : ReadFile(p))
    \/ FileVanished \/ FinishFallback \/ FinishReconcile

Output == EnqueueSnapshot \/ WriteStatus

Daemon == CreateWatcher \/ Input \/ Update \/ Reconcile \/ Output

Fault == ApplyFails \/ ReconcileFails

Next == FilesChange \/ Daemon \/ Fault

Spec == Init /\ [][Next]_vars

\* The daemon thread keeps running, and time passes: when no further event
\* comes, every entry's debounce window elapses sooner or later.
Fairness ==
    /\ WF_vars(Daemon)
    /\ SF_vars(channel = <<>> /\ FlushReady(clock))

FairSpec == Spec /\ Fairness

-----------------------------------------------------------------------------
(* Properties.                                                             *)

TypeOK ==
    /\ fs \in [Paths -> Contents]
    /\ changes \in 0 .. MaxChanges
    /\ faults \in 0 .. MaxFaults
    /\ watching \in BOOLEAN
    /\ DOMAIN pending \subseteq Paths
    /\ \A p \in DOMAIN pending : /\ pending[p].kind \in PendingKinds
                                 /\ pending[p].seen \in 1 .. clock
    /\ clock + Len(channel) <= changes
    /\ queue \in Seq(Actions) /\ Len(queue) <= Capacity
    /\ dirty \in BOOLEAN
    /\ live \in [Sources -> Contents]
    /\ gen \in Nat \ {0}
    /\ reread \in BOOLEAN
    /\ overflowed \in BOOLEAN
    /\ health \in {"Healthy", "Updating", "Dirty", "Recovering", "Failed"}
    /\ handed \in 0 .. gen
    /\ status.gen \in 0 .. gen
    /\ dpc \in {"start", "recv", "flush", "update", "apply", "reconcile",
                "scan", "read", "enqueue", "status"}
    /\ mode \in {"none", "overflow", "recover", "fallback"}
    /\ batch \in Seq(Actions)
    /\ todo \subseteq Sources
    /\ cand \in [Sources -> Contents]
    /\ changed \subseteq Paths

\* No change is on its way to the graph any more, and none was given up.
Quiet ==
    /\ dpc = "recv"
    /\ channel = <<>>
    /\ pending = NoPending
    /\ ~dirty

\* docs/daemon-protocol.md: real-time synchronization between the files and
\* the graph.  Once every change has been taken in, the graph is built from
\* exactly the files that exist, with their last content.
InSyncWhenQuiet == Quiet => live = SourcesOf(fs)

\* The same, whatever overflows and failures there were, but for files that
\* are gone: a reconciliation may bring one into the graph whose removal the
\* debouncer drops.  No file that exists is missing or there with an old
\* content, and without a reconciliation the graph is exact.
ConvergesWhenQuiet ==
    Quiet => \A p \in Sources :
                fs[p] # Absent \/ ~reread => live[p] = fs[p]

\* Whenever the thread waits for events its state is settled: dirty exactly
\* when the last recovery failed, with nothing left queued or half applied,
\* daemon.json says so, and the published snapshot is in the hands of the
\* persistence worker, but for one that made up for an overflow.
SettledBetweenUpdates ==
    dpc \in {"recv", "flush"} =>
        /\ health = IF dirty THEN "Failed" ELSE "Healthy"
        /\ queue = <<>>
        /\ mode = "none"
        /\ status = [gen |-> gen, dirty |-> dirty, health |-> health]
        /\ handed = gen \/ overflowed

\* A file the graph lags behind is caught up with sooner or later, unless the
\* last recovery failed and nothing else happens; so is the absence of a file,
\* as long as nothing was reconciled.
ChangesReachTheGraph ==
    \A p \in Sources :
        live[p] # fs[p] ~> \/ live[p] = fs[p]
                           \/ dirty
                           \/ reread /\ fs[p] = Absent

\* CHANGELOG.md lists periodic persistence of the index: each generation that
\* a selective update, its fallback or the recovery of a failed one publishes,
\* or a later one, is handed to the persistence worker, whatever overflowed or
\* was reconciled before.  The exception is the generation that a recovery
\* from an overflow has just published: that branch of the loop hands nothing
\* over, and its snapshot waits for the next update or the end of the daemon.
UpdatesAreHandedOver == handed < gen /\ ~overflowed ~> handed = gen

\* While dirty every further batch is turned down and the reconciliation tried
\* again: a pending modification or removal of a source file leads to one.
DirtyIsRetried ==
    (/\ dpc = "recv"
     /\ dirty
     /\ \E p \in Sources \cap DOMAIN pending :
            pending[p].kind \in {"Modify", "Remove"})
        ~> dpc = "reconcile"

\* The published snapshot follows the protocol of the live state.
State == INSTANCE LiveState WITH generation <- gen, snapshot <- live

FollowsProtocol == State!Spec
=============================================================================
