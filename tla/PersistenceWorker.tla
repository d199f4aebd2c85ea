-------------------------- MODULE PersistenceWorker --------------------------
(***************************************************************************)
(* The background persistence of the daemon: a one-slot queue guarded by a *)
(* mutex and a condition variable, a worker thread that saves the graph of *)
(* the snapshot in the slot, and the daemon thread that publishes, hands   *)
(* snapshots over and finally flushes.  A snapshot is represented by its   *)
(* generation; 0 stands for None.                                          *)
(*                                                                         *)
(* Every access to shared memory is a step of its own: taking the mutex,   *)
(* the load of `stopping' in the wait loop, going to sleep, each atomic    *)
(* store.  That granularity is the subject of this module.                 *)
(***************************************************************************)
EXTENDS Naturals

CONSTANTS MaxGen,    \* bound: generations published
          MaxSaves   \* bound: snapshots handed over before shutdown

ASSUME BoundsAreNat ==
    /\ MaxGen \in Nat \ {0}
    /\ MaxSaves \in Nat

None == 0

VARIABLES
    gen,        \* generation of the published snapshot
    slot,       \* queue.0: the pending snapshot or None
    lock,       \* holder of the queue mutex: "free", "worker", "daemon"
    waiting,    \* the worker sleeps on the condition variable
    live,       \* live_generation
    persisted,  \* last_persisted_generation
    stopping,   \* the stopping flag
    disk,       \* generation stored in .graphia/index.bin, None if no file
    hand,       \* snapshot the worker took and is saving
    wpc,        \* control of the worker thread
    dpc,        \* control of the daemon thread
    final,      \* the daemon thread is past its loop
    statusFile, \* .graphia/daemon.json exists
    saves       \* snapshots handed over so far (bound only)

vars == <<gen, slot, lock, waiting, live, persisted, stopping, disk, hand,
          wpc, dpc, final, statusFile, saves>>

workerVars == <<hand, disk, persisted, wpc>>
daemonVars == <<gen, live, stopping, dpc, final, statusFile, saves>>

WorkerStates == {"lock", "check", "wait", "asleep", "save", "mark",
                 "done", "failed"}
DaemonStates == {"loop", "slot", "put", "notify", "status", "stop", "wake",
                 "join", "cleanup", "stopped", "aborted"}

Init ==
    /\ gen = 1
    /\ slot = None
    /\ lock = "free"
    /\ waiting = FALSE
    /\ live = 0
    /\ persisted = 0
    /\ stopping = FALSE
    /\ disk = None
    /\ hand = None
    /\ wpc = "lock"
    /\ dpc = "loop"
    /\ final = FALSE
    /\ statusFile = FALSE
    /\ saves = 0

-----------------------------------------------------------------------------
(* Slips a change to this code could make.  Each stands beside the action  *)
(* it would replace and is never part of Next; the runs show which         *)
(* property would notice it.                                               *)

\* The condition is checked first and the lock released before wait().
DecideToWaitUnlocked ==
    /\ wpc = "check"
    /\ slot = None
    /\ ~stopping
    /\ lock' = "free"
    /\ wpc' = "wait"
    /\ UNCHANGED <<slot, waiting, hand, disk, persisted, daemonVars>>

\* The generation is marked persisted when it is taken, not when it is saved.
TakeMarksEarly ==
    /\ wpc = "check"
    /\ slot # None
    /\ hand' = slot
    /\ persisted' = slot
    /\ slot' = None
    /\ lock' = "free"
    /\ wpc' = "save"
    /\ UNCHANGED <<waiting, disk, daemonVars>>

\* The flag alone ends the loop, whatever is pending.
FinishAtOnce ==
    /\ wpc = "check"
    /\ stopping
    /\ lock' = "free"
    /\ wpc' = "done"
    /\ UNCHANGED <<slot, waiting, hand, disk, persisted, daemonVars>>

\* The worker saves what is live now instead of the snapshot it was handed.
SaveLiveGraph ==
    /\ wpc = "save"
    /\ disk' = gen
    /\ wpc' = "mark"
    /\ UNCHANGED <<slot, lock, waiting, hand, persisted, daemonVars>>

\* enqueue announces the generation that comes next.
EnqueueStoreNext ==
    /\ dpc = "loop"
    /\ saves < MaxSaves
    /\ live' = gen + 1
    /\ saves' = saves + 1
    /\ dpc' = "slot"
    /\ UNCHANGED <<slot, lock, waiting, workerVars, gen, stopping, final,
                   statusFile>>

\* A pending snapshot is kept and the new one discarded.
EnqueuePutKeepsOld ==
    /\ dpc = "put"
    /\ slot' = IF slot = None THEN live ELSE slot
    /\ dpc' = "notify"
    /\ UNCHANGED <<lock, waiting, workerVars, gen, live, stopping, final,
                   statusFile, saves>>

\* The notification is forgotten.
EnqueueSilently ==
    /\ dpc = "notify"
    /\ lock' = "free"
    /\ dpc' = "status"
    /\ UNCHANGED <<slot, waiting, workerVars, gen, live, stopping, final,
                   statusFile, saves>>

\* On shutdown the daemon thread saves the last snapshot itself, while the
\* worker may be saving an older one.
LeaveLoopSavesItself ==
    /\ dpc = "loop"
    /\ final' = TRUE
    /\ live' = gen
    /\ disk' = gen
    /\ dpc' = "slot"
    /\ UNCHANGED <<slot, lock, waiting, hand, persisted, wpc, gen, stopping,
                   statusFile, saves>>

-----------------------------------------------------------------------------
(* The worker thread: PersistenceWorker::run.                              *)

\* Lock the queue at the top of the loop, or again on the way out of wait().
Lock ==
    /\ wpc = "lock"
    /\ lock = "free"
    /\ lock' = "worker"
    /\ wpc' = "check"
    /\ UNCHANGED <<slot, waiting, hand, disk, persisted, daemonVars>>

\* The wait loop's condition holds: nothing pending, and the flag, loaded
\* now, is not set.  The thread has not gone to sleep yet.
DecideToWait ==
    /\ wpc = "check"
    /\ slot = None
    /\ ~stopping
    /\ wpc' = "wait"
    /\ UNCHANGED <<slot, lock, waiting, hand, disk, persisted, daemonVars>>

\* Condvar::wait: release the mutex and sleep, in one step.
Sleep ==
    /\ wpc = "wait"
    /\ lock' = "free"
    /\ waiting' = TRUE
    /\ wpc' = "asleep"
    /\ UNCHANGED <<slot, hand, disk, persisted, daemonVars>>

\* A notification arrived (waiting was cleared by the notifier).
Awake ==
    /\ wpc = "asleep"
    /\ ~waiting
    /\ wpc' = "lock"
    /\ UNCHANGED <<slot, lock, waiting, hand, disk, persisted, daemonVars>>

\* Condvar::wait may return without a notification.
SpuriousWake ==
    /\ wpc = "asleep"
    /\ waiting
    /\ waiting' = FALSE
    /\ wpc' = "lock"
    /\ UNCHANGED <<slot, lock, hand, disk, persisted, daemonVars>>

\* Something is pending: take it and release the mutex.
Take ==
    /\ wpc = "check"
    /\ slot # None
    /\ hand' = slot
    /\ slot' = None
    /\ lock' = "free"
    /\ wpc' = "save"
    /\ UNCHANGED <<waiting, disk, persisted, daemonVars>>

\* Nothing pending and the flag is set: leave the loop.
Finish ==
    /\ wpc = "check"
    /\ slot = None
    /\ stopping
    /\ lock' = "free"
    /\ wpc' = "done"
    /\ UNCHANGED <<slot, waiting, hand, disk, persisted, daemonVars>>

\* save_graph_binary replaces the index atomically.
SaveSucceeds ==
    /\ wpc = "save"
    /\ disk' = hand
    /\ wpc' = "mark"
    /\ UNCHANGED <<slot, lock, waiting, hand, persisted, daemonVars>>

\* save_graph_binary fails: the thread returns the error and is gone.
SaveFails ==
    /\ wpc = "save"
    /\ hand' = None
    /\ wpc' = "failed"
    /\ UNCHANGED <<slot, lock, waiting, disk, persisted, daemonVars>>

\* persisted.store(snapshot.generation)
MarkPersisted ==
    /\ wpc = "mark"
    /\ persisted' = hand
    /\ hand' = None
    /\ wpc' = "lock"
    /\ UNCHANGED <<slot, lock, waiting, disk, daemonVars>>

Worker ==
    \/ Lock \/ DecideToWait \/ Sleep \/ Awake \/ Take \/ Finish
    \/ SaveSucceeds \/ SaveFails \/ MarkPersisted

-----------------------------------------------------------------------------
(* The daemon thread, as far as persistence sees it.                       *)

\* run() enqueues the first snapshot and writes the first status file before
\* it enters its loop.
InLoop == dpc = "loop" /\ statusFile

\* update_graph: a new snapshot is published.
Publish ==
    /\ InLoop
    /\ gen < MaxGen
    /\ gen' = gen + 1
    /\ UNCHANGED <<slot, lock, waiting, workerVars, live, stopping, dpc,
                   final, statusFile, saves>>

\* enqueue: store live_generation ...
EnqueueStore ==
    /\ dpc = "loop"
    /\ saves < MaxSaves
    /\ live' = gen
    /\ saves' = saves + 1
    /\ dpc' = "slot"
    /\ UNCHANGED <<slot, lock, waiting, workerVars, gen, stopping, final,
                   statusFile>>

\* ... lock the queue ...
EnqueueLock ==
    /\ dpc = "slot"
    /\ lock = "free"
    /\ lock' = "daemon"
    /\ dpc' = "put"
    /\ UNCHANGED <<slot, waiting, workerVars, gen, live, stopping, final,
                   statusFile, saves>>

\* ... overwrite whatever is pending ...
EnqueuePut ==
    /\ dpc = "put"
    /\ slot' = live
    /\ dpc' = "notify"
    /\ UNCHANGED <<lock, waiting, workerVars, gen, live, stopping, final,
                   statusFile, saves>>

\* ... and notify while the guard is still held; it is dropped on return.
EnqueueNotify ==
    /\ dpc = "notify"
    /\ waiting' = FALSE
    /\ lock' = "free"
    /\ dpc' = "status"
    /\ UNCHANGED <<slot, workerVars, gen, live, stopping, final, statusFile,
                   saves>>

\* Every enqueue is followed by write_status_file.
WriteStatus ==
    /\ dpc = "status"
    /\ statusFile' = TRUE
    /\ dpc' = IF final THEN "stop" ELSE "loop"
    /\ UNCHANGED <<slot, lock, waiting, workerVars, gen, live, stopping,
                   final, saves>>

\* The status file cannot be written, after an enqueue, after an overflow or
\* when it is refreshed: run() returns the error at once.
WriteStatusFails ==
    /\ dpc = "status" \/ InLoop
    /\ dpc' = "aborted"
    /\ UNCHANGED <<slot, lock, waiting, workerVars, gen, live, stopping,
                   final, statusFile, saves>>

\* The shutdown signal was seen: the final snapshot is enqueued.
LeaveLoop ==
    /\ InLoop
    /\ final' = TRUE
    /\ live' = gen
    /\ dpc' = "slot"
    /\ UNCHANGED <<slot, lock, waiting, workerVars, gen, stopping,
                   statusFile, saves>>

\* flush: raise the flag; the queue mutex is not taken.
FlushStop ==
    /\ dpc = "stop"
    /\ stopping' = TRUE
    /\ dpc' = "wake"
    /\ UNCHANGED <<slot, lock, waiting, workerVars, gen, live, final,
                   statusFile, saves>>

\* flush: notify_one.
FlushNotify ==
    /\ dpc = "wake"
    /\ waiting' = FALSE
    /\ dpc' = "join"
    /\ UNCHANGED <<slot, lock, workerVars, gen, live, stopping, final,
                   statusFile, saves>>

\* flush: join returns when the thread has ended, with the thread's result.
Join ==
    /\ dpc = "join"
    /\ \/ wpc = "done" /\ dpc' = "cleanup"
       \/ wpc = "failed" /\ dpc' = "aborted"
    /\ UNCHANGED <<slot, lock, waiting, workerVars, gen, live, stopping,
                   final, statusFile, saves>>

\* remove_status_file, after a flush that returned Ok.
RemoveStatus ==
    /\ dpc = "cleanup"
    /\ statusFile' = FALSE
    /\ dpc' = "stopped"
    /\ UNCHANGED <<slot, lock, waiting, workerVars, gen, live, stopping,
                   final, saves>>

Enqueue == EnqueueStore \/ EnqueueLock \/ EnqueuePut \/ EnqueueNotify
Flush == FlushStop \/ FlushNotify \/ Join

Daemon ==
    \/ Publish \/ Enqueue \/ WriteStatus \/ WriteStatusFails \/ LeaveLoop
    \/ Flush \/ RemoveStatus

Next == Worker \/ SpuriousWake \/ Daemon

Spec == Init /\ [][Next]_vars

\* Both threads are scheduled: a step that stays possible is taken.  Which
\* step of its loop the daemon takes is not promised (no fairness on Publish
\* and EnqueueStore alone), nor is a spurious wakeup or an I/O error.  When
\* run() has returned an error the process ends and may take the worker along.
Fairness ==
    /\ WF_vars(Worker /\ dpc # "aborted")
    /\ WF_vars(Daemon /\ dpc # "loop")

FairSpec == Spec /\ Fairness

-----------------------------------------------------------------------------
(* Properties.                                                             *)

\* The type of every variable; no generation is ever recorded that was not
\* published within the bound.
TypeOK ==
    /\ gen \in 1 .. MaxGen
    /\ slot \in 0 .. MaxGen
    /\ lock \in {"free", "worker", "daemon"}
    /\ waiting \in BOOLEAN
    /\ live \in 0 .. MaxGen
    /\ persisted \in 0 .. MaxGen
    /\ stopping \in BOOLEAN
    /\ disk \in 0 .. MaxGen
    /\ hand \in 0 .. MaxGen
    /\ wpc \in WorkerStates
    /\ dpc \in DaemonStates
    /\ final \in BOOLEAN
    /\ statusFile \in BOOLEAN
    /\ saves \in 0 .. MaxSaves

\* What daemon.json reports is ordered: a generation reported as persisted is
\* on disk, the one on disk was handed over, and that one was published.
GenerationsOrdered ==
    /\ persisted <= disk
    /\ disk <= live
    /\ live <= gen

\* Coalescing in the single slot never drops the newest snapshot: unless the
\* worker died, the last generation handed over is in the slot, in the
\* worker's hand or on disk.
NewestNeverDropped ==
    (wpc # "failed" /\ dpc \notin {"slot", "put"})
        => live \in {slot, hand, disk}

\* The worker never sleeps over work: while it sleeps unnotified nothing is
\* pending, except between the daemon's store to the slot and its notify.
NoSleepOverWork ==
    waiting => slot = None \/ dpc = "notify"

\* A shutdown that reports success leaves the last published snapshot in
\* index.bin: flush returns Ok only after the final snapshot is saved.
CleanShutdownIsDurable ==
    dpc \in {"cleanup", "stopped"} => disk = gen

\* index.bin is never replaced by an older graph of this daemon.
DiskNeverGoesBack == [][disk' >= disk]_disk

\* A snapshot put in the slot, or a newer one, reaches the disk, unless a
\* save fails and ends the worker, or a status file that cannot be written
\* ends the process.
HandedOverIsSaved ==
    \A g \in 1 .. MaxGen :
        slot = g ~> (disk >= g \/ wpc = "failed" \/ dpc = "aborted")

\* Persistence as seen from outside is a register that follows the live
\* generation.
Register == INSTANCE DurableRegister
                WITH current <- gen, requested <- live, durable <- disk

ImplementsRegister == Register!Spec

\* docs/daemon-protocol.md says of the status file that it is cleaned up on
\* graceful shutdown: once the loop is left, the file goes away, or run()
\* returns an error.
GracefulShutdownCleansUp ==
    final ~> (dpc = "aborted" \/ (dpc = "stopped" /\ ~statusFile))
==============================================================================
