----------------------- MODULE PersistenceWorkerProofs -----------------------
(***************************************************************************)
(* What the persistence worker guarantees for every number of generations  *)
(* and of snapshots handed over.  The inductive invariant adds to the      *)
(* checked properties who holds the mutex at which point of its code, what *)
(* the worker has in its hand, and that slot, hand and disk are ordered by *)
(* age.                                                                    *)
(***************************************************************************)
EXTENDS PersistenceWorker, TLAPS

\* The mutex is held exactly inside the critical sections.
LockHeld ==
    /\ (lock = "worker") <=> (wpc \in {"check", "wait"})
    /\ (lock = "daemon") <=> (dpc \in {"put", "notify"})

\* The worker holds a snapshot exactly while it saves or marks it, and what
\* it marks is what it saved.
HandInUse ==
    /\ (hand # None) <=> (wpc \in {"save", "mark"})
    /\ wpc = "mark" => hand = disk

\* Snapshots move from live to slot to hand to disk, and the further a
\* snapshot has come the older it is.
OlderFurtherOn ==
    /\ slot <= live
    /\ hand <= live
    /\ slot # None => hand <= slot /\ disk <= slot
    /\ hand # None => disk <= hand

\* The worker sleeps at the wait only, and decided to with an empty slot.
WaitsWhileEmpty ==
    /\ waiting => wpc = "asleep"
    /\ wpc = "wait" => slot = None

\* How far shutdown has come on both sides.
ShutdownProgress ==
    /\ final => live = gen /\ dpc # "loop"
    /\ dpc \in {"stop", "wake", "join", "cleanup", "stopped"} => final
    /\ stopping => dpc \in {"wake", "join", "cleanup", "stopped", "aborted"}
    /\ wpc = "done" => stopping /\ slot = None
    /\ dpc \in {"cleanup", "stopped"} => wpc = "done"

IInv ==
    /\ TypeOK
    /\ LockHeld
    /\ HandInUse
    /\ OlderFurtherOn
    /\ WaitsWhileEmpty
    /\ ShutdownProgress
    /\ GenerationsOrdered
    /\ NewestNeverDropped
    /\ NoSleepOverWork

-----------------------------------------------------------------------------
\* The states at startup satisfy the inductive invariant.
LEMMA InitIInv == Init => IInv
<1> SUFFICES ASSUME Init
             PROVE  IInv
  OBVIOUS
<1>1. TypeOK
  <2>1. /\ waiting \in BOOLEAN
        /\ stopping \in BOOLEAN
        /\ final \in BOOLEAN
        /\ statusFile \in BOOLEAN
    BY DEF Init
  <2>2. /\ gen \in 1 .. MaxGen
        /\ {slot, live, persisted, disk, hand} \subseteq 0 .. MaxGen
        /\ saves \in 0 .. MaxSaves
    BY BoundsAreNat DEF Init, None
  <2>3. /\ lock \in {"free", "worker", "daemon"}
        /\ wpc \in WorkerStates
        /\ dpc \in DaemonStates
    BY DEF Init, WorkerStates, DaemonStates
  <2> QED
    BY <2>1, <2>2, <2>3 DEF TypeOK
<1>2. IInv
  BY <1>1
     DEF Init, IInv, LockHeld, HandInUse, OlderFurtherOn, WaitsWhileEmpty,
         ShutdownProgress, GenerationsOrdered, NewestNeverDropped,
         NoSleepOverWork, None
<1> QED
  BY <1>2

\* Every step of either thread preserves it.
LEMMA StepIInv == IInv /\ [Next]_vars => IInv'
<1> SUFFICES ASSUME IInv, [Next]_vars
             PROVE  IInv'
  OBVIOUS
<1> USE DEF IInv, None, workerVars, daemonVars
<1>1. CASE Lock
  <2>1. TypeOK'
    BY <1>1 DEF Lock, TypeOK, WorkerStates, DaemonStates
  <2>2. LockHeld'
    BY <1>1 DEF Lock, LockHeld
  <2>3. HandInUse'
    BY <1>1 DEF Lock, HandInUse
  <2>4. WaitsWhileEmpty'
    BY <1>1 DEF Lock, WaitsWhileEmpty
  <2>5. ShutdownProgress'
    BY <1>1 DEF Lock, ShutdownProgress
  <2>6. NewestNeverDropped'
    BY <1>1 DEF Lock, NewestNeverDropped
  <2>7. /\ OlderFurtherOn'
       /\ GenerationsOrdered'
       /\ NoSleepOverWork'
    BY <1>1 DEF Lock, OlderFurtherOn, GenerationsOrdered, NoSleepOverWork
  <2> QED
    BY <2>1, <2>2, <2>3, <2>4, <2>5, <2>6, <2>7
<1>2. CASE DecideToWait
  <2>1. TypeOK'
    BY <1>2 DEF DecideToWait, TypeOK, WorkerStates, DaemonStates
  <2>2. LockHeld'
    BY <1>2 DEF DecideToWait, LockHeld
  <2>3. HandInUse'
    BY <1>2 DEF DecideToWait, HandInUse
  <2>4. WaitsWhileEmpty'
    BY <1>2 DEF DecideToWait, WaitsWhileEmpty
  <2>5. ShutdownProgress'
    BY <1>2 DEF DecideToWait, ShutdownProgress
  <2>6. NewestNeverDropped'
    BY <1>2 DEF DecideToWait, NewestNeverDropped
  <2>7. /\ OlderFurtherOn'
       /\ GenerationsOrdered'
       /\ NoSleepOverWork'
    BY <1>2 DEF DecideToWait, OlderFurtherOn, GenerationsOrdered,
           NoSleepOverWork
  <2> QED
    BY <2>1, <2>2, <2>3, <2>4, <2>5, <2>6, <2>7
<1>3. CASE Sleep
  <2>1. TypeOK'
    BY <1>3 DEF Sleep, TypeOK, WorkerStates, DaemonStates
  <2>2. LockHeld'
    BY <1>3 DEF Sleep, LockHeld
  <2>3. HandInUse'
    BY <1>3 DEF Sleep, HandInUse
  <2>4. WaitsWhileEmpty'
    BY <1>3 DEF Sleep, WaitsWhileEmpty
  <2>5. ShutdownProgress'
    BY <1>3 DEF Sleep, ShutdownProgress
  <2>6. NewestNeverDropped'
    BY <1>3 DEF Sleep, NewestNeverDropped
  <2>7. NoSleepOverWork'
    BY <1>3 DEF Sleep, NoSleepOverWork, TypeOK, WaitsWhileEmpty
  <2>8. /\ OlderFurtherOn'
       /\ GenerationsOrdered'
    BY <1>3 DEF Sleep, OlderFurtherOn, GenerationsOrdered
  <2> QED
    BY <2>1, <2>2, <2>3, <2>4, <2>5, <2>6, <2>7, <2>8
<1>4. CASE Awake
  <2>1. TypeOK'
    BY <1>4 DEF Awake, TypeOK, WorkerStates, DaemonStates
  <2>2. LockHeld'
    BY <1>4 DEF Awake, LockHeld
  <2>3. HandInUse'
    BY <1>4 DEF Awake, HandInUse
  <2>4. WaitsWhileEmpty'
    BY <1>4 DEF Awake, WaitsWhileEmpty
  <2>5. ShutdownProgress'
    BY <1>4 DEF Awake, ShutdownProgress
  <2>6. NewestNeverDropped'
    BY <1>4 DEF Awake, NewestNeverDropped
  <2>7. /\ OlderFurtherOn'
       /\ GenerationsOrdered'
       /\ NoSleepOverWork'
    BY <1>4 DEF Awake, OlderFurtherOn, GenerationsOrdered, NoSleepOverWork
  <2> QED
    BY <2>1, <2>2, <2>3, <2>4, <2>5, <2>6, <2>7
<1>5. CASE Take
  <2>1. TypeOK'
    BY <1>5, BoundsAreNat DEF Take, TypeOK, WorkerStates, DaemonStates
  <2>2. LockHeld'
    BY <1>5 DEF Take, LockHeld
  <2>3. HandInUse'
    BY <1>5 DEF Take, HandInUse
  <2>4. OlderFurtherOn'
    BY <1>5 DEF Take, OlderFurtherOn, TypeOK
  <2>5. WaitsWhileEmpty'
    BY <1>5 DEF Take, WaitsWhileEmpty
  <2>6. ShutdownProgress'
    BY <1>5 DEF Take, ShutdownProgress
  <2>7. NewestNeverDropped'
    BY <1>5 DEF Take, NewestNeverDropped, TypeOK, HandInUse
  <2>8. NoSleepOverWork'
    BY <1>5 DEF Take, NoSleepOverWork
  <2>9. GenerationsOrdered'
    BY <1>5 DEF Take, GenerationsOrdered
  <2> QED
    BY <2>1, <2>2, <2>3, <2>4, <2>5, <2>6, <2>7, <2>8, <2>9
<1>6. CASE Finish
  <2>1. TypeOK'
    BY <1>6 DEF Finish, TypeOK, WorkerStates, DaemonStates
  <2>2. LockHeld'
    BY <1>6 DEF Finish, LockHeld
  <2>3. HandInUse'
    BY <1>6 DEF Finish, HandInUse
  <2>4. WaitsWhileEmpty'
    BY <1>6 DEF Finish, WaitsWhileEmpty
  <2>5. ShutdownProgress'
    BY <1>6 DEF Finish, ShutdownProgress
  <2>6. NewestNeverDropped'
    BY <1>6 DEF Finish, NewestNeverDropped
  <2>7. /\ OlderFurtherOn'
       /\ GenerationsOrdered'
       /\ NoSleepOverWork'
    BY <1>6 DEF Finish, OlderFurtherOn, GenerationsOrdered, NoSleepOverWork
  <2> QED
    BY <2>1, <2>2, <2>3, <2>4, <2>5, <2>6, <2>7
<1>7. CASE SaveSucceeds
  <2>1. TypeOK'
    BY <1>7 DEF SaveSucceeds, TypeOK, WorkerStates, DaemonStates
  <2>2. LockHeld'
    BY <1>7 DEF SaveSucceeds, LockHeld
  <2>3. HandInUse'
    BY <1>7 DEF SaveSucceeds, HandInUse
  <2>4. OlderFurtherOn'
    BY <1>7 DEF SaveSucceeds, OlderFurtherOn, TypeOK
  <2>5. WaitsWhileEmpty'
    BY <1>7 DEF SaveSucceeds, WaitsWhileEmpty
  <2>6. ShutdownProgress'
    BY <1>7 DEF SaveSucceeds, ShutdownProgress
  <2>7. GenerationsOrdered'
    BY <1>7 DEF SaveSucceeds, GenerationsOrdered, TypeOK, HandInUse,
           OlderFurtherOn
  <2>8. NewestNeverDropped'
    BY <1>7 DEF SaveSucceeds, NewestNeverDropped, TypeOK, HandInUse,
           OlderFurtherOn
  <2>9. NoSleepOverWork'
    BY <1>7 DEF SaveSucceeds, NoSleepOverWork
  <2> QED
    BY <2>1, <2>2, <2>3, <2>4, <2>5, <2>6, <2>7, <2>8, <2>9
<1>8. CASE SaveFails
  <2>1. TypeOK'
    BY <1>8, BoundsAreNat DEF SaveFails, TypeOK, WorkerStates, DaemonStates
  <2>2. LockHeld'
    BY <1>8 DEF SaveFails, LockHeld
  <2>3. HandInUse'
    BY <1>8 DEF SaveFails, HandInUse
  <2>4. OlderFurtherOn'
    BY <1>8 DEF SaveFails, OlderFurtherOn, TypeOK
  <2>5. WaitsWhileEmpty'
    BY <1>8 DEF SaveFails, WaitsWhileEmpty
  <2>6. ShutdownProgress'
    BY <1>8 DEF SaveFails, ShutdownProgress
  <2>7. NewestNeverDropped'
    BY <1>8 DEF SaveFails, NewestNeverDropped
  <2>8. /\ GenerationsOrdered'
       /\ NoSleepOverWork'
    BY <1>8 DEF SaveFails, GenerationsOrdered, NoSleepOverWork
  <2> QED
    BY <2>1, <2>2, <2>3, <2>4, <2>5, <2>6, <2>7, <2>8
<1>9. CASE MarkPersisted
  <2>1. TypeOK'
    BY <1>9, BoundsAreNat DEF MarkPersisted, TypeOK, WorkerStates,
           DaemonStates
  <2>2. LockHeld'
    BY <1>9 DEF MarkPersisted, LockHeld
  <2>3. HandInUse'
    BY <1>9 DEF MarkPersisted, HandInUse
  <2>4. OlderFurtherOn'
    BY <1>9 DEF MarkPersisted, OlderFurtherOn, TypeOK
  <2>5. WaitsWhileEmpty'
    BY <1>9 DEF MarkPersisted, WaitsWhileEmpty
  <2>6. ShutdownProgress'
    BY <1>9 DEF MarkPersisted, ShutdownProgress
  <2>7. GenerationsOrdered'
    BY <1>9 DEF MarkPersisted, GenerationsOrdered, TypeOK, HandInUse
  <2>8. NewestNeverDropped'
    BY <1>9 DEF MarkPersisted, NewestNeverDropped, TypeOK, HandInUse
  <2>9. NoSleepOverWork'
    BY <1>9 DEF MarkPersisted, NoSleepOverWork
  <2> QED
    BY <2>1, <2>2, <2>3, <2>4, <2>5, <2>6, <2>7, <2>8, <2>9
<1>10. CASE SpuriousWake
  <2>1. TypeOK'
    BY <1>10 DEF SpuriousWake, TypeOK, WorkerStates, DaemonStates
  <2>2. LockHeld'
    BY <1>10 DEF SpuriousWake, LockHeld
  <2>3. HandInUse'
    BY <1>10 DEF SpuriousWake, HandInUse
  <2>4. WaitsWhileEmpty'
    BY <1>10 DEF SpuriousWake, WaitsWhileEmpty
  <2>5. ShutdownProgress'
    BY <1>10 DEF SpuriousWake, ShutdownProgress
  <2>6. NewestNeverDropped'
    BY <1>10 DEF SpuriousWake, NewestNeverDropped
  <2>7. NoSleepOverWork'
    BY <1>10 DEF SpuriousWake, NoSleepOverWork
  <2>8. /\ OlderFurtherOn'
       /\ GenerationsOrdered'
    BY <1>10 DEF SpuriousWake, OlderFurtherOn, GenerationsOrdered
  <2> QED
    BY <2>1, <2>2, <2>3, <2>4, <2>5, <2>6, <2>7, <2>8
<1>11. CASE Publish
  <2>1. TypeOK'
    BY <1>11, BoundsAreNat
       DEF InLoop, Publish, TypeOK, WorkerStates, DaemonStates
  <2>2. ShutdownProgress'
    BY <1>11 DEF InLoop, Publish, ShutdownProgress
  <2>3. GenerationsOrdered'
    BY <1>11 DEF InLoop, Publish, GenerationsOrdered, TypeOK
  <2>4. /\ LockHeld'
       /\ HandInUse'
       /\ OlderFurtherOn'
       /\ WaitsWhileEmpty'
       /\ NewestNeverDropped'
       /\ NoSleepOverWork'
    BY <1>11 DEF InLoop, Publish, LockHeld, HandInUse, OlderFurtherOn,
           WaitsWhileEmpty, NewestNeverDropped, NoSleepOverWork
  <2> QED
    BY <2>1, <2>2, <2>3, <2>4
<1>12. CASE EnqueueStore
  <2>1. TypeOK'
    BY <1>12, BoundsAreNat DEF EnqueueStore, TypeOK, WorkerStates,
           DaemonStates
  <2>2. LockHeld'
    BY <1>12 DEF EnqueueStore, LockHeld
  <2>3. OlderFurtherOn'
    BY <1>12 DEF EnqueueStore, OlderFurtherOn, TypeOK, HandInUse,
           GenerationsOrdered
  <2>4. ShutdownProgress'
    BY <1>12 DEF EnqueueStore, ShutdownProgress
  <2>5. GenerationsOrdered'
    BY <1>12 DEF EnqueueStore, GenerationsOrdered, TypeOK
  <2>6. NewestNeverDropped'
    BY <1>12 DEF EnqueueStore, NewestNeverDropped
  <2>7. NoSleepOverWork'
    BY <1>12 DEF EnqueueStore, NoSleepOverWork
  <2>8. /\ HandInUse'
       /\ WaitsWhileEmpty'
    BY <1>12 DEF EnqueueStore, HandInUse, WaitsWhileEmpty
  <2> QED
    BY <2>1, <2>2, <2>3, <2>4, <2>5, <2>6, <2>7, <2>8
<1>13. CASE EnqueueLock
  <2>1. TypeOK'
    BY <1>13 DEF EnqueueLock, TypeOK, WorkerStates, DaemonStates
  <2>2. LockHeld'
    BY <1>13 DEF EnqueueLock, LockHeld
  <2>3. ShutdownProgress'
    BY <1>13 DEF EnqueueLock, ShutdownProgress
  <2>4. NewestNeverDropped'
    BY <1>13 DEF EnqueueLock, NewestNeverDropped
  <2>5. NoSleepOverWork'
    BY <1>13 DEF EnqueueLock, NoSleepOverWork
  <2>6. /\ HandInUse'
       /\ OlderFurtherOn'
       /\ WaitsWhileEmpty'
       /\ GenerationsOrdered'
    BY <1>13 DEF EnqueueLock, HandInUse, OlderFurtherOn, WaitsWhileEmpty,
           GenerationsOrdered
  <2> QED
    BY <2>1, <2>2, <2>3, <2>4, <2>5, <2>6
<1>14. CASE EnqueuePut
  <2>1. TypeOK'
    BY <1>14 DEF EnqueuePut, TypeOK, WorkerStates, DaemonStates
  <2>2. LockHeld'
    BY <1>14 DEF EnqueuePut, LockHeld
  <2>3. OlderFurtherOn'
    BY <1>14 DEF EnqueuePut, OlderFurtherOn, TypeOK, HandInUse,
           GenerationsOrdered
  <2>4. WaitsWhileEmpty'
    BY <1>14 DEF EnqueuePut, WaitsWhileEmpty, TypeOK, LockHeld
  <2>5. ShutdownProgress'
    BY <1>14 DEF EnqueuePut, ShutdownProgress
  <2>6. NewestNeverDropped'
    BY <1>14 DEF EnqueuePut, NewestNeverDropped
  <2>7. NoSleepOverWork'
    BY <1>14 DEF EnqueuePut, NoSleepOverWork
  <2>8. /\ HandInUse'
       /\ GenerationsOrdered'
    BY <1>14 DEF EnqueuePut, HandInUse, GenerationsOrdered
  <2> QED
    BY <2>1, <2>2, <2>3, <2>4, <2>5, <2>6, <2>7, <2>8
<1>15. CASE EnqueueNotify
  <2>1. TypeOK'
    BY <1>15 DEF EnqueueNotify, TypeOK, WorkerStates, DaemonStates
  <2>2. LockHeld'
    BY <1>15 DEF EnqueueNotify, LockHeld
  <2>3. WaitsWhileEmpty'
    BY <1>15 DEF EnqueueNotify, WaitsWhileEmpty
  <2>4. ShutdownProgress'
    BY <1>15 DEF EnqueueNotify, ShutdownProgress
  <2>5. NewestNeverDropped'
    BY <1>15 DEF EnqueueNotify, NewestNeverDropped
  <2>6. NoSleepOverWork'
    BY <1>15 DEF EnqueueNotify, NoSleepOverWork
  <2>7. /\ HandInUse'
       /\ OlderFurtherOn'
       /\ GenerationsOrdered'
    BY <1>15 DEF EnqueueNotify, HandInUse, OlderFurtherOn, GenerationsOrdered
  <2> QED
    BY <2>1, <2>2, <2>3, <2>4, <2>5, <2>6, <2>7
<1>16. CASE WriteStatus
  <2>1. TypeOK'
    BY <1>16 DEF WriteStatus, TypeOK, WorkerStates, DaemonStates
  <2>2. LockHeld'
    BY <1>16 DEF WriteStatus, LockHeld
  <2>3. ShutdownProgress'
    BY <1>16 DEF WriteStatus, ShutdownProgress
  <2>4. NewestNeverDropped'
    BY <1>16 DEF WriteStatus, NewestNeverDropped
  <2>5. NoSleepOverWork'
    BY <1>16 DEF WriteStatus, NoSleepOverWork
  <2>6. /\ HandInUse'
       /\ OlderFurtherOn'
       /\ WaitsWhileEmpty'
       /\ GenerationsOrdered'
    BY <1>16 DEF WriteStatus, HandInUse, OlderFurtherOn, WaitsWhileEmpty,
           GenerationsOrdered
  <2> QED
    BY <2>1, <2>2, <2>3, <2>4, <2>5, <2>6
<1>17. CASE WriteStatusFails
  <2>1. TypeOK'
    BY <1>17 DEF InLoop, WriteStatusFails, TypeOK, WorkerStates, DaemonStates
  <2>2. LockHeld'
    BY <1>17 DEF InLoop, WriteStatusFails, LockHeld
  <2>3. ShutdownProgress'
    BY <1>17 DEF InLoop, WriteStatusFails, ShutdownProgress
  <2>4. NewestNeverDropped'
    BY <1>17 DEF InLoop, WriteStatusFails, NewestNeverDropped
  <2>5. NoSleepOverWork'
    BY <1>17 DEF InLoop, WriteStatusFails, NoSleepOverWork
  <2>6. /\ HandInUse'
       /\ OlderFurtherOn'
       /\ WaitsWhileEmpty'
       /\ GenerationsOrdered'
    BY <1>17
       DEF InLoop, WriteStatusFails, HandInUse, OlderFurtherOn, WaitsWhileEmpty,
           GenerationsOrdered
  <2> QED
    BY <2>1, <2>2, <2>3, <2>4, <2>5, <2>6
<1>18. CASE LeaveLoop
  <2>1. TypeOK'
    BY <1>18 DEF InLoop, LeaveLoop, TypeOK, WorkerStates, DaemonStates
  <2>2. LockHeld'
    BY <1>18 DEF InLoop, LeaveLoop, LockHeld
  <2>3. OlderFurtherOn'
    BY <1>18 DEF InLoop, LeaveLoop, OlderFurtherOn, TypeOK, HandInUse,
           GenerationsOrdered
  <2>4. ShutdownProgress'
    BY <1>18 DEF InLoop, LeaveLoop, ShutdownProgress
  <2>5. GenerationsOrdered'
    BY <1>18 DEF InLoop, LeaveLoop, GenerationsOrdered, TypeOK
  <2>6. NewestNeverDropped'
    BY <1>18 DEF InLoop, LeaveLoop, NewestNeverDropped
  <2>7. NoSleepOverWork'
    BY <1>18 DEF InLoop, LeaveLoop, NoSleepOverWork
  <2>8. /\ HandInUse'
       /\ WaitsWhileEmpty'
    BY <1>18 DEF InLoop, LeaveLoop, HandInUse, WaitsWhileEmpty
  <2> QED
    BY <2>1, <2>2, <2>3, <2>4, <2>5, <2>6, <2>7, <2>8
<1>19. CASE FlushStop
  <2>1. TypeOK'
    BY <1>19 DEF FlushStop, TypeOK, WorkerStates, DaemonStates
  <2>2. LockHeld'
    BY <1>19 DEF FlushStop, LockHeld
  <2>3. ShutdownProgress'
    BY <1>19 DEF FlushStop, ShutdownProgress
  <2>4. NewestNeverDropped'
    BY <1>19 DEF FlushStop, NewestNeverDropped
  <2>5. NoSleepOverWork'
    BY <1>19 DEF FlushStop, NoSleepOverWork
  <2>6. /\ HandInUse'
       /\ OlderFurtherOn'
       /\ WaitsWhileEmpty'
       /\ GenerationsOrdered'
    BY <1>19 DEF FlushStop, HandInUse, OlderFurtherOn, WaitsWhileEmpty,
           GenerationsOrdered
  <2> QED
    BY <2>1, <2>2, <2>3, <2>4, <2>5, <2>6
<1>20. CASE FlushNotify
  <2>1. TypeOK'
    BY <1>20 DEF FlushNotify, TypeOK, WorkerStates, DaemonStates
  <2>2. LockHeld'
    BY <1>20 DEF FlushNotify, LockHeld
  <2>3. WaitsWhileEmpty'
    BY <1>20 DEF FlushNotify, WaitsWhileEmpty
  <2>4. ShutdownProgress'
    BY <1>20 DEF FlushNotify, ShutdownProgress
  <2>5. NewestNeverDropped'
    BY <1>20 DEF FlushNotify, NewestNeverDropped
  <2>6. NoSleepOverWork'
    BY <1>20 DEF FlushNotify, NoSleepOverWork
  <2>7. /\ HandInUse'
       /\ OlderFurtherOn'
       /\ GenerationsOrdered'
    BY <1>20 DEF FlushNotify, HandInUse, OlderFurtherOn, GenerationsOrdered
  <2> QED
    BY <2>1, <2>2, <2>3, <2>4, <2>5, <2>6, <2>7
<1>21. CASE Join
  <2>1. TypeOK'
    BY <1>21 DEF Join, TypeOK, WorkerStates, DaemonStates
  <2>2. LockHeld'
    BY <1>21 DEF Join, LockHeld
  <2>3. ShutdownProgress'
    BY <1>21 DEF Join, ShutdownProgress
  <2>4. NewestNeverDropped'
    BY <1>21 DEF Join, NewestNeverDropped
  <2>5. NoSleepOverWork'
    BY <1>21 DEF Join, NoSleepOverWork
  <2>6. /\ HandInUse'
       /\ OlderFurtherOn'
       /\ WaitsWhileEmpty'
       /\ GenerationsOrdered'
    BY <1>21 DEF Join, HandInUse, OlderFurtherOn, WaitsWhileEmpty,
           GenerationsOrdered
  <2> QED
    BY <2>1, <2>2, <2>3, <2>4, <2>5, <2>6
<1>22. CASE RemoveStatus
  <2>1. TypeOK'
    BY <1>22 DEF RemoveStatus, TypeOK, WorkerStates, DaemonStates
  <2>2. LockHeld'
    BY <1>22 DEF RemoveStatus, LockHeld
  <2>3. ShutdownProgress'
    BY <1>22 DEF RemoveStatus, ShutdownProgress
  <2>4. NewestNeverDropped'
    BY <1>22 DEF RemoveStatus, NewestNeverDropped
  <2>5. NoSleepOverWork'
    BY <1>22 DEF RemoveStatus, NoSleepOverWork
  <2>6. /\ HandInUse'
       /\ OlderFurtherOn'
       /\ WaitsWhileEmpty'
       /\ GenerationsOrdered'
    BY <1>22 DEF RemoveStatus, HandInUse, OlderFurtherOn, WaitsWhileEmpty,
           GenerationsOrdered
  <2> QED
    BY <2>1, <2>2, <2>3, <2>4, <2>5, <2>6
<1>23. CASE UNCHANGED vars
  BY <1>23 DEF vars, TypeOK, LockHeld, HandInUse, OlderFurtherOn,
         WaitsWhileEmpty, ShutdownProgress, GenerationsOrdered,
         NewestNeverDropped, NoSleepOverWork
<1> QED
  BY <1>1, <1>2, <1>3, <1>4, <1>5, <1>6, <1>7, <1>8, <1>9, <1>10, <1>11,
     <1>12, <1>13, <1>14, <1>15, <1>16, <1>17, <1>18, <1>19, <1>20, <1>21,
     <1>22, <1>23
     DEF Next, Worker, Daemon, Enqueue, Flush

-----------------------------------------------------------------------------
\* The inductive invariant holds in every reachable state.
THEOREM InvariantHolds == Spec => []IInv
BY InitIInv, StepIInv, PTL DEF Spec

\* Types, and with them the range of every recorded generation.
THEOREM TypeCorrect == Spec => []TypeOK
<1>1. IInv => TypeOK
  BY DEF IInv
<1> QED
  BY <1>1, InvariantHolds, PTL

\* What daemon.json reports is ordered as publishing, handing over, saving
\* and recording are: persisted <= disk <= live <= gen.
THEOREM StatusIsOrdered == Spec => []GenerationsOrdered
<1>1. IInv => GenerationsOrdered
  BY DEF IInv
<1> QED
  BY <1>1, InvariantHolds, PTL

\* The one-slot queue coalesces without dropping the newest snapshot.
THEOREM CoalescingKeepsNewest == Spec => []NewestNeverDropped
<1>1. IInv => NewestNeverDropped
  BY DEF IInv
<1> QED
  BY <1>1, InvariantHolds, PTL

\* No wakeup is lost between enqueue and the worker's wait.
THEOREM EnqueueIsNotMissed == Spec => []NoSleepOverWork
<1>1. IInv => NoSleepOverWork
  BY DEF IInv
<1> QED
  BY <1>1, InvariantHolds, PTL

\* When flush reported success the last published graph is on disk: the
\* worker ended normally, so slot and hand are empty and the newest snapshot
\* handed over, which is the last one published, can only be on disk.
THEOREM ShutdownIsDurable == Spec => []CleanShutdownIsDurable
<1>1. IInv => CleanShutdownIsDurable
  <2> SUFFICES ASSUME IInv, dpc \in {"cleanup", "stopped"}
               PROVE  disk = gen
    BY DEF CleanShutdownIsDurable
  <2>1. wpc = "done" /\ slot = None /\ live = gen
    BY DEF IInv, ShutdownProgress
  <2>2. hand = None
    BY <2>1 DEF IInv, HandInUse
  <2>3. live # None /\ live \in {slot, hand, disk}
    BY <2>1 DEF IInv, TypeOK, NewestNeverDropped, None
  <2> QED
    BY <2>1, <2>2, <2>3
<1> QED
  BY <1>1, InvariantHolds, PTL

-----------------------------------------------------------------------------
\* index.bin is only ever replaced by the same or a newer graph: the one
\* action that writes it writes what is in the worker's hand, and that is
\* not older than what is on disk.
THEOREM DiskIsMonotonic == Spec => DiskNeverGoesBack
<1>1. IInv /\ [Next]_vars => [disk' >= disk]_disk
  <2> SUFFICES ASSUME IInv, Next
               PROVE  disk' = disk \/ disk' >= disk
    BY DEF vars
  <2>1. CASE SaveSucceeds
    BY <2>1 DEF SaveSucceeds, IInv, TypeOK, HandInUse, OlderFurtherOn, None
  <2>2. CASE ~SaveSucceeds
    BY <2>2
       DEF Next, Worker, Daemon, Enqueue, Flush, Lock, DecideToWait, Sleep,
           Awake, Take, Finish, SaveFails, MarkPersisted, SpuriousWake,
           InLoop, Publish, EnqueueStore, EnqueueLock, EnqueuePut,
           EnqueueNotify,
           WriteStatus, WriteStatusFails, LeaveLoop, FlushStop, FlushNotify,
           Join, RemoveStatus, workerVars
  <2> QED
    BY <2>1, <2>2
<1> QED
  BY <1>1, InvariantHolds, PTL DEF Spec, DiskNeverGoesBack

-----------------------------------------------------------------------------
(* The worker implements the durable register.                             *)

LEMMA InitImplements == Init => Register!Init
BY DEF Init, Register!Init, None

\* Publish advances the register, enqueue requests, a successful save
\* persists, and every other step leaves it alone.
LEMMA StepImplements ==
    IInv /\ [Next]_vars => [Register!Next]_(Register!rvars)
<1> SUFFICES ASSUME IInv, [Next]_vars
             PROVE  Register!Next \/ UNCHANGED <<gen, live, disk>>
  BY DEF Register!rvars
<1> USE DEF workerVars, daemonVars
<1>1. CASE Publish
  BY <1>1 DEF InLoop, Publish, Register!Next, Register!Advance
<1>2. CASE EnqueueStore
  BY <1>2 DEF EnqueueStore, Register!Next, Register!Request
<1>3. CASE LeaveLoop
  BY <1>3 DEF InLoop, LeaveLoop, Register!Next, Register!Request
<1>4. CASE SaveSucceeds
  <2>1. hand \in disk .. live
    BY <1>4
       DEF SaveSucceeds, IInv, TypeOK, HandInUse, OlderFurtherOn, None
  <2> QED
    BY <1>4, <2>1 DEF SaveSucceeds, Register!Next, Register!Persist
<1>5. CASE \/ Lock \/ DecideToWait \/ Sleep \/ Awake \/ Take \/ Finish
           \/ SaveFails \/ MarkPersisted \/ SpuriousWake
  BY <1>5
     DEF Lock, DecideToWait, Sleep, Awake, Take, Finish, SaveFails,
         MarkPersisted, SpuriousWake
<1>6. CASE \/ EnqueueLock \/ EnqueuePut \/ EnqueueNotify \/ WriteStatus
           \/ WriteStatusFails \/ Flush \/ RemoveStatus
  BY <1>6
     DEF EnqueueLock, EnqueuePut, EnqueueNotify, WriteStatus,
         InLoop, WriteStatusFails, Flush, FlushStop, FlushNotify, Join,
         RemoveStatus
<1>7. CASE UNCHANGED vars
  BY <1>7 DEF vars
<1> QED
  BY <1>1, <1>2, <1>3, <1>4, <1>5, <1>6, <1>7
     DEF Next, Worker, Daemon, Enqueue

\* Seen through the generations alone, persistence is a register that follows
\* the live generation: it may skip, it never runs ahead and never goes back.
THEOREM WorkerImplementsRegister == Spec => ImplementsRegister
BY InitImplements, StepImplements, InvariantHolds, PTL
   DEF Spec, ImplementsRegister, Register!Spec
==============================================================================
