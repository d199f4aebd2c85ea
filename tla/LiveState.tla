------------------------------ MODULE LiveState ------------------------------
(***************************************************************************)
(* What the live state promises its readers.  The published snapshot is    *)
(* replaced as a whole, each time under the next generation, and only by   *)
(* an update or a recovery that succeeded; a failure keeps the last good   *)
(* snapshot and shows in the health until a recovery succeeds.             *)
(***************************************************************************)
EXTENDS Naturals

VARIABLES generation, \* generation of the published snapshot
          snapshot,   \* what it contains
          health      \* DaemonHealth

svars == <<generation, snapshot, health>>

Init ==
    /\ generation = 1
    /\ health = "Healthy"

\* An update is only started from a healthy state.
BeginUpdate ==
    /\ health = "Healthy"
    /\ health' = "Updating"
    /\ UNCHANGED <<generation, snapshot>>

BeginRecovery ==
    /\ health \in {"Healthy", "Dirty", "Failed"}
    /\ health' = "Recovering"
    /\ UNCHANGED <<generation, snapshot>>

\* The new snapshot is published and with it the next generation.
Succeed ==
    /\ health \in {"Updating", "Recovering"}
    /\ health' = "Healthy"
    /\ generation' = generation + 1

\* An update that found nothing to change publishes nothing.
NothingToDo ==
    /\ health = "Updating"
    /\ health' = "Healthy"
    /\ UNCHANGED <<generation, snapshot>>

Fail ==
    /\ \/ health = "Updating" /\ health' = "Dirty"
       \/ health = "Recovering" /\ health' = "Failed"
    /\ UNCHANGED <<generation, snapshot>>

Next == BeginUpdate \/ BeginRecovery \/ Succeed \/ NothingToDo \/ Fail

Spec == Init /\ [][Next]_svars
=============================================================================
