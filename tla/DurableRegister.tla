--------------------------- MODULE DurableRegister ---------------------------
(***************************************************************************)
(* What asynchronous persistence of a live value promises its reader.      *)
(* The live value is a generation number.  Its owner advances it, now and  *)
(* then requests that the current generation be made durable, and the      *)
(* durable generation follows: it may skip generations, because a newer    *)
(* request replaces an older one, but it never goes back and never runs    *)
(* ahead of what was requested.                                            *)
(***************************************************************************)
EXTENDS Naturals

VARIABLES current,   \* the live generation
          requested, \* the newest generation handed over for persistence
          durable    \* the generation on disk, 0 before the first save

rvars == <<current, requested, durable>>

Init ==
    /\ current = 1
    /\ requested = 0
    /\ durable = 0

Advance ==
    /\ current' = current + 1
    /\ UNCHANGED <<requested, durable>>

Request ==
    /\ requested' = current
    /\ UNCHANGED <<current, durable>>

Persist ==
    /\ durable' \in durable .. requested
    /\ UNCHANGED <<current, requested>>

Next == Advance \/ Request \/ Persist

Spec == Init /\ [][Next]_rvars
==============================================================================
