------------------------- MODULE MCPersistenceWorker -------------------------
(* Model-checking instance of PersistenceWorker.                           *)
EXTENDS PersistenceWorker
==============================================================================
