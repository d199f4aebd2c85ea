---------------------------- MODULE MCLiveDaemon ----------------------------
(* Model-checking instance of LiveDaemon.                                  *)
EXTENDS LiveDaemon, TLC

\* Source files are interchangeable: the hash map and the batch order treat
\* every path alike.
SymmetricSources == Permutations(Sources)
=============================================================================
