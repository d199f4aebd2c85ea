----------------------------- MODULE MCIndexStore -----------------------------
(* Model-checking instance of IndexStore.                                  *)
EXTENDS IndexStore, TLC

\* Files are interchangeable, and so are builders.
Symmetric == Permutations(Files) \cup Permutations(Builders)
=============================================================================
