----------------------------- MODULE MCMcpStream -----------------------------
(* Model-checking instance of McpStream.                                   *)
EXTENDS McpStream, TLC

\* Workers and ids are interchangeable.
Symmetric == Permutations(Workers) \cup Permutations(Ids)
=============================================================================
