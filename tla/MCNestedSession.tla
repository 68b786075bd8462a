-------------------------- MODULE MCNestedSession --------------------------
(* Surfaces with protocol ids of their own, as if of one client.           *)
EXTENDS NestedSession, TLC

MCKey == [s \in Surface |-> s]

\* Two clients, each with its toplevel under the same protocol id.
MCSharedKey == [s \in Surface |-> 1]

Symmetry == Permutations(Surface)
=============================================================================
