----------------------------- MODULE MCGenericCode -----------------------------
(* Small instances of GenericCode for TLC. *)
EXTENDS GenericCode, TLC

\* Nodes and worker slots are interchangeable.
Symmetry == Permutations(Node) \cup Permutations(Thread)
=============================================================================
