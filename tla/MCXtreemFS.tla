------------------------------- MODULE MCXtreemFS -------------------------------
(* Small instances of XtreemFS for TLC. *)
EXTENDS XtreemFS

\* Nodes are interchangeable.
Symmetry == Permutations(Node)
=============================================================================
