------------------------------ MODULE MCWebHosting ------------------------------
(* Small instances of WebHosting for TLC. *)
EXTENDS WebHosting, TLC

\* Nodes are interchangeable, and so are code versions.
Symmetry == Permutations(Node) \cup Permutations(Version)
=============================================================================
