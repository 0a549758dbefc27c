-------------------------------- MODULE MCGalera --------------------------------
(* Small instances of Galera for TLC. *)
EXTENDS Galera, TLC

\* Nodes are interchangeable.
Symmetry == Permutations(Node)
=============================================================================
