----------------------------- MODULE MCAppManager -----------------------------
(* Small instances of AppManager for TLC. *)
EXTENDS AppManager, FiniteSets, TLC

\* Nodes, volume names and worker slots are interchangeable.
Symmetry == Permutations(Node) \cup Permutations(VolName)
              \cup Permutations(Thread)
=============================================================================
