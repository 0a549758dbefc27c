------------------------------ MODULE MCDirector ------------------------------
(* Small instances of Director for TLC. *)
EXTENDS Director, TLC

\* Applications, virtual machines and request slots are interchangeable.
Symmetry == Permutations(App) \cup Permutations(VM) \cup Permutations(Job)
=============================================================================
