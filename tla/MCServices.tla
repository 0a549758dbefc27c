------------------------------ MODULE MCServices ------------------------------
(* Small instances of Services for TLC. *)
EXTENDS Services, TLC

\* Request slots are interchangeable; managers and numbers are not.
Symmetry == Permutations(Job)
=============================================================================
