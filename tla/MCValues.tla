------------------------------ MODULE MCValues ------------------------------
(* Boxes, lists and scalars are interchangeable.                             *)
EXTENDS Values, TLC

Symmetry == Permutations(Box) \cup Permutations(List) \cup Permutations(Scalar)
=============================================================================
