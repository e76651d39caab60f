------------------------------- MODULE MCDesk -------------------------------
(* One administrator at the desk, two children, two classes. *)
EXTENDS Desk, TLC
Symmetry == Permutations(Child) \cup Permutations(Class)
=============================================================================
