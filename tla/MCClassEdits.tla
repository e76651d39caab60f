---------------------------- MODULE MCClassEdits ----------------------------
(* Instances of ClassEdits for TLC. *)
EXTENDS ClassEdits, TLC

Keys == [c \in Class |-> 1]

Symmetry == Permutations(Child) \cup Permutations(Process) \cup Permutations(Editor)
=============================================================================
