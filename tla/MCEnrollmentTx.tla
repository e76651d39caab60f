--------------------------- MODULE MCEnrollmentTx ---------------------------
(* Instances of EnrollmentTx for TLC. *)
EXTENDS EnrollmentTx, TLC

CONSTANTS judo, chess

Keys == [c \in Class |-> IF c = judo THEN 1 ELSE 2]

Symmetry == Permutations(Child) \cup Permutations(Process)
=============================================================================
