--------------------------- MODULE MCEnrollments ---------------------------
(* Instances of Enrollments and Pages for TLC. *)
EXTENDS Pages, TLC

(* FairSpec where there is one class, and so nowhere to move a child to:   *)
(* Transfer, which needs a target other than the source, has no steps, and *)
(* is left out of the next-state relation.  Desk and EnrollmentTx move     *)
(* children between classes.                                               *)
OneClassNext ==
  \/ \E ch \in Child, c \in Class : Register(ch, c) \/ AdminRegister(ch, c)
  \/ DecisionStep \/ ClassStep \/ Tick

ASSUME OneClass == Cardinality(Class) = 1

OneClassFairSpec == Init /\ [][OneClassNext]_vars /\ Fairness
=============================================================================
