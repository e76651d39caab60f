--------------------------- MODULE MCCertificates ---------------------------
(* Two requests at a time over one profile. *)
EXTENDS Certificates, TLC
Symmetry == Permutations(Request)
=============================================================================
