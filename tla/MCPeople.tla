------------------------------ MODULE MCPeople ------------------------------
(* The head of the office, an organiser and a newcomer around one child    *)
(* and one class of one of two providers.                                  *)
EXTENDS People
=============================================================================
