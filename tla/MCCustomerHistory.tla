-------------------------- MODULE MCCustomerHistory --------------------------
(* Instances of CustomerHistory for TLC. *)
EXTENDS CustomerHistory, TLC

CONSTANTS c1, c2, v1, v2

=============================================================================
