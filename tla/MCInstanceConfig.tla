-------------------------- MODULE MCInstanceConfig --------------------------
(***************************************************************************)
(* Values for the constants of InstanceConfig.                             *)
(***************************************************************************)
EXTENDS InstanceConfig, TLC

CONSTANTS q1, q2, q3, q4

Symmetry == Permutations(Request)

=============================================================================
