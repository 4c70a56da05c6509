---------------------------- MODULE MCLifecycle ----------------------------
(***************************************************************************)
(* Instances of Lifecycle for TLC.                                         *)
(***************************************************************************)
EXTENDS Lifecycle, TLC

CONSTANTS u1, u2

Symmetry == Permutations({u1, u2})
=============================================================================
