------------------------------ MODULE MCOrders ------------------------------
(***************************************************************************)
(* Instances of Orders for TLC.                                            *)
(***************************************************************************)
EXTENDS Orders

CONSTANTS place, cancel1, cancel2
=============================================================================
