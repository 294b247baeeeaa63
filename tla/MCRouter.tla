------------------------------ MODULE MCRouter -------------------------------
(***************************************************************************)
(* The Pinocchio router on small instances, held against the oracle.       *)
(***************************************************************************)
EXTENDS RouteOracle, RouteInstances

CONSTANT none
=============================================================================
