--------------------------- MODULE MCRouterParity ----------------------------
(***************************************************************************)
(* Both routers on the same small instances.                               *)
(***************************************************************************)
EXTENDS RouterParity, RouteInstances

CONSTANT none
=============================================================================
