---------------------------- MODULE MCVaultParity ----------------------------
(***************************************************************************)
(* The Pinocchio and the Anchor vault on small instances.                  *)
(***************************************************************************)
EXTENDS VaultParity, VaultInstances
=============================================================================
