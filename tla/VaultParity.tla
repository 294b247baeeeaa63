----------------------------- MODULE VaultParity -----------------------------
(***************************************************************************)
(* The Pinocchio and the Anchor vault, whose rows framework-vault-bench    *)
(* compares, on the same instructions, balances and counters.  A history   *)
(* is one program's; at every step the other's answer is held against it.  *)
(***************************************************************************)
EXTENDS VaultOracle

VARIABLE program   \* whose history this is

Pinocchio == INSTANCE PinocchioVault
Anchor == INSTANCE AnchorVault

ParityInit == Init /\ program \in {"pinocchio", "anchor"}

ParityNext ==
  /\ \/ program = "pinocchio" /\ Pinocchio!Next
     \/ program = "anchor" /\ Anchor!Next
  /\ UNCHANGED program

ParitySpec == ParityInit /\ [][ParityNext]_<<vars, program>>
-----------------------------------------------------------------------------

\* Where a program's own checks leave a write for the runtime to refuse.  In the
\* Pinocchio vault it is a counter access to a read-only vault, in the Anchor vault
\* a withdrawal from a vault the program does not own, and nothing else.
ChecksSuffice ==
  IF program = "pinocchio" THEN Pinocchio!ChecksSuffice ELSE Anchor!OnlyForeignVaultsRefused

\* Balances and counters keep their types, and what the runtime is left to refuse of
\* a program is that program's one exception.  (A deposit is the system program's.)
ParityInv == TypeOK /\ ChecksSuffice

\* Neither program ever locks savings in a vault it owns.
SavingsArePaidOut == Pinocchio!SavingsArePaidOut /\ Anchor!SavingsArePaidOut

\* Both accept the instruction and leave the same behind, or both refuse it.
Agree(i) ==
  LET p == Pinocchio!process_instruction(i)
      a == Anchor!anchor_vault(i)
  IN /\ p.err = "Ok" <=> a.err = "Ok"
     /\ p.lamports = a.lamports /\ p.data = a.data

\* The rows of the two programs are rows of the same program, for every
\* instruction but one: to withdraw nothing from a vault the program does not
\* own, which Pinocchio refuses for its owner and Anchor lets through.
AgreeUnlessNothingIsWithdrawn ==
  [][Agree(ix')
       \/ (ix'.op = "withdraw" /\ ix'.amount = 0 /\ ix'.accounts[2] \notin Owned)]_vars

\* pinocchio-vault's crate documentation: "The four instructions [...] have
\* identical semantics to the Hopper, Quasar, and (when present) Anchor parity
\* vaults".
IdenticalSemantics == [][Agree(ix')]_vars
=============================================================================
