----------------------------- MODULE AnchorVault -----------------------------
(***************************************************************************)
(* The four instructions of anchor-vault/src/lib.rs.  Anchor parses the    *)
(* arguments, then checks the accounts against the context struct, then    *)
(* runs the handler.  Which constraint it reports of several that fail is  *)
(* Anchor's and not modelled: every one is "AccountConstraint" here.       *)
(***************************************************************************)
EXTENDS Vault

\* A u64 argument follows the discriminator of the two instructions that have one.
BadArguments(i) == i.op \in {"deposit", "withdraw"} /\ i.amount = Short

\* user: Signer, mut.  vault: mut, seeds, bump.  The four contexts share these.
VaultContext_without_seeds(i) ==
  /\ i.accounts[1] \in i.signers
  /\ {i.accounts[1], i.accounts[2]} \subseteq i.writable
VaultContext(i) ==
  /\ i.accounts[1] \in i.signers
  /\ {i.accounts[1], i.accounts[2]} \subseteq i.writable
  /\ IsVaultOf(i.accounts[1], i.accounts[2])

Deposit(i) == Len(i.accounts) >= 3 /\ VaultContext(i) /\ i.accounts[3] = SystemId

\* The vault is an AccountInfo here: its owner is not looked at.
Withdraw(i) == Len(i.accounts) >= 2 /\ VaultContext(i)

Authorize(i) == Len(i.accounts) >= 2 /\ VaultContext(i)

\* AccountLoader: owned by the program, with the discriminator of CounterState.
CounterAccess(i) == Len(i.accounts) >= 2 /\ VaultContext(i) /\ i.accounts[2] \in Sized

InContext(i) ==
  CASE i.op = "deposit" -> Deposit(i)
    [] i.op = "withdraw" -> Withdraw(i)
    [] i.op = "authorize" -> Authorize(i)
    [] i.op = "counter_access" -> CounterAccess(i)

deposit(i) == SystemTransfer(i.accounts[1], i.accounts[2], i.amount, i)

\* The vault is debited before the user's sum is checked: an overflow leaves
\* half a withdrawal in the copy, for the runtime to drop.
withdraw_never_emptied(i) ==
  LET user == i.accounts[1]
      vault == i.accounts[2]
  IN IF i.amount >= lamports[vault] THEN Failed("InsufficientFunds")
     ELSE IF lamports[user] + i.amount > MaxU64 THEN Failed("ArithmeticOverflow")
     ELSE Outcome("Ok", [lamports EXCEPT ![vault] = @ - i.amount, ![user] = @ + i.amount], data)
withdraw_all_at_zero(i) ==
  LET user == i.accounts[1]
      vault == i.accounts[2]
      amount == IF i.amount = 0 THEN lamports[vault] ELSE i.amount
  IN IF amount > lamports[vault] THEN Failed("InsufficientFunds")
     ELSE IF lamports[user] + amount > MaxU64 THEN Failed("ArithmeticOverflow")
     ELSE Outcome("Ok", [lamports EXCEPT ![vault] = @ - amount, ![user] = @ + amount], data)
withdraw(i) ==
  LET user == i.accounts[1]
      vault == i.accounts[2]
      debited == [lamports EXCEPT ![vault] = lamports[vault] - i.amount]
  IN IF i.amount > lamports[vault] THEN Failed("InsufficientFunds")
     ELSE IF debited[user] + i.amount > MaxU64
       THEN Outcome("ArithmeticOverflow", debited, data)
     ELSE Outcome("Ok", [debited EXCEPT ![user] = @ + i.amount], data)

authorize(i) == Outcome("Ok", lamports, data)

counter_access(i) ==
  LET user == i.accounts[1]
      vault == i.accounts[2]
  IN IF data[vault].authority # user THEN Failed("AuthorityMismatch")
     ELSE IF data[vault].counter + 1 > MaxU64 THEN Failed("ArithmeticOverflow")
     ELSE Outcome("Ok", lamports, [data EXCEPT ![vault].counter = @ + 1])

\* The #[program] dispatch: discriminator, arguments, context, handler.
anchor_vault(i) ==
  IF i.op = "unknown" THEN Failed("InstructionFallbackNotFound")
  ELSE IF BadArguments(i) THEN Failed("InstructionDidNotDeserialize")
  ELSE IF ~InContext(i) THEN Failed("AccountConstraint")
  ELSE CASE i.op = "deposit" -> deposit(i)
         [] i.op = "withdraw" -> Accepted(i, withdraw(i))
         [] i.op = "authorize" -> Accepted(i, authorize(i))
         [] i.op = "counter_access" -> Accepted(i, counter_access(i))

Run(i) == Settle(i, anchor_vault(i))

Next == \E i \in Instructions : Run(i)

Spec == Init /\ [][Next]_vars
-----------------------------------------------------------------------------

\* Anchor's constraints leave one write for the runtime to refuse: withdraw does
\* not look at the vault's owner, so one from an account the program does not own.
OnlyForeignVaultsRefused ==
  ix # NoIx /\ err \in RuntimeErrors /\ ix.op # "deposit" =>
    /\ ix.op = "withdraw" /\ ix.accounts[2] \notin Owned
    /\ err = "ExternalAccountLamportSpend"

\* No savings are ever locked in a vault the program owns.
SavingsArePaidOut ==
  \A u \in Users : Pda[u] \in Owned =>
    \A k \in 1 .. lamports[Pda[u]] :
      lamports[u] + k <= MaxU64 =>
        LET o == anchor_vault(Withdrawal(u, k)) IN
        /\ o.err = "Ok"
        /\ o.lamports[u] = lamports[u] + k
=============================================================================
