--------------------------- MODULE PinocchioVault ----------------------------
(***************************************************************************)
(* The four instructions of pinocchio-vault/src/lib.rs.  Every handler     *)
(* checks all it checks before it writes, and returns the first error.     *)
(***************************************************************************)
EXTENDS Vault

validate_authority_unsigned(i) ==
  IF i.accounts[1] \notin i.writable THEN "InvalidAccountData" ELSE "Ok"
validate_authority(i) ==
  IF i.accounts[1] \notin i.signers THEN "MissingRequiredSignature"
  ELSE IF i.accounts[1] \notin i.writable THEN "InvalidAccountData"
  ELSE "Ok"

parse_amount_rejects(i) == i.amount = Short

process_deposit(i) ==
  LET user == i.accounts[1]
      vault == i.accounts[2]
  IN IF Len(i.accounts) < 3 THEN Failed("NotEnoughAccountKeys")
     ELSE IF validate_authority(i) # "Ok" THEN Failed(validate_authority(i))
     ELSE IF parse_amount_rejects(i) THEN Failed("InvalidInstructionData")
     ELSE IF vault \notin i.writable THEN Failed("InvalidAccountData")
     ELSE IF i.accounts[3] # SystemId THEN Failed("IncorrectProgramId")
     ELSE IF ~IsVaultOf(user, vault) THEN Failed("InvalidSeeds")
     ELSE SystemTransfer(user, vault, i.amount, i)

user_owner_bytes_ignored(vault) == TRUE
user_owner_bytes(vault) == vault \in Owned

withdraw_balance_error(user, vault, amount) ==
  IF amount > lamports[vault] THEN "InsufficientFunds"
  ELSE IF lamports[user] + amount > MaxU64 THEN "ArithmeticOverflow"
  ELSE "Ok"

\* The checks of a withdrawal, in order.
withdraw_error(i) ==
  LET user == i.accounts[1]
      vault == i.accounts[2]
  IN IF Len(i.accounts) < 2 THEN "NotEnoughAccountKeys"
     ELSE IF validate_authority(i) # "Ok" THEN validate_authority(i)
     ELSE IF parse_amount_rejects(i) THEN "InvalidInstructionData"
     ELSE IF ~user_owner_bytes(vault) THEN "InvalidAccountOwner"
     ELSE IF vault \notin i.writable THEN "InvalidAccountData"
     ELSE IF ~IsVaultOf(user, vault) THEN "InvalidSeeds"
     ELSE withdraw_balance_error(user, vault, i.amount)

Pay(user, vault, amount) ==
  Outcome("Ok",
    [[lamports EXCEPT ![vault] = lamports[vault] - amount]
               EXCEPT ![user] = lamports[user] + amount],
    data)

process_withdraw_clamped(i) ==
  IF withdraw_error(i) = "InsufficientFunds" /\ lamports[i.accounts[1]] + lamports[i.accounts[2]] <= MaxU64
    THEN Pay(i.accounts[1], i.accounts[2], lamports[i.accounts[2]])
  ELSE IF withdraw_error(i) # "Ok" THEN Failed(withdraw_error(i))
  ELSE Pay(i.accounts[1], i.accounts[2], i.amount)
process_withdraw(i) ==
  IF withdraw_error(i) # "Ok" THEN Failed(withdraw_error(i))
  ELSE Pay(i.accounts[1], i.accounts[2], i.amount)

process_authorize(i) ==
  IF Len(i.accounts) < 2 THEN Failed("NotEnoughAccountKeys")
  ELSE IF validate_authority(i) # "Ok" THEN Failed(validate_authority(i))
  ELSE IF i.accounts[2] \notin i.writable THEN Failed("InvalidAccountData")
  ELSE IF ~IsVaultOf(i.accounts[1], i.accounts[2]) THEN Failed("InvalidSeeds")
  ELSE Outcome("Ok", lamports, data)

counter_overflows(counter) == counter + 1 > MaxU64

\* The vault is asked neither for its owner nor whether it is writable: an
\* account that is not sized has too little data, and the runtime refuses a
\* write to a read-only one.
counter_error(i) ==
  LET user == i.accounts[1]
      vault == i.accounts[2]
  IN IF Len(i.accounts) < 2 THEN "NotEnoughAccountKeys"
     ELSE IF validate_authority(i) # "Ok" THEN validate_authority(i)
     ELSE IF ~IsVaultOf(user, vault) THEN "InvalidSeeds"
     ELSE IF vault \notin Sized THEN "AccountDataTooSmall"
     ELSE IF data[vault].authority # user THEN "InvalidAccountData"
     ELSE IF counter_overflows(data[vault].counter) THEN "ArithmeticOverflow"
     ELSE "Ok"

process_counter_access(i) ==
  IF counter_error(i) # "Ok" THEN Failed(counter_error(i))
  ELSE Outcome("Ok", lamports, [data EXCEPT ![i.accounts[2]].counter = @ + 1])

process_instruction(i) ==
  CASE i.op = "deposit" -> process_deposit(i)
    [] i.op = "withdraw" -> Accepted(i, process_withdraw(i))
    [] i.op = "authorize" -> Accepted(i, process_authorize(i))
    [] i.op = "counter_access" -> Accepted(i, process_counter_access(i))
    [] OTHER -> Failed("InvalidInstructionData")

Run(i) == Settle(i, process_instruction(i))

Next == \E i \in Instructions : Run(i)

Spec == Init /\ [][Next]_vars
-----------------------------------------------------------------------------

\* The handlers' own checks are enough, but for one: only a counter access can
\* have its writes refused by the runtime, and only on a read-only vault.
ChecksSuffice ==
  ix # NoIx =>
    /\ ix.op = "withdraw" => err \notin RuntimeErrors
    /\ ix.op = "counter_access" /\ err \in RuntimeErrors =>
         err = "ReadonlyDataModified" /\ ix.accounts[2] \notin ix.writable

\* No savings are ever locked in a vault the program owns: its user can take
\* out any part of them, the last lamport too, as far as a u64 holds the sum.
SavingsArePaidOut ==
  \A u \in Users : Pda[u] \in Owned =>
    \A k \in 1 .. lamports[Pda[u]] :
      lamports[u] + k <= MaxU64 =>
        LET o == process_instruction(Withdrawal(u, k)) IN
        /\ o.err = "Ok"
        /\ o.lamports[u] = lamports[u] + k
=============================================================================
