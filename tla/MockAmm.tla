------------------------------- MODULE MockAmm -------------------------------
(***************************************************************************)
(* The SWAP handler of mock-amm/src/lib.rs as operators: what it answers   *)
(* for some instruction data and accounts, given the balances it reads.    *)
(* Instruction data is a record: its length, its discriminator, the rate   *)
(* and the amount.  An answer carries the program's own copy of the        *)
(* balances; Svm!Accept says what becomes of it.                           *)
(*                                                                         *)
(* Here and in the other modules a definition whose name extends that of   *)
(* the one below it (swap_out_rounded_up) is that definition with a bug a  *)
(* programmer might make; it is used nowhere but to see the bug caught.    *)
(***************************************************************************)
EXTENDS Svm, Sequences

CONSTANT AmmOwned     \* the accounts whose owner is the mock-amm program

ASSUME AmmOwnedAssumption == AmmOwned \subseteq Accounts

SWAP_DATA_LEN == 17
SWAP_DISCRIMINATOR == 0

Rates == [num : Nat, den : Nat]

encode_swap_data(rate, amount) ==
  [len |-> SWAP_DATA_LEN, disc |-> SWAP_DISCRIMINATOR, rate |-> rate, amount |-> amount]

parse_swap_rejects(data) ==
  \/ data.len # SWAP_DATA_LEN
  \/ data.disc # SWAP_DISCRIMINATOR
  \/ data.rate.den = 0

\* The product is taken in u128, so only the quotient can be out of range.
swap_out_rounded_up(amount, rate) == (amount * rate.num + rate.den - 1) \div rate.den
swap_out(amount, rate) == (amount * rate.num) \div rate.den

\* The checks on the accounts: the pool is mock-amm's, both are writable.
account_error_any_owner(pool, user, writable) ==
  IF {pool, user} \subseteq writable THEN "Ok" ELSE "InvalidAccountData"
account_error(pool, user, writable) ==
  IF pool \notin AmmOwned THEN "InvalidAccountOwner"
  ELSE IF ~({pool, user} \subseteq writable) THEN "InvalidAccountData"
  ELSE "Ok"

\* The five checked results, in the order the code computes them: the payout,
\* the user's debit, the pool's credit, the pool's debit, the user's credit.
balance_error_credit_unchecked(bal, pool, user, amount, out) ==
  IF out > MaxU64 THEN "ArithmeticOverflow"
  ELSE IF bal[user] < amount \/ bal[pool] + amount < out THEN "InsufficientFunds"
  ELSE "Ok"
balance_error(bal, pool, user, amount, out) ==
  IF out > MaxU64 THEN "ArithmeticOverflow"
  ELSE IF bal[user] < amount THEN "InsufficientFunds"
  ELSE IF bal[pool] + amount > MaxU64 THEN "ArithmeticOverflow"
  ELSE IF bal[pool] + amount < out THEN "InsufficientFunds"
  ELSE IF bal[user] - amount + out > MaxU64 THEN "ArithmeticOverflow"
  ELSE "Ok"

\* The two balances the handler writes, each computed from what the account
\* held on entry.  When pool and user are one account the second write wins.
WriteBalances(bal, pool, user, amount, out) ==
  [[bal EXCEPT ![pool] = bal[pool] + amount - out]
          EXCEPT ![user] = bal[user] - amount + out]

process_swap(bal, accounts, writable, rate, amount) ==
  IF Len(accounts) < 2 THEN Answer("NotEnoughAccountKeys", bal)
  ELSE LET pool == accounts[1]
           user == accounts[2]
           out == swap_out(amount, rate)
           refused == account_error(pool, user, writable)
           short == balance_error(bal, pool, user, amount, out)
       IN IF refused # "Ok" THEN Answer(refused, bal)
          ELSE IF short # "Ok" THEN Answer(short, bal)
          ELSE Answer("Ok", WriteBalances(bal, pool, user, amount, out))

process_instruction_amm(bal, accounts, writable, data) ==
  IF parse_swap_rejects(data) THEN Answer("InvalidInstructionData", bal)
  ELSE process_swap(bal, accounts, writable, data.rate, data.amount)
=============================================================================
