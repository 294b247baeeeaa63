----------------------------- MODULE VaultOracle -----------------------------
(***************************************************************************)
(* What framework-vault-bench asserts of a vault program, case by case, on *)
(* accounts of the shape of its fixtures: a system-owned user, and the     *)
(* user's own vault, owned by the program, both writable.  The bench runs  *)
(* each case on one pair of balances; here they are those of the moment.   *)
(***************************************************************************)
EXTENDS Vault

user == ix'.accounts[1]
vault == ix'.accounts[2]
amount == ix'.amount

Fixture ==
  /\ ix' # NoIx /\ Len(ix'.accounts) >= 2
  /\ user \in Users \ Owned /\ vault = Pda[user] /\ vault \in Owned
  /\ {user, vault} \subseteq ix'.writable

Balances(u, v) == lamports'[user] = u /\ lamports'[vault] = v

run_deposit_case ==
  ix'.op = "deposit" /\ user \in ix'.signers /\ Len(ix'.accounts) = 3
    /\ ix'.accounts[3] = SystemId
    /\ amount \in 0 .. lamports[user] /\ lamports[vault] + amount <= MaxU64
  => err' = "Ok" /\ Balances(lamports[user] - amount, lamports[vault] + amount)

run_withdraw_case ==
  ix'.op = "withdraw" /\ user \in ix'.signers
    /\ amount \in 0 .. lamports[vault] /\ lamports[user] + amount <= MaxU64
  => err' = "Ok" /\ Balances(lamports[user] + amount, lamports[vault] - amount)

run_unsigned_withdraw_rejection ==
  ix'.op = "withdraw" /\ user \notin ix'.signers
  => err' # "Ok" /\ Balances(lamports[user], lamports[vault])

run_authorize_case ==
  ix'.op = "authorize" /\ user \in ix'.signers
  => err' = "Ok" /\ Balances(lamports[user], lamports[vault])

run_authorize_missing_signature_case ==
  ix'.op = "authorize" /\ user \notin ix'.signers
  => err' # "Ok" /\ Balances(lamports[user], lamports[vault])

run_counter_access_case ==
  ix'.op = "counter_access" /\ user \in ix'.signers
    /\ vault \in Sized /\ data[vault].authority = user /\ data[vault].counter < MaxU64
  => /\ err' = "Ok" /\ Balances(lamports[user], lamports[vault])
     /\ data'[vault].counter = data[vault].counter + 1

\* A vault program passes every case of the bench, whatever came before and
\* whatever the balances are: no row is missing for a reason of state.
BenchCasesPass ==
  [][Fixture =>
       /\ run_deposit_case /\ run_withdraw_case /\ run_unsigned_withdraw_rejection
       /\ run_authorize_case /\ run_authorize_missing_signature_case
       /\ run_counter_access_case]_vars
=============================================================================
