----------------------------- MODULE RouteOracle -----------------------------
(***************************************************************************)
(* The reference router-bench holds a route against: expected_hops works   *)
(* out what every hop should take and give from the rates alone, and       *)
(* run_route_case reads the final balances against it.  The router never   *)
(* uses these numbers: it measures.                                        *)
(***************************************************************************)
EXTENDS PinocchioRouter, FiniteSetsExt

\* What all accounts hold together can be added up.
ASSUME OracleAssumption == IsFiniteSet(Accounts)

\* expected_hops: amounts[h] goes into hop h and amounts[h + 1] comes out of it.
expected_hops(d) ==
  LET amounts[h \in 0 .. d.hop_count] ==
        IF h = 0 THEN d.initial_amount ELSE swap_out(amounts[h - 1], d.rates[h])
  IN amounts

Pools(i) == [h \in 0 .. i.data.hop_count - 1 |-> i.accounts[3 + 2 * h]]

\* The final balance run_route_case expects of account a: the user's and, with
\* in_i - out_i for each hop it serves, a pool's.  (The bench gives each hop its
\* own pool; an account in several parts gets the sum.)
ExpectedBalance(i, bal, a) ==
  LET amounts == expected_hops(i.data)
      served == {h \in DOMAIN Pools(i) : Pools(i)[h] = a}
      bought == IF a = i.accounts[1] THEN amounts[i.data.hop_count] - amounts[0] ELSE 0
  IN bal[a] + bought + MapThenSumSet(LAMBDA h : amounts[h] - amounts[h + 1], served)

\* A route with the fixture's shape: well-formed data, the accounts it needs,
\* each of its own and mock-amm's, all writable.
FixtureShaped(i) ==
  /\ i.data.disc = EXECUTE_ROUTE_DISCRIMINATOR /\ ~parse_route_rejects(i.data)
  /\ \A h \in DOMAIN i.data.rates : i.data.rates[h].den # 0
  /\ Len(i.accounts) >= 1 + 2 * i.data.hop_count
  /\ \A h \in 0 .. i.data.hop_count - 1 : i.accounts[2 + 2 * h] = AmmId
  /\ LET parts == {i.accounts[1]} \cup {Pools(i)[h] : h \in DOMAIN Pools(i)} IN
       /\ parts \subseteq AmmOwned \cap i.writable
       /\ Cardinality(parts) = 1 + i.data.hop_count

\* The route can be paid for: the user has the initial amount, each pool what
\* its hop gives out, and the gate asks for no more than the rates yield.
Funded(i, bal) ==
  LET amounts == expected_hops(i.data) IN
  /\ bal[i.accounts[1]] >= amounts[0]
  /\ \A h \in DOMAIN Pools(i) : bal[Pools(i)[h]] + amounts[h] >= amounts[h + 1]
  /\ i.data.min_out <= amounts[i.data.hop_count]

\* No supply of lamports comes near half of u64::MAX.
RealisticSupply(bal) == 2 * MapThenSumSet(LAMBDA a : bal[a], Accounts) <= MaxU64

\* run_route_case: an Ok leaves every account exactly where the rate math puts
\* it, also when hops share a pool.  Measured and expected outputs are the same
\* numbers with this venue, though the router never computes the expected ones.
MatchesExpectedHops ==
  [][result = "Pending" /\ result' = "Ok" =>
       \A a \in Accounts : ledger'[a] = ExpectedBalance(ix, ledger, a)]_vars

\* The success rows: a fixture-shaped route that can be paid for is never turned
\* down, at no hop and with min_out at its boundary.
FundedRouteSucceeds ==
  [][result = "Pending" /\ result' # "Pending" /\ FixtureShaped(ix)
       /\ RealisticSupply(ledger) /\ Funded(ix, ledger) => result' = "Ok"]_vars

\* With a realistic supply the checked measurement never fires, for any route:
\* after + in stays within a u64 and never falls short of before.
MeasureNeverWraps ==
  pc = "measure" /\ RealisticSupply(ledger) => ~measure_overflows
=============================================================================
