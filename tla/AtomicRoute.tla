----------------------------- MODULE AtomicRoute -----------------------------
(***************************************************************************)
(* What a router promises whoever submits a route, whichever framework it  *)
(* is written in and however it goes about it: the route is one step.  It  *)
(* settles, and then every hop has swapped in its turn what the hop before *)
(* it yielded, or it is turned down for what the first check or hop to     *)
(* fail says, and no balance has moved.  There is no hop counter, no       *)
(* iterator, no working copy and no return from a CPI to be seen here.     *)
(***************************************************************************)
EXTENDS MockAmm

CONSTANTS AmmId, InitialLedgers, NoIx

VARIABLES ledger, ix, result

vars == <<ledger, ix, result>>

\* The data are a route's, the accounts its hops need are there and the user
\* may be written.
WellFormed(d) ==
  d.disc = 1 /\ d.header /\ d.hop_count \in 1 .. 3 /\ Len(d.rates) = d.hop_count /\ ~d.ragged
Enough(i) == Len(i.accounts) >= 1 + 2 * i.data.hop_count
Admitted(i) == WellFormed(i.data) /\ Enough(i) /\ i.accounts[1] \in i.writable

\* Where a route stands: its error so far, the balances, the amount in hand.
Stand(err, bal, amount) == [err |-> err, bal |-> bal, amount |-> amount]

RouteUser(i) == i.accounts[1]
RoutePool(i, h) == i.accounts[3 + 2 * h]

HopChecks(i, h) ==
  IF Len(i.accounts) < 3 + 2 * h THEN "NotEnoughAccountKeys"
  ELSE IF i.accounts[2 + 2 * h] # AmmId THEN "IncorrectProgramId"
  ELSE IF RoutePool(i, h) \notin i.writable THEN "InvalidAccountData"
  ELSE "Ok"

\* The swap of hop h with what stands in hand.
HopCpi(i, s, h) ==
  LET pool == RoutePool(i, h)
      user == RouteUser(i)
  IN Accept(AmmOwned, s.bal,
            process_instruction_amm(s.bal, <<pool, user>>, {pool, user},
                                    encode_swap_data(i.data.rates[h + 1], s.amount)),
            pool, user)

\* What the user has more after the swap, counting what it paid in, is a u64.
HopOverflows(i, s, after) ==
  \/ after[RouteUser(i)] + s.amount > MaxU64
  \/ after[RouteUser(i)] + s.amount < s.bal[RouteUser(i)]

\* Hop h of the route, from where the hops before it have left things.
OneHop(i, s, h) ==
  LET swapped == HopCpi(i, s, h)
      fail(err) == Stand(err, s.bal, s.amount)
  IN IF s.err # "Ok" THEN s
     ELSE IF HopChecks(i, h) # "Ok" THEN fail(HopChecks(i, h))
     ELSE IF swapped.err # "Ok" THEN fail(swapped.err)
     ELSE IF HopOverflows(i, s, swapped.bal) THEN fail("ArithmeticOverflow")
     ELSE Stand("Ok", swapped.bal,
                swapped.bal[RouteUser(i)] + s.amount - s.bal[RouteUser(i)])

\* After the first h hops of the route on the balances l; no route has more
\* than three.
Start(l, i) == Stand("Ok", l, i.data.initial_amount)
AfterOne(l, i) == OneHop(i, Start(l, i), 0)
AfterTwo(l, i) == OneHop(i, AfterOne(l, i), 1)
After(l, i, h) ==
  IF h = 0 THEN Start(l, i)
  ELSE IF h = 1 THEN AfterOne(l, i)
  ELSE IF h = 2 THEN AfterTwo(l, i)
  ELSE OneHop(i, AfterTwo(l, i), 2)

\* What all hops and the gate say.
HopsAnswer(l, i) ==
  LET s == After(l, i, i.data.hop_count) IN
  IF s.err # "Ok" THEN s.err
  ELSE IF s.amount < i.data.min_out THEN "Custom(1)"
  ELSE "Ok"

Init == ledger \in InitialLedgers /\ ix = NoIx /\ result = "Ok"

\* Any instruction may come, one at a time.
Submit ==
  /\ ix = NoIx /\ ix' # NoIx
  /\ result' = "Pending"
  /\ UNCHANGED ledger

\* The route is turned down.  One that is admitted reports what its hops say;
\* which of several defects one that is not reports is left to the router.
Reject ==
  /\ ix # NoIx /\ ix' = NoIx
  /\ result' \notin {"Ok", "Pending"}
  /\ Admitted(ix) => result' = HopsAnswer(ledger, ix)
  /\ UNCHANGED ledger

\* The route settles: admitted, all hops and the gate passed, and every balance
\* where the last hop leaves it.
Settle ==
  /\ ix # NoIx /\ ix' = NoIx
  /\ Admitted(ix) /\ HopsAnswer(ledger, ix) = "Ok"
  /\ result' = "Ok"
  /\ ledger' = After(ledger, ix, ix.data.hop_count).bal

Next == Submit \/ Reject \/ Settle

Spec == Init /\ [][Next]_vars
=============================================================================
