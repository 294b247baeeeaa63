---------------------------- MODULE RouterProofs -----------------------------
(***************************************************************************)
(* Proofs about the Pinocchio router for every set of accounts, every      *)
(* u64::MAX and every set of instructions.  The argument goes through      *)
(* SpecAnyVenue: what the router promises its user rests on the runtime    *)
(* and on the router's own measurement, not on mock-amm.  A mock-amm swap  *)
(* is then one of the moves a venue may make.  That a route is one atomic  *)
(* step, with every hop where the atomic route has it, is about mock-amm   *)
(* again and is proved last.                                               *)
(***************************************************************************)
EXTENDS PinocchioRouter, TLAPS

USE DEF U64

(***************************************************************************)
(* What a running instruction's accounts are.                              *)
(***************************************************************************)

\* The accounts a hop reads lie inside the account list, so they are accounts.
LEMMA HopAccounts ==
  ASSUME TypeOK, pc \in {"hop", "cpi", "measure"}, ix \in InstructionType
  PROVE  /\ user \in Accounts
         /\ \A h \in 0 .. ix.data.hop_count : ix.accounts[1 + 2 * h] \in Accounts
         /\ hop < ix.data.hop_count => pool \in Accounts /\ hop + 1 \in 1 .. ix.data.hop_count
<1>1. ix.accounts \in Seq(Accounts) /\ ix.data.hop_count \in 1 .. 3
      /\ Len(ix.accounts) >= 1 + 2 * ix.data.hop_count /\ hop \in 0 .. 3
  BY DEF TypeOK, InstructionType, MAX_HOPS
<1>2. \A k \in 1 .. Len(ix.accounts) : ix.accounts[k] \in Accounts
  BY <1>1
<1>3. Len(ix.accounts) \in Nat
  BY <1>1
<1>4. \A h \in 0 .. ix.data.hop_count : 1 + 2 * h \in 1 .. Len(ix.accounts)
  BY <1>1, <1>3
<1>5. user \in Accounts
  BY <1>2, <1>4, <1>1 DEF user
<1>6. hop < ix.data.hop_count => 3 + 2 * hop \in 1 .. Len(ix.accounts)
  BY <1>1, <1>3
<1> QED
  BY <1>1, <1>2, <1>4, <1>5, <1>6 DEF pool

\* What the runtime accepts of a venue: no foreign account pays.
LEMMA AcceptedMove ==
  ASSUME NEW a, NEW b, NEW pre, NEW post,
         Accept(AmmOwned, pre, Answer("Ok", post), a, b).err = "Ok"
  PROVE  ~SpendsForeign(AmmOwned, pre, post, {a, b})
BY DEF Accept, Answer

LEMMA InitInv == Init => RouteInv
BY MaxU64Assumption, RouterAssumption
   DEF Init, RouteInv, TypeOK, Control, AmountForwarded, WorkConfined, Ledgers,
       Locations, Results, MAX_HOPS

(***************************************************************************)
(* One lemma per action of SpecAnyVenue.                                   *)
(***************************************************************************)

LEMMA SubmitInv ==
  ASSUME NEW i \in Instructions, RouteInv, Submit(i)
  PROVE  RouteInv'
BY MaxU64Assumption, RouterAssumption
   DEF Submit, RouteInv, TypeOK, Control, AmountForwarded, WorkConfined, Ledgers,
       Locations, Results

\* Giving up takes every balance back to the committed one.
LEMMA AbortInv ==
  ASSUME NEW err \in Results \ {"Pending"}, RouteInv, Abort(err)
  PROVE  RouteInv'
BY MaxU64Assumption, RouterAssumption
   DEF Abort, Return, RouteInv, TypeOK, Control, AmountForwarded, WorkConfined, Ledgers,
       Locations, Results, MAX_HOPS

LEMMA EnterInv ==
  ASSUME RouteInv, Enter
  PROVE  RouteInv'
<1>1. entry_error \in Results \ {"Pending"}
  BY DEF entry_error, Results, VenueErrors
<1>2. CASE entry_error # "Ok"
  BY <1>1, <1>2, AbortInv DEF Enter
<1>3. CASE entry_error = "Ok"
  <2>1. ix \in InstructionType
    BY RouterAssumption DEF Enter, RouteInv, TypeOK, Control
  <2>2. /\ ix.data.hop_count \in 1 .. MAX_HOPS
        /\ Len(ix.accounts) >= 1 + 2 * ix.data.hop_count
        /\ Len(ix.data.rates) = ix.data.hop_count
        /\ ix.data.initial_amount \in U64
    BY <1>3, <2>1 DEF entry_error, parse_route_rejects, InstructionType, RouteData, MAX_HOPS
  <2>3. /\ pc' = "hop" /\ in_amount' = ix.data.initial_amount
        /\ UNCHANGED <<ledger, work, ix, hop, before, result>>
        /\ pc = "entry"
    BY <1>3 DEF Enter
  <2>4. ix.accounts[1] \in Accounts
    BY <2>1, <2>2 DEF InstructionType, MAX_HOPS
  <2>5. TypeOK'
    BY <2>2, <2>3 DEF RouteInv, TypeOK, Control, Locations, MAX_HOPS
  <2>6. AmountForwarded'
    BY <2>2, <2>3, <2>4 DEF RouteInv, Control, AmountForwarded, user, TypeOK, Ledgers
  <2>7. Control' /\ WorkConfined'
    BY <2>3 DEF RouteInv, TypeOK, Control, WorkConfined
  <2> QED
    BY <2>5, <2>6, <2>7 DEF RouteInv
<1> QED
  BY <1>2, <1>3

LEMMA CheckHopInv ==
  ASSUME RouteInv, CheckHop
  PROVE  RouteInv'
<1>1. hop_error \in Results \ {"Pending"}
  BY DEF hop_error, Results, VenueErrors
<1>2. CASE hop_error # "Ok"
  BY <1>1, <1>2, AbortInv DEF CheckHop
<1>3. CASE hop_error = "Ok"
  <2>1. user \in Accounts
    BY HopAccounts, RouterAssumption DEF CheckHop, RouteInv, TypeOK, Control
  <2>2. work[user] \in U64
    BY <2>1 DEF RouteInv, TypeOK, Ledgers
  <2>3. /\ pc = "hop" /\ pc' = "cpi" /\ before' = work[user]
        /\ hop < ix.data.hop_count
        /\ UNCHANGED <<ledger, work, ix, hop, in_amount, result>>
    BY <1>3 DEF CheckHop
  <2> QED
    BY <2>2, <2>3
       DEF RouteInv, TypeOK, Control, AmountForwarded, WorkConfined, Locations, user
<1> QED
  BY <1>2, <1>3

LEMMA MeasureInv ==
  ASSUME RouteInv, Measure
  PROVE  RouteInv'
<1>1. CASE measure_overflows
  <2>1. "ArithmeticOverflow" \in Results \ {"Pending"}
    BY DEF Results, VenueErrors
  <2> QED
    BY <1>1, <2>1, AbortInv DEF Measure
<1>2. CASE ~measure_overflows
  <2>1. user \in Accounts
    BY HopAccounts, RouterAssumption DEF Measure, RouteInv, TypeOK, Control
  <2>2. work[user] \in U64 /\ ledger[user] \in U64
    BY <2>1 DEF RouteInv, TypeOK, Ledgers
  <2>3. /\ pc = "measure" /\ pc' = "hop" /\ hop' = hop + 1
        /\ in_amount' = work[user] + in_amount - before
        /\ UNCHANGED <<ledger, work, ix, before, result>>
    BY <1>2 DEF Measure
  <2>4. ix \in InstructionType /\ hop < ix.data.hop_count /\ ix.data.hop_count \in 1 .. 3
        /\ before \in U64 /\ in_amount \in U64 /\ hop \in 0 .. 3
    BY <2>3 DEF RouteInv, TypeOK, Control, MAX_HOPS
  <2>5. in_amount' \in U64
    BY <1>2, <2>2, <2>3, <2>4, MaxU64Assumption DEF measure_overflows
  <2>6. TypeOK'
    BY <2>3, <2>4, <2>5 DEF RouteInv, TypeOK, Locations, MAX_HOPS
  <2>7. AmountForwarded'
    <3>1. ix.data.initial_amount \in U64
      BY <2>4 DEF InstructionType, RouteData
    <3>2. in_amount + ledger[user] = before + ix.data.initial_amount
      BY <2>3 DEF RouteInv, AmountForwarded
    <3>3. in_amount' + ledger[user] = work[user] + ix.data.initial_amount
      BY <2>2, <2>3, <2>4, <3>1, <3>2, MaxU64Assumption
    <3> QED
      BY <2>3, <3>3 DEF AmountForwarded, user
  <2>8. Control' /\ WorkConfined'
    BY <2>3 DEF RouteInv, Control, WorkConfined
  <2> QED
    BY <2>6, <2>7, <2>8 DEF RouteInv
<1> QED
  BY <1>1, <1>2

LEMMA GateInv ==
  ASSUME RouteInv, Gate
  PROVE  RouteInv'
<1>1. CASE in_amount < ix.data.min_out
  <2>1. "Custom(1)" \in Results \ {"Pending"}
    BY DEF Results
  <2> QED
    BY <1>1, <2>1, AbortInv DEF Gate
<1>2. CASE ~(in_amount < ix.data.min_out)
  BY <1>2, MaxU64Assumption
     DEF Gate, Return, RouteInv, TypeOK, Control, AmountForwarded, WorkConfined, Locations,
         Results, MAX_HOPS
<1> QED
  BY <1>1, <1>2

\* Whatever an accepted venue does, it does to the pool and the user only.
LEMMA VenueInv ==
  ASSUME RouteInv, InvokeAnyVenue
  PROVE  RouteInv'
<1>1. CASE \E err \in VenueErrors : Abort(err)
  <2>1. PICK err \in VenueErrors : Abort(err)
    BY <1>1
  <2>2. err \in Results \ {"Pending"}
    BY DEF Results, VenueErrors
  <2> QED
    BY <2>1, <2>2, AbortInv
<1>2. ASSUME NEW p \in U64, NEW u \in U64,
             LET moved == [[work EXCEPT ![pool] = p] EXCEPT ![user] = u] IN
               /\ Accept(AmmOwned, work, Answer("Ok", moved), pool, user).err = "Ok"
               /\ pc' = "measure"
               /\ work' = moved
               /\ UNCHANGED <<ledger, ix, hop, in_amount, before, result>>
      PROVE  RouteInv'
  <2>1. pc = "cpi"
    BY DEF InvokeAnyVenue
  <2>2. ix \in InstructionType /\ hop < ix.data.hop_count /\ ix.data.hop_count \in 1 .. 3
        /\ hop \in 0 .. 3 /\ work \in Ledgers /\ ledger \in Ledgers
    BY <2>1 DEF RouteInv, TypeOK, Control, MAX_HOPS
  <2>3. user \in Accounts /\ pool \in Accounts
    BY <2>1, <2>2, HopAccounts DEF RouteInv
  <2>4. /\ pc' = "measure" /\ work' = [[work EXCEPT ![pool] = p] EXCEPT ![user] = u]
        /\ UNCHANGED <<ledger, ix, hop, in_amount, before, result>>
    BY <1>2
  <2>5. ~SpendsForeign(AmmOwned, work, work', {pool, user})
    BY <1>2, AcceptedMove
  <2>6. work' \in Ledgers
    BY <2>2, <2>3, <2>4 DEF Ledgers
  <2>7. TypeOK'
    BY <2>1, <2>4, <2>6 DEF RouteInv, TypeOK, Locations
  <2>8. AmountForwarded'
    BY <2>1, <2>4 DEF RouteInv, AmountForwarded, user
  <2>9. Control'
    BY <2>1, <2>4 DEF RouteInv, Control
  <2>10. \A a \in Accounts : a # pool /\ a # user => work'[a] = work[a]
    BY <2>2, <2>3, <2>4 DEF Ledgers
  <2>11. \A a \in Accounts \ AmmOwned : work'[a] >= ledger'[a]
    <3> SUFFICES ASSUME NEW a \in Accounts \ AmmOwned
                 PROVE  work'[a] >= ledger[a]
      BY <2>4
    <3>1. work[a] >= ledger[a]
      BY <2>1 DEF RouteInv, WorkConfined
    <3>2. work'[a] >= work[a]
      BY <2>2, <2>5, <2>6, <2>10 DEF SpendsForeign, Ledgers
    <3>3. work'[a] \in Int /\ work[a] \in Int /\ ledger[a] \in Int
      BY <2>2, <2>6 DEF Ledgers
    <3> QED
      BY <3>1, <3>2, <3>3
  <2>12. \A a \in Accounts : work'[a] # ledger[a] =>
            \E h \in 0 .. ix.data.hop_count : a = ix.accounts[1 + 2 * h]
    <3> SUFFICES ASSUME NEW a \in Accounts, work'[a] # ledger[a]
                 PROVE  \E h \in 0 .. ix.data.hop_count : a = ix.accounts[1 + 2 * h]
      OBVIOUS
    <3>1. CASE a = user
      <4>1. 0 \in 0 .. ix.data.hop_count /\ 1 + 2 * 0 = 1
        BY <2>2
      <4> QED
        BY <3>1, <4>1 DEF user
    <3>2. CASE a = pool
      <4>1. hop + 1 \in 0 .. ix.data.hop_count /\ 1 + 2 * (hop + 1) = 3 + 2 * hop
        BY <2>2
      <4> QED
        BY <3>2, <4>1 DEF pool
    <3>3. CASE a # user /\ a # pool
      BY <2>1, <2>10, <3>3 DEF RouteInv, WorkConfined
    <3> QED
      BY <3>1, <3>2, <3>3
  <2>13. WorkConfined'
    BY <2>1, <2>4, <2>11, <2>12 DEF WorkConfined
  <2> QED
    BY <2>7, <2>8, <2>9, <2>13 DEF RouteInv
<1> QED
  BY <1>1, <1>2 DEF InvokeAnyVenue

LEMMA StutterInv ==
  ASSUME RouteInv, UNCHANGED vars
  PROVE  RouteInv'
BY DEF vars, RouteInv, TypeOK, Control, AmountForwarded, WorkConfined, user

LEMMA NextAnyVenueInv ==
  ASSUME RouteInv, [NextAnyVenue]_vars
  PROVE  RouteInv'
BY SubmitInv, EnterInv, CheckHopInv, VenueInv, MeasureInv, GateInv, StutterInv
   DEF NextAnyVenue

(***************************************************************************)
(* Against any venue.                                                      *)
(***************************************************************************)

\* Types, control, forwarding and confinement hold in every state of a router
\* whose venue is bound by the runtime alone.
THEOREM AnyVenueInvariant == SpecAnyVenue => []RouteInv
BY InitInv, NextAnyVenueInv, PTL DEF SpecAnyVenue

\* The step that lets a route return Ok satisfies the gate over the whole route.
LEMMA GateHonoured ==
  ASSUME RouteInv, NextAnyVenue, result = "Pending", result' = "Ok"
  PROVE  /\ Gate /\ ledger' = work /\ ix' = NoIx
         /\ work[user] + ix.data.initial_amount >= ledger[user] + ix.data.min_out
<1>1. \A err : Abort(err) => result' = err
  BY DEF Abort, Return
<1>2. ~(\E i \in Instructions : Submit(i))
  BY DEF Submit
<1>3. ~Enter
  BY <1>1 DEF Enter
<1>4. ~CheckHop
  BY <1>1 DEF CheckHop
<1>5. ~InvokeAnyVenue
  <2>1. "Ok" \notin VenueErrors
    BY DEF VenueErrors
  <2> QED
    BY <1>1, <2>1 DEF InvokeAnyVenue
<1>6. ~Measure
  BY <1>1 DEF Measure
<1>7. Gate
  BY <1>2, <1>3, <1>4, <1>5, <1>6 DEF NextAnyVenue
<1>8. ~(in_amount < ix.data.min_out) /\ ledger' = work /\ ix' = NoIx /\ pc = "hop"
  BY <1>1, <1>7 DEF Gate, Return
<1>9. ix \in InstructionType
  BY <1>8 DEF RouteInv, TypeOK, Control
<1>10. user \in Accounts
  BY <1>8, <1>9, HopAccounts DEF RouteInv
<1>11. /\ work[user] \in U64 /\ ledger[user] \in U64 /\ in_amount \in U64
       /\ ix.data.initial_amount \in U64 /\ ix.data.min_out \in U64
  BY <1>9, <1>10 DEF RouteInv, TypeOK, Ledgers, InstructionType, RouteData
<1>12. in_amount + ledger[user] = work[user] + ix.data.initial_amount
  BY <1>8 DEF RouteInv, AmountForwarded
<1> QED
  BY <1>7, <1>8, <1>11, <1>12, MaxU64Assumption

\* No venue, however it moves lamports, can make a route return Ok that leaves
\* the user with less than min_out for the initial amount.
THEOREM AnyVenueMinOut == SpecAnyVenue => MinOutHonoured
<1>1. RouteInv /\ [NextAnyVenue]_vars =>
        [result = "Pending" /\ result' = "Ok" =>
           ledger'[user] + ix.data.initial_amount >= ledger[user] + ix.data.min_out]_vars
  BY GateHonoured DEF vars
<1> QED
  BY <1>1, AnyVenueInvariant, PTL DEF SpecAnyVenue, MinOutHonoured

(***************************************************************************)
(* mock-amm's swap.                                                        *)
(***************************************************************************)

LEMMA QuotientIsNat ==
  ASSUME NEW n \in Nat, NEW d \in Nat \ {0}
  PROVE  n \div d \in Nat
OBVIOUS

LEMMA PayoutIsNat ==
  ASSUME NEW rate \in Rates, rate.den # 0, NEW amount \in U64
  PROVE  swap_out(amount, rate) \in Nat
<1>1. rate.num \in Nat /\ rate.den \in Nat \ {0} /\ amount \in Nat
  BY MaxU64Assumption DEF Rates
<1>2. amount * rate.num \in Nat
  BY <1>1
<1> QED
  BY <1>1, <1>2, QuotientIsNat DEF swap_out

\* The errors the handler itself reports; the runtime's two are not among them.
SwapErrors == VenueErrors \ {"ExternalAccountLamportSpend", "UnbalancedInstruction"}

\* What the swap handler answers for a pool a and a user b: an error and the
\* balances untouched, or the two balances each inside u64.
LEMMA SwapAnswer ==
  ASSUME NEW bal \in Ledgers, NEW a \in Accounts, NEW b \in Accounts,
         NEW rate \in Rates, NEW amount \in U64,
         NEW r, r = process_instruction_amm(bal, <<a, b>>, {a, b},
                                            encode_swap_data(rate, amount)),
         NEW out, out = swap_out(amount, rate)
  PROVE  \/ r.err \in SwapErrors /\ r.bal = bal
         \/ /\ r = Answer("Ok", WriteBalances(bal, a, b, amount, out))
            /\ a \in AmmOwned
            /\ out \in U64 /\ amount <= bal[b]
            /\ bal[a] + amount - out \in U64
            /\ bal[b] - amount + out \in U64
<1> DEFINE data == encode_swap_data(rate, amount)
<1>1. data.rate = rate /\ data.amount = amount
  BY DEF encode_swap_data
<1>2. Len(<<a, b>>) = 2 /\ <<a, b>>[1] = a /\ <<a, b>>[2] = b
  OBVIOUS
<1>3. CASE parse_swap_rejects(data)
  BY <1>3 DEF process_instruction_amm, Answer, VenueErrors, SwapErrors
<1>4. CASE ~parse_swap_rejects(data)
  <2>1. rate.den # 0
    BY <1>1, <1>4 DEF parse_swap_rejects
  <2>2. out \in Nat
    BY <2>1, PayoutIsNat
  <2>3. bal[a] \in U64 /\ bal[b] \in U64 /\ amount \in U64
    BY DEF Ledgers
  <2>4. r = process_swap(bal, <<a, b>>, {a, b}, rate, amount)
    BY <1>1, <1>4 DEF process_instruction_amm
  <2>5. CASE account_error(a, b, {a, b}) # "Ok"
    BY <1>2, <2>4, <2>5 DEF process_swap, account_error, Answer, VenueErrors, SwapErrors
  <2>6. CASE account_error(a, b, {a, b}) = "Ok" /\ balance_error(bal, a, b, amount, out) # "Ok"
    BY <1>2, <2>4, <2>6 DEF process_swap, balance_error, Answer, VenueErrors, SwapErrors
  <2>7. CASE account_error(a, b, {a, b}) = "Ok" /\ balance_error(bal, a, b, amount, out) = "Ok"
    <3>1. r = Answer("Ok", WriteBalances(bal, a, b, amount, out))
      BY <1>2, <2>4, <2>7 DEF process_swap
    <3>2. a \in AmmOwned
      BY <2>7 DEF account_error
    <3>3. out <= MaxU64 /\ bal[b] >= amount /\ bal[a] + amount <= MaxU64
          /\ bal[a] + amount >= out /\ bal[b] - amount + out <= MaxU64
      BY <2>2, <2>3, <2>7, MaxU64Assumption DEF balance_error
    <3>4. out \in U64 /\ bal[a] + amount - out \in U64 /\ bal[b] - amount + out \in U64
      BY <2>2, <2>3, <3>3, MaxU64Assumption
    <3> QED
      BY <3>1, <3>2, <3>3, <3>4
  <2> QED
    BY <2>5, <2>6, <2>7
<1> QED
  BY <1>3, <1>4

\* The runtime has one more say: it may turn an Ok into one of two errors.
LEMMA AcceptAnswer ==
  ASSUME NEW a, NEW b, NEW pre, NEW bal
  PROVE  LET seen == Accept(AmmOwned, pre, Answer("Ok", bal), a, b) IN
           \/ seen.err \in VenueErrors
           \/ /\ seen = Answer("Ok", bal)
              /\ ~SpendsForeign(AmmOwned, pre, bal, {a, b})
              /\ PairTotal(bal, a, b) = PairTotal(pre, a, b)
BY DEF Accept, Answer, VenueErrors

\* The CPI of a hop: it fails, or it is an accepted swap with an owned pool.
LEMMA InvokeSwapAnswer ==
  ASSUME RouteInv, pc = "cpi",
         NEW out, out = swap_out(in_amount, hop_rate)
  PROVE  /\ user \in Accounts /\ pool \in Accounts
         /\ \/ invoke_swap.err \in VenueErrors
            \/ /\ invoke_swap = Answer("Ok", WriteBalances(work, pool, user, in_amount, out))
               /\ ~SpendsForeign(AmmOwned, work, invoke_swap.bal, {pool, user})
               /\ PairTotal(invoke_swap.bal, pool, user) = PairTotal(work, pool, user)
               /\ pool \in AmmOwned
               /\ out \in U64 /\ in_amount <= work[user]
               /\ work[pool] + in_amount - out \in U64
               /\ work[user] - in_amount + out \in U64
<1>1. ix \in InstructionType /\ hop < ix.data.hop_count /\ ix.data.hop_count \in 1 .. 3
      /\ hop \in 0 .. 3 /\ work \in Ledgers /\ in_amount \in U64
  BY DEF RouteInv, TypeOK, Control, MAX_HOPS
<1>2. user \in Accounts /\ pool \in Accounts /\ hop + 1 \in 1 .. ix.data.hop_count
  BY <1>1, HopAccounts DEF RouteInv
<1>3. Len(ix.data.rates) = ix.data.hop_count
  BY DEF RouteInv, TypeOK
<1>4. hop_rate \in Rates
  BY <1>1, <1>2, <1>3 DEF hop_rate, InstructionType, RouteData
<1> DEFINE r == process_instruction_amm(work, <<pool, user>>, {pool, user},
                                        encode_swap_data(hop_rate, in_amount))
<1>5. \/ r.err \in SwapErrors /\ r.bal = work
      \/ /\ r = Answer("Ok", WriteBalances(work, pool, user, in_amount, out))
         /\ pool \in AmmOwned
         /\ out \in U64 /\ in_amount <= work[user]
         /\ work[pool] + in_amount - out \in U64
         /\ work[user] - in_amount + out \in U64
  BY <1>1, <1>2, <1>4, SwapAnswer
<1>6. invoke_swap = Accept(AmmOwned, work, r, pool, user)
  BY DEF invoke_swap
<1>7. CASE r.err \in SwapErrors
  <2>1. r.err # "Ok" /\ r.err \in VenueErrors
    BY <1>7 DEF SwapErrors, VenueErrors
  <2> QED
    BY <1>2, <1>6, <1>7, <2>1 DEF Accept, Answer
<1>8. CASE r.err \notin SwapErrors
  <2> DEFINE bal == WriteBalances(work, pool, user, in_amount, out)
  <2>1. invoke_swap = Accept(AmmOwned, work, Answer("Ok", bal), pool, user)
    BY <1>5, <1>6, <1>8
  <2>2. \/ invoke_swap.err \in VenueErrors
        \/ /\ invoke_swap = Answer("Ok", bal)
           /\ ~SpendsForeign(AmmOwned, work, bal, {pool, user})
           /\ PairTotal(bal, pool, user) = PairTotal(work, pool, user)
    BY <2>1, AcceptAnswer
  <2>3. Answer("Ok", bal).bal = bal
    BY DEF Answer
  <2> QED
    BY <1>2, <1>5, <1>8, <2>2, <2>3
<1> QED
  BY <1>7, <1>8

\* A hop's swap through mock-amm is one of the moves of an arbitrary venue.
LEMMA SwapIsAVenueMove ==
  ASSUME RouteInv, InvokeSwap
  PROVE  InvokeAnyVenue
<1> DEFINE out == swap_out(in_amount, hop_rate)
           p == work[pool] + in_amount - out
           u == work[user] - in_amount + out
           moved == [[work EXCEPT ![pool] = p] EXCEPT ![user] = u]
<1>1. pc = "cpi"
  BY DEF InvokeSwap
<1>2. CASE invoke_swap.err \in VenueErrors
  <2>1. invoke_swap.err # "Ok"
    BY <1>2 DEF VenueErrors
  <2> QED
    BY <1>1, <1>2, <2>1 DEF InvokeSwap, InvokeAnyVenue
<1>3. CASE invoke_swap.err \notin VenueErrors
  <2>1. /\ invoke_swap = Answer("Ok", moved)
        /\ p \in U64 /\ u \in U64
    BY <1>1, <1>3, InvokeSwapAnswer DEF WriteBalances
  <2>2. invoke_swap.err = "Ok" /\ invoke_swap.bal = moved
    BY <2>1 DEF Answer
  <2>3. Accept(AmmOwned, work, Answer("Ok", moved), pool, user).err = "Ok"
    <3>1. ~SpendsForeign(AmmOwned, work, moved, {pool, user})
      BY <1>1, <1>3, <2>2, InvokeSwapAnswer
    <3>2. PairTotal(moved, pool, user) = PairTotal(work, pool, user)
      BY <1>1, <1>3, <2>2, InvokeSwapAnswer
    <3> QED
      BY <3>1, <3>2 DEF Accept, Answer
  <2>4. pc' = "measure" /\ work' = moved
        /\ UNCHANGED <<ledger, ix, hop, in_amount, before, result>>
    BY <2>2 DEF InvokeSwap
  <2> QED
    BY <1>1, <2>1, <2>3, <2>4 DEF InvokeAnyVenue
<1> QED
  BY <1>2, <1>3

(***************************************************************************)
(* The router with mock-amm as its venue.                                  *)
(***************************************************************************)

LEMMA NextIsAnyVenue ==
  ASSUME RouteInv, [Next]_vars
  PROVE  [NextAnyVenue]_vars
BY SwapIsAVenueMove DEF Next, RouterStep, NextAnyVenue

\* Types, control, forwarding and confinement, in every state.
THEOREM RouterInvariant == Spec => []RouteInv
<1>1. RouteInv /\ [Next]_vars => RouteInv'
  BY NextIsAnyVenue, NextAnyVenueInv
<1> QED
  BY <1>1, InitInv, PTL DEF Spec

\* The router's state is well typed: no balance or amount leaves u64.
THEOREM TypeCorrect == Spec => []TypeOK
BY RouterInvariant, PTL DEF RouteInv

\* The amount carried between hops is what was paid in plus what was gained.
THEOREM ForwardingCorrect == Spec => []AmountForwarded
BY RouterInvariant, PTL DEF RouteInv

\* The router with mock-amm is a router with some venue, so it keeps all that
\* such a router keeps.
LEMMA RouterIsAnyVenue == Spec => SpecAnyVenue
BY RouterInvariant, NextIsAnyVenue, PTL DEF Spec, SpecAnyVenue

\* A route that returns Ok has honoured min_out.
THEOREM MinOutCorrect == Spec => MinOutHonoured
BY RouterIsAnyVenue, AnyVenueMinOut, PTL

(***************************************************************************)
(* Foreign accounts and the venue's own checks.                            *)
(***************************************************************************)

\* What a running route has done to accounts mock-amm does not own: nothing,
\* except that such a user may have gained.
ForeignSpared ==
  pc # "idle" =>
    \A a \in Accounts \ AmmOwned :
      work[a] = ledger[a] \/ (a = user /\ work[a] > ledger[a])

\* A swap that goes through has an owned pool and does not debit a foreign user.
LEMMA SwapSparesForeign ==
  ASSUME RouteInv, ForeignSpared, InvokeSwap, pc' = "measure"
  PROVE  ForeignSpared'
<1> DEFINE out == swap_out(in_amount, hop_rate)
<1>1. pc = "cpi" /\ invoke_swap.err = "Ok"
  BY DEF InvokeSwap, Abort, Return
<1>2. /\ work' = invoke_swap.bal /\ UNCHANGED <<ledger, ix>>
  BY <1>1 DEF InvokeSwap
<1>3. invoke_swap.err \notin VenueErrors
  BY <1>1 DEF VenueErrors
<1>4. /\ user \in Accounts /\ pool \in Accounts /\ pool \in AmmOwned
      /\ invoke_swap = Answer("Ok", WriteBalances(work, pool, user, in_amount, out))
      /\ ~SpendsForeign(AmmOwned, work, invoke_swap.bal, {pool, user})
      /\ work[user] - in_amount + out \in U64
  BY <1>1, <1>3, InvokeSwapAnswer
<1>5. /\ work \in Ledgers /\ ledger \in Ledgers
  BY DEF RouteInv, TypeOK
<1>6. work' = WriteBalances(work, pool, user, in_amount, out)
  BY <1>2, <1>4 DEF Answer
<1> SUFFICES ASSUME NEW a \in Accounts \ AmmOwned
             PROVE  work'[a] = ledger[a] \/ (a = user /\ work'[a] > ledger[a])
  BY <1>2 DEF ForeignSpared, user
<1>7. work[a] = ledger[a] \/ (a = user /\ work[a] > ledger[a])
  BY <1>1 DEF ForeignSpared
<1>8. CASE a = user
  <2>1. work'[a] >= work[a]
    BY <1>2, <1>4, <1>5, <1>6, <1>8, MaxU64Assumption
       DEF SpendsForeign, WriteBalances, Ledgers
  <2>2. work'[a] \in U64 /\ work[a] \in U64 /\ ledger[a] \in U64
    BY <1>4, <1>5, <1>6, <1>8 DEF WriteBalances, Ledgers
  <2> QED
    BY <1>7, <1>8, <2>1, <2>2, MaxU64Assumption
<1>9. CASE a # user
  BY <1>4, <1>5, <1>6, <1>7, <1>9 DEF WriteBalances, Ledgers
<1> QED
  BY <1>8, <1>9

LEMMA ForeignSparedStep ==
  ASSUME RouteInv, ForeignSpared, [Next]_vars
  PROVE  ForeignSpared'
<1>1. ASSUME NEW err, Abort(err)
      PROVE  ForeignSpared'
  BY <1>1 DEF Abort, Return, ForeignSpared
<1>2. ASSUME NEW i \in Instructions, Submit(i)
      PROVE  ForeignSpared'
  BY <1>2 DEF Submit, ForeignSpared, RouteInv, Control
<1>3. CASE Enter
  BY <1>1, <1>3 DEF Enter, ForeignSpared, user
<1>4. CASE CheckHop
  BY <1>1, <1>4 DEF CheckHop, ForeignSpared, user
<1>5. CASE InvokeSwap
  BY <1>1, <1>5, SwapSparesForeign DEF InvokeSwap
<1>6. CASE Measure
  BY <1>1, <1>6 DEF Measure, ForeignSpared, user
<1>7. CASE Gate
  BY <1>1, <1>7 DEF Gate, Return, ForeignSpared
<1>8. CASE UNCHANGED vars
  BY <1>8 DEF vars, ForeignSpared, user
<1> QED
  BY <1>2, <1>3, <1>4, <1>5, <1>6, <1>7, <1>8 DEF Next, RouterStep

\* Only the gate commits.
LEMMA OnlyGateCommits ==
  ASSUME RouteInv, [Next]_vars, ledger' # ledger
  PROVE  ledger' = work /\ pc = "hop"
BY DEF Next, RouterStep, vars, Submit, Enter, CheckHop, InvokeSwap, Measure, Gate, Abort, Return

\* A route never takes a lamport from an account mock-amm does not own, and
\* never uses one as a pool.
THEOREM ForeignFundsCorrect == Spec => ForeignFundsSafe
<1>1. Init => ForeignSpared
  BY DEF Init, ForeignSpared
<1>2. RouteInv /\ ForeignSpared /\ [Next]_vars =>
        [\A a \in Accounts \ AmmOwned :
           ledger'[a] = ledger[a] \/ (a = user /\ ledger'[a] > ledger[a])]_vars
  BY OnlyGateCommits DEF ForeignSpared
<1> QED
  BY <1>1, <1>2, ForeignSparedStep, RouterInvariant, PTL DEF Spec, ForeignFundsSafe

\* Between two distinct accounts a swap moves lamports and makes none.
LEMMA SwapConserves ==
  ASSUME NEW bal \in Ledgers, NEW a \in Accounts, NEW b \in Accounts, a # b,
         NEW amount \in U64, NEW out \in U64
  PROVE  PairTotal(WriteBalances(bal, a, b, amount, out), a, b) = PairTotal(bal, a, b)
<1>1. bal[a] \in Int /\ bal[b] \in Int /\ amount \in Int /\ out \in Int
  BY MaxU64Assumption DEF Ledgers
<1> QED
  BY <1>1 DEF WriteBalances, PairTotal, Ledgers

\* The runtime's two errors need an aliased pool or a foreign user.
LEMMA OwnedSwapAccepted ==
  ASSUME RouteInv, pc = "cpi"
  PROVE  /\ invoke_swap.err = "UnbalancedInstruction" => pool = user
         /\ invoke_swap.err = "ExternalAccountLamportSpend" => user \notin AmmOwned
<1> DEFINE out == swap_out(in_amount, hop_rate)
           r == process_instruction_amm(work, <<pool, user>>, {pool, user},
                                        encode_swap_data(hop_rate, in_amount))
           bal == WriteBalances(work, pool, user, in_amount, out)
<1>1. invoke_swap = Accept(AmmOwned, work, r, pool, user)
  BY DEF invoke_swap
<1>2. user \in Accounts /\ pool \in Accounts
  BY InvokeSwapAnswer
<1>3. ix \in InstructionType /\ work \in Ledgers /\ in_amount \in U64
  BY DEF RouteInv, TypeOK, Control
<1>4. hop_rate \in Rates
  <2>1. hop + 1 \in 1 .. Len(ix.data.rates)
    BY <1>3, HopAccounts DEF RouteInv, TypeOK
  <2> QED
    BY <1>3, <2>1 DEF hop_rate, InstructionType, RouteData
<1>5. \/ r.err \in SwapErrors /\ r.bal = work
      \/ r = Answer("Ok", bal) /\ pool \in AmmOwned /\ out \in U64
  BY <1>2, <1>3, <1>4, SwapAnswer
<1>6. CASE r.err \in SwapErrors
  BY <1>1, <1>6 DEF Accept, Answer, SwapErrors, VenueErrors
<1>7. CASE r.err \notin SwapErrors
  <2>1. invoke_swap = Accept(AmmOwned, work, Answer("Ok", bal), pool, user)
        /\ pool \in AmmOwned /\ out \in U64
    BY <1>1, <1>5, <1>7
  <2>2. invoke_swap.err = "UnbalancedInstruction" =>
          PairTotal(bal, pool, user) # PairTotal(work, pool, user)
    BY <2>1 DEF Accept, Answer
  <2>3. invoke_swap.err = "ExternalAccountLamportSpend" =>
          SpendsForeign(AmmOwned, work, bal, {pool, user})
    BY <2>1 DEF Accept, Answer
  <2>4. SpendsForeign(AmmOwned, work, bal, {pool, user}) => user \notin AmmOwned
    BY <2>1 DEF SpendsForeign
  <2>5. pool # user => PairTotal(bal, pool, user) = PairTotal(work, pool, user)
    BY <1>2, <1>3, <2>1, SwapConserves
  <2> QED
    BY <2>2, <2>3, <2>4, <2>5
<1> QED
  BY <1>6, <1>7

\* mock-amm's own checks leave the runtime nothing to refuse, but for a pool
\* that is the user and a user that is not mock-amm's.
THEOREM SwapChecksSuffice == Spec => []RefusedOnlyWhenAliased
<1>1. RouteInv => RefusedOnlyWhenAliased
  BY OwnedSwapAccepted DEF RefusedOnlyWhenAliased
<1> QED
  BY <1>1, RouterInvariant, PTL

(***************************************************************************)
(* The refinement of the atomic route: at every point of a route the       *)
(* router is where the atomic route is after as many hops.                 *)
(***************************************************************************)

\* One hop more.
LEMMA AfterNext ==
  ASSUME NEW l, NEW i, NEW h \in 0 .. 2
  PROVE  Atomic!After(l, i, h + 1) = Atomic!OneHop(i, Atomic!After(l, i, h), h)
<1>1. h = 0 \/ h = 1 \/ h = 2
  OBVIOUS
<1> QED
  BY <1>1 DEF Atomic!After, Atomic!AfterOne, Atomic!AfterTwo

\* A route that has failed at a hop answers with that hop's error.
LEMMA FailedHopAnswers ==
  ASSUME NEW l, NEW i, i.data.hop_count \in 1 .. 3,
         NEW h \in 0 .. i.data.hop_count - 1,
         Atomic!After(l, i, h + 1).err # "Ok"
  PROVE  Atomic!HopsAnswer(l, i) = Atomic!After(l, i, h + 1).err
<1> DEFINE n == i.data.hop_count
<1>1. \A k \in 0 .. 2 :
        Atomic!After(l, i, k).err # "Ok" => Atomic!After(l, i, k + 1) = Atomic!After(l, i, k)
  BY AfterNext DEF Atomic!OneHop
<1>2. Atomic!After(l, i, n).err = Atomic!After(l, i, h + 1).err
  <2>1. CASE h + 1 = n
    BY <2>1
  <2>2. CASE h + 2 = n
    BY <1>1, <2>2
  <2>3. CASE h + 3 = n
    <3>1. h = 0 /\ n = 3
      BY <2>3
    <3>2. Atomic!After(l, i, 2) = Atomic!After(l, i, 1) /\ Atomic!After(l, i, 3) = Atomic!After(l, i, 2)
      BY <1>1, <3>1
    <3> QED
      BY <3>1, <3>2
  <2> QED
    BY <2>1, <2>2, <2>3
<1> QED
  BY <1>2 DEF Atomic!HopsAnswer

\* What a hop comes to, from how it went.
LEMMA HopOutcome ==
  ASSUME NEW l, NEW i, NEW h \in 0 .. 2, NEW s, s = Atomic!After(l, i, h), s.err = "Ok"
  PROVE  LET checks == Atomic!HopChecks(i, h)
             swapped == Atomic!HopCpi(i, s, h)
             next == Atomic!After(l, i, h + 1)
             u == Atomic!RouteUser(i)
         IN /\ checks # "Ok" => next.err = checks
            /\ checks = "Ok" /\ swapped.err # "Ok" => next.err = swapped.err
            /\ checks = "Ok" /\ swapped.err = "Ok" =>
                 IF Atomic!HopOverflows(i, s, swapped.bal)
                   THEN next.err = "ArithmeticOverflow"
                   ELSE next = Atomic!Stand("Ok", swapped.bal, swapped.bal[u] + s.amount - s.bal[u])
BY AfterNext DEF Atomic!OneHop, Atomic!Stand

\* A short list keeps the last hop from succeeding.
LEMMA ShortListFails ==
  ASSUME NEW l, NEW i, i.data.hop_count \in 1 .. 3, Len(i.accounts) \in Nat, ~Atomic!Enough(i)
  PROVE  Atomic!HopsAnswer(l, i) # "Ok"
<1> DEFINE n == i.data.hop_count
           s == Atomic!After(l, i, n - 1)
<1>1. n - 1 \in 0 .. 2 /\ (n - 1) + 1 = n
  OBVIOUS
<1>2. Atomic!HopChecks(i, n - 1) = "NotEnoughAccountKeys"
  BY DEF Atomic!HopChecks, Atomic!Enough
<1>3. Atomic!After(l, i, n) = Atomic!OneHop(i, s, n - 1)
  BY <1>1, AfterNext
<1>4. Atomic!After(l, i, n).err # "Ok"
  BY <1>2, <1>3 DEF Atomic!OneHop, Atomic!Stand
<1> QED
  BY <1>4 DEF Atomic!HopsAnswer

\* The atomic route's hop asks the same of the same venue.
LEMMA SameVenue ==
  ASSUME NEW i, NEW s, NEW h
  PROVE  Atomic!HopCpi(i, s, h) =
           LET a == Atomic!RoutePool(i, h)
               b == Atomic!RouteUser(i)
           IN Accept(AmmOwned, s.bal,
                     process_instruction_amm(s.bal, <<a, b>>, {a, b},
                                             encode_swap_data(i.data.rates[h + 1], s.amount)),
                     a, b)
<1>1. ASSUME NEW bal, NEW a, NEW b, NEW rate, NEW amount
      PROVE  Atomic!Accept(AmmOwned, bal,
               Atomic!process_instruction_amm(bal, <<a, b>>, {a, b},
                                              Atomic!encode_swap_data(rate, amount)), a, b)
             = Accept(AmmOwned, bal,
               process_instruction_amm(bal, <<a, b>>, {a, b}, encode_swap_data(rate, amount)), a, b)
  BY DEF Atomic!Accept, Accept, Atomic!SpendsForeign, SpendsForeign,
         Atomic!PairTotal, PairTotal, Atomic!Answer, Answer,
         Atomic!encode_swap_data, encode_swap_data, Atomic!SWAP_DATA_LEN, SWAP_DATA_LEN,
         Atomic!SWAP_DISCRIMINATOR, SWAP_DISCRIMINATOR,
         Atomic!process_instruction_amm, process_instruction_amm,
         Atomic!parse_swap_rejects, parse_swap_rejects, Atomic!process_swap, process_swap,
         Atomic!swap_out, swap_out, Atomic!account_error, account_error,
         Atomic!balance_error, balance_error, Atomic!WriteBalances, WriteBalances
<1> QED
  BY <1>1 DEF Atomic!HopCpi

LEMMA RouterCpi ==
  ASSUME NEW s, work = s.bal, in_amount = s.amount
  PROVE  invoke_swap = Atomic!HopCpi(ix, s, hop)
BY SameVenue DEF invoke_swap, pool, user, hop_rate, Atomic!RoutePool, Atomic!RouteUser

\* A router inside its loop is where the reference is after so many hops: at
\* the head of the loop ("hop", "next"), with the hop's accounts in hand
\* ("check"), before its CPI or after it.
InHop(at, l, i, h, w, amount, bef) ==
  LET s == Atomic!After(l, i, h) IN
  /\ Atomic!WellFormed(i.data) /\ Len(i.accounts) >= 1 /\ Atomic!RouteUser(i) \in i.writable
  /\ h \in 0 .. i.data.hop_count
  /\ s.err = "Ok" /\ amount = s.amount
  /\ at # "measure" => w = s.bal
  /\ at \notin {"hop", "next"} => h < i.data.hop_count /\ Len(i.accounts) >= 3 + 2 * h
  /\ at \in {"cpi", "measure"} => Atomic!HopChecks(i, h) = "Ok" /\ bef = s.bal[Atomic!RouteUser(i)]
  /\ at = "measure" => Atomic!HopCpi(i, s, h).err = "Ok" /\ w = Atomic!HopCpi(i, s, h).bal

RouterInHop ==
  pc \in {"hop", "cpi", "measure"} =>
    InHop(pc, ledger, ix, hop, work, in_amount, before)

\* What the router answers: its checks of data, accounts and user in the order
\* it makes them, then what the hops and the gate say.
RouterAnswer(l, i) ==
  IF ~Atomic!WellFormed(i.data) THEN "InvalidInstructionData"
  ELSE IF ~Atomic!Enough(i) THEN "NotEnoughAccountKeys"
  ELSE IF Atomic!RouteUser(i) \notin i.writable THEN "InvalidAccountData"
  ELSE Atomic!HopsAnswer(l, i)

\* The balances a route leaves that has answered so.
Left(l, i, answer) == IF answer = "Ok" THEN Atomic!After(l, i, i.data.hop_count).bal ELSE l

\* Where a step of a running router leads: on, with nothing to be seen of it, or
\* to that answer and those balances.
RouterTells ==
  IF pc' = "idle"
    THEN /\ result' = RouterAnswer(ledger, ix)
         /\ ledger' = Left(ledger, ix, result') /\ ix' = NoIx
    ELSE UNCHANGED <<ledger, ix, result>>

\* A router inside an instruction.
RouteRuns == RouteInv /\ RouterInHop /\ pc # "idle" /\ ix \in InstructionType

LEMMA RouterGoesOn ==
  ASSUME UNCHANGED <<ledger, ix, result>>, pc' # "idle", RouterInHop'
  PROVE  RouterInHop' /\ RouterTells
BY DEF RouterTells

LEMMA RouterReturns ==
  ASSUME NEW answer, Return(answer), answer = RouterAnswer(ledger, ix),
         ledger' = Left(ledger, ix, answer)
  PROVE  RouterInHop' /\ RouterTells
BY DEF Return, RouterInHop, RouterTells

LEMMA RouterFails ==
  ASSUME NEW e, Abort(e), e # "Ok", e = RouterAnswer(ledger, ix)
  PROVE  RouterInHop' /\ RouterTells
BY RouterReturns DEF Abort, Left

\* Inside its loop the instruction has passed the checks at the entry.
LEMMA RouterInLoop ==
  ASSUME RouteRuns, pc \in {"hop", "cpi", "measure"}
  PROVE  /\ InHop(pc, ledger, ix, hop, work, in_amount, before)
         /\ ix.data.hop_count \in 1 .. 3 /\ hop \in 0 .. ix.data.hop_count
         /\ RouterAnswer(ledger, ix) = Atomic!HopsAnswer(ledger, ix)
         /\ Len(ix.accounts) \in Nat /\ Len(ix.accounts) >= 1 + 2 * ix.data.hop_count
         /\ pc # "hop" => hop < ix.data.hop_count
<1>1. InHop(pc, ledger, ix, hop, work, in_amount, before)
  BY DEF RouteRuns, RouterInHop
<1>2. ix.data.hop_count \in 1 .. 3 /\ Len(ix.accounts) >= 1 + 2 * ix.data.hop_count
      /\ (pc # "hop" => hop < ix.data.hop_count)
  BY DEF RouteRuns, RouteInv, TypeOK, MAX_HOPS
<1>3. hop \in 0 .. ix.data.hop_count
  BY <1>1 DEF InHop
<1>4. Len(ix.accounts) \in Nat
  BY DEF RouteRuns, InstructionType
<1> QED
  BY <1>1, <1>2, <1>3, <1>4 DEF RouterAnswer, InHop, Atomic!Enough

(***************************************************************************)
(* One lemma per action.                                                   *)
(***************************************************************************)

LEMMA EnterTells ==
  ASSUME RouteRuns, Enter
  PROVE  RouterInHop' /\ RouterTells
<1>1. pc = "entry"
  BY DEF Enter
<1>2. ix.data.hop_count \in Nat /\ Len(ix.accounts) \in Nat
  BY DEF RouteRuns, InstructionType, RouteData
<1>3. Atomic!WellFormed(ix.data) <=>
        ~(ix.data.disc # EXECUTE_ROUTE_DISCRIMINATOR \/ parse_route_rejects(ix.data))
  BY <1>2 DEF Atomic!WellFormed, EXECUTE_ROUTE_DISCRIMINATOR, parse_route_rejects, MAX_HOPS
<1>6. entry_error # "Ok" => entry_error = RouterAnswer(ledger, ix)
  BY <1>2, <1>3 DEF entry_error, RouterAnswer, Atomic!Enough, Atomic!RouteUser, user
<1>4. CASE entry_error # "Ok"
  BY <1>4, <1>6, RouterFails DEF Enter
<1>5. CASE entry_error = "Ok"
  <2>1. /\ Atomic!WellFormed(ix.data) /\ Len(ix.accounts) >= 1 /\ Atomic!RouteUser(ix) \in ix.writable
        /\ ix.data.hop_count \in 1 .. 3
    BY <1>2, <1>3, <1>5 DEF entry_error, Atomic!WellFormed, Atomic!RouteUser, user
  <2>2. /\ pc' = "hop" /\ in_amount' = ix.data.initial_amount
        /\ UNCHANGED <<ledger, work, ix, hop, before, result>>
    BY <1>5 DEF Enter
  <2>3. hop = 0 /\ work = ledger
    BY <1>1 DEF RouteRuns, RouteInv, Control
  <2>4. Atomic!After(ledger, ix, 0) = Atomic!Stand("Ok", ledger, ix.data.initial_amount)
    BY DEF Atomic!After, Atomic!Start
  <2>5. RouterInHop'
    BY <2>1, <2>2, <2>3, <2>4 DEF RouterInHop, InHop, Atomic!Stand
  <2> QED
    BY <2>2, <2>5, RouterGoesOn
<1> QED
  BY <1>4, <1>5

LEMMA CheckHopTells ==
  ASSUME RouteRuns, CheckHop
  PROVE  RouterInHop' /\ RouterTells
<1>1. pc = "hop" /\ hop < ix.data.hop_count
  BY DEF CheckHop
<1>2. /\ InHop("hop", ledger, ix, hop, work, in_amount, before)
      /\ ix.data.hop_count \in 1 .. 3 /\ hop \in 0 .. ix.data.hop_count - 1
      /\ RouterAnswer(ledger, ix) = Atomic!HopsAnswer(ledger, ix)
      /\ Len(ix.accounts) \in Nat /\ Len(ix.accounts) >= 3 + 2 * hop
  BY <1>1, RouterInLoop
<1> DEFINE s == Atomic!After(ledger, ix, hop)
<1>3. s.err = "Ok" /\ work = s.bal /\ in_amount = s.amount
  BY <1>2 DEF InHop
<1>4. Atomic!HopChecks(ix, hop) = hop_error
  BY <1>2 DEF Atomic!HopChecks, hop_error, amm_program, pool, Atomic!RoutePool
<1>5. CASE hop_error # "Ok"
  <2>1. Abort(hop_error)
    BY <1>5 DEF CheckHop
  <2>2. hop \in 0 .. 2
    BY <1>2
  <2>3. Atomic!After(ledger, ix, hop + 1).err = hop_error
    BY <1>3, <1>4, <1>5, <2>2, HopOutcome
  <2>4. Atomic!HopsAnswer(ledger, ix) = hop_error
    BY <1>2, <1>5, <2>3, FailedHopAnswers
  <2> QED
    BY <1>2, <1>5, <2>1, <2>4, RouterFails
<1>6. CASE hop_error = "Ok"
  <2>1. /\ pc' = "cpi" /\ before' = work[Atomic!RouteUser(ix)]
        /\ UNCHANGED <<ledger, work, ix, hop, in_amount, result>>
    BY <1>6 DEF CheckHop, user, Atomic!RouteUser
  <2>2. RouterInHop'
    BY <1>1, <1>2, <1>3, <1>4, <1>6, <2>1 DEF RouterInHop, InHop
  <2> QED
    BY <2>1, <2>2, RouterGoesOn
<1> QED
  BY <1>5, <1>6

LEMMA InvokeSwapTells ==
  ASSUME RouteRuns, InvokeSwap
  PROVE  RouterInHop' /\ RouterTells
<1>1. pc = "cpi"
  BY DEF InvokeSwap
<1>2. /\ InHop("cpi", ledger, ix, hop, work, in_amount, before)
      /\ ix.data.hop_count \in 1 .. 3 /\ hop \in 0 .. ix.data.hop_count - 1
      /\ RouterAnswer(ledger, ix) = Atomic!HopsAnswer(ledger, ix)
  BY <1>1, RouterInLoop
<1> DEFINE s == Atomic!After(ledger, ix, hop)
<1>3. s.err = "Ok" /\ work = s.bal /\ in_amount = s.amount /\ Atomic!HopChecks(ix, hop) = "Ok"
  BY <1>2 DEF InHop
<1>4. invoke_swap = Atomic!HopCpi(ix, s, hop)
  BY <1>3, RouterCpi
<1>5. CASE invoke_swap.err # "Ok"
  <2>1. Abort(invoke_swap.err)
    BY <1>5 DEF InvokeSwap
  <2>2. hop \in 0 .. 2
    BY <1>2
  <2>3. Atomic!After(ledger, ix, hop + 1).err = invoke_swap.err
    BY <1>3, <1>4, <1>5, <2>2, HopOutcome
  <2>4. Atomic!HopsAnswer(ledger, ix) = invoke_swap.err
    BY <1>2, <1>5, <2>3, FailedHopAnswers
  <2> QED
    BY <1>2, <1>5, <2>1, <2>4, RouterFails
<1>6. CASE invoke_swap.err = "Ok"
  <2>1. /\ pc' = "measure" /\ work' = Atomic!HopCpi(ix, s, hop).bal
        /\ UNCHANGED <<ledger, ix, hop, in_amount, before, result>>
    BY <1>4, <1>6 DEF InvokeSwap
  <2>2. RouterInHop'
    BY <1>1, <1>2, <1>3, <1>4, <1>6, <2>1 DEF RouterInHop, InHop
  <2> QED
    BY <2>1, <2>2, RouterGoesOn
<1> QED
  BY <1>5, <1>6

LEMMA MeasureTells ==
  ASSUME RouteRuns, Measure
  PROVE  RouterInHop' /\ RouterTells
<1>1. pc = "measure"
  BY DEF Measure
<1>2. /\ InHop("measure", ledger, ix, hop, work, in_amount, before)
      /\ ix.data.hop_count \in 1 .. 3 /\ hop \in 0 .. ix.data.hop_count - 1
      /\ RouterAnswer(ledger, ix) = Atomic!HopsAnswer(ledger, ix)
  BY <1>1, RouterInLoop
<1> DEFINE s == Atomic!After(ledger, ix, hop)
<1>3. /\ s.err = "Ok" /\ work = Atomic!HopCpi(ix, s, hop).bal /\ in_amount = s.amount
      /\ Atomic!HopChecks(ix, hop) = "Ok" /\ Atomic!HopCpi(ix, s, hop).err = "Ok"
      /\ before = s.bal[Atomic!RouteUser(ix)]
  BY <1>2 DEF InHop
<1>4. measure_overflows <=> Atomic!HopOverflows(ix, s, work)
  BY <1>3 DEF measure_overflows, Atomic!HopOverflows, user, Atomic!RouteUser
<1>5. hop \in 0 .. 2
  BY <1>2
<1>6. CASE measure_overflows
  <2>1. Abort("ArithmeticOverflow")
    BY <1>6 DEF Measure
  <2>2. Atomic!After(ledger, ix, hop + 1).err = "ArithmeticOverflow"
    BY <1>3, <1>4, <1>5, <1>6, HopOutcome
  <2>3. Atomic!HopsAnswer(ledger, ix) = "ArithmeticOverflow"
    BY <1>2, <2>2, FailedHopAnswers
  <2> QED
    BY <1>2, <2>1, <2>3, RouterFails
<1>7. CASE ~measure_overflows
  <2>1. /\ pc' = "hop" /\ hop' = hop + 1
        /\ in_amount' = work[Atomic!RouteUser(ix)] + s.amount - s.bal[Atomic!RouteUser(ix)]
        /\ UNCHANGED <<ledger, work, ix, before, result>>
    BY <1>3, <1>7 DEF Measure, user, Atomic!RouteUser
  <2>2. Atomic!After(ledger, ix, hop + 1) = Atomic!Stand("Ok", work, in_amount')
    BY <1>3, <1>4, <1>5, <1>7, <2>1, HopOutcome
  <2>3. RouterInHop'
    BY <1>2, <2>1, <2>2 DEF RouterInHop, InHop, Atomic!Stand
  <2> QED
    BY <2>1, <2>3, RouterGoesOn
<1> QED
  BY <1>6, <1>7

LEMMA GateTells ==
  ASSUME RouteRuns, Gate
  PROVE  RouterInHop' /\ RouterTells
<1>1. pc = "hop" /\ hop = ix.data.hop_count
  BY DEF Gate
<1>2. /\ InHop("hop", ledger, ix, hop, work, in_amount, before)
      /\ ix.data.hop_count \in 1 .. 3
      /\ RouterAnswer(ledger, ix) = Atomic!HopsAnswer(ledger, ix)
  BY <1>1, RouterInLoop
<1> DEFINE s == Atomic!After(ledger, ix, ix.data.hop_count)
<1>3. s.err = "Ok" /\ work = s.bal /\ in_amount = s.amount
  BY <1>1, <1>2 DEF InHop
<1>4. CASE in_amount < ix.data.min_out
  <2>1. Abort("Custom(1)")
    BY <1>4 DEF Gate
  <2>2. Atomic!HopsAnswer(ledger, ix) = "Custom(1)"
    BY <1>3, <1>4 DEF Atomic!HopsAnswer
  <2> QED
    BY <1>2, <2>1, <2>2, RouterFails
<1>5. CASE ~(in_amount < ix.data.min_out)
  <2>1. Atomic!HopsAnswer(ledger, ix) = "Ok"
    BY <1>3, <1>5 DEF Atomic!HopsAnswer
  <2>2. Return("Ok") /\ ledger' = work
    BY <1>5 DEF Gate
  <2>3. ledger' = Left(ledger, ix, "Ok")
    BY <1>3, <2>2 DEF Left
  <2> QED
    BY <1>2, <2>1, <2>2, <2>3, RouterReturns
<1> QED
  BY <1>4, <1>5

\* Every step keeps the router in line with the atomic route.
LEMMA RouterStepTells ==
  ASSUME RouteInv, RouterInHop, RouterStep
  PROVE  RouterInHop' /\ RouterTells /\ RouteRuns
<1>1. pc # "idle"
  BY DEF RouterStep, Enter, CheckHop, InvokeSwap, Measure, Gate
<1>2. RouteRuns
  BY <1>1, RouterAssumption DEF RouteRuns, RouteInv, TypeOK, Control
<1> QED
  BY <1>2, EnterTells, CheckHopTells, InvokeSwapTells, MeasureTells, GateTells DEF RouterStep

LEMMA InHopStep ==
  ASSUME RouteInv, RouterInHop, [Next]_vars
  PROVE  RouterInHop'
<1>1. CASE \E i \in Instructions : Submit(i)
  BY <1>1 DEF Submit, RouterInHop
<1>2. CASE UNCHANGED vars
  BY <1>2 DEF vars, RouterInHop
<1> QED
  BY <1>1, <1>2, RouterStepTells DEF Next

\* A returning route is the atomic route's Settle or its Reject.
LEMMA ReturnRefines ==
  ASSUME RouteRuns, RouterTells, RouteInv', pc' = "idle"
  PROVE  Atomic!Settle \/ Atomic!Reject
<1>1. /\ ix # NoIx /\ ix' = NoIx /\ result' # "Pending"
      /\ result' = RouterAnswer(ledger, ix) /\ ledger' = Left(ledger, ix, result')
  BY DEF RouteRuns, RouterTells, RouteInv, Control
<1>2. CASE result' = "Ok"
  BY <1>1, <1>2
     DEF RouterAnswer, Left, Atomic!Admitted, Atomic!RouteUser, Atomic!Settle
<1>3. CASE result' # "Ok"
  BY <1>1, <1>3
     DEF RouterAnswer, Left, Atomic!Admitted, Atomic!RouteUser, Atomic!Reject
<1> QED
  BY <1>2, <1>3

\* Every step of the router is a step of the atomic route or invisible to it.
LEMMA StepRefines ==
  ASSUME RouteInv, RouterInHop, [Next]_vars
  PROVE  [Atomic!Next]_(Atomic!vars)
<1>1. ASSUME NEW i \in Instructions, Submit(i)
      PROVE  Atomic!Submit
  BY <1>1, RouterAssumption DEF Submit, RouteInv, Control, Atomic!Submit
<1>2. CASE RouterStep
  <2>1. RouterTells /\ RouteRuns /\ RouteInv'
    BY <1>2, RouterStepTells, NextIsAnyVenue, NextAnyVenueInv
  <2>2. CASE pc' = "idle"
    BY <2>1, <2>2, ReturnRefines DEF Atomic!Next
  <2>3. CASE pc' # "idle"
    BY <2>1, <2>3 DEF RouterTells, Atomic!vars
  <2> QED
    BY <2>2, <2>3
<1>3. CASE UNCHANGED vars
  BY <1>3 DEF vars, Atomic!vars
<1> QED
  BY <1>1, <1>2, <1>3 DEF Next, Atomic!Next

\* The router implements the atomic route: an Ok means that all hops ran in
\* order, each on what the one before yielded, and left the balances where they
\* are; and an admitted route fails only as one of its hops, or the gate, does.
THEOREM Refinement == Spec => ImplementsAtomicRoute
<1>1. Init => Atomic!Init /\ RouterInHop
  BY DEF Init, Atomic!Init, RouterInHop
<1>2. RouteInv /\ RouterInHop /\ [Next]_vars => RouterInHop' /\ [Atomic!Next]_(Atomic!vars)
  BY InHopStep, StepRefines
<1> QED
  BY <1>1, <1>2, RouterInvariant, PTL DEF Spec, ImplementsAtomicRoute, Atomic!Spec
=============================================================================
