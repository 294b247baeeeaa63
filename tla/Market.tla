-------------------------------- MODULE Market --------------------------------
(***************************************************************************)
(* mock-amm as everybody sees it: routes of the Pinocchio router trade     *)
(* with it, and between them anybody may invoke it directly, with any data *)
(* and any account list.  A direct swap is one step, since the runtime     *)
(* shows nobody what is between its beginning and its end.                 *)
(***************************************************************************)
EXTENDS RouteOracle

CONSTANT Swaps    \* the SWAP instructions that may be submitted

\* A SWAP instruction: its data, its accounts in order, the writable ones.
SwapType == [data : [len : Nat, disc : Nat, rate : Rates, amount : U64],
             accounts : Seq(Accounts), writable : SUBSET Accounts]

ASSUME MarketAssumption == Swaps \subseteq SwapType

\* The handler names two accounts, or fails before it looks at any.
Swap(s) ==
  LET answer == process_instruction_amm(ledger, s.accounts, s.writable, s.data)
      seen == IF answer.err # "Ok" THEN answer
              ELSE Accept(AmmOwned, ledger, answer, s.accounts[1], s.accounts[2])
  IN /\ pc = "idle"
     /\ ledger' = seen.bal /\ work' = seen.bal
     /\ result' = seen.err
     /\ UNCHANGED <<ix, pc, hop, in_amount, before>>

MarketNext == Next \/ \E s \in Swaps : Swap(s)

\* As in the router's Spec, only what has been started goes on.
MarketSpec == Init /\ [][MarketNext]_vars /\ WF_vars(RouterStep)

\* out is the floor of amount * num / den, said without a division.
IsPayout(out, d) ==
  /\ out * d.rate.den <= d.amount * d.rate.num
  /\ d.amount * d.rate.num < (out + 1) * d.rate.den

\* A direct swap settles exactly or not at all: an Ok means that the user has paid
\* amount and got the rounded-down payout, the pool the opposite, and no other
\* account is involved; an account that is both gets as much as it pays.  A swap
\* that fails leaves every balance alone.
SettlesExactly ==
  [][pc = "idle" /\ pc' = "idle" =>
       \/ ledger' = ledger /\ result' # "Ok"
       \/ \E s \in {t \in Swaps : Len(t.accounts) > 1 /\ t.data.rate.den # 0}, out \in U64 :
            LET pool_ == s.accounts[1]
                user_ == s.accounts[2]
            IN /\ ledger' = IF pool_ = user_ THEN ledger
                            ELSE [ledger EXCEPT ![pool_] = @ + s.data.amount - out,
                                                ![user_] = @ - s.data.amount + out]
               /\ pool_ = user_ => out = s.data.amount
               /\ IsPayout(out, s.data)
               /\ Swap(s) /\ result' = "Ok"]_vars
=============================================================================
