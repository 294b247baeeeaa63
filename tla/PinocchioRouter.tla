--------------------------- MODULE PinocchioRouter ---------------------------
(***************************************************************************)
(* The EXECUTE_ROUTE instruction of pinocchio-router/src/lib.rs, one       *)
(* action per stretch of code between two points where it can stop: parse  *)
(* and account checks, the checks before a hop's CPI, the CPI into         *)
(* mock-amm, the measurement after it, and the min_out gate.               *)
(*                                                                         *)
(* "ledger" holds the balances the runtime has committed, "work" those the *)
(* running instruction sees.  The runtime runs one instruction at a time.  *)
(***************************************************************************)
EXTENDS MockAmm

CONSTANTS AmmId,         \* MOCK_AMM_PROGRAM_ID, baked into the router
          InitialLedgers,\* the balances a history may start from
          Instructions,  \* the instructions that may be submitted
          NoIx           \* "no instruction is running"

MAX_HOPS == 3
EXECUTE_ROUTE_DISCRIMINATOR == 1

(***************************************************************************)
(* Instruction data.  "header" is whether the 17 bytes after the           *)
(* discriminator are all there; "rates" are the whole 8-byte blocks after  *)
(* them and "ragged" is whether bytes are left over after the last block.  *)
(***************************************************************************)
RouteData == [disc : Nat, header : BOOLEAN, min_out : U64, hop_count : Nat,
              initial_amount : U64, rates : Seq(Rates), ragged : BOOLEAN]

\* accounts[1] is the user, then a program and a pool for each hop.
\* A key named twice is one account, so writability goes by key.
InstructionType == [data : RouteData, accounts : Seq(Accounts), writable : SUBSET Accounts]

ASSUME RouterAssumption ==
  /\ AmmId \in Accounts
  /\ InitialLedgers \subseteq Ledgers
  /\ Instructions \subseteq InstructionType
  /\ NoIx \notin Instructions

parse_route_rejects(d) ==
  \/ ~d.header
  \/ d.hop_count = 0
  \/ d.hop_count > MAX_HOPS
  \/ Len(d.rates) # d.hop_count
  \/ d.ragged

VARIABLES
  ledger,      \* committed balances
  work,        \* balances as the running instruction sees them
  ix,          \* the running instruction, NoIx between instructions
  pc,          \* where the router is
  hop,         \* index of the current hop, from 0
  in_amount,   \* amount fed into the current hop
  before,      \* the user's lamports read just before the CPI
  result       \* what the last instruction returned, "Pending" while it runs

vars == <<ledger, work, ix, pc, hop, in_amount, before, result>>

user == ix.accounts[1]
amm_program == ix.accounts[2 + 2 * hop]
pool_first == ix.accounts[3]
pool == ix.accounts[3 + 2 * hop]

Init ==
  /\ ledger \in InitialLedgers
  /\ work = ledger
  /\ ix = NoIx
  /\ pc = "idle"
  /\ hop = 0 /\ in_amount = 0 /\ before = 0
  /\ result = "Ok"

\* The runtime hands the router an instruction.
Submit(i) ==
  /\ pc = "idle"
  /\ ix' = i /\ pc' = "entry" /\ result' = "Pending"
  /\ UNCHANGED <<ledger, work, hop, in_amount, before>>

\* The instruction ends: its answer is out and its locals are gone.
Return(answer) ==
  /\ result' = answer
  /\ ix' = NoIx /\ pc' = "idle"
  /\ hop' = 0 /\ in_amount' = 0 /\ before' = 0

\* An error: the runtime drops every balance the instruction has moved.
Abort(err) ==
  /\ Return(err)
  /\ work' = ledger
  /\ UNCHANGED ledger

\* Instruction data, number of accounts, user writable, in this order.
entry_error ==
  IF ix.data.disc # EXECUTE_ROUTE_DISCRIMINATOR \/ parse_route_rejects(ix.data)
    THEN "InvalidInstructionData"
  ELSE IF Len(ix.accounts) < 1 + 2 * ix.data.hop_count THEN "NotEnoughAccountKeys"
  ELSE IF user \notin ix.writable THEN "InvalidAccountData"
  ELSE "Ok"

Enter_past_the_first_hop ==
  /\ pc = "entry"
  /\ IF entry_error # "Ok" THEN Abort(entry_error)
     ELSE /\ pc' = "hop" /\ hop' = 1
          /\ in_amount' = ix.data.initial_amount
          /\ UNCHANGED <<ledger, work, ix, before, result>>
Enter ==
  /\ pc = "entry"
  /\ IF entry_error # "Ok" THEN Abort(entry_error)
     ELSE /\ pc' = "hop"
          /\ in_amount' = ix.data.initial_amount
          /\ UNCHANGED <<ledger, work, ix, hop, before, result>>

hop_error ==
  IF amm_program # AmmId THEN "IncorrectProgramId"
  ELSE IF pool \notin ix.writable THEN "InvalidAccountData"
  ELSE "Ok"

\* The head of the loop body: check the hop's accounts, read the user's lamports.
CheckHop_stale_before ==
  /\ pc = "hop" /\ hop < ix.data.hop_count
  /\ IF hop_error # "Ok" THEN Abort(hop_error)
     ELSE /\ pc' = "cpi"
          /\ before' = ledger[user]
          /\ UNCHANGED <<ledger, work, ix, hop, in_amount, result>>
CheckHop ==
  /\ pc = "hop" /\ hop < ix.data.hop_count
  /\ IF hop_error # "Ok" THEN Abort(hop_error)
     ELSE /\ pc' = "cpi"
          /\ before' = work[user]
          /\ UNCHANGED <<ledger, work, ix, hop, in_amount, result>>

hop_rate == ix.data.rates[hop + 1]

\* The CPI's answer: the mock-amm handler's, as the runtime accepts it.
\* Both metas are passed writable.
invoke_swap ==
  Accept(AmmOwned, work,
         process_instruction_amm(work, <<pool, user>>, {pool, user},
                                 encode_swap_data(hop_rate, in_amount)),
         pool, user)

InvokeSwap ==
  /\ pc = "cpi"
  /\ IF invoke_swap.err # "Ok" THEN Abort(invoke_swap.err)
     ELSE /\ pc' = "measure"
          /\ work' = invoke_swap.bal
          /\ UNCHANGED <<ledger, ix, hop, in_amount, before, result>>

\* out = after + in - before, the sum and the difference each checked.
measure_overflows_subtracting_first ==
  work[user] < before \/ work[user] - before + in_amount > MaxU64
measure_overflows ==
  \/ work[user] + in_amount > MaxU64
  \/ work[user] + in_amount < before

Measure_trusting_the_rate ==
  /\ pc = "measure"
  /\ pc' = "hop" /\ hop' = hop + 1
  /\ in_amount' = swap_out(in_amount, hop_rate)
  /\ UNCHANGED <<ledger, work, ix, before, result>>
Measure_not_advancing ==
  /\ pc = "measure"
  /\ IF measure_overflows THEN Abort("ArithmeticOverflow")
     ELSE /\ pc' = "hop"
          /\ in_amount' = work[user] + in_amount - before
          /\ UNCHANGED <<ledger, work, ix, hop, before, result>>
Measure ==
  /\ pc = "measure"
  /\ IF measure_overflows THEN Abort("ArithmeticOverflow")
     ELSE /\ pc' = "hop"
          /\ in_amount' = work[user] + in_amount - before
          /\ hop' = hop + 1
          /\ UNCHANGED <<ledger, work, ix, before, result>>

\* After the last hop: the gate, then the runtime commits.
Gate_strict ==
  /\ pc = "hop" /\ hop = ix.data.hop_count
  /\ IF in_amount <= ix.data.min_out THEN Abort("Custom(1)")
     ELSE Return("Ok") /\ ledger' = work /\ UNCHANGED work
Gate ==
  /\ pc = "hop" /\ hop = ix.data.hop_count
  /\ IF in_amount < ix.data.min_out THEN Abort("Custom(1)")
     ELSE /\ Return("Ok")
          /\ ledger' = work
          /\ UNCHANGED work

RouterStep == Enter \/ CheckHop \/ InvokeSwap \/ Measure \/ Gate

Next == (\E i \in Instructions : Submit(i)) \/ RouterStep

\* A started instruction runs on; nobody has to submit another.
Spec == Init /\ [][Next]_vars /\ WF_vars(RouterStep)

(***************************************************************************)
(* The same router against a venue that does what it likes with the two    *)
(* balances, as long as the runtime accepts it: the router does not trust  *)
(* its venue, so what it promises its user must hold here too.             *)
(***************************************************************************)
VenueErrors == {"InvalidInstructionData", "InvalidAccountOwner", "InvalidAccountData",
                "ArithmeticOverflow", "InsufficientFunds", "ExternalAccountLamportSpend",
                "UnbalancedInstruction"}

InvokeAnyVenue ==
  /\ pc = "cpi"
  /\ \/ \E err \in VenueErrors : Abort(err)
     \/ \E p, u \in U64 :
          LET moved == [[work EXCEPT ![pool] = p] EXCEPT ![user] = u] IN
          /\ Accept(AmmOwned, work, Answer("Ok", moved), pool, user).err = "Ok"
          /\ pc' = "measure"
          /\ work' = moved
          /\ UNCHANGED <<ledger, ix, hop, in_amount, before, result>>

NextAnyVenue ==
  (\E i \in Instructions : Submit(i)) \/ Enter \/ CheckHop \/ InvokeAnyVenue \/ Measure \/ Gate

SpecAnyVenue == Init /\ [][NextAnyVenue]_vars
-----------------------------------------------------------------------------

Locations == {"idle", "entry", "hop", "cpi", "measure"}

Results == VenueErrors \cup {"Ok", "Pending", "NotEnoughAccountKeys",
                             "IncorrectProgramId", "Custom(1)"}

\* Type invariant.  Balances and forwarded amounts fit a u64 at every step,
\* also between the two halves of a hop, and an account index read by the loop
\* is inside the account list.
TypeOK ==
  /\ ledger \in Ledgers
  /\ work \in Ledgers
  /\ pc \in Locations
  /\ result \in Results
  /\ in_amount \in U64 /\ before \in U64
  /\ hop \in 0 .. MAX_HOPS
  /\ ix \in InstructionType \cup {NoIx}
  /\ pc \in {"hop", "cpi", "measure"} =>
       /\ ix.data.hop_count \in 1 .. MAX_HOPS
       /\ Len(ix.accounts) >= 1 + 2 * ix.data.hop_count
       /\ Len(ix.data.rates) = ix.data.hop_count
       /\ hop <= ix.data.hop_count
  /\ pc \in {"cpi", "measure"} => hop < ix.data.hop_count

\* What the loop of process_execute_route keeps: the amount carried into the
\* next hop is what the user paid in plus everything the hops so far brought or
\* cost, so no hop's input is invented, lost or counted twice.
AmountForwarded ==
  /\ pc \in {"hop", "cpi"} =>
       in_amount + ledger[user] = work[user] + ix.data.initial_amount
  /\ pc = "cpi" => before = work[user]
  /\ pc = "measure" => in_amount + ledger[user] = before + ix.data.initial_amount

\* The safety gate: a route that returns Ok leaves the user, at the committed
\* balances, at least min_out for the initial amount, over all hops together.
MinOutHonoured ==
  [][result = "Pending" /\ result' = "Ok" =>
       ledger'[user] + ix.data.initial_amount >= ledger[user] + ix.data.min_out]_vars

\* An account that mock-amm does not own never pays for a route, whatever part
\* it was given in it: as the user it may only gain, as a pool it stays as it is.
ForeignFundsSafe ==
  [][\A a \in Accounts \ AmmOwned :
       ledger'[a] = ledger[a] \/ (a = user /\ ledger'[a] > ledger[a])]_vars

\* mock-amm's own checks are enough: the runtime refuses what a swap wrote only
\* when the pool is the user, or when the user is not mock-amm's to debit.
RefusedOnlyWhenAliased ==
  pc = "cpi" =>
    /\ invoke_swap.err = "UnbalancedInstruction" => pool = user
    /\ invoke_swap.err = "ExternalAccountLamportSpend" => user \notin AmmOwned

\* The inductive invariant behind the above.  An instruction is running exactly
\* when there is one and its result is out; until the first hop nothing has
\* moved; and at every point the running route has moved lamports only in
\* accounts it names, and taken none from an account mock-amm does not own, so
\* committing at any point would break nothing but the gate.
Control ==
  /\ pc = "idle" <=> ix = NoIx
  /\ pc = "idle" <=> result # "Pending"
  /\ pc \in {"idle", "entry"} => work = ledger /\ hop = 0

WorkConfined ==
  pc # "idle" =>
    /\ \A a \in Accounts \ AmmOwned : work[a] >= ledger[a]
    /\ pc # "entry" =>
         \A a \in Accounts :
           work[a] # ledger[a] =>
             \E h \in 0 .. ix.data.hop_count : a = ix.accounts[1 + 2 * h]

RouteInv == TypeOK /\ Control /\ AmountForwarded /\ WorkConfined

\* Every instruction that starts returns: the loop advances on each round.
EveryRouteReturns == result = "Pending" ~> result # "Pending"

\* The router implements the atomic route.  An Ok means that all hops ran, in
\* order, each fed with what the one before yielded, and that the balances are
\* where the last hop left them; an error is the first failing hop's, or the
\* gate's, and is given only when there is one.
Atomic == INSTANCE AtomicRoute
ImplementsAtomicRoute == Atomic!Spec
=============================================================================
