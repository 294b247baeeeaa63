---------------------------- MODULE QuasarRouter -----------------------------
(***************************************************************************)
(* EXECUTE_ROUTE of quasar-router/src/lib.rs.  The generated dispatch      *)
(* checks the declared account (the user) before the handler sees the      *)
(* data; the hops' accounts come from an iterator over the remaining ones, *)
(* so a short list is only found out at the hop that runs out, after the   *)
(* earlier hops have run.                                                  *)
(***************************************************************************)
EXTENDS MockAmm

CONSTANTS MOCK_AMM_PROGRAM_ID, InitialLedgers, Instructions, NoIx

VARIABLES
  ledger, work, ix, pc,
  remaining,   \* what the remaining-accounts iterator has still to yield
  next_accounts, \* the program and the pool the iterator yielded for this hop
  hop, in_amount, before, result

locals == <<remaining, next_accounts, hop, in_amount, before>>
vars == <<ledger, work, ix, pc, locals, result>>

EXECUTE_ROUTE_DISCRIMINATOR == 1
MAX_HOPS == 3

Init ==
  /\ ledger \in InitialLedgers /\ work = ledger
  /\ ix = NoIx /\ pc = "idle" /\ result = "Ok"
  /\ remaining = <<>> /\ next_accounts = <<>>
  /\ hop = 0 /\ in_amount = 0 /\ before = 0

Submit(i) ==
  /\ pc = "idle"
  /\ ix' = i /\ pc' = "dispatch" /\ result' = "Pending"
  /\ UNCHANGED <<ledger, work, locals>>

Return(answer) ==
  /\ result' = answer /\ ix' = NoIx /\ pc' = "idle"
  /\ remaining' = <<>> /\ next_accounts' = <<>>
  /\ hop' = 0 /\ in_amount' = 0 /\ before' = 0

Abort(err) == Return(err) /\ work' = ledger /\ UNCHANGED ledger

parse_route_rejects(d) ==
  ~d.header \/ d.hop_count \notin 1 .. MAX_HOPS \/ Len(d.rates) # d.hop_count \/ d.ragged

\* The user, declared; the rest of the accounts is iterated over.
user == ix.accounts[1]

\* Discriminator, declared account, data, user writable: the dispatch's checks
\* come before the handler's.
dispatch_error ==
  IF ix.data.disc # EXECUTE_ROUTE_DISCRIMINATOR THEN "InvalidInstructionData"
  ELSE IF Len(ix.accounts) < 1 THEN "NotEnoughAccountKeys"
  ELSE IF parse_route_rejects(ix.data) THEN "InvalidInstructionData"
  ELSE IF user \notin ix.writable THEN "InvalidAccountData"
  ELSE "Ok"

ExecuteRoute ==
  /\ pc = "dispatch"
  /\ IF dispatch_error # "Ok" THEN Abort(dispatch_error)
     ELSE /\ pc' = "next"
          /\ remaining' = Tail(ix.accounts)
          /\ in_amount' = ix.data.initial_amount
          /\ UNCHANGED <<ledger, work, ix, next_accounts, hop, before, result>>

\* Two calls of next_hop_account: a program and a pool, or the list is short.
NextHopAccounts_peeking ==
  /\ pc = "next" /\ hop < ix.data.hop_count
  /\ IF Len(remaining) < 2 THEN Abort("NotEnoughAccountKeys")
     ELSE /\ pc' = "check"
          /\ next_accounts' = SubSeq(remaining, 1, 2)
          /\ remaining' = Tail(remaining)
          /\ UNCHANGED <<ledger, work, ix, hop, in_amount, before, result>>
NextHopAccounts_ending_the_loop ==
  /\ pc = "next" /\ hop < ix.data.hop_count
  /\ IF Len(remaining) < 2
       THEN /\ hop' = ix.data.hop_count
            /\ UNCHANGED <<ledger, work, ix, pc, remaining, next_accounts, in_amount, before, result>>
     ELSE /\ pc' = "check"
          /\ next_accounts' = SubSeq(remaining, 1, 2)
          /\ remaining' = SubSeq(remaining, 3, Len(remaining))
          /\ UNCHANGED <<ledger, work, ix, hop, in_amount, before, result>>
NextHopAccounts ==
  /\ pc = "next" /\ hop < ix.data.hop_count
  /\ IF Len(remaining) < 2 THEN Abort("NotEnoughAccountKeys")
     ELSE /\ pc' = "check"
          /\ next_accounts' = SubSeq(remaining, 1, 2)
          /\ remaining' = SubSeq(remaining, 3, Len(remaining))
          /\ UNCHANGED <<ledger, work, ix, hop, in_amount, before, result>>

amm_program == next_accounts[1]
pool == next_accounts[2]

check_error_pool_first ==
  IF pool \notin ix.writable THEN "InvalidAccountData"
  ELSE IF amm_program # MOCK_AMM_PROGRAM_ID THEN "IncorrectProgramId"
  ELSE "Ok"
check_error ==
  IF amm_program # MOCK_AMM_PROGRAM_ID THEN "IncorrectProgramId"
  ELSE IF pool \notin ix.writable THEN "InvalidAccountData"
  ELSE "Ok"

CheckHop ==
  /\ pc = "check"
  /\ IF check_error # "Ok" THEN Abort(check_error)
     ELSE /\ pc' = "cpi"
          /\ before' = work[user]
          /\ UNCHANGED <<ledger, work, ix, remaining, next_accounts, hop, in_amount, result>>

hop_rate == ix.data.rates[hop + 1]

\* CpiCall against the baked-in id, both metas writable.
cpi_call ==
  Accept(AmmOwned, work,
         process_instruction_amm(work, <<pool, user>>, {pool, user},
                                 encode_swap_data(hop_rate, in_amount)),
         pool, user)

Invoke ==
  /\ pc = "cpi"
  /\ IF cpi_call.err # "Ok" THEN Abort(cpi_call.err)
     ELSE /\ pc' = "measure"
          /\ work' = cpi_call.bal
          /\ UNCHANGED <<ledger, ix, locals, result>>

Measure ==
  /\ pc = "measure"
  /\ IF work[user] + in_amount > MaxU64 \/ work[user] + in_amount < before
       THEN Abort("ArithmeticOverflow")
     ELSE /\ pc' = "next"
          /\ in_amount' = work[user] + in_amount - before
          /\ hop' = hop + 1
          /\ UNCHANGED <<ledger, work, ix, remaining, next_accounts, before, result>>

Gate ==
  /\ pc = "next" /\ hop = ix.data.hop_count
  /\ IF in_amount >= ix.data.min_out THEN Return("Ok") /\ ledger' = work /\ UNCHANGED work
     ELSE Abort("Custom(1)")

RouterStep ==
  ExecuteRoute \/ NextHopAccounts \/ CheckHop \/ Invoke \/ Measure \/ Gate

Next == (\E i \in Instructions : Submit(i)) \/ RouterStep

Spec == Init /\ [][Next]_vars

-----------------------------------------------------------------------------

\* Type invariant, for the state the Pinocchio router does not have: what the
\* iterator has still to yield is the account list from the current hop on, so
\* hop and iterator, which advance apart, stay in step.
TypeOK ==
  /\ ledger \in Ledgers /\ work \in Ledgers
  /\ in_amount \in U64 /\ before \in U64
  /\ pc = "next" => remaining = SubSeq(ix.accounts, 2 + 2 * hop, Len(ix.accounts))
  /\ pc \in {"check", "cpi", "measure"} =>
       next_accounts \o remaining = SubSeq(ix.accounts, 2 + 2 * hop, Len(ix.accounts))

\* The Quasar router, too, implements the atomic route.
Atomic == INSTANCE AtomicRoute WITH AmmId <- MOCK_AMM_PROGRAM_ID
ImplementsAtomicRoute == Atomic!Spec
=============================================================================
