----------------------------- MODULE HopperBench -----------------------------
(***************************************************************************)
(* The hopper-bench program (hopper-bench/src/lib.rs): 22 instructions,    *)
(* each a Hopper primitive between two calls that log the compute units    *)
(* left.  A handler is an operator to an outcome: its error ("Ok" when     *)
(* there is none), the accounts it leaves, and how many of the two log     *)
(* calls it got to.  That number is what the runners read a measurement    *)
(* from, so where a handler can return is what matters here.               *)
(*                                                                         *)
(* An instruction is [data, accounts, signers, writable]; data is the      *)
(* discriminator and, for the typed deposit, the amount.  The primitives   *)
(* themselves are the Hopper library's and are modelled by what they       *)
(* check.  p is the program as it was compiled: the sizes its layouts      *)
(* have, which the header of the Hopper version it was built with decides. *)
(***************************************************************************)
EXTENDS Integers, Sequences

CONSTANTS Keys,         \* account addresses
          MaxU64        \* the largest balance (u64::MAX, made small for TLC)

ASSUME HopperBenchAssumption == MaxU64 \in Nat

U64 == 0 .. MaxU64
Layouts == {"none", "BenchVault", "ProcBenchVault"}

\* The two balances lie at different places of the data: one account has both.
AccountType ==
  [ours : BOOLEAN, len : Nat, layout : Layouts, vault_balance : U64, proc_balance : U64]
Banks == [Keys -> AccountType]

InstructionType ==
  [data : Seq(Nat), accounts : Seq(Keys), signers : SUBSET Keys, writable : SUBSET Keys]

-----------------------------------------------------------------------------
\* Outcomes.

\* Refused before the first log call, or between the two.
Unlogged(b, err) == [err |-> err, bank |-> b, lines |-> 0]
HalfLogged(b, err) == [err |-> err, bank |-> b, lines |-> 1]

\* The primitive runs between the two calls; its error skips the second one.
Bracketed(b, err, after) ==
  IF err = "Ok" THEN [err |-> "Ok", bank |-> after, lines |-> 2] ELSE HalfLogged(b, err)

Require(ok, err) == IF ok THEN "Ok" ELSE err

\* The first account is there, and passes the checks made ahead of the bracket.
first(ix) == ix.accounts[1]
WithFirst(b, ix, checked, outcome) ==
  IF ix.accounts = <<>> THEN Unlogged(b, "NotEnoughAccountKeys")
  ELSE IF ~checked THEN Unlogged(b, "HopperError")
  ELSE outcome

-----------------------------------------------------------------------------
\* Hopper's primitives, by what they check.

check_signer(ix) == first(ix) \in ix.signers
check_writable(ix) == first(ix) \in ix.writable
check_owner(b, ix) == b[first(ix)].ours
fits(p, b, ix) == b[first(ix)].len >= p.vault_len
fits_proc(p, b, ix) == b[first(ix)].len >= p.proc_len
has_header(b, ix) == b[first(ix)].layout = "BenchVault"
load(p, b, ix) == check_owner(b, ix) /\ fits(p, b, ix) /\ has_header(b, ix)

WriteHeader(b, ix, layout) == [b EXCEPT ![first(ix)].layout = layout]

-----------------------------------------------------------------------------
\* The handlers.

bench_check_signer(b, ix) ==
  WithFirst(b, ix, TRUE, Bracketed(b, Require(check_signer(ix), "HopperError"), b))

bench_check_writable(b, ix) ==
  WithFirst(b, ix, TRUE, Bracketed(b, Require(check_writable(ix), "HopperError"), b))

bench_check_owner(b, ix) ==
  WithFirst(b, ix, TRUE, Bracketed(b, Require(check_owner(b, ix), "HopperError"), b))

bench_check_account_tier1(p, b, ix) ==
  WithFirst(b, ix, TRUE, Bracketed(b, Require(load(p, b, ix), "HopperError"), b))

bench_check_keys_eq(b, ix) ==
  IF Len(ix.accounts) < 2 THEN Unlogged(b, "NotEnoughAccountKeys")
  ELSE Bracketed(b, Require(ix.accounts[1] = ix.accounts[2], "HopperError"), b)

bench_overlay(p, b, ix) ==
  WithFirst(b, ix, check_owner(b, ix), Bracketed(b, Require(fits(p, b, ix), "HopperError"), b))

bench_write_header(p, b, ix) ==
  WithFirst(b, ix, check_owner(b, ix) /\ check_writable(ix),
    Bracketed(b, Require(fits(p, b, ix), "HopperError"), WriteHeader(b, ix, "BenchVault")))

bench_zero_init_any_owner(b, ix) ==
  WithFirst(b, ix, check_writable(ix),
    Bracketed(b, "Ok",
      [b EXCEPT ![first(ix)] = [@ EXCEPT !.layout = "none", !.vault_balance = 0, !.proc_balance = 0]]))
bench_zero_init(b, ix) ==
  WithFirst(b, ix, check_owner(b, ix) /\ check_writable(ix),
    Bracketed(b, "Ok",
      [b EXCEPT ![first(ix)] = [@ EXCEPT !.layout = "none", !.vault_balance = 0, !.proc_balance = 0]]))

\* The one instruction without a bracket.
bench_write_proc_header(p, b, ix) ==
  WithFirst(b, ix, check_owner(b, ix) /\ check_writable(ix),
    IF fits_proc(p, b, ix) THEN [Unlogged(b, "Ok") EXCEPT !.bank = WriteHeader(b, ix, "ProcBenchVault")]
    ELSE Unlogged(b, "HopperError"))

bench_check_account_fast(b, ix) ==
  WithFirst(b, ix, TRUE, Bracketed(b, Require(check_signer(ix), "HopperError"), b))

bench_emit_event(b) == Bracketed(b, "Ok", b)
bench_measurement_overhead(b) == Bracketed(b, "Ok", b)

bench_trust_strict_load(p, b, ix) ==
  WithFirst(b, ix, TRUE, Bracketed(b, Require(load(p, b, ix), "HopperError"), b))

bench_pod_from_bytes(p, b, ix) ==
  WithFirst(b, ix, check_owner(b, ix), Bracketed(b, Require(fits(p, b, ix), "InvalidAccountData"), b))

bench_receipt(b, ix) == WithFirst(b, ix, check_owner(b, ix), Bracketed(b, "Ok", b))

\* The comparison is the handler's own, and returns from inside the bracket.
bench_fingerprint_check(b, ix) ==
  WithFirst(b, ix, check_owner(b, ix), Bracketed(b, Require(has_header(b, ix), "InvalidAccountData"), b))

bench_state_diff(b, ix) == WithFirst(b, ix, check_owner(b, ix), Bracketed(b, "Ok", b))

\* get() + 1 in a release build: u64::MAX is followed by zero.
bench_overlay_mut_field_set(p, b, ix) ==
  WithFirst(b, ix, check_owner(b, ix) /\ check_writable(ix),
    Bracketed(b, Require(fits(p, b, ix), "HopperError"),
      [b EXCEPT ![first(ix)].vault_balance = (@ + 1) % (MaxU64 + 1)]))

bench_raw_cast_baseline(p, b, ix) ==
  WithFirst(b, ix, check_owner(b, ix), Bracketed(b, Require(fits(p, b, ix), "AccountDataTooSmall"), b))

bench_receipt_full(b, ix) == WithFirst(b, ix, check_owner(b, ix), Bracketed(b, "Ok", b))

bench_receipt_emit(b, ix) == WithFirst(b, ix, check_owner(b, ix), Bracketed(b, "Ok", b))

\* What #[hopper::context] and #[instruction(19)] check before typed_deposit runs.
ProcBenchDeposit(p, b, ix) ==
  /\ ix.accounts # <<>> /\ Len(ix.data) >= 2
  /\ check_owner(b, ix) /\ check_writable(ix)
  /\ fits_proc(p, b, ix) /\ b[first(ix)].layout = "ProcBenchVault"

typed_deposit_error(b, ix) ==
  Require(b[first(ix)].proc_balance + ix.data[2] <= MaxU64, "ArithmeticOverflow")

\* The account list is looked at inside the bracket only.
bench_proc_macro_typed_dispatch_wrapping(p, b, ix) ==
  IF ~ProcBenchDeposit(p, b, ix) THEN HalfLogged(b, "HopperError")
  ELSE Bracketed(b, "Ok",
         [b EXCEPT ![first(ix)].proc_balance = (@ + ix.data[2]) % (MaxU64 + 1)])
bench_proc_macro_typed_dispatch(p, b, ix) ==
  IF ~ProcBenchDeposit(p, b, ix) THEN HalfLogged(b, "HopperError")
  ELSE Bracketed(b, typed_deposit_error(b, ix),
         [b EXCEPT ![first(ix)].proc_balance = @ + ix.data[2]])

process_instruction(p, b, ix) ==
  IF ix.data = <<>> THEN Unlogged(b, "InvalidInstructionData")
  ELSE CASE ix.data[1] = 0  -> bench_check_signer(b, ix)
         [] ix.data[1] = 1  -> bench_check_writable(b, ix)
         [] ix.data[1] = 2  -> bench_check_owner(b, ix)
         [] ix.data[1] = 3  -> bench_check_account_tier1(p, b, ix)
         [] ix.data[1] = 4  -> bench_check_keys_eq(b, ix)
         [] ix.data[1] = 5  -> bench_overlay(p, b, ix)
         [] ix.data[1] = 6  -> bench_write_header(p, b, ix)
         [] ix.data[1] = 7  -> bench_zero_init(b, ix)
         [] ix.data[1] = 8  -> bench_check_account_fast(b, ix)
         [] ix.data[1] = 9  -> bench_emit_event(b)
         [] ix.data[1] = 10 -> bench_trust_strict_load(p, b, ix)
         [] ix.data[1] = 11 -> bench_pod_from_bytes(p, b, ix)
         [] ix.data[1] = 12 -> bench_receipt(b, ix)
         [] ix.data[1] = 13 -> bench_fingerprint_check(b, ix)
         [] ix.data[1] = 14 -> bench_state_diff(b, ix)
         [] ix.data[1] = 15 -> bench_overlay_mut_field_set(p, b, ix)
         [] ix.data[1] = 16 -> bench_raw_cast_baseline(p, b, ix)
         [] ix.data[1] = 17 -> bench_receipt_full(b, ix)
         [] ix.data[1] = 18 -> bench_receipt_emit(b, ix)
         [] ix.data[1] = 19 -> bench_proc_macro_typed_dispatch(p, b, ix)
         [] ix.data[1] = 20 -> bench_write_proc_header(p, b, ix)
         [] ix.data[1] = 21 -> bench_measurement_overhead(b)
         [] OTHER -> Unlogged(b, "InvalidInstructionData")
-----------------------------------------------------------------------------
(***************************************************************************)
(* The program deployed: accounts stay from one instruction to the next,   *)
(* and any client sends any instruction.                                   *)
(***************************************************************************)
CONSTANTS Deployed,      \* the program as deployed: [vault_len, proc_len]
          InitialBanks, ClientInstructions

ASSUME ClientAssumption ==
  /\ Deployed.vault_len \in Nat /\ Deployed.proc_len \in Nat
  /\ InitialBanks \subseteq Banks /\ ClientInstructions \subseteq InstructionType

VARIABLES bank, answer

clientVars == <<bank, answer>>

ClientInit == bank \in InitialBanks /\ answer = [err |-> "Ok", lines |-> 0]

\* An error leaves every account as it was; so the outcome says.
Invoke(ix) ==
  LET o == process_instruction(Deployed, bank, ix) IN
  /\ bank' = o.bank
  /\ answer' = [err |-> o.err, lines |-> o.lines]

ClientNext == \E ix \in ClientInstructions : Invoke(ix)

ClientSpec == ClientInit /\ [][ClientNext]_clientVars

Errors == {"Ok", "NotEnoughAccountKeys", "HopperError", "InvalidAccountData",
           "AccountDataTooSmall", "ArithmeticOverflow", "InvalidInstructionData"}

\* Type invariant: no chain of deposits and increments takes a balance out of u64.
BankTypeOK == bank \in Banks /\ answer \in [err : Errors, lines : 0 .. 2]

\* The handlers write through unchecked borrows: that the account is the
\* program's and was passed writable is for each of them to check, before the
\* bracket or in the primitive, in every one of the five that write.
WritesOnlyItsOwn ==
  [][bank' = bank \/ \E ix \in ClientInstructions :
       /\ Invoke(ix)
       /\ \A k \in Keys :
            bank'[k] # bank[k] => bank[k].ours /\ k \in ix.writable /\ k = first(ix)]_clientVars

\* Nothing but zero_init takes a balance away, with everything else in the
\* account: whichever layout was written over which in between, an increment or a
\* deposit never lowers one, but for the unchecked increment at u64::MAX.
BalancesOnlyGrow ==
  [][\A k \in Keys :
       LET was == bank[k]
           is == bank'[k]
       IN \/ is.layout = "none" /\ is.vault_balance = 0 /\ is.proc_balance = 0
          \/ /\ is.proc_balance >= was.proc_balance
             /\ is.vault_balance >= was.vault_balance \/ was.vault_balance = MaxU64]_clientVars
=============================================================================
