-------------------------- MODULE PrimitiveBenchProofs --------------------------
(***************************************************************************)
(* The deployed hopper-bench program, for any accounts, any u64, any       *)
(* layouts its version of Hopper gives it and any instructions: each of    *)
(* the 22 handlers has an outcome that writes the account it checked, and  *)
(* keeps or raises its balances.  And primitive-bench, for any artifacts   *)
(* at any time: what it reports is what the artifact it has read does.     *)
(***************************************************************************)
EXTENDS PrimitiveBench, SequenceTheorems, TLAPS

USE DEF U64

\* An outcome that leaves every account as it was.
Reads(b, o) == o.bank = b /\ o.err \in Errors /\ o.lines \in 0 .. 2

\* What the balances of an account may do (see BalancesOnlyGrow).
Grown(was, is) ==
  \/ is.layout = "none" /\ is.vault_balance = 0 /\ is.proc_balance = 0
  \/ /\ is.proc_balance >= was.proc_balance
     /\ is.vault_balance >= was.vault_balance \/ was.vault_balance = MaxU64

\* An outcome that may also write the first account, the program's and writable.
Legal(b, ix, o) ==
  /\ o.bank \in Banks /\ o.err \in Errors /\ o.lines \in 0 .. 2
  /\ \A k \in Keys :
       /\ o.bank[k] # b[k] => b[k].ours /\ k \in ix.writable /\ k = first(ix)
       /\ Grown(b[k], o.bank[k])

-----------------------------------------------------------------------------
\* u64's wrapping increment.
LEMMA Increment ==
  ASSUME NEW n \in Nat, NEW a \in 0 .. n
  PROVE  (a + 1) % (n + 1) = IF a = n THEN 0 ELSE a + 1
<1>1. CASE a = n
  BY <1>1, Z3
<1>2. CASE a # n
  BY <1>2, Z3
<1> QED BY <1>1, <1>2

LEMMA ReadsIsLegal ==
  ASSUME NEW b \in Banks, NEW ix, NEW o, Reads(b, o)
  PROVE  Legal(b, ix, o)
<1>1. \A k \in Keys : b[k].proc_balance \in U64 /\ b[k].vault_balance \in U64
  BY DEF Banks, AccountType
<1> QED BY <1>1, HopperBenchAssumption DEF Reads, Legal, Grown

\* The three ways to return without a write.
LEMMA Returning ==
  ASSUME NEW b, NEW err \in Errors
  PROVE  /\ Reads(b, Unlogged(b, err)) /\ Reads(b, HalfLogged(b, err))
         /\ Reads(b, Bracketed(b, err, b))
  BY DEF Reads, Unlogged, HalfLogged, Bracketed, Errors

\* A handler that writes only the account it has checked.
LEMMA WritingFirst ==
  ASSUME NEW b \in Banks, NEW ix \in InstructionType, ix.accounts # <<>>,
         check_owner(b, ix), check_writable(ix),
         NEW account \in AccountType, Grown(b[first(ix)], account),
         NEW o, o.bank = [b EXCEPT ![first(ix)] = account],
         o.err \in Errors, o.lines \in 0 .. 2
  PROVE  Legal(b, ix, o)
<1>1. first(ix) \in Keys
  BY DEF first, InstructionType
<1>2. o.bank \in Banks
  BY DEF Banks
<1>3. ASSUME NEW k \in Keys, k # first(ix)
      PROVE  o.bank[k] = b[k] /\ Grown(b[k], b[k])
  BY <1>3, HopperBenchAssumption DEF Banks, AccountType, Grown
<1>4. o.bank[first(ix)] = account
  BY <1>1 DEF Banks
<1> QED BY <1>1, <1>2, <1>3, <1>4 DEF Legal, check_owner, check_writable

-----------------------------------------------------------------------------
\* The handlers that write.

LEMMA WriteHeaderLegal ==
  ASSUME NEW b \in Banks, NEW ix \in InstructionType, ix.accounts # <<>>,
         check_owner(b, ix), check_writable(ix),
         NEW layout \in Layouts, NEW o, o.bank = WriteHeader(b, ix, layout),
         o.err \in Errors, o.lines \in 0 .. 2
  PROVE  Legal(b, ix, o)
<1> DEFINE account == [b[first(ix)] EXCEPT !.layout = layout]
<1>1. first(ix) \in Keys /\ b[first(ix)] \in AccountType
  BY DEF first, InstructionType, Banks
<1>2. account \in AccountType /\ Grown(b[first(ix)], account)
  BY <1>1, HopperBenchAssumption DEF AccountType, Grown
<1>3. o.bank = [b EXCEPT ![first(ix)] = account]
  BY DEF WriteHeader
<1> HIDE DEF account
<1> QED BY <1>2, <1>3, WritingFirst

LEMMA HeadersLegal ==
  ASSUME NEW p, NEW b \in Banks, NEW ix \in InstructionType
  PROVE  /\ Legal(b, ix, bench_write_header(p, b, ix))
         /\ Legal(b, ix, bench_write_proc_header(p, b, ix))
<1> USE DEF Errors, Layouts
<1>1. CASE ix.accounts = <<>> \/ ~(check_owner(b, ix) /\ check_writable(ix))
  BY <1>1, Returning, ReadsIsLegal DEF bench_write_header, bench_write_proc_header, WithFirst
<1>2. CASE ix.accounts # <<>> /\ check_owner(b, ix) /\ check_writable(ix)
  <2>1. fits(p, b, ix) => Legal(b, ix, bench_write_header(p, b, ix))
    BY <1>2, WriteHeaderLegal DEF bench_write_header, WithFirst, Bracketed, Require
  <2>2. ~fits(p, b, ix) => Legal(b, ix, bench_write_header(p, b, ix))
    BY <1>2, Returning, ReadsIsLegal DEF bench_write_header, WithFirst, Bracketed, Require
  <2>3. fits_proc(p, b, ix) => Legal(b, ix, bench_write_proc_header(p, b, ix))
    BY <1>2, WriteHeaderLegal DEF bench_write_proc_header, WithFirst, Unlogged
  <2>4. ~fits_proc(p, b, ix) => Legal(b, ix, bench_write_proc_header(p, b, ix))
    BY <1>2, Returning, ReadsIsLegal DEF bench_write_proc_header, WithFirst
  <2> QED BY <2>1, <2>2, <2>3, <2>4
<1> QED BY <1>1, <1>2

LEMMA ZeroInitLegal ==
  ASSUME NEW b \in Banks, NEW ix \in InstructionType
  PROVE  Legal(b, ix, bench_zero_init(b, ix))
<1> USE DEF Errors
<1>1. CASE ix.accounts = <<>> \/ ~(check_owner(b, ix) /\ check_writable(ix))
  BY <1>1, Returning, ReadsIsLegal DEF bench_zero_init, WithFirst
<1>2. CASE ix.accounts # <<>> /\ check_owner(b, ix) /\ check_writable(ix)
  <2> DEFINE account == [b[first(ix)] EXCEPT !.layout = "none", !.vault_balance = 0,
                                             !.proc_balance = 0]
             o == bench_zero_init(b, ix)
  <2>1. first(ix) \in Keys /\ b[first(ix)] \in AccountType
    BY <1>2 DEF first, InstructionType, Banks
  <2>2. account \in AccountType /\ Grown(b[first(ix)], account)
    <3>1. /\ account.layout = "none" /\ account.vault_balance = 0 /\ account.proc_balance = 0
          /\ account = [b[first(ix)] EXCEPT !.layout = "none", !.vault_balance = 0,
                                            !.proc_balance = 0]
      BY <2>1 DEF AccountType
    <3>2. 0 \in U64 /\ "none" \in Layouts
      BY HopperBenchAssumption DEF Layouts
    <3> HIDE DEF account
    <3>3. account \in AccountType
      BY <2>1, <3>1, <3>2 DEF AccountType
    <3> QED BY <3>1, <3>3 DEF Grown
  <2>3. /\ o.bank = [b EXCEPT ![first(ix)] = account]
        /\ o.err \in Errors /\ o.lines \in 0 .. 2
    BY <1>2 DEF bench_zero_init, WithFirst, Bracketed
  <2> HIDE DEF account, o
  <2>4. Legal(b, ix, o)
    BY <1>2, <2>2, <2>3, WritingFirst
  <2> QED BY <2>4 DEF o
<1> QED BY <1>1, <1>2

LEMMA FieldSetLegal ==
  ASSUME NEW p, NEW b \in Banks, NEW ix \in InstructionType
  PROVE  Legal(b, ix, bench_overlay_mut_field_set(p, b, ix))
<1> USE DEF Errors
<1>1. CASE ix.accounts = <<>> \/ ~(check_owner(b, ix) /\ check_writable(ix)) \/ ~fits(p, b, ix)
  BY <1>1, Returning, ReadsIsLegal DEF bench_overlay_mut_field_set, WithFirst, Bracketed, Require
<1>2. CASE /\ ix.accounts # <<>> /\ check_owner(b, ix) /\ check_writable(ix)
           /\ fits(p, b, ix)
  <2> DEFINE was == b[first(ix)]
             next == (was.vault_balance + 1) % (MaxU64 + 1)
             account == [was EXCEPT !.vault_balance = next]
             o == bench_overlay_mut_field_set(p, b, ix)
  <2>1. first(ix) \in Keys /\ was \in AccountType
    BY <1>2 DEF first, InstructionType, Banks
  <2>2. was.vault_balance \in 0 .. MaxU64
    BY <2>1 DEF AccountType
  <2>3. next = IF was.vault_balance = MaxU64 THEN 0 ELSE was.vault_balance + 1
    BY <2>2, Increment, HopperBenchAssumption
  <2>4. /\ o.bank = [b EXCEPT ![first(ix)] = account]
        /\ o.err \in Errors /\ o.lines \in 0 .. 2
    BY <1>2 DEF bench_overlay_mut_field_set, WithFirst, Bracketed, Require
  <2> HIDE DEF next, o
  <2>5. account \in AccountType /\ Grown(was, account)
    BY <2>1, <2>2, <2>3, HopperBenchAssumption DEF AccountType, Grown
  <2> HIDE DEF account
  <2>6. Legal(b, ix, o)
    BY <1>2, <2>4, <2>5, WritingFirst
  <2> QED BY <2>6 DEF o
<1> QED BY <1>1, <1>2

LEMMA DepositLegal ==
  ASSUME NEW p, NEW b \in Banks, NEW ix \in InstructionType
  PROVE  Legal(b, ix, bench_proc_macro_typed_dispatch(p, b, ix))
<1> USE DEF Errors
<1>1. CASE ~ProcBenchDeposit(p, b, ix)
  BY <1>1, Returning, ReadsIsLegal DEF bench_proc_macro_typed_dispatch
<1>2. CASE ProcBenchDeposit(p, b, ix) /\ typed_deposit_error(b, ix) # "Ok"
  <2>1. typed_deposit_error(b, ix) \in Errors
    BY DEF typed_deposit_error, Require
  <2> QED BY <1>2, <2>1, Returning, ReadsIsLegal DEF bench_proc_macro_typed_dispatch, Bracketed
<1>3. CASE ProcBenchDeposit(p, b, ix) /\ typed_deposit_error(b, ix) = "Ok"
  <2> DEFINE was == b[first(ix)]
             account == [was EXCEPT !.proc_balance = was.proc_balance + ix.data[2]]
             o == bench_proc_macro_typed_dispatch(p, b, ix)
  <2>1. /\ ix.accounts # <<>> /\ check_owner(b, ix) /\ check_writable(ix)
        /\ ix.data[2] \in Nat
    BY <1>3 DEF ProcBenchDeposit, InstructionType
  <2>2. first(ix) \in Keys /\ was \in AccountType
    BY <2>1 DEF first, InstructionType, Banks
  <2>3. was.proc_balance + ix.data[2] <= MaxU64
    BY <1>3 DEF typed_deposit_error, Require
  <2>4. account \in AccountType /\ Grown(was, account)
    BY <2>1, <2>2, <2>3, HopperBenchAssumption DEF AccountType, Grown
  <2>5. /\ o.bank = [b EXCEPT ![first(ix)] = account]
        /\ o.err \in Errors /\ o.lines \in 0 .. 2
    BY <1>3 DEF bench_proc_macro_typed_dispatch, Bracketed
  <2> HIDE DEF account, o
  <2>6. Legal(b, ix, o)
    BY <2>1, <2>4, <2>5, WritingFirst
  <2> QED BY <2>6 DEF o
<1> QED BY <1>1, <1>2, <1>3

-----------------------------------------------------------------------------
\* The handlers that only read.
LEMMA ReadersRead ==
  ASSUME NEW p, NEW b, NEW ix
  PROVE  /\ Reads(b, bench_check_signer(b, ix)) /\ Reads(b, bench_check_writable(b, ix))
         /\ Reads(b, bench_check_owner(b, ix)) /\ Reads(b, bench_check_account_tier1(p, b, ix))
         /\ Reads(b, bench_check_keys_eq(b, ix)) /\ Reads(b, bench_overlay(p, b, ix))
         /\ Reads(b, bench_check_account_fast(b, ix)) /\ Reads(b, bench_emit_event(b))
         /\ Reads(b, bench_trust_strict_load(p, b, ix)) /\ Reads(b, bench_pod_from_bytes(p, b, ix))
         /\ Reads(b, bench_receipt(b, ix)) /\ Reads(b, bench_fingerprint_check(b, ix))
         /\ Reads(b, bench_state_diff(b, ix)) /\ Reads(b, bench_raw_cast_baseline(p, b, ix))
         /\ Reads(b, bench_receipt_full(b, ix)) /\ Reads(b, bench_receipt_emit(b, ix))
         /\ Reads(b, bench_measurement_overhead(b))
<1>1. \A ok \in BOOLEAN, e \in Errors : Require(ok, e) \in Errors
  BY DEF Require, Errors
<1> QED
  BY <1>1, Returning DEF WithFirst, Require, Errors,
    bench_check_signer, bench_check_writable, bench_check_owner, bench_check_account_tier1,
    bench_check_keys_eq, bench_overlay, bench_check_account_fast, bench_emit_event,
    bench_trust_strict_load, bench_pod_from_bytes, bench_receipt, bench_fingerprint_check,
    bench_state_diff, bench_raw_cast_baseline, bench_receipt_full, bench_receipt_emit,
    bench_measurement_overhead

\* The dispatch: whatever the data says, the outcome is legal.
LEMMA ProcessLegal ==
  ASSUME NEW p, NEW b \in Banks, NEW ix \in InstructionType
  PROVE  Legal(b, ix, process_instruction(p, b, ix))
<1> DEFINE o == process_instruction(p, b, ix)
<1>1. CASE ix.data = <<>>
  BY <1>1, Returning, ReadsIsLegal DEF process_instruction, Errors
<1>2. CASE ix.data # <<>> /\ ix.data[1] \in {6, 7, 15, 19, 20}
  <2>1. ix.data[1] = 6 => o = bench_write_header(p, b, ix)
    BY <1>2 DEF process_instruction
  <2>2. ix.data[1] = 7 => o = bench_zero_init(b, ix)
    BY <1>2 DEF process_instruction
  <2>3. ix.data[1] = 15 => o = bench_overlay_mut_field_set(p, b, ix)
    BY <1>2 DEF process_instruction
  <2>4. ix.data[1] = 19 => o = bench_proc_macro_typed_dispatch(p, b, ix)
    BY <1>2 DEF process_instruction
  <2>5. ix.data[1] = 20 => o = bench_write_proc_header(p, b, ix)
    BY <1>2 DEF process_instruction
  <2> HIDE DEF o
  <2>6. Legal(b, ix, o)
    BY <1>2, <2>1, <2>2, <2>3, <2>4, <2>5, HeadersLegal, ZeroInitLegal, FieldSetLegal, DepositLegal
  <2> QED BY <2>6 DEF o
<1>3. CASE ix.data # <<>> /\ ix.data[1] \notin {6, 7, 15, 19, 20}
  <2>1. Reads(b, o)
    BY <1>3, ReadersRead, Returning DEF process_instruction, Errors
  <2> QED BY <2>1, ReadsIsLegal
<1> QED BY <1>1, <1>2, <1>3

-----------------------------------------------------------------------------
\* Every account keeps its type: no chain of instructions takes a balance out of
\* u64.
THEOREM BankTypes == ClientSpec => []BankTypeOK
<1>1. ClientInit => BankTypeOK
  BY ClientAssumption DEF ClientInit, BankTypeOK, Errors
<1>2. BankTypeOK /\ [ClientNext]_clientVars => BankTypeOK'
  <2>1. ASSUME BankTypeOK, NEW ix \in ClientInstructions, Invoke(ix) PROVE BankTypeOK'
    BY <2>1, ProcessLegal, ClientAssumption DEF BankTypeOK, Invoke, Legal
  <2>2. BankTypeOK /\ UNCHANGED clientVars => BankTypeOK'
    BY DEF BankTypeOK, clientVars
  <2> QED BY <2>1, <2>2 DEF ClientNext
<1> QED BY <1>1, <1>2, PTL DEF ClientSpec

\* The unchecked writes of the five handlers that write reach the program's own
\* first account only, and only when it was passed writable.
THEOREM WritesAreItsOwn == ClientSpec => WritesOnlyItsOwn
<1> DEFINE A == bank' = bank \/ \E ix \in ClientInstructions :
                  /\ Invoke(ix)
                  /\ \A k \in Keys :
                       bank'[k] # bank[k] => bank[k].ours /\ k \in ix.writable /\ k = first(ix)
<1>1. BankTypeOK /\ [ClientNext]_clientVars => [A]_clientVars
  <2>1. ASSUME BankTypeOK, NEW ix \in ClientInstructions, Invoke(ix)
        PROVE  \A k \in Keys :
                 bank'[k] # bank[k] => bank[k].ours /\ k \in ix.writable /\ k = first(ix)
    BY <2>1, ProcessLegal, ClientAssumption DEF BankTypeOK, Invoke, Legal
  <2> QED BY <2>1 DEF ClientNext
<1> QED BY <1>1, BankTypes, PTL DEF ClientSpec, WritesOnlyItsOwn

\* No instruction but zero_init lowers a balance, and no layout written over the
\* other does, but for the unchecked increment at u64::MAX.
THEOREM BalancesGrow == ClientSpec => BalancesOnlyGrow
<1> DEFINE A == \A k \in Keys : Grown(bank[k], bank'[k])
<1>1. BankTypeOK /\ [ClientNext]_clientVars => [A]_clientVars
  <2>1. ASSUME BankTypeOK, NEW ix \in ClientInstructions, Invoke(ix) PROVE A
    BY <2>1, ProcessLegal, ClientAssumption DEF BankTypeOK, Invoke, Legal
  <2> QED BY <2>1 DEF ClientNext
<1> QED BY <1>1, BankTypes, PTL DEF ClientSpec, BalancesOnlyGrow, Grown
-----------------------------------------------------------------------------
(***************************************************************************)
(* primitive-bench: what every reachable state holds.                      *)
(***************************************************************************)

\* The bootstrapped accounts.
BootVault == [fixture_account(BENCH_VAULT_LEN) EXCEPT !.layout = "BenchVault"]
BootProcVault == [fixture_account(PROC_VAULT_LEN) EXCEPT !.layout = "ProcBenchVault"]

\* What a run of an instruction that can be reported says, off an equal one by off.
Reported(p, d) == d \notin p.missing /\ LinesOf(p, d) \in {0, 2}
Whole(p, d, off) == p.inside[d] + LinesOf(p, d) * LogCost + off.whole
Bracket(p, d, off) ==
  IF LinesOf(p, d) = 2 THEN LogCost + p.inside[d] + off.bracket ELSE None

RowType == [disc : 0 .. 21, whole : Nat, bracketed : Nat \cup {None}, net : Nat \cup {None}]

\* What each stage of a run holds.
Held ==
  /\ pc \in {"idle", "load"} => loaded = None
  /\ pc \notin {"idle", "load"} => loaded \in Artifacts
  /\ pc \in {"idle", "load", "bootstrap"} => rows = <<>> /\ seen = {}
  /\ pc \in {"out_dir", "md", "csv"} => Len(rows) = 22
  /\ pc # "measure" => first_run = None
Bootstrapped ==
  pc \in {"measure", "out_dir", "md", "csv"} =>
    /\ vault_data = BootVault /\ proc_vault_data = BootProcVault
    /\ loaded.vault_len <= BENCH_VAULT_LEN /\ loaded.proc_len <= PROC_VAULT_LEN

\* The rows are figures of the artifact, in order, and all that was measured.
RowsMeasured ==
  /\ rows \in Seq(RowType)
  /\ \A k \in 1 .. Len(rows) :
       /\ rows[k].disc = k - 1 /\ Reported(loaded, k - 1)
       /\ \E off \in loaded.jitter[k - 1] :
            /\ rows[k].whole = Whole(loaded, k - 1, off)
            /\ rows[k].bracketed = Bracket(loaded, k - 1, off)
FirstRunMeasured ==
  first_run # None =>
    /\ Len(rows) < 22 /\ Reported(loaded, Len(rows))
    /\ \E off \in loaded.jitter[Len(rows)] :
         first_run = <<Whole(loaded, Len(rows), off), Bracket(loaded, Len(rows), off)>>
AllSeen ==
  /\ \A m \in seen :
       \/ \E k \in 1 .. Len(rows) : m = <<rows[k].disc, rows[k].whole, rows[k].bracketed>>
       \/ first_run # None /\ m = <<Len(rows), first_run[1], first_run[2]>>
  /\ \A k \in 1 .. Len(rows) : <<rows[k].disc, rows[k].whole, rows[k].bracketed>> \in seen

\* The deltas are against the last row; the first file holds the rows.
NetsTaken ==
  pc \in {"out_dir", "md", "csv"} =>
    /\ overhead \in Nat /\ overhead = rows[22].bracketed
    /\ \A k \in 1 .. Len(rows) :
         rows[k].net = IF rows[k].bracketed = None THEN None
                       ELSE saturating_sub(rows[k].bracketed, overhead)
Written == pc = "csv" => md = [overhead |-> overhead, rows |-> rows]

IInv ==
  /\ TypeOK /\ Held /\ Bootstrapped /\ RowsMeasured /\ FirstRunMeasured
  /\ AllSeen /\ NetsTaken /\ Written

-----------------------------------------------------------------------------
(***************************************************************************)
(* What the instructions of the report do to their fixtures.               *)
(***************************************************************************)

\* The rows of the report.
LEMMA Specs ==
  /\ DOMAIN SPECS = 1 .. 22 /\ Len(SPECS) = 22
  /\ \A d \in 0 .. 21 :
       /\ SPECS[d + 1].disc = d
       /\ SPECS[d + 1].fixture = CASE d = 4 -> "VaultTwice"
                                   [] d \in {19, 20} -> "ProcVault"
                                   [] d \in {9, 21} -> "None"
                                   [] OTHER -> "Vault"
       /\ SPECS[d + 1].extra_data = IF d = 19 THEN <<PROC_DEPOSIT_AMOUNT>> ELSE <<>>
<1>1. DOMAIN SPECS = 1 .. 22
  BY DEF SPECS
<1>2. Len(SPECS) = 22
  BY <1>1 DEF SPECS
<1>3. ASSUME NEW d \in 0 .. 21
      PROVE  /\ d + 1 \in 1 .. 22 /\ (d + 1) - 1 = d
  OBVIOUS
<1> QED BY <1>1, <1>2, <1>3 DEF SPECS

\* The instruction of a row.
Ix(d) == instruction(SPECS[d + 1].disc, SPECS[d + 1].extra_data, metas(SPECS[d + 1].fixture))

LEMMA IxOf ==
  ASSUME NEW d \in 0 .. 21
  PROVE  /\ Ix(d).data[1] = d /\ Ix(d).data # <<>>
         /\ d = 19 => Len(Ix(d).data) = 2 /\ Ix(d).data[2] = PROC_DEPOSIT_AMOUNT
         /\ Ix(d).signers = Keys /\ Ix(d).writable = Keys
         /\ d = 4 => Ix(d).accounts = <<VAULT_ADDRESS, VAULT_ADDRESS>>
         /\ d \in {19, 20} => Ix(d).accounts = <<PROC_VAULT_ADDRESS>>
         /\ d \notin {4, 9, 19, 20, 21} => Ix(d).accounts = <<VAULT_ADDRESS>>
<1>1. Ix(d).signers = Keys /\ Ix(d).writable = Keys
      /\ Ix(d).accounts = metas(SPECS[d + 1].fixture)
  BY DEF Ix, instruction
<1>2. /\ Ix(d).data[1] = d /\ Ix(d).data # <<>>
      /\ d = 19 => Len(Ix(d).data) = 2 /\ Ix(d).data[2] = PROC_DEPOSIT_AMOUNT
  <2> DEFINE extra == IF d = 19 THEN <<PROC_DEPOSIT_AMOUNT>> ELSE <<>>
  <2>1. Ix(d).data = <<d>> \o extra
    BY Specs DEF Ix, instruction
  <2>2. <<d>> \in Seq(Nat) /\ extra \in Seq(Nat) /\ Len(<<d>>) = 1 /\ <<d>>[1] = d
    BY DEF PROC_DEPOSIT_AMOUNT
  <2>3. d = 19 => Len(extra) = 1 /\ extra[1] = PROC_DEPOSIT_AMOUNT
    OBVIOUS
  <2> HIDE DEF extra
  <2> DEFINE data == <<d>> \o extra
  <2>4. Len(data) = 1 + Len(extra) /\ Len(extra) \in Nat /\ data[1] = d
    BY <2>2
  <2>5. d = 19 => data[2] = extra[1]
    BY <2>2, <2>3
  <2>6. data # <<>>
    BY <2>4
  <2> HIDE DEF data
  <2> QED BY <2>1, <2>3, <2>4, <2>5, <2>6 DEF data
<1>3. d = 4 => metas(SPECS[d + 1].fixture) = <<VAULT_ADDRESS, VAULT_ADDRESS>>
  <2>1. d = 4 => SPECS[d + 1].fixture = "VaultTwice"
    BY Specs
  <2> QED BY <2>1 DEF metas
<1>4. d \in {19, 20} => metas(SPECS[d + 1].fixture) = <<PROC_VAULT_ADDRESS>>
  <2>1. d \in {19, 20} => SPECS[d + 1].fixture = "ProcVault"
    BY Specs
  <2> QED BY <2>1 DEF metas
<1>5. d \notin {4, 9, 19, 20, 21} => metas(SPECS[d + 1].fixture) = <<VAULT_ADDRESS>>
  <2>1. d \notin {4, 9, 19, 20, 21} => SPECS[d + 1].fixture = "Vault"
    BY Specs
  <2> QED BY <2>1 DEF metas
<1> QED BY <1>1, <1>2, <1>3, <1>4, <1>5

\* The accounts as the runner hands them over.
Prepared(p, b) ==
  /\ b[VAULT_ADDRESS] = BootVault /\ b[PROC_VAULT_ADDRESS] = BootProcVault
  /\ p.vault_len <= BENCH_VAULT_LEN /\ p.proc_len <= PROC_VAULT_LEN

LEMMA BootAccounts ==
  /\ BootVault.ours /\ BootVault.len = BENCH_VAULT_LEN /\ BootVault.layout = "BenchVault"
  /\ BootProcVault.ours /\ BootProcVault.len = PROC_VAULT_LEN
  /\ BootProcVault.layout = "ProcBenchVault" /\ BootProcVault.proc_balance = 0
  /\ BootVault \in AccountType /\ BootProcVault \in AccountType
<1>1. /\ BootVault = [ours |-> TRUE, len |-> BENCH_VAULT_LEN, layout |-> "BenchVault",
                      vault_balance |-> 0, proc_balance |-> 0]
      /\ BootProcVault = [ours |-> TRUE, len |-> PROC_VAULT_LEN, layout |-> "ProcBenchVault",
                          vault_balance |-> 0, proc_balance |-> 0]
  <2>1. ASSUME NEW n, NEW l
        PROVE  [fixture_account(n) EXCEPT !.layout = l]
                 = [ours |-> TRUE, len |-> n, layout |-> l, vault_balance |-> 0, proc_balance |-> 0]
    <3>1. \A ours : [[ours |-> ours, len |-> n, layout |-> "none",
                       vault_balance |-> 0, proc_balance |-> 0] EXCEPT !.layout = l]
                       = [ours |-> ours, len |-> n, layout |-> l,
                          vault_balance |-> 0, proc_balance |-> 0]
      OBVIOUS
    <3> QED BY <3>1 DEF fixture_account
  <2> QED BY <2>1 DEF BootVault, BootProcVault
<1>2. /\ BENCH_VAULT_LEN \in Nat /\ PROC_VAULT_LEN \in Nat /\ 0 \in U64
      /\ "BenchVault" \in Layouts /\ "ProcBenchVault" \in Layouts
  BY PrimitiveBenchAssumption, HopperBenchAssumption DEF Layouts
<1>3. BootVault \in AccountType /\ BootProcVault \in AccountType
  BY <1>1, <1>2 DEF AccountType
<1> QED BY <1>1, <1>3

\* What an instruction's own checks find there.
LEMMA ChecksPass ==
  ASSUME NEW p, NEW b, NEW ix, ix.signers = Keys, ix.writable = Keys,
         Prepared(p, b)
  PROVE  /\ ix.accounts = <<VAULT_ADDRESS>> =>
              /\ check_signer(ix) /\ check_writable(ix) /\ check_owner(b, ix)
              /\ fits(p, b, ix) /\ has_header(b, ix) /\ load(p, b, ix)
              /\ ix.accounts # <<>>
         /\ ix.accounts = <<PROC_VAULT_ADDRESS>> =>
              /\ check_writable(ix) /\ check_owner(b, ix) /\ fits_proc(p, b, ix)
              /\ b[first(ix)] = BootProcVault
              /\ ix.accounts # <<>>
<1>1. CASE ix.accounts = <<VAULT_ADDRESS>>
  <2>1. first(ix) = VAULT_ADDRESS /\ ix.accounts # <<>>
    BY <1>1 DEF first
  <2>2. b[first(ix)] = BootVault /\ first(ix) \in Keys
    BY <2>1, PrimitiveBenchAssumption DEF Prepared
  <2>3. ix.accounts # <<PROC_VAULT_ADDRESS>>
    BY <1>1, PrimitiveBenchAssumption
  <2> QED BY <2>1, <2>2, <2>3, BootAccounts
          DEF Prepared, check_signer, check_writable, check_owner, fits, has_header, load
<1>2. CASE ix.accounts = <<PROC_VAULT_ADDRESS>>
  <2>1. first(ix) = PROC_VAULT_ADDRESS /\ ix.accounts # <<>>
    BY <1>2 DEF first
  <2>2. b[first(ix)] = BootProcVault /\ first(ix) \in Keys
    BY <2>1, PrimitiveBenchAssumption DEF Prepared
  <2>3. ix.accounts # <<VAULT_ADDRESS>>
    BY <1>2, PrimitiveBenchAssumption
  <2> QED BY <2>1, <2>2, <2>3, BootAccounts
          DEF Prepared, check_writable, check_owner, fits_proc
<1> QED BY <1>1, <1>2

\* An outcome of an instruction that is measured.
Works(o, count) == o.err = "Ok" /\ o.lines = count

LEMMA BracketedWorks ==
  ASSUME NEW b, NEW after
  PROVE  Works(Bracketed(b, "Ok", after), 2)
BY DEF Works, Bracketed

\* On its fixture every instruction works: no check of it fails there, in or
\* outside the bracket.
LEMMA RowWorks ==
  ASSUME NEW p, NEW b, NEW d \in 0 .. 21, Prepared(p, b)
  PROVE  Works(process_instruction(p, b, Ix(d)), IF d = 20 THEN 0 ELSE 2)
<1> DEFINE ix == Ix(d)
           o == process_instruction(p, b, ix)
<1>0. ix.data[1] = d /\ ix.data # <<>> /\ ix.signers = Keys /\ ix.writable = Keys
  BY IxOf
<1>1. CASE d \notin {4, 9, 19, 20, 21}
  <2>1. /\ check_signer(ix) /\ check_writable(ix) /\ check_owner(b, ix)
        /\ fits(p, b, ix) /\ has_header(b, ix) /\ load(p, b, ix) /\ ix.accounts # <<>>
    <3>1. ix.accounts = <<VAULT_ADDRESS>>
      BY <1>1, IxOf
    <3> HIDE DEF ix
    <3> QED BY <1>0, <3>1, ChecksPass
  <2> HIDE DEF ix
  <2> USE <1>0, <2>1, BracketedWorks DEF WithFirst, Require
  <2>2. o = process_instruction(p, b, ix)
    OBVIOUS
  <2> HIDE DEF o
  <2>3. d = 0 => Works(o, 2)
    BY <2>2 DEF process_instruction, bench_check_signer
  <2>4. d = 1 => Works(o, 2)
    BY <2>2 DEF process_instruction, bench_check_writable
  <2>5. d = 2 => Works(o, 2)
    BY <2>2 DEF process_instruction, bench_check_owner
  <2>6. d = 3 => Works(o, 2)
    BY <2>2 DEF process_instruction, bench_check_account_tier1
  <2>7. d = 5 => Works(o, 2)
    BY <2>2 DEF process_instruction, bench_overlay
  <2>8. d = 6 => Works(o, 2)
    BY <2>2 DEF process_instruction, bench_write_header
  <2>9. d = 7 => Works(o, 2)
    BY <2>2 DEF process_instruction, bench_zero_init
  <2>10. d = 8 => Works(o, 2)
    BY <2>2 DEF process_instruction, bench_check_account_fast
  <2>11. d = 10 => Works(o, 2)
    BY <2>2 DEF process_instruction, bench_trust_strict_load
  <2>12. d = 11 => Works(o, 2)
    BY <2>2 DEF process_instruction, bench_pod_from_bytes
  <2>13. d = 12 => Works(o, 2)
    BY <2>2 DEF process_instruction, bench_receipt
  <2>14. d = 13 => Works(o, 2)
    BY <2>2 DEF process_instruction, bench_fingerprint_check
  <2>15. d = 14 => Works(o, 2)
    BY <2>2 DEF process_instruction, bench_state_diff
  <2>16. d = 15 => Works(o, 2)
    BY <2>2 DEF process_instruction, bench_overlay_mut_field_set
  <2>17. d = 16 => Works(o, 2)
    BY <2>2 DEF process_instruction, bench_raw_cast_baseline
  <2>18. d = 17 => Works(o, 2)
    BY <2>2 DEF process_instruction, bench_receipt_full
  <2>19. d = 18 => Works(o, 2)
    BY <2>2 DEF process_instruction, bench_receipt_emit
  <2>20. \/ d \in {0, 1, 2, 3, 5} \/ d \in {6, 7, 8, 10, 11}
        \/ d \in {12, 13, 14, 15, 16, 17, 18}
    BY <1>1
  <2>21. Works(o, 2)
    BY <2>3, <2>4, <2>5, <2>6, <2>7, <2>8, <2>9, <2>10, <2>11, <2>12,
       <2>13, <2>14, <2>15, <2>16, <2>17, <2>18, <2>19, <2>20
  <2> QED BY <1>1, <2>21 DEF ix, o
<1>2. CASE d = 4
  <2>1. ix.accounts = <<VAULT_ADDRESS, VAULT_ADDRESS>>
    BY <1>2, IxOf
  <2>2. Len(ix.accounts) = 2 /\ ix.accounts[1] = ix.accounts[2]
    BY <2>1
  <2> HIDE DEF ix
  <2>3. Works(bench_check_keys_eq(b, ix), 2)
    BY <2>2, BracketedWorks DEF bench_check_keys_eq, Require
  <2>4. o = bench_check_keys_eq(b, ix)
    BY <1>0, <1>2 DEF process_instruction
  <2> QED BY <1>2, <2>3, <2>4 DEF ix
<1>3. CASE d \in {9, 21}
  <2> HIDE DEF ix
  <2>1. Works(o, 2)
    BY <1>0, <1>3, BracketedWorks DEF process_instruction, bench_emit_event,
                                      bench_measurement_overhead
  <2> QED BY <1>3, <2>1 DEF ix
<1>4. CASE d = 19
  <2>1. ix.accounts = <<PROC_VAULT_ADDRESS>> /\ Len(ix.data) = 2
        /\ ix.data[2] = PROC_DEPOSIT_AMOUNT
    BY <1>4, IxOf
  <2>2. /\ check_writable(ix) /\ check_owner(b, ix) /\ fits_proc(p, b, ix)
        /\ b[first(ix)] = BootProcVault /\ ix.accounts # <<>>
    <3> HIDE DEF ix
    <3> QED BY <1>0, <2>1, ChecksPass
  <2> HIDE DEF ix
  <2>3. ProcBenchDeposit(p, b, ix)
    BY <2>1, <2>2, BootAccounts DEF ProcBenchDeposit
  <2>4. typed_deposit_error(b, ix) = "Ok"
    <3>1. b[first(ix)].proc_balance + ix.data[2] <= MaxU64
      BY <2>1, <2>2, BootAccounts, DepositAssumption DEF PROC_DEPOSIT_AMOUNT
    <3> QED BY <3>1 DEF typed_deposit_error, Require
  <2>5. o = bench_proc_macro_typed_dispatch(p, b, ix)
    BY <1>0, <1>4 DEF process_instruction
  <2>6. Works(o, 2)
    BY <2>3, <2>4, <2>5, BracketedWorks DEF bench_proc_macro_typed_dispatch
  <2> QED BY <1>4, <2>6 DEF ix
<1>5. CASE d = 20
  <2>1. check_writable(ix) /\ check_owner(b, ix) /\ fits_proc(p, b, ix) /\ ix.accounts # <<>>
    <3>1. ix.accounts = <<PROC_VAULT_ADDRESS>>
      BY <1>5, IxOf
    <3> HIDE DEF ix
    <3> QED BY <1>0, <3>1, ChecksPass
  <2> HIDE DEF ix
  <2>2. o = bench_write_proc_header(p, b, ix)
    BY <1>0, <1>5 DEF process_instruction
  <2>3. Works(o, 0)
    BY <2>1, <2>2 DEF bench_write_proc_header, WithFirst, Unlogged, Works
  <2> QED BY <1>5, <2>3 DEF ix
<1> QED BY <1>1, <1>2, <1>3, <1>4, <1>5

\* The header-writing instructions on a zeroed fixture.
LEMMA BootInstruction ==
  ASSUME NEW n \in {6, 20}, NEW a
  PROVE  LET ix == instruction(n, <<>>, <<a>>) IN
         /\ ix.data[1] = n /\ ix.data # <<>> /\ ix.accounts # <<>> /\ first(ix) = a
         /\ ix.writable = Keys
<1>1. <<n>> \in Seq(Nat) /\ Len(<<n>>) = 1 /\ <<n>>[1] = n
  OBVIOUS
<1>2. <<n>> \o <<>> = <<n>>
  BY <1>1, ConcatEmptySeq
<1> QED BY <1>1, <1>2 DEF instruction, first

LEMMA Boots ==
  LET vault == bootstrap_data(6, VAULT_ADDRESS, BENCH_VAULT_LEN)
      proc_vault == bootstrap_data(20, PROC_VAULT_ADDRESS, PROC_VAULT_LEN)
  IN /\ vault.err = "Ok" <=> 6 \notin loaded.missing /\ BENCH_VAULT_LEN >= loaded.vault_len
     /\ vault.err = "Ok" => vault.bank[VAULT_ADDRESS] = BootVault
     /\ proc_vault.err = "Ok" <=> 20 \notin loaded.missing /\ PROC_VAULT_LEN >= loaded.proc_len
     /\ proc_vault.err = "Ok" => proc_vault.bank[PROC_VAULT_ADDRESS] = BootProcVault
<1> DEFINE b(n) == [k \in Keys |-> fixture_account(n)]
           ix(n, a) == instruction(n, <<>>, <<a>>)
           vault == process(b(BENCH_VAULT_LEN), ix(6, VAULT_ADDRESS))
           proc_vault == process(b(PROC_VAULT_LEN), ix(20, PROC_VAULT_ADDRESS))
<1>1. /\ vault = bootstrap_data(6, VAULT_ADDRESS, BENCH_VAULT_LEN)
      /\ proc_vault = bootstrap_data(20, PROC_VAULT_ADDRESS, PROC_VAULT_LEN)
  BY DEF bootstrap_data
<1>2. ASSUME NEW n \in {6, 20}, NEW a \in Keys
      PROVE  /\ ix(n, a).data[1] = n /\ ix(n, a).data # <<>> /\ ix(n, a).accounts # <<>>
             /\ first(ix(n, a)) = a /\ ix(n, a).writable = Keys
  BY BootInstruction
<1>3. \A n, a : a \in Keys => b(n)[a] = fixture_account(n)
  OBVIOUS
<1>4. \A n, l : \A a \in Keys :
        [b(n) EXCEPT ![a].layout = l][a] = [fixture_account(n) EXCEPT !.layout = l]
  <2> SUFFICES ASSUME NEW n, NEW l, NEW a \in Keys
               PROVE [b(n) EXCEPT ![a].layout = l][a] = [fixture_account(n) EXCEPT !.layout = l]
    OBVIOUS
  <2> DEFINE account == fixture_account(n)
             g == [k \in Keys |-> account]
  <2>1. [g EXCEPT ![a].layout = l][a] = [account EXCEPT !.layout = l]
    <3> HIDE DEF account
    <3> QED OBVIOUS
  <2> QED BY <2>1
<1>5. \A n : fixture_account(n).ours /\ fixture_account(n).len = n
  BY DEF fixture_account
<1> HIDE DEF b, ix
<1>6. /\ vault.err = "Ok" <=> 6 \notin loaded.missing /\ BENCH_VAULT_LEN >= loaded.vault_len
      /\ vault.err = "Ok" => vault.bank[VAULT_ADDRESS] = BootVault
  <2> DEFINE bb == b(BENCH_VAULT_LEN)
             ii == ix(6, VAULT_ADDRESS)
  <2>1. /\ ii.data[1] = 6 /\ ii.data # <<>> /\ ii.accounts # <<>> /\ first(ii) = VAULT_ADDRESS
        /\ check_owner(bb, ii) /\ check_writable(ii)
        /\ fits(loaded, bb, ii) <=> BENCH_VAULT_LEN >= loaded.vault_len
    BY <1>2, <1>3, <1>5, PrimitiveBenchAssumption DEF check_owner, check_writable, fits
  <2>2. WriteHeader(bb, ii, "BenchVault")[VAULT_ADDRESS] = BootVault
    <3>1. WriteHeader(bb, ii, "BenchVault") = [bb EXCEPT ![VAULT_ADDRESS].layout = "BenchVault"]
      <4> HIDE DEF bb, ii
      <4> QED BY <2>1 DEF WriteHeader
    <3>2. VAULT_ADDRESS \in Keys
      BY PrimitiveBenchAssumption
    <3>3. [bb EXCEPT ![VAULT_ADDRESS].layout = "BenchVault"][VAULT_ADDRESS] = BootVault
      BY <1>4, <3>2 DEF BootVault
    <3> QED BY <3>1, <3>3
  <2> HIDE DEF bb, ii
  <2>3. CASE 6 \in loaded.missing
    BY <2>1, <2>3 DEF process, Unlogged, bb, ii
  <2>4. CASE 6 \notin loaded.missing
    <3>1. vault = process_instruction(loaded, bb, ii)
      BY <2>1, <2>4 DEF process, bb, ii
    <3> HIDE DEF vault
    <3>2. process_instruction(loaded, bb, ii) = bench_write_header(loaded, bb, ii)
      BY <2>1 DEF process_instruction
    <3> QED BY <2>1, <2>2, <2>4, <3>1, <3>2 DEF bench_write_header, WithFirst, Bracketed, HalfLogged,
                                          Require
  <2> QED BY <2>3, <2>4
<1>7. /\ proc_vault.err = "Ok" <=> 20 \notin loaded.missing /\ PROC_VAULT_LEN >= loaded.proc_len
      /\ proc_vault.err = "Ok" => proc_vault.bank[PROC_VAULT_ADDRESS] = BootProcVault
  <2> DEFINE bb == b(PROC_VAULT_LEN)
             ii == ix(20, PROC_VAULT_ADDRESS)
  <2>1. /\ ii.data[1] = 20 /\ ii.data # <<>> /\ ii.accounts # <<>>
        /\ first(ii) = PROC_VAULT_ADDRESS
        /\ check_owner(bb, ii) /\ check_writable(ii)
        /\ fits_proc(loaded, bb, ii) <=> PROC_VAULT_LEN >= loaded.proc_len
    BY <1>2, <1>3, <1>5, PrimitiveBenchAssumption DEF check_owner, check_writable, fits_proc
  <2>2. WriteHeader(bb, ii, "ProcBenchVault")[PROC_VAULT_ADDRESS] = BootProcVault
    <3>1. WriteHeader(bb, ii, "ProcBenchVault")
            = [bb EXCEPT ![PROC_VAULT_ADDRESS].layout = "ProcBenchVault"]
      <4> HIDE DEF bb, ii
      <4> QED BY <2>1 DEF WriteHeader
    <3>2. PROC_VAULT_ADDRESS \in Keys
      BY PrimitiveBenchAssumption
    <3>3. [bb EXCEPT ![PROC_VAULT_ADDRESS].layout = "ProcBenchVault"][PROC_VAULT_ADDRESS]
            = BootProcVault
      BY <1>4, <3>2 DEF BootProcVault
    <3> QED BY <3>1, <3>3
  <2> HIDE DEF bb, ii
  <2>3. CASE 20 \in loaded.missing
    BY <2>1, <2>3 DEF process, Unlogged, bb, ii
  <2>4. CASE 20 \notin loaded.missing
    <3>1. proc_vault = process_instruction(loaded, bb, ii)
      BY <2>1, <2>4 DEF process, bb, ii
    <3> HIDE DEF proc_vault
    <3>2. process_instruction(loaded, bb, ii) = bench_write_proc_header(loaded, bb, ii)
      BY <2>1 DEF process_instruction
    <3> QED BY <2>1, <2>2, <2>4, <3>1, <3>2 DEF bench_write_proc_header, WithFirst, Unlogged
  <2> QED BY <2>3, <2>4
<1> HIDE DEF vault, proc_vault
<1> QED BY <1>1, <1>6, <1>7

\* The lines of an instruction, and what is read from them.
LEMMA LinesAre ==
  ASSUME NEW n \in 0 .. 3, NEW between \in 0 .. Budget
  PROVE  /\ NewCollector \o Lines(n, between) = Lines(n, between)
         /\ Len(Lines(n, between)) = n
         /\ \A k \in DOMAIN Lines(n, between) : Lines(n, between)[k] \in 0 .. Budget
         /\ n >= 2 => Lines(n, between)[1] = Budget /\ Lines(n, between)[2] = Budget - between
<1> DEFINE s == <<Budget, Budget - between, Budget - between>>
           l == SubSeq(s, 1, n)
<1>1. Budget \in 0 .. Budget /\ Budget - between \in 0 .. Budget
  BY PrimitiveBenchAssumption
<1>2. s[1] = Budget /\ s[2] = Budget - between /\ \A i \in 1 .. 3 : s[i] \in 0 .. Budget
  <2>1. s[1] = Budget /\ s[2] = Budget - between /\ s[3] = Budget - between
    OBVIOUS
  <2> HIDE DEF s
  <2>2. \A i \in 1 .. 3 : i = 1 \/ i = 2 \/ i = 3
    OBVIOUS
  <2> QED BY <1>1, <2>1, <2>2
<1> HIDE DEF s
<1>3. l \in Seq(0 .. Budget) /\ Len(l) = n /\ \A k \in 1 .. n : l[k] = s[k]
  <2> DEFINE R == 0 .. Budget
  <2>1. n \in Int /\ 1 \in Int
    OBVIOUS
  <2>2. \A i \in 1 .. n : s[i] \in R
    <3>1. \A i \in 1 .. n : i \in 1 .. 3
      OBVIOUS
    <3> QED BY <1>2, <3>1
  <2> HIDE DEF R
  <2>3. /\ l \in Seq(R) /\ Len(l) = IF 1 <= n THEN n - 1 + 1 ELSE 0
        /\ \A i \in 1 .. n - 1 + 1 : l[i] = s[1 + i - 1]
    BY <2>1, <2>2, SubSeqProperties
  <2> HIDE DEF l
  <2>4. Len(l) = n
    BY <2>3
  <2>5. \A k \in 1 .. n : k \in 1 .. n - 1 + 1 /\ 1 + k - 1 = k
    OBVIOUS
  <2> QED BY <2>3, <2>4, <2>5 DEF R
<1> HIDE DEF l
<1>4. <<>> \o l = l
  BY <1>3, ConcatEmptySeq
<1>5. \A k \in DOMAIN l : l[k] \in 0 .. Budget
  <2> DEFINE R == 0 .. Budget
  <2>1. l \in Seq(R)
    BY <1>3
  <2> HIDE DEF R
  <2>2. \A k \in DOMAIN l : l[k] \in R
    BY <2>1
  <2> QED BY <2>2 DEF R
<1>6. Lines(n, between) = l
  BY DEF Lines, l, s
<1> QED BY <1>2, <1>3, <1>4, <1>5, <1>6 DEF NewCollector

LEMMA DeltaOf ==
  ASSUME NEW n \in 0 .. 3, NEW between \in 0 .. Budget
  PROVE  LET r == bracketed_delta(Lines(n, between)) IN
         /\ r.err = IF n \in {0, 2} THEN "Ok" ELSE "bracket"
         /\ n = 0 => r.delta = None
         /\ n = 2 => r.delta = between
<1> DEFINE l == Lines(n, between)
<1>1. /\ Len(l) = n
      /\ n >= 2 => l[1] = Budget /\ l[2] = Budget - between
      /\ l = <<>> <=> n = 0
  <2>1. /\ Len(l) = n
        /\ n >= 2 => l[1] = Budget /\ l[2] = Budget - between
    BY LinesAre
  <2>2. l = <<>> => n = 0
    <3> HIDE DEF l
    <3> QED BY <2>1
  <2>3. n = 0 => l = <<>>
    BY DEF Lines
  <2> QED BY <2>1, <2>2, <2>3
<1> HIDE DEF l
<1>2. n = 2 => l[1] >= l[2] /\ l[1] - l[2] = between
  <2>1. Budget \in Nat /\ between \in Nat /\ between <= Budget
    BY PrimitiveBenchAssumption
  <2>2. Budget >= Budget - between /\ Budget - (Budget - between) = between
    BY <2>1
  <2> QED BY <1>1, <2>2
<1>3. LET r == bracketed_delta(l) IN
      /\ r.err = IF n \in {0, 2} THEN "Ok" ELSE "bracket"
      /\ n = 0 => r.delta = None
      /\ n = 2 => r.delta = between
  BY <1>1, <1>2 DEF bracketed_delta
<1> QED BY <1>3 DEF l

\* What the invariant says of a row about to be measured.
LEMMA AtRow ==
  ASSUME IInv, pc = "measure", Len(rows) < 22
  PROVE  /\ Len(rows) \in 0 .. 21 /\ spec = SPECS[Len(rows) + 1] /\ spec.disc = Len(rows)
         /\ loaded \in Artifacts /\ Prepared(loaded, Fixtures)
<1>1. Len(rows) \in 0 .. 21
  <2>1. rows \in Seq(RowType)
    BY DEF IInv, RowsMeasured
  <2>2. Len(rows) \in Nat /\ Len(rows) < 22
    BY <2>1
  <2>3. \A n \in Nat : n < 22 => n \in 0 .. 21
    OBVIOUS
  <2> QED BY <2>2, <2>3
<1>2. spec = SPECS[Len(rows) + 1] /\ spec.disc = Len(rows)
  BY <1>1, Specs DEF spec
<1>3. loaded \in Artifacts
  BY DEF IInv, Held
<1>4. Fixtures[VAULT_ADDRESS] = vault_data /\ Fixtures[PROC_VAULT_ADDRESS] = proc_vault_data
  BY PrimitiveBenchAssumption DEF Fixtures
<1>5. Prepared(loaded, Fixtures)
  BY <1>4 DEF IInv, Bootstrapped, Prepared
<1> QED BY <1>1, <1>2, <1>3, <1>5

\* One run of an instruction: it says what the artifact does, or that it cannot be
\* reported.
LEMMA RunOf ==
  ASSUME IInv, pc = "measure", Len(rows) < 22, NEW m \in run_disc
  PROVE  /\ m.err \in {"Ok", "disc", "bracket"}
         /\ m.err = "Ok" <=> Reported(loaded, Len(rows))
         /\ m.err = "Ok" =>
              /\ \E off \in loaded.jitter[Len(rows)] :
                   /\ m.whole = Whole(loaded, Len(rows), off)
                   /\ m.bracketed = Bracket(loaded, Len(rows), off)
              /\ Len(m.lines) <= 2 /\ \A k \in DOMAIN m.lines : m.lines[k] \in 0 .. Budget
<1> DEFINE d == Len(rows)
           o == process(Fixtures, Ix(d))
<1>1. /\ d \in 0 .. 21 /\ spec = SPECS[d + 1] /\ spec.disc = d
      /\ loaded \in Artifacts /\ Prepared(loaded, Fixtures)
  BY AtRow
<1> HIDE DEF d
<1>2. instruction(spec.disc, spec.extra_data, metas(spec.fixture)) = Ix(d)
  BY <1>1 DEF Ix
<1>3. PICK off \in loaded.jitter[d] : m = Measured(o, off)
  BY <1>1, <1>2 DEF run_disc
<1> DEFINE n == LinesOf(loaded, d)
           between == LogCost + loaded.inside[d] + off.bracket
           read == bracketed_delta(Lines(n, between))
<1>4. Ix(d).data[1] = d
  BY <1>1, IxOf
<1>5. CASE d \in loaded.missing
  <2>1. o.err = "InvalidInstructionData"
    BY <1>4, <1>5 DEF process, Unlogged
  <2>2. m.err = "disc"
    <3> HIDE DEF o
    <3> QED BY <1>3, <2>1 DEF Measured
  <2> QED BY <1>5, <2>2 DEF Reported, d
<1>6. CASE d \notin loaded.missing
  <2>1. o = process_instruction(loaded, Fixtures, Ix(d))
    BY <1>4, <1>6 DEF process
  <2>2. o.err = "Ok" /\ o.lines = IF d = 20 THEN 0 ELSE 2
    <3>1. Works(process_instruction(loaded, Fixtures, Ix(d)), IF d = 20 THEN 0 ELSE 2)
      BY <1>1, RowWorks
    <3> HIDE DEF o
    <3> QED BY <2>1, <3>1 DEF Works
  <2> HIDE DEF o
  <2>3. Logged(o, d) = n
    BY <2>2 DEF Logged, LinesOf
  <2>4. n \in 0 .. 3
    <3>1. d \in DOMAIN loaded.odd => loaded.odd[d] \in 0 .. 3
      BY <1>1, ArtifactAssumption
    <3> QED BY <3>1 DEF LinesOf
  <2>5. between \in 0 .. Budget
    <3>1. /\ LogCost \in Nat /\ loaded.inside[d] \in Nat /\ off.bracket \in Nat /\ Budget \in Nat
          /\ LogCost + loaded.inside[d] + off.bracket <= Budget
      BY <1>1, ArtifactAssumption, PrimitiveBenchAssumption
    <3> QED BY <3>1
  <2> HIDE DEF n, between
  <2>6. NewCollector \o Lines(n, between) = Lines(n, between)
    BY <2>4, <2>5, LinesAre
  <2>7. m = [err |-> read.err, whole |-> loaded.inside[d] + n * LogCost + off.whole,
             bracketed |-> read.delta, lines |-> Lines(n, between)]
    BY <1>1, <1>3, <2>2, <2>3, <2>6 DEF Measured, between
  <2>8. /\ read.err = IF n \in {0, 2} THEN "Ok" ELSE "bracket"
        /\ n = 0 => read.delta = None
        /\ n = 2 => read.delta = between
    BY <2>4, <2>5, DeltaOf
  <2>9. /\ Len(Lines(n, between)) = n
        /\ \A k \in DOMAIN Lines(n, between) : Lines(n, between)[k] \in 0 .. Budget
    BY <2>4, <2>5, LinesAre
  <2> HIDE DEF read
  <2>10. /\ m.err = read.err /\ m.bracketed = read.delta /\ m.lines = Lines(n, between)
         /\ m.whole = loaded.inside[d] + n * LogCost + off.whole
    BY <2>7
  <2>11. m.err = "Ok" <=> Reported(loaded, d)
    BY <1>6, <2>8, <2>10 DEF Reported, n
  <2>12. m.err = "Ok" => n = 0 \/ n = 2
    BY <2>8, <2>10
  <2>13. m.err = "Ok" => Len(m.lines) <= 2
    BY <2>9, <2>10, <2>12
  <2>14. m.whole = Whole(loaded, d, off)
    BY <2>10 DEF Whole, n
  <2>15. m.err = "Ok" => m.bracketed = Bracket(loaded, d, off)
    BY <2>8, <2>10, <2>12 DEF Bracket, n, between
  <2> QED BY <2>8, <2>9, <2>10, <2>11, <2>13, <2>14, <2>15 DEF d
<1> QED BY <1>5, <1>6
-----------------------------------------------------------------------------
(***************************************************************************)
(* Every action of the runner keeps it.                                    *)
(***************************************************************************)

\* A runner at rest holds nothing.
LEMMA RestIsFine ==
  /\ Len(<<>>) = 0 /\ DOMAIN <<>> = {} /\ <<>> \in Seq(RowType)
OBVIOUS

LEMMA Starts == Init => IInv
<1> SUFFICES ASSUME Init PROVE IInv
  OBVIOUS
<1>1. /\ disk \in Artifacts \cup {None} /\ pc = "idle" /\ exit = "ok" /\ runs = 0
      /\ loaded = None /\ vault_data = None /\ proc_vault_data = None /\ logger = <<>>
      /\ first_run = None /\ rows = <<>> /\ overhead = None /\ seen = {}
  BY DEF Init, AtRest
<1>2. TypeOK
  BY <1>1, RestIsFine, Specs, PrimitiveBenchAssumption DEF TypeOK, Stages
<1>3. Held /\ Bootstrapped /\ NetsTaken /\ Written
  BY <1>1 DEF Held, Bootstrapped, NetsTaken, Written
<1>4. RowsMeasured /\ FirstRunMeasured /\ AllSeen
  BY <1>1, RestIsFine DEF RowsMeasured, FirstRunMeasured, AllSeen
<1> QED BY <1>2, <1>3, <1>4 DEF IInv

LEMMA EndKeeps ==
  ASSUME IInv, NEW how, how # "running", End(how)
  PROVE  IInv'
<1>1. /\ exit' = how /\ pc' = "idle" /\ disk' = disk /\ runs' = runs
      /\ loaded' = None /\ vault_data' = None /\ proc_vault_data' = None /\ logger' = <<>>
      /\ first_run' = None /\ rows' = <<>> /\ overhead' = None /\ seen' = {}
  BY DEF End
<1>2. TypeOK'
  <2>1. disk \in Artifacts \cup {None} /\ runs \in 0 .. MaxRuns
    BY DEF IInv, TypeOK
  <2> QED BY <1>1, <2>1, RestIsFine, Specs DEF TypeOK, Stages
<1>3. Held' /\ Bootstrapped' /\ NetsTaken' /\ Written'
  BY <1>1 DEF Held, Bootstrapped, NetsTaken, Written
<1>4. RowsMeasured' /\ FirstRunMeasured' /\ AllSeen'
  BY <1>1, RestIsFine DEF RowsMeasured, FirstRunMeasured, AllSeen
<1> QED BY <1>2, <1>3, <1>4 DEF IInv

LEMMA FailKeeps ==
  ASSUME IInv, NEW where, where # "running", Fail(where)
  PROVE  IInv'
BY EndKeeps DEF Fail

\* Nothing the run holds depends on the disk.
LEMMA SameRunKeeps ==
  ASSUME IInv, UNCHANGED <<pc, exit, md, run>>,
         disk' \in Artifacts \cup {None}, runs' = runs
  PROVE  IInv'
<1>1. UNCHANGED <<loaded, vault_data, proc_vault_data, logger, first_run, rows, overhead, seen>>
  BY DEF run
<1>2. TypeOK'
  BY <1>1 DEF IInv, TypeOK
<1>3. Held' /\ Bootstrapped' /\ NetsTaken' /\ Written'
  BY <1>1 DEF IInv, Held, Bootstrapped, NetsTaken, Written
<1>4. RowsMeasured' /\ FirstRunMeasured' /\ AllSeen'
  BY <1>1 DEF IInv, RowsMeasured, FirstRunMeasured, AllSeen
<1> QED BY <1>2, <1>3, <1>4 DEF IInv

LEMMA RebuildKeeps == IInv /\ Rebuild => IInv'
BY SameRunKeeps, PrimitiveBenchAssumption DEF Rebuild

LEMMA StutterKeeps == IInv /\ UNCHANGED vars => IInv'
<1> SUFFICES ASSUME IInv, UNCHANGED vars PROVE IInv'
  OBVIOUS
<1>1. disk' \in Artifacts \cup {None}
  BY DEF IInv, TypeOK, vars
<1> QED BY <1>1, SameRunKeeps DEF vars

LEMMA StartKeeps == IInv /\ Start => IInv'
<1> SUFFICES ASSUME IInv, Start PROVE IInv'
  OBVIOUS
<1>1. /\ UNCHANGED <<disk, md, csv>>
      /\ UNCHANGED <<loaded, vault_data, proc_vault_data, logger, first_run, rows, overhead, seen>>
      /\ pc = "idle" /\ runs < MaxRuns /\ runs' = runs + 1
      /\ \/ exit' = "missing_artifact" /\ pc' = "idle"
         \/ exit' = "running" /\ pc' = "load"
  BY DEF Start, run
<1>2. TypeOK'
  <2>1. runs' \in 0 .. MaxRuns
    BY <1>1, PrimitiveBenchAssumption DEF IInv, TypeOK
  <2>2. pc' = "idle" <=> exit' # "running"
    BY <1>1
  <2> QED BY <1>1, <2>1, <2>2 DEF IInv, TypeOK, Stages
<1>3. Held' /\ Bootstrapped' /\ NetsTaken' /\ Written'
  BY <1>1 DEF IInv, Held, Bootstrapped, NetsTaken, Written
<1>4. RowsMeasured' /\ FirstRunMeasured' /\ AllSeen'
  BY <1>1 DEF IInv, RowsMeasured, FirstRunMeasured, AllSeen
<1> QED BY <1>2, <1>3, <1>4 DEF IInv

LEMMA AddProgramKeeps == IInv /\ add_program => IInv'
<1> SUFFICES ASSUME IInv, add_program, ~Fail("load") PROVE IInv'
  BY FailKeeps
<1>1. /\ UNCHANGED <<disk, md, csv, exit, runs, vault_data, proc_vault_data, logger,
                     first_run, rows, overhead, seen>>
      /\ pc = "load" /\ pc' = "bootstrap" /\ loaded' = disk /\ disk # None
  BY DEF add_program
<1>2. rows = <<>> /\ seen = {} /\ first_run = None /\ disk \in Artifacts
  BY <1>1 DEF IInv, Held, TypeOK
<1>3. TypeOK'
  BY <1>1, <1>2 DEF IInv, TypeOK, Stages
<1>4. Held' /\ Bootstrapped' /\ NetsTaken' /\ Written'
  BY <1>1, <1>2 DEF Held, Bootstrapped, NetsTaken, Written
<1>5. RowsMeasured' /\ FirstRunMeasured' /\ AllSeen'
  BY <1>1, <1>2, RestIsFine DEF RowsMeasured, FirstRunMeasured, AllSeen
<1> QED BY <1>3, <1>4, <1>5 DEF IInv

LEMMA BootstrapKeeps == IInv /\ Bootstrap => IInv'
<1> SUFFICES ASSUME IInv, Bootstrap, ~Fail("bootstrap") PROVE IInv'
  BY FailKeeps
<1> DEFINE vault == bootstrap_data(6, VAULT_ADDRESS, BENCH_VAULT_LEN)
           proc_vault == bootstrap_data(20, PROC_VAULT_ADDRESS, PROC_VAULT_LEN)
<1>1. /\ UNCHANGED <<disk, md, csv, exit, runs, loaded, logger, first_run, rows, overhead, seen>>
      /\ pc = "bootstrap" /\ pc' = "measure"
      /\ vault.err = "Ok" /\ proc_vault.err = "Ok"
      /\ vault_data' = vault.bank[VAULT_ADDRESS]
      /\ proc_vault_data' = proc_vault.bank[PROC_VAULT_ADDRESS]
  BY DEF Bootstrap
<1>2. /\ vault_data' = BootVault /\ proc_vault_data' = BootProcVault
      /\ BENCH_VAULT_LEN >= loaded.vault_len /\ PROC_VAULT_LEN >= loaded.proc_len
  BY <1>1, Boots
<1> HIDE DEF vault, proc_vault
<1>3. rows = <<>> /\ seen = {} /\ first_run = None /\ loaded \in Artifacts
  BY <1>1 DEF IInv, Held
<1>4. TypeOK'
  <2>1. BootVault \in AccountType /\ BootProcVault \in AccountType
    BY BootAccounts
  <2>2. BootVault # None /\ BootProcVault # None
    BY <2>1, PrimitiveBenchAssumption
  <2> QED BY <1>1, <1>2, <2>1, <2>2 DEF IInv, TypeOK, Stages
<1>5. Held' /\ Bootstrapped' /\ NetsTaken' /\ Written'
  <2>1. loaded'.vault_len <= BENCH_VAULT_LEN /\ loaded'.proc_len <= PROC_VAULT_LEN
    BY <1>1, <1>2
  <2> QED BY <1>1, <1>2, <1>3, <2>1 DEF Held, Bootstrapped, NetsTaken, Written
<1>6. RowsMeasured' /\ FirstRunMeasured' /\ AllSeen'
  BY <1>1, <1>3, RestIsFine DEF RowsMeasured, FirstRunMeasured, AllSeen
<1> QED BY <1>4, <1>5, <1>6 DEF IInv

\* Figures are numbers, and a bracket may be missing.
LEMMA FigureTypes ==
  ASSUME NEW p \in Artifacts, NEW d \in 0 .. 21, Reported(p, d), NEW off \in p.jitter[d]
  PROVE  Whole(p, d, off) \in Nat /\ Bracket(p, d, off) \in Nat \cup {None}
<1>1. /\ p.inside[d] \in Nat /\ off.whole \in Nat /\ off.bracket \in Nat /\ LogCost \in Nat
  BY ArtifactAssumption, PrimitiveBenchAssumption
<1>2. LinesOf(p, d) = 0 \/ LinesOf(p, d) = 2
  BY DEF Reported
<1>3. LinesOf(p, d) * LogCost \in Nat
  BY <1>1, <1>2
<1>4. Whole(p, d, off) \in Nat
  BY <1>1, <1>3 DEF Whole
<1>5. Bracket(p, d, off) \in Nat \cup {None}
  BY <1>1 DEF Bracket
<1> QED BY <1>4, <1>5

LEMMA FirstRunKeeps == IInv /\ FirstRun => IInv'
<1> SUFFICES ASSUME IInv, FirstRun PROVE IInv'
  OBVIOUS
<1>1. pc = "measure" /\ Len(rows) < 22 /\ first_run = None
  BY Specs DEF FirstRun
<1>2. PICK m \in run_disc :
        IF m.err # "Ok" THEN Fail(m.err)
        ELSE /\ Measure(m)
             /\ first_run' = <<m.whole, m.bracketed>>
             /\ UNCHANGED <<disk, pc, md, csv, exit, runs, loaded, vault_data,
                            proc_vault_data, rows, overhead>>
  BY DEF FirstRun
<1> DEFINE d == Len(rows)
<1>3. /\ d \in 0 .. 21 /\ spec.disc = d /\ loaded \in Artifacts
  BY <1>1, AtRow
<1>4. /\ m.err \in {"Ok", "disc", "bracket"}
      /\ m.err = "Ok" <=> Reported(loaded, d)
      /\ m.err = "Ok" =>
           /\ \E off \in loaded.jitter[d] :
                m.whole = Whole(loaded, d, off) /\ m.bracketed = Bracket(loaded, d, off)
           /\ Len(m.lines) <= 2 /\ \A k \in DOMAIN m.lines : m.lines[k] \in 0 .. Budget
  BY <1>1, RunOf
<1>5. CASE m.err # "Ok"
  BY <1>2, <1>4, <1>5, FailKeeps
<1>6. CASE m.err = "Ok"
  <2>1. /\ UNCHANGED <<disk, pc, md, csv, exit, runs, loaded, vault_data, proc_vault_data,
                       rows, overhead>>
        /\ first_run' = <<m.whole, m.bracketed>> /\ logger' = m.lines
        /\ seen' = seen \cup {<<d, m.whole, m.bracketed>>}
    BY <1>2, <1>3, <1>6 DEF Measure
  <2>2. m.whole \in Nat /\ m.bracketed \in Nat \cup {None}
    BY <1>3, <1>4, <1>6, FigureTypes
  <2>3. first_run' # None
    <3>1. <<m.whole, m.bracketed>> \in Nat \X (Nat \cup {None})
      BY <2>2
    <3> QED BY <2>1, <3>1, PrimitiveBenchAssumption
  <2>4. TypeOK'
    BY <1>4, <1>6, <2>1 DEF IInv, TypeOK
  <2>5. Held' /\ Bootstrapped' /\ NetsTaken' /\ Written'
    BY <1>1, <2>1 DEF IInv, Held, Bootstrapped, NetsTaken, Written
  <2>6. RowsMeasured'
    BY <2>1 DEF IInv, RowsMeasured
  <2>7. FirstRunMeasured'
    BY <1>1, <1>4, <1>6, <2>1 DEF FirstRunMeasured
  <2>8. AllSeen'
    <3>1. \A x \in seen :
            \E k \in 1 .. Len(rows) : x = <<rows[k].disc, rows[k].whole, rows[k].bracketed>>
      BY <1>1 DEF IInv, AllSeen
    <3>2. \A k \in 1 .. Len(rows) : <<rows[k].disc, rows[k].whole, rows[k].bracketed>> \in seen
      BY DEF IInv, AllSeen
    <3>3. <<d, m.whole, m.bracketed>> = <<Len(rows'), first_run'[1], first_run'[2]>>
      BY <2>1
    <3> QED BY <2>1, <2>3, <3>1, <3>2, <3>3 DEF AllSeen
  <2> QED BY <2>4, <2>5, <2>6, <2>7, <2>8 DEF IInv
<1> QED BY <1>5, <1>6

LEMMA SecondRunKeeps == IInv /\ SecondRun => IInv'
<1> SUFFICES ASSUME IInv, SecondRun, ~Fail("unstable") PROVE IInv'
  BY FailKeeps
<1>1. pc = "measure" /\ Len(rows) < 22 /\ first_run # None
  BY DEF SecondRun, IInv, FirstRunMeasured
<1> DEFINE d == Len(rows)
<1>2. PICK m \in run_disc :
        IF m.err # "Ok" THEN Fail(m.err)
        ELSE /\ first_run = <<m.whole, m.bracketed>>
             /\ Measure(m)
             /\ rows' = Append(rows, Row(spec.disc, m))
             /\ first_run' = None
             /\ UNCHANGED <<disk, pc, md, csv, exit, runs, loaded, vault_data,
                            proc_vault_data, overhead>>
  BY DEF SecondRun
<1>3. /\ d \in 0 .. 21 /\ spec.disc = d /\ loaded \in Artifacts
  BY <1>1, AtRow
<1>4. /\ m.err \in {"Ok", "disc", "bracket"}
      /\ m.err = "Ok" <=> Reported(loaded, d)
      /\ m.err = "Ok" =>
           /\ \E off \in loaded.jitter[d] :
                m.whole = Whole(loaded, d, off) /\ m.bracketed = Bracket(loaded, d, off)
           /\ Len(m.lines) <= 2 /\ \A k \in DOMAIN m.lines : m.lines[k] \in 0 .. Budget
  BY <1>1, RunOf
<1>5. CASE m.err # "Ok"
  BY <1>2, <1>4, <1>5, FailKeeps
<1>6. CASE m.err = "Ok"
  <2> DEFINE row == [disc |-> d, whole |-> m.whole, bracketed |-> m.bracketed, net |-> None]
  <2>1. /\ UNCHANGED <<disk, pc, md, csv, exit, runs, loaded, vault_data, proc_vault_data,
                       overhead>>
        /\ first_run = <<m.whole, m.bracketed>> /\ logger' = m.lines /\ first_run' = None
        /\ rows' = Append(rows, row)
        /\ seen' = seen \cup {<<d, m.whole, m.bracketed>>}
    BY <1>2, <1>3, <1>6 DEF Measure, Row
  <2>2. m.whole \in Nat /\ m.bracketed \in Nat \cup {None}
    BY <1>3, <1>4, <1>6, FigureTypes
  <2>3. row \in RowType
    BY <1>3, <2>2 DEF RowType
  <2>4. /\ row.disc = d /\ row.whole = m.whole /\ row.bracketed = m.bracketed /\ row.net = None
    OBVIOUS
  <2> HIDE DEF row
  <2>5. /\ rows \in Seq(RowType) /\ DOMAIN rows = 1 .. Len(rows)
    BY DEF IInv, RowsMeasured
  <2>6. /\ rows' \in Seq(RowType) /\ Len(rows') = d + 1 /\ DOMAIN rows' = 1 .. d + 1
        /\ rows'[d + 1] = row /\ \A k \in 1 .. d : rows'[k] = rows[k]
    BY <2>1, <2>3, <2>5
  <2> HIDE DEF d
  <2>7. \A k \in 1 .. d + 1 : k \in 1 .. d \/ k = d + 1
    BY <1>3
  <2>8. d + 1 \in 1 .. d + 1 /\ (d + 1) - 1 = d /\ \A k \in 1 .. d : k \in 1 .. d + 1
    BY <1>3
  <2>9. TypeOK'
    <3>1. \A k \in DOMAIN rows' : rows'[k].net \in Nat \cup {None}
      <4>1. \A k \in DOMAIN rows' : rows'[k] \in RowType
        BY <2>6
      <4> QED BY <4>1 DEF RowType
    <3>2. Len(rows') <= Len(SPECS)
      <4>1. d + 1 <= 22
        BY <1>3
      <4> QED BY <2>6, <4>1, Specs
    <3> QED BY <1>4, <1>6, <2>1, <3>1, <3>2 DEF IInv, TypeOK
  <2>10. Held' /\ Bootstrapped' /\ NetsTaken' /\ Written'
    BY <1>1, <2>1 DEF IInv, Held, Bootstrapped, NetsTaken, Written
  <2>11. RowsMeasured'
    <3> DEFINE Good(k, r) == /\ r.disc = k - 1 /\ Reported(loaded, k - 1)
                             /\ \E off \in loaded.jitter[k - 1] :
                                  /\ r.whole = Whole(loaded, k - 1, off)
                                  /\ r.bracketed = Bracket(loaded, k - 1, off)
    <3>1. \A k \in 1 .. d : Good(k, rows[k])
      BY DEF IInv, RowsMeasured, d
    <3>2. Good(d + 1, row)
      BY <1>4, <1>6, <2>4, <2>8
    <3> HIDE DEF Good
    <3>3. \A k \in 1 .. d + 1 : Good(k, rows'[k])
      BY <2>6, <2>7, <3>1, <3>2
    <3> QED BY <2>1, <2>6, <3>3 DEF RowsMeasured, Good
  <2>12. FirstRunMeasured'
    BY <2>1 DEF FirstRunMeasured
  <2>13. AllSeen'
    <3> DEFINE Of(r) == <<r.disc, r.whole, r.bracketed>>
    <3>1. \A x \in seen : (\E k \in 1 .. d : x = Of(rows[k])) \/ x = <<d, m.whole, m.bracketed>>
      BY <2>1 DEF IInv, AllSeen, d
    <3>2. \A k \in 1 .. d : Of(rows[k]) \in seen
      BY DEF IInv, AllSeen, d
    <3>3. Of(row) = <<d, m.whole, m.bracketed>>
      BY <2>4
    <3> HIDE DEF Of
    <3>4. \A x \in seen' : \E k \in 1 .. d + 1 : x = Of(rows'[k])
      BY <2>1, <2>6, <2>8, <3>1, <3>3
    <3>5. \A k \in 1 .. d + 1 : Of(rows'[k]) \in seen'
      BY <2>1, <2>6, <2>7, <3>2, <3>3
    <3> QED BY <2>6, <3>4, <3>5 DEF AllSeen, Of
  <2> QED BY <2>9, <2>10, <2>11, <2>12, <2>13 DEF IInv
<1> QED BY <1>5, <1>6

LEMMA IsSequence ==
  ASSUME NEW R, NEW n \in Nat, NEW f \in [1 .. n -> R]
  PROVE  f \in Seq(R) /\ Len(f) = n
OBVIOUS

\* The row of the empty bracket is the last one.
LEMMA OverheadRow ==
  ASSUME IInv, Len(rows) = 22
  PROVE  SelectInSeq(rows, LAMBDA r : r.disc = 21) = 22 /\ 22 \in DOMAIN rows
<1> DEFINE I == {i \in 1 .. Len(rows) : rows[i].disc = 21}
<1>1. \A k \in 1 .. 22 : rows[k].disc = k - 1
  BY DEF IInv, RowsMeasured
<1>2. I = {22}
  <2>1. \A k \in 1 .. 22 : k - 1 = 21 <=> k = 22
    OBVIOUS
  <2> QED BY <1>1, <2>1
<1>3. Min(I) = 22
  <2> HIDE DEF I
  <2> QED BY <1>2 DEF Min
<1>4. SelectInSeq(rows, LAMBDA r : r.disc = 21) = Min(I)
  BY <1>2 DEF SelectInSeq
<1>5. DOMAIN rows = 1 .. 22
  BY DEF IInv, RowsMeasured
<1> QED BY <1>3, <1>4, <1>5

LEMMA Saturating ==
  ASSUME NEW a \in Nat, NEW b \in Nat
  PROVE  saturating_sub(a, b) \in Nat
BY DEF saturating_sub

LEMMA NetKeeps == IInv /\ Net => IInv'
<1> SUFFICES ASSUME IInv, Net, ~Fail("overhead") PROVE IInv'
  BY FailKeeps
<1>1. pc = "measure" /\ Len(rows) = 22
  BY Specs DEF Net
<1> DEFINE o == rows[22].bracketed
           net(k) == IF rows[k].bracketed = None THEN None
                     ELSE saturating_sub(rows[k].bracketed, o)
<1>2. /\ UNCHANGED <<disk, md, csv, exit, runs, loaded, vault_data, proc_vault_data,
                     logger, first_run, seen>>
      /\ o # None /\ overhead' = o /\ pc' = "out_dir"
      /\ rows' = WithNet(rows, o)
  BY <1>1, OverheadRow DEF Net
<1>3. rows \in Seq(RowType) /\ DOMAIN rows = 1 .. 22 /\ \A k \in 1 .. 22 : rows[k] \in RowType
  <2>1. rows \in Seq(RowType)
    BY DEF IInv, RowsMeasured
  <2>2. DOMAIN rows = 1 .. 22
    BY <1>1, <2>1
  <2>3. \A k \in DOMAIN rows : rows[k] \in RowType
    BY <2>1
  <2> QED BY <2>1, <2>2, <2>3
<1>4. o \in Nat
  <2>1. rows[22].bracketed \in Nat \cup {None}
    <3>1. rows[22] \in RowType
      BY <1>3
    <3> QED BY <3>1 DEF RowType
  <2> QED BY <1>2, <2>1
<1>5. \A k \in 1 .. 22 : net(k) \in Nat \cup {None}
  <2>1. \A k \in 1 .. 22 : rows[k].bracketed \in Nat \cup {None}
    BY <1>3 DEF RowType
  <2> HIDE DEF o
  <2> QED BY <1>4, <2>1, Saturating
<1>6. rows' = [k \in 1 .. 22 |-> [rows[k] EXCEPT !.net = net(k)]]
  <2> HIDE DEF o
  <2> QED BY <1>2, <1>3 DEF WithNet
<1>7. ASSUME NEW k \in 1 .. 22
      PROVE  /\ rows'[k] \in RowType /\ rows'[k].disc = rows[k].disc
             /\ rows'[k].whole = rows[k].whole /\ rows'[k].bracketed = rows[k].bracketed
             /\ rows'[k].net = net(k)
  <2>1. rows'[k] = [rows[k] EXCEPT !.net = net(k)]
    BY <1>6
  <2> HIDE DEF net
  <2> QED BY <1>3, <1>5, <2>1 DEF RowType
<1>8. rows' \in Seq(RowType) /\ Len(rows') = 22 /\ DOMAIN rows' = 1 .. 22
  <2>1. DOMAIN rows' = 1 .. 22 /\ rows' \in [1 .. 22 -> RowType]
    <3> HIDE DEF net
    <3>1. rows' = [k \in 1 .. 22 |-> rows'[k]]
      BY <1>6
    <3> QED BY <1>7, <3>1
  <2> QED BY <2>1, IsSequence
<1> HIDE DEF net, o
<1>9. 1 .. Len(rows) = 1 .. 22 /\ 1 .. Len(rows') = 1 .. 22
  BY <1>1, <1>8
<1>10. /\ \A k \in 1 .. 22 : rows[k].disc = k - 1 /\ Reported(loaded, k - 1)
      /\ \A k \in 1 .. 22 : \E off \in loaded.jitter[k - 1] :
            /\ rows[k].whole = Whole(loaded, k - 1, off)
            /\ rows[k].bracketed = Bracket(loaded, k - 1, off)
  BY <1>9 DEF IInv, RowsMeasured
<1>11. TypeOK'
  <2>1. \A k \in DOMAIN rows' : rows'[k].net \in Nat \cup {None}
    BY <1>5, <1>7, <1>8
  <2>2. Len(rows') <= Len(SPECS)
    BY <1>8, Specs
  <2>3. pc # "idle" /\ pc' = "out_dir" /\ pc' \in Stages
    BY <1>1, <1>2 DEF Stages
  <2> QED BY <1>2, <2>1, <2>2, <2>3 DEF IInv, TypeOK
<1>12. Held' /\ Bootstrapped' /\ Written'
  <2>1. first_run = None
    BY <1>1 DEF IInv, FirstRunMeasured
  <2> QED BY <1>1, <1>2, <1>8, <2>1 DEF IInv, Held, Bootstrapped, Written
<1>13. RowsMeasured'
  <2>1. /\ \A k \in 1 .. 22 : rows'[k].disc = k - 1 /\ Reported(loaded, k - 1)
        /\ \A k \in 1 .. 22 : \E off \in loaded.jitter[k - 1] :
              /\ rows'[k].whole = Whole(loaded, k - 1, off)
              /\ rows'[k].bracketed = Bracket(loaded, k - 1, off)
    BY <1>7, <1>10
  <2> QED BY <1>2, <1>8, <1>9, <2>1 DEF RowsMeasured
<1>14. FirstRunMeasured'
  BY <1>1, <1>2, <1>8 DEF IInv, FirstRunMeasured
<1>15. AllSeen'
  <2> DEFINE Of(r) == <<r.disc, r.whole, r.bracketed>>
  <2>1. first_run = None
    BY <1>1 DEF IInv, FirstRunMeasured
  <2>2. /\ \A x \in seen : \E k \in 1 .. 22 : x = Of(rows[k])
        /\ \A k \in 1 .. 22 : Of(rows[k]) \in seen
    BY <1>9, <2>1 DEF IInv, AllSeen
  <2>3. \A k \in 1 .. 22 : Of(rows'[k]) = Of(rows[k])
    BY <1>7
  <2> HIDE DEF Of
  <2>4. /\ \A x \in seen' : \E k \in 1 .. 22 : x = Of(rows'[k])
        /\ \A k \in 1 .. 22 : Of(rows'[k]) \in seen'
    BY <1>2, <2>2, <2>3
  <2> QED BY <1>9, <2>4 DEF AllSeen, Of
<1>16. NetsTaken'
  <2>1. overhead' = o /\ o \in Nat /\ rows'[22].bracketed = o
    <3>1. 22 \in 1 .. 22
      OBVIOUS
    <3>2. rows'[22].bracketed = rows[22].bracketed
      BY <1>7, <3>1
    <3> QED BY <1>2, <1>4, <3>2 DEF o
  <2>2. \A k \in 1 .. 22 :
          rows'[k].net = IF rows'[k].bracketed = None THEN None
                         ELSE saturating_sub(rows'[k].bracketed, overhead')
    BY <1>2, <1>7 DEF net
  <2> QED BY <1>9, <2>1, <2>2 DEF NetsTaken
<1> QED BY <1>11, <1>12, <1>13, <1>14, <1>15, <1>16 DEF IInv

\* The report is written file by file.
LEMMA WritingKeeps ==
  ASSUME IInv, UNCHANGED <<disk, exit, runs, run>>,
         \/ pc = "out_dir" /\ pc' = "md"
         \/ pc = "md" /\ pc' = "csv" /\ md' = [overhead |-> overhead, rows |-> rows]
  PROVE  IInv'
<1>1. UNCHANGED <<loaded, vault_data, proc_vault_data, logger, first_run, rows, overhead, seen>>
  BY DEF run
<1>2. TypeOK'
  BY <1>1 DEF IInv, TypeOK, Stages
<1>3. Held' /\ Bootstrapped' /\ NetsTaken' /\ Written'
  BY <1>1 DEF IInv, Held, Bootstrapped, NetsTaken, Written
<1>4. RowsMeasured' /\ FirstRunMeasured' /\ AllSeen'
  BY <1>1 DEF IInv, RowsMeasured, FirstRunMeasured, AllSeen
<1> QED BY <1>2, <1>3, <1>4 DEF IInv

LEMMA CreateDirKeeps == IInv /\ create_dir_all => IInv'
BY WritingKeeps, FailKeeps DEF create_dir_all

LEMMA WriteMdKeeps == IInv /\ WriteMd => IInv'
BY WritingKeeps, EndKeeps DEF WriteMd

LEMMA WriteCsvKeeps == IInv /\ WriteCsv => IInv'
BY EndKeeps DEF WriteCsv

LEMMA InterruptKeeps == IInv /\ Interrupt => IInv'
BY EndKeeps DEF Interrupt

LEMMA NextKeeps == IInv /\ [Next]_vars => IInv'
BY RebuildKeeps, StartKeeps, AddProgramKeeps, BootstrapKeeps, FirstRunKeeps, SecondRunKeeps,
   NetKeeps, CreateDirKeeps, WriteMdKeeps, WriteCsvKeeps, InterruptKeeps, StutterKeeps
   DEF Next, Step

-----------------------------------------------------------------------------
(***************************************************************************)
(* What the two report files may say.                                      *)
(***************************************************************************)

\* Whatever artifacts are on disk, and whatever happens to them and to the runs,
\* every figure that got as far as a row was never in its run measured otherwise,
\* log lines are those of one instruction, and rows have their types.
THEOREM BenchSound == Spec => []BenchInv
<1>1. IInv => BenchInv
  <2> SUFFICES ASSUME IInv PROVE FiguresRepeat
    BY DEF IInv, BenchInv
  <2> SUFFICES ASSUME NEW k \in DOMAIN rows
               PROVE  {m \in seen : m[1] = rows[k].disc}
                        = {<<rows[k].disc, rows[k].whole, rows[k].bracketed>>}
    BY DEF FiguresRepeat
  <2> DEFINE Of(r) == <<r.disc, r.whole, r.bracketed>>
  <2>1. /\ rows \in Seq(RowType) /\ DOMAIN rows = 1 .. Len(rows) /\ Len(rows) \in Nat
        /\ \A i \in 1 .. Len(rows) : rows[i].disc = i - 1
    BY DEF IInv, RowsMeasured
  <2>2. /\ \A m \in seen : \/ \E i \in 1 .. Len(rows) : m = Of(rows[i])
                           \/ m = <<Len(rows), first_run[1], first_run[2]>>
        /\ Of(rows[k]) \in seen
    BY <2>1 DEF IInv, AllSeen
  <2>3. k \in 1 .. Len(rows) /\ rows[k].disc = k - 1 /\ k - 1 # Len(rows)
    BY <2>1
  <2>4. ASSUME NEW m \in seen, m[1] = rows[k].disc PROVE m = Of(rows[k])
    <3>1. PICK i \in 1 .. Len(rows) : m = Of(rows[i])
      <4>1. CASE m = <<Len(rows), first_run[1], first_run[2]>>
        <5>1. m[1] = Len(rows)
          BY <4>1
        <5> QED BY <2>3, <2>4, <5>1
      <4> QED BY <2>2, <4>1
    <3>2. m[1] = rows[i].disc
      BY <3>1
    <3>3. i - 1 = k - 1
      BY <2>1, <2>3, <2>4, <3>2
    <3>4. i = k
      BY <2>3, <3>3
    <3> QED BY <3>1, <3>4
  <2>5. Of(rows[k])[1] = rows[k].disc
    OBVIOUS
  <2> HIDE DEF Of
  <2>6. {m \in seen : m[1] = rows[k].disc} = {Of(rows[k])}
    BY <2>2, <2>4, <2>5
  <2> QED BY <2>6 DEF Of
<1> QED BY Starts, NextKeeps, <1>1, PTL DEF Spec

\* Figures of an artifact that repeats itself.
LEMMA NoJitter ==
  ASSUME NEW p \in Artifacts, Repeatable(p), NEW d \in 0 .. 21, Reported(p, d),
         NEW off \in p.jitter[d]
  PROVE  /\ Whole(p, d, off) = p.inside[d] + LinesOf(p, d) * LogCost
         /\ Bracket(p, d, off) = IF LinesOf(p, d) = 2 THEN LogCost + p.inside[d] ELSE None
<1>1. off = [whole |-> 0, bracket |-> 0]
  BY DEF Repeatable
<1>2. p.inside[d] \in Nat /\ LogCost \in Nat /\ off.whole = 0 /\ off.bracket = 0
  BY <1>1, ArtifactAssumption, PrimitiveBenchAssumption
<1>3. LinesOf(p, d) = 0 \/ LinesOf(p, d) = 2
  BY DEF Reported
<1>4. LinesOf(p, d) * LogCost \in Nat
  BY <1>2, <1>3
<1> QED BY <1>2, <1>4 DEF Whole, Bracket

\* The rows about to be written are the report of the artifact.
LEMMA RowsAreTheReport ==
  ASSUME IInv, pc \in {"out_dir", "md", "csv"}, Repeatable(loaded)
  PROVE  /\ Reportable(loaded)
         /\ overhead = Reference(loaded).overhead /\ rows = Reference(loaded).rows
<1>1. /\ loaded \in Artifacts /\ Len(rows) = 22 /\ 1 .. Len(rows) = 1 .. 22
      /\ loaded.vault_len <= BENCH_VAULT_LEN /\ loaded.proc_len <= PROC_VAULT_LEN
      /\ overhead \in Nat /\ overhead = rows[22].bracketed
  BY DEF IInv, Held, Bootstrapped, NetsTaken
<1>2. rows \in Seq(RowType)
  BY DEF IInv, RowsMeasured
<1>3. DOMAIN rows = 1 .. 22 /\ \A k \in DOMAIN rows : rows[k] \in RowType
  <2>1. \A k \in DOMAIN rows : rows[k] \in RowType
    BY <1>2
  <2>2. DOMAIN rows = 1 .. Len(rows)
    BY <1>2
  <2> QED BY <1>1, <2>1, <2>2
<1>4. ASSUME NEW d \in 0 .. 21
      PROVE  /\ d + 1 \in 1 .. 22 /\ rows[d + 1].disc = d /\ Reported(loaded, d)
             /\ rows[d + 1].whole = loaded.inside[d] + LinesOf(loaded, d) * LogCost
             /\ rows[d + 1].bracketed
                  = IF LinesOf(loaded, d) = 2 THEN LogCost + loaded.inside[d] ELSE None
  <2>1. d + 1 \in 1 .. 22 /\ (d + 1) - 1 = d
    OBVIOUS
  <2>2. /\ rows[d + 1].disc = d /\ Reported(loaded, d)
        /\ \E off \in loaded.jitter[d] :
             /\ rows[d + 1].whole = Whole(loaded, d, off)
             /\ rows[d + 1].bracketed = Bracket(loaded, d, off)
    BY <1>1, <2>1 DEF IInv, RowsMeasured
  <2> QED BY <1>1, <2>1, <2>2, NoJitter
<1>5. /\ LinesOf(loaded, 21) = 2 /\ overhead = LogCost + loaded.inside[21]
  <2>1. rows[21 + 1].bracketed
          = IF LinesOf(loaded, 21) = 2 THEN LogCost + loaded.inside[21] ELSE None
    BY <1>4
  <2>2. rows[21 + 1] = rows[22] /\ overhead # None
    BY <1>1, PrimitiveBenchAssumption
  <2> QED BY <1>1, <2>1, <2>2
<1>6. Reportable(loaded)
  <2>1. loaded.missing = {}
    BY <1>1, <1>4, ArtifactAssumption DEF Reported
  <2> QED BY <1>1, <1>4, <1>5, <2>1 DEF Reportable, Reported
<1> DEFINE row(d) ==
      [disc |-> d,
       whole |-> loaded.inside[d] + LinesOf(loaded, d) * LogCost,
       bracketed |-> IF LinesOf(loaded, d) = 2 THEN LogCost + loaded.inside[d] ELSE None,
       net |-> IF LinesOf(loaded, d) # 2 THEN None
               ELSE IF loaded.inside[d] > loaded.inside[21]
                      THEN loaded.inside[d] - loaded.inside[21] ELSE 0]
<1>7. ASSUME NEW d \in 0 .. 21 PROVE rows[d + 1] = row(d)
  <2>1. rows[d + 1].net = IF LinesOf(loaded, d) # 2 THEN None
                          ELSE IF loaded.inside[d] > loaded.inside[21]
                                 THEN loaded.inside[d] - loaded.inside[21] ELSE 0
    <3>1. rows[d + 1].net = IF rows[d + 1].bracketed = None THEN None
                            ELSE saturating_sub(rows[d + 1].bracketed, overhead)
      BY <1>1, <1>4 DEF IInv, NetsTaken
    <3>2. loaded.inside[d] \in Nat /\ loaded.inside[21] \in Nat /\ LogCost \in Nat
      BY <1>1, ArtifactAssumption, PrimitiveBenchAssumption
    <3>3. CASE LinesOf(loaded, d) # 2
      BY <1>4, <3>1, <3>3
    <3>4. CASE LinesOf(loaded, d) = 2
      <4>1. rows[d + 1].bracketed = LogCost + loaded.inside[d]
        BY <1>4, <3>4
      <4>2. LogCost + loaded.inside[d] # None
        BY <3>2, PrimitiveBenchAssumption
      <4>3. \A l, x, y \in Nat : saturating_sub(l + x, l + y) = IF x > y THEN x - y ELSE 0
        BY DEF saturating_sub
      <4>4. rows[d + 1].net = saturating_sub(LogCost + loaded.inside[d],
                                             LogCost + loaded.inside[21])
        BY <1>5, <3>1, <4>1, <4>2
      <4> QED BY <3>2, <3>4, <4>3, <4>4
    <3> QED BY <3>3, <3>4
  <2>2. rows[d + 1] \in RowType
    BY <1>3, <1>4
  <2>3. rows[d + 1] = [disc |-> rows[d + 1].disc, whole |-> rows[d + 1].whole,
                       bracketed |-> rows[d + 1].bracketed, net |-> rows[d + 1].net]
    BY <2>2 DEF RowType
  <2> QED BY <1>4, <2>1, <2>3
<1>8. rows = [k \in 1 .. 22 |-> row(k - 1)]
  <2>1. rows = [k \in 1 .. 22 |-> rows[k]]
    BY <1>2, <1>3
  <2>2. \A k \in 1 .. 22 : k - 1 \in 0 .. 21 /\ (k - 1) + 1 = k
    OBVIOUS
  <2>3. \A k \in 1 .. 22 : rows[k] = row(k - 1)
    <3> HIDE DEF row
    <3> QED BY <1>7, <2>2
  <2> HIDE DEF row
  <2> QED BY <2>1, <2>3
<1>9. Reference(loaded).rows = [k \in 1 .. 22 |-> row(k - 1)]
  <2>1. \A k \in 1 .. 22 : SPECS[k].disc = k - 1
    BY DEF SPECS
  <2>2. Reference(loaded).rows = [k \in 1 .. 22 |-> row(SPECS[k].disc)]
    BY Specs DEF Reference
  <2> HIDE DEF row
  <2> QED BY <2>1, <2>2
<1>10. Reference(loaded).overhead = LogCost + loaded.inside[21]
  BY DEF Reference
<1> HIDE DEF row
<1> QED BY <1>5, <1>6, <1>8, <1>9, <1>10

-----------------------------------------------------------------------------
\* How a step of a run may end it.
LEMMA RunsEnd ==
  ASSUME IInv, Next, exit = "running", exit' # "running"
  PROVE  \/ Bootstrap /\ exit' = "bootstrap"
         \/ FirstRun /\ exit' \in {"disc", "bracket"}
         \/ SecondRun /\ exit' \in {"disc", "bracket", "unstable"}
         \/ Net /\ exit' = "overhead"
         \/ WriteCsv /\ exit' = "ok"
         \/ exit' \in {"load", "out_dir", "md", "csv", "interrupted"}
<1>1. \A how : End(how) \/ Fail(how) => exit' = how
  BY DEF End, Fail
<1>2. pc # "idle"
  BY DEF IInv, TypeOK
<1>3. ~Rebuild /\ ~Start
  BY <1>2 DEF Rebuild, Start
<1>4. CASE FirstRun
  <2>1. PICK m \in run_disc : m.err # "Ok" /\ exit' = m.err
    BY <1>1, <1>4 DEF FirstRun
  <2> QED BY <1>4, <2>1, RunOf, Specs DEF FirstRun
<1>5. CASE SecondRun
  <2>1. pc = "measure" /\ Len(rows) < 22
    BY <1>5 DEF SecondRun, IInv, FirstRunMeasured
  <2>2. PICK m \in run_disc : (m.err # "Ok" /\ exit' = m.err) \/ exit' = "unstable"
    BY <1>1, <1>5 DEF SecondRun
  <2> QED BY <1>5, <2>1, <2>2, RunOf
<1>6. Bootstrap => exit' = "bootstrap"
  BY <1>1 DEF Bootstrap
<1>7. Net => exit' = "overhead"
  BY <1>1 DEF Net
<1>8. add_program \/ create_dir_all \/ WriteMd \/ Interrupt
        => exit' \in {"load", "out_dir", "md", "interrupted"}
  BY <1>1 DEF add_program, create_dir_all, WriteMd, Interrupt
<1>9. WriteCsv => exit' \in {"ok", "csv"}
  BY <1>1 DEF WriteCsv
<1> QED BY <1>3, <1>4, <1>5, <1>6, <1>7, <1>8, <1>9 DEF Next, Step

\* A run that exits 0 over an artifact that repeats itself has left in both files
\* the report of the program it read, worked out at once.
THEOREM ReportedIsTheProgram == Spec => ReportIsTheProgram
<1>1. IInv /\ [Next]_vars
        => [exit = "running" /\ exit' = "ok" /\ Repeatable(loaded) =>
              /\ Reportable(loaded)
              /\ md' = Reference(loaded) /\ csv' = Reference(loaded).rows]_vars
  <2> SUFFICES ASSUME IInv, Next, exit = "running", exit' = "ok", Repeatable(loaded)
               PROVE  /\ Reportable(loaded)
                      /\ md' = Reference(loaded) /\ csv' = Reference(loaded).rows
    OBVIOUS
  <2>1. WriteCsv /\ ~End("csv")
    BY RunsEnd DEF End
  <2>2. pc = "csv" /\ md' = md /\ csv' = rows
    BY <2>1 DEF WriteCsv, csv_report
  <2>3. md = [overhead |-> overhead, rows |-> rows]
    BY <2>2 DEF IInv, Written
  <2>4. /\ Reportable(loaded)
        /\ overhead = Reference(loaded).overhead /\ rows = Reference(loaded).rows
    BY <2>2, RowsAreTheReport
  <2>5. Reference(loaded)
          = [overhead |-> Reference(loaded).overhead, rows |-> Reference(loaded).rows]
    BY DEF Reference
  <2> QED BY <2>2, <2>3, <2>4, <2>5
<1> QED BY Starts, NextKeeps, <1>1, PTL DEF Spec, ReportIsTheProgram

\* And every run over a program that can be reported and repeats itself gets past
\* the bootstrap, every measurement and the empty bracket.
THEOREM SoundIsReported == Spec => SoundProgramIsReported
<1>1. IInv /\ [Next]_vars
        => [exit = "running" /\ exit' \in {"bootstrap", "disc", "bracket", "unstable", "overhead"}
              => ~(Reportable(loaded) /\ Repeatable(loaded))]_vars
  <2> SUFFICES ASSUME IInv, Next, exit = "running",
                      exit' \in {"bootstrap", "disc", "bracket", "unstable", "overhead"},
                      Reportable(loaded), Repeatable(loaded)
               PROVE  FALSE
    OBVIOUS
  <2>1. \A how : End(how) \/ Fail(how) => exit' = how
    BY DEF End, Fail
  <2>2. \A d \in 0 .. 21 : Reported(loaded, d)
    BY DEF Reportable, Reported
  <2>3. CASE Bootstrap
    <3>1. /\ BENCH_VAULT_LEN >= loaded.vault_len /\ PROC_VAULT_LEN >= loaded.proc_len
          /\ loaded.missing = {}
      BY DEF Reportable
    <3>2. exit' = exit
      BY <2>3, <3>1, Boots DEF Bootstrap
    <3> QED BY <3>2
  <2>4. ASSUME pc = "measure", Len(rows) < 22, NEW m \in run_disc
        PROVE  /\ m.err = "Ok" /\ Len(rows) \in 0 .. 21
               /\ m.whole = loaded.inside[Len(rows)] + LinesOf(loaded, Len(rows)) * LogCost
               /\ m.bracketed = IF LinesOf(loaded, Len(rows)) = 2
                                  THEN LogCost + loaded.inside[Len(rows)] ELSE None
    <3>1. Len(rows) \in 0 .. 21 /\ loaded \in Artifacts
      BY <2>4, AtRow
    <3>2. m.err = "Ok"
      BY <2>2, <2>4, <3>1, RunOf
    <3>3. PICK off \in loaded.jitter[Len(rows)] :
            /\ m.whole = Whole(loaded, Len(rows), off)
            /\ m.bracketed = Bracket(loaded, Len(rows), off)
      BY <2>4, <3>2, RunOf
    <3> QED BY <2>2, <3>1, <3>2, <3>3, NoJitter
  <2>5. CASE FirstRun
    <3>1. pc = "measure" /\ Len(rows) < 22
      BY <2>5, Specs DEF FirstRun
    <3>2. exit' = exit
      BY <2>4, <2>5, <3>1 DEF FirstRun
    <3> QED BY <3>2
  <2>6. CASE SecondRun
    <3>1. pc = "measure" /\ first_run # None /\ Len(rows) < 22
      BY <2>6 DEF SecondRun, IInv, FirstRunMeasured
    <3>2. /\ Len(rows) \in 0 .. 21 /\ loaded \in Artifacts
      BY <3>1, AtRow
    <3>3. PICK off \in loaded.jitter[Len(rows)] :
            first_run = <<Whole(loaded, Len(rows), off), Bracket(loaded, Len(rows), off)>>
      BY <3>1 DEF IInv, FirstRunMeasured
    <3>4. \A m \in run_disc : first_run = <<m.whole, m.bracketed>>
      BY <2>2, <2>4, <3>1, <3>2, <3>3, NoJitter
    <3>5. exit' = exit
      BY <2>4, <2>6, <3>1, <3>4 DEF SecondRun
    <3> QED BY <3>5
  <2>7. CASE Net
    <3>1. Len(rows) = 22 /\ 22 \in 1 .. Len(rows) /\ 21 \in 0 .. 21
      BY <2>7, Specs DEF Net
    <3>2. loaded \in Artifacts
      BY <2>7 DEF Net, IInv, Held
    <3>3. PICK off \in loaded.jitter[21] : rows[22].bracketed = Bracket(loaded, 21, off)
      <4>1. 22 - 1 = 21
        OBVIOUS
      <4> QED BY <3>1, <4>1 DEF IInv, RowsMeasured
    <3>4. rows[22].bracketed = LogCost + loaded.inside[21] /\ LinesOf(loaded, 21) = 2
      BY <2>2, <3>1, <3>2, <3>3, NoJitter DEF Reportable
    <3>5. rows[22].bracketed # None
      BY <3>1, <3>2, <3>4, ArtifactAssumption, PrimitiveBenchAssumption
    <3>6. exit' = exit
      BY <2>7, <3>1, <3>5, OverheadRow DEF Net
    <3> QED BY <3>6
  <2> QED BY <2>3, <2>5, <2>6, <2>7, RunsEnd
<1> QED BY Starts, NextKeeps, <1>1, PTL DEF Spec, SoundProgramIsReported
=============================================================================
