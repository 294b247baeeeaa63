---------------------------- MODULE PrimitiveBench ----------------------------
(***************************************************************************)
(* The runner primitive-bench (primitive-bench/src/main.rs): it reads the  *)
(* hopper-bench artifact once, lets it write the headers of its fixtures,  *)
(* runs every instruction twice on a fresh copy of them, reads each        *)
(* measurement from two log lines, takes the empty bracket of disc 21 off  *)
(* every one and writes two report files.                                  *)
(*                                                                         *)
(* An artifact is a record: what HopperBench calls p, and what a build of  *)
(* other sources may do instead: instructions it lacks ("missing"), that   *)
(* log a different number of lines though they succeed ("odd"), what each  *)
(* primitive costs ("inside"), and how far equal runs of an instruction    *)
(* may be off that ("jitter": the whole instruction and the bracket).      *)
(***************************************************************************)
EXTENDS HopperBench, SequencesExt, FiniteSetsExt

CONSTANTS
  VAULT_ADDRESS, PROC_VAULT_ADDRESS,
  BENCH_VAULT_LEN, PROC_VAULT_LEN, \* the sizes the runner allocates
  Artifacts,    \* what may be on disk
  Rebuilt,      \* bound: what a build in the middle of a run may leave there
  Budget,       \* compute units an instruction starts with
  LogCost,      \* compute units of one log call
  MaxRuns,      \* bound: runs in a history
  None          \* no artifact, no value, no report

ASSUME PrimitiveBenchAssumption ==
  /\ VAULT_ADDRESS \in Keys /\ PROC_VAULT_ADDRESS \in Keys
  /\ VAULT_ADDRESS # PROC_VAULT_ADDRESS
  /\ BENCH_VAULT_LEN \in Nat /\ PROC_VAULT_LEN \in Nat
  /\ Rebuilt \subseteq Artifacts \cup {None}
  /\ Budget \in Nat /\ LogCost \in Nat /\ MaxRuns \in Nat
  /\ None \notin Artifacts /\ None \notin Nat /\ None \notin AccountType
  /\ None \notin Nat \X (Nat \cup {None})

\* No instruction of an artifact runs out of units before its last log line.  (Bound:
\* three lines stand for any larger number.)
ASSUME ArtifactAssumption ==
  \A p \in Artifacts :
    /\ p.missing \subseteq 0 .. 21 /\ p.inside \in [0 .. 21 -> Nat]
    /\ \A d \in DOMAIN p.odd : p.odd[d] \in 0 .. 3
    /\ \A d \in 0 .. 21 : \A off \in p.jitter[d] :
         /\ off.whole \in Nat /\ off.bracket \in Nat
         /\ LogCost + p.inside[d] + off.bracket <= Budget

\* disc 19's argument.
PROC_DEPOSIT_AMOUNT == 1
ASSUME DepositAssumption == PROC_DEPOSIT_AMOUNT <= MaxU64

\* The rows of the report, in order, with the fixture each one needs.
SPECS ==
  [k \in 1 .. 22 |->
     [disc |-> k - 1,
      fixture |-> CASE k - 1 = 4 -> "VaultTwice"
                    [] k - 1 \in {19, 20} -> "ProcVault"
                    [] k - 1 \in {9, 21} -> "None"
                    [] OTHER -> "Vault",
      extra_data |-> IF k - 1 = 19 THEN <<PROC_DEPOSIT_AMOUNT>> ELSE <<>>]]

VARIABLES
  disk,         \* the artifact on disk, or None
  loaded,       \* the artifact Mollusk has read
  pc,           \* the stage of the run, "idle" between runs
  vault_data, proc_vault_data,  \* the bootstrapped accounts
  logger,       \* the lines in Mollusk's log collector
  first_run,    \* the first of a row's two measurements
  rows, overhead,
  md, csv,      \* the report files
  exit,         \* how the last run ended, "running" while one is under way
  seen,         \* history: everything measured in this run
  runs          \* runs started

run == <<loaded, vault_data, proc_vault_data, logger, first_run, rows, overhead, seen>>
vars == <<disk, pc, md, csv, exit, runs, run>>

AtRest ==
  /\ loaded = None /\ vault_data = None /\ proc_vault_data = None /\ logger = <<>>
  /\ first_run = None /\ rows = <<>> /\ overhead = None /\ seen = {}

Init ==
  /\ disk \in Artifacts \cup {None}
  /\ pc = "idle" /\ exit = "ok" /\ runs = 0
  /\ md = None /\ csv = None
  /\ AtRest

\* The run is over; what it held is gone, the files stay.
End(how) ==
  /\ exit' = how /\ pc' = "idle"
  /\ loaded' = None /\ vault_data' = None /\ proc_vault_data' = None /\ logger' = <<>>
  /\ first_run' = None /\ rows' = <<>> /\ overhead' = None /\ seen' = {}
  /\ UNCHANGED <<disk, runs>>
Fail(where) == End(where) /\ UNCHANGED <<md, csv>>

\* Somebody builds or removes the artifact, in the middle of a run too.
Rebuild ==
  /\ disk' \in (IF pc = "idle" THEN Artifacts \cup {None} ELSE Rebuilt) \ {disk}
  /\ UNCHANGED <<pc, md, csv, exit, runs, run>>

\* ensure_file looks whether it is there; add_program reads it.
Start ==
  /\ pc = "idle" /\ runs < MaxRuns
  /\ runs' = runs + 1
  /\ IF disk = None THEN exit' = "missing_artifact" /\ UNCHANGED pc
     ELSE exit' = "running" /\ pc' = "load"
  /\ UNCHANGED <<disk, md, csv, run>>

add_program ==
  /\ pc = "load"
  /\ IF disk = None THEN Fail("load")
     ELSE /\ loaded' = disk /\ pc' = "bootstrap"
          /\ UNCHANGED <<disk, md, csv, exit, runs, vault_data, proc_vault_data, logger,
                         first_run, rows, overhead, seen>>

-----------------------------------------------------------------------------
\* Mollusk: one instruction of the artifact on the accounts it is given.

process(b, ix) ==
  IF ix.data[1] \in loaded.missing THEN Unlogged(b, "InvalidInstructionData")
  ELSE process_instruction(loaded, b, ix)

Logged(o, d) == IF o.err = "Ok" /\ d \in DOMAIN loaded.odd THEN loaded.odd[d] ELSE o.lines

\* The units left at each log call: the primitive lies between the first two.
Lines(count, between) == SubSeq(<<Budget, Budget - between, Budget - between>>, 1, count)

\* Signer and writable are over-provisioned on purpose.
instruction(disc, extra, accounts) ==
  [data |-> <<disc>> \o extra, accounts |-> accounts, signers |-> Keys, writable |-> Keys]

fixture_account(len) ==
  [ours |-> TRUE, len |-> len, layout |-> "none", vault_balance |-> 0, proc_balance |-> 0]

\* The header-writing instruction on a zeroed account: what it leaves there.
bootstrap_data(disc, address, len) ==
  process([k \in Keys |-> fixture_account(len)], instruction(disc, <<>>, <<address>>))

Bootstrap ==
  /\ pc = "bootstrap"
  /\ LET vault == bootstrap_data(6, VAULT_ADDRESS, BENCH_VAULT_LEN)
         proc_vault == bootstrap_data(20, PROC_VAULT_ADDRESS, PROC_VAULT_LEN)
     IN IF vault.err # "Ok" \/ proc_vault.err # "Ok" THEN Fail("bootstrap")
        ELSE /\ vault_data' = vault.bank[VAULT_ADDRESS]
             /\ proc_vault_data' = proc_vault.bank[PROC_VAULT_ADDRESS]
             /\ pc' = "measure"
             /\ UNCHANGED <<disk, md, csv, exit, runs, loaded, logger, first_run, rows,
                            overhead, seen>>

-----------------------------------------------------------------------------
\* One measurement.

spec == SPECS[Len(rows) + 1]

metas(fixture) ==
  CASE fixture = "Vault" -> <<VAULT_ADDRESS>>
    [] fixture = "VaultTwice" -> <<VAULT_ADDRESS, VAULT_ADDRESS>>
    [] fixture = "ProcVault" -> <<PROC_VAULT_ADDRESS>>
    [] OTHER -> <<>>

\* Every invocation gets a fresh copy of the bootstrapped accounts.
Fixtures ==
  [k \in Keys |-> IF k = PROC_VAULT_ADDRESS THEN proc_vault_data ELSE vault_data]

\* And a log collector of its own.
NewCollector_reused == logger
NewCollector == <<>>

\* None without lines, the difference of two, and nothing else.
bracketed_delta_first_two(lines) ==
  IF lines = <<>> THEN [err |-> "Ok", delta |-> None]
  ELSE IF Len(lines) >= 2 /\ lines[1] >= lines[2]
    THEN [err |-> "Ok", delta |-> lines[1] - lines[2]]
  ELSE [err |-> "bracket", delta |-> None]
bracketed_delta(lines) ==
  IF lines = <<>> THEN [err |-> "Ok", delta |-> None]
  ELSE IF Len(lines) = 2 /\ lines[1] >= lines[2]
    THEN [err |-> "Ok", delta |-> lines[1] - lines[2]]
  ELSE [err |-> "bracket", delta |-> None]

\* What a run of the current row says: an error, or whole_ix_cu and bracketed_cu.
\* (o is what the instruction does, off how far this run is from an equal one.)
Measured(o, off) ==
  LET cost == loaded.inside[spec.disc]
      lines == NewCollector \o Lines(Logged(o, spec.disc), LogCost + cost + off.bracket)
      bracketed == bracketed_delta(lines)
  IN [err |-> IF o.err # "Ok" THEN "disc" ELSE bracketed.err,
      whole |-> cost + Logged(o, spec.disc) * LogCost + off.whole,
      bracketed |-> bracketed.delta,
      lines |-> lines]

run_disc ==
  UNION {{Measured(o, off) : off \in loaded.jitter[spec.disc]} :
           o \in {process(Fixtures, instruction(spec.disc, spec.extra_data, metas(spec.fixture)))}}

Measure(m) ==
  /\ logger' = m.lines
  /\ seen' = seen \cup {<<spec.disc, m.whole, m.bracketed>>}

FirstRun ==
  /\ pc = "measure" /\ Len(rows) < Len(SPECS) /\ first_run = None
  /\ \E m \in run_disc :
       IF m.err # "Ok" THEN Fail(m.err)
       ELSE /\ Measure(m)
            /\ first_run' = <<m.whole, m.bracketed>>
            /\ UNCHANGED <<disk, pc, md, csv, exit, runs, loaded, vault_data,
                           proc_vault_data, rows, overhead>>

Row(d, m) == [disc |-> d, whole |-> m.whole, bracketed |-> m.bracketed, net |-> None]

\* The second run has to say what the first one said.
SecondRun_comparing_brackets ==
  /\ pc = "measure" /\ first_run # None
  /\ \E m \in run_disc :
       IF m.err # "Ok" THEN Fail(m.err)
       ELSE IF first_run[2] # m.bracketed THEN Fail("unstable")
       ELSE /\ Measure(m)
            /\ rows' = Append(rows, Row(spec.disc, m))
            /\ first_run' = None
            /\ UNCHANGED <<disk, pc, md, csv, exit, runs, loaded, vault_data,
                           proc_vault_data, overhead>>
SecondRun ==
  /\ pc = "measure" /\ first_run # None
  /\ \E m \in run_disc :
       IF m.err # "Ok" THEN Fail(m.err)
       ELSE IF first_run # <<m.whole, m.bracketed>> THEN Fail("unstable")
       ELSE /\ Measure(m)
            /\ rows' = Append(rows, Row(spec.disc, m))
            /\ first_run' = None
            /\ UNCHANGED <<disk, pc, md, csv, exit, runs, loaded, vault_data,
                           proc_vault_data, overhead>>

-----------------------------------------------------------------------------
\* The overhead row and the two files.

saturating_sub(a, b) == IF a > b THEN a - b ELSE 0

WithNet(rs, o) ==
  [k \in DOMAIN rs |->
     [rs[k] EXCEPT !.net =
        IF rs[k].bracketed = None THEN None ELSE saturating_sub(rs[k].bracketed, o)]]

Net ==
  /\ pc = "measure" /\ Len(rows) = Len(SPECS)
  /\ LET row21 == SelectInSeq(rows, LAMBDA r : r.disc = 21) IN
       IF row21 = 0 \/ rows[row21].bracketed = None THEN Fail("overhead")
       ELSE /\ overhead' = rows[row21].bracketed
            /\ rows' = WithNet(rows, rows[row21].bracketed)
            /\ pc' = "out_dir"
            /\ UNCHANGED <<disk, md, csv, exit, runs, loaded, vault_data, proc_vault_data,
                           logger, first_run, seen>>

\* Each of these may fail as the file system likes.
create_dir_all ==
  /\ pc = "out_dir"
  /\ \/ pc' = "md" /\ UNCHANGED <<disk, md, csv, exit, runs, run>>
     \/ Fail("out_dir")

\* fs::write truncates before it writes: an error may leave part of a file.
Torn == <<>>
TornMd == [overhead |-> None, rows |-> Torn]

WriteMd ==
  /\ pc = "md"
  /\ \/ /\ md' = [overhead |-> overhead, rows |-> rows] /\ pc' = "csv"
        /\ UNCHANGED <<disk, csv, exit, runs, run>>
     \/ md' \in {md, TornMd} /\ End("md") /\ UNCHANGED csv

csv_report == rows

WriteCsv ==
  /\ pc = "csv"
  /\ \/ csv' = csv_report /\ End("ok")
     \/ csv' \in {csv, Torn} /\ End("csv")
  /\ UNCHANGED md

\* The process is killed.
Interrupt ==
  /\ pc # "idle"
  /\ End("interrupted")
  /\ md' \in {md} \cup (IF pc = "md" THEN {TornMd} ELSE {})
  /\ csv' \in {csv} \cup (IF pc = "csv" THEN {Torn} ELSE {})

Step ==
  \/ add_program \/ Bootstrap \/ FirstRun \/ SecondRun \/ Net
  \/ create_dir_all \/ WriteMd \/ WriteCsv

Next == Rebuild \/ Start \/ Step \/ Interrupt

Spec == Init /\ [][Next]_vars
-----------------------------------------------------------------------------

Stages == {"idle", "load", "bootstrap", "measure", "out_dir", "md", "csv"}

\* Type invariant.
TypeOK ==
  /\ disk \in Artifacts \cup {None} /\ loaded \in Artifacts \cup {None}
  /\ pc \in Stages
  /\ pc = "idle" <=> exit # "running"
  /\ {vault_data, proc_vault_data} \subseteq AccountType \cup {None}
  /\ pc = "measure" => vault_data # None /\ proc_vault_data # None
  /\ Len(logger) <= 2 /\ \A k \in DOMAIN logger : logger[k] \in 0 .. Budget
  /\ Len(rows) <= Len(SPECS)
  /\ \A k \in DOMAIN rows : rows[k].net \in Nat \cup {None}
  /\ runs \in 0 .. MaxRuns

\* The log lines of an artifact's instruction, when it succeeds.
LinesOf(p, d) == IF d \in DOMAIN p.odd THEN p.odd[d] ELSE IF d = 20 THEN 0 ELSE 2

\* What can be reported: every fixture fits, every instruction is there, logs a
\* whole bracket or none, and the empty bracket is one.
Reportable(p) ==
  /\ p.vault_len <= BENCH_VAULT_LEN /\ p.proc_len <= PROC_VAULT_LEN
  /\ p.missing = {}
  /\ \A d \in 0 .. 21 : LinesOf(p, d) \in {0, 2}
  /\ LinesOf(p, 21) = 2

Repeatable(p) == \A d \in 0 .. 21 : p.jitter[d] = {[whole |-> 0, bracket |-> 0]}

\* The report, worked out at once from the artifact: net_cu is what the primitive
\* costs beyond an empty bracket.
Reference(p) ==
  [overhead |-> LogCost + p.inside[21],
   rows |-> [k \in DOMAIN SPECS |->
     LET d == SPECS[k].disc
         lines == LinesOf(p, d)
     IN [disc |-> d,
         whole |-> p.inside[d] + lines * LogCost,
         bracketed |-> IF lines = 2 THEN LogCost + p.inside[d] ELSE None,
         net |-> IF lines # 2 THEN None
                 ELSE IF p.inside[d] > p.inside[21] THEN p.inside[d] - p.inside[21] ELSE 0]]]

\* A run that exits 0 has reported the program it read: every figure is that of
\* its own instruction, alone in its bracket, less the empty bracket.  No line of
\* another instruction or of another run is counted, no half bracket or double
\* bracket is taken for a measurement, and a build that finishes during the run
\* leaves no trace in the report.
ReportIsTheProgram ==
  [][exit = "running" /\ exit' = "ok" /\ Repeatable(loaded) =>
       /\ Reportable(loaded)
       /\ md' = Reference(loaded) /\ csv' = Reference(loaded).rows]_vars

\* And it reports every sound program: that instructions zero the fixture, write
\* other headers or add to its balances does not reach the instructions measured
\* after them, so none of those fails in, or outside, its bracket.
SoundProgramIsReported ==
  [][exit = "running" /\ exit' \in {"bootstrap", "disc", "bracket", "unstable", "overhead"} =>
       ~(Reportable(loaded) /\ Repeatable(loaded))]_vars

\* Also of an artifact that does not repeat itself, every figure that gets as far
\* as a row has never in the run been measured otherwise.
FiguresRepeat ==
  \A k \in DOMAIN rows :
    {m \in seen : m[1] = rows[k].disc} = {<<rows[k].disc, rows[k].whole, rows[k].bracketed>>}

\* Rows and log lines have their types, and the figures repeat.
BenchInv == TypeOK /\ FiguresRepeat
=============================================================================
