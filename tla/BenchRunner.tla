----------------------------- MODULE BenchRunner -----------------------------
(***************************************************************************)
(* The runner that framework-vault-bench and router-bench share (run,      *)
(* run_program and average_cu of both main.rs): which artifacts it takes,  *)
(* in which order it measures, what stops it, and what the two report      *)
(* files hold after any number of runs, failed and interrupted ones        *)
(* included.  "bench" is which of the two it is.  Artifacts may be built   *)
(* or removed at any time, in the middle of a run too: every case reads    *)
(* them from disk again.                                                   *)
(*                                                                         *)
(* What a case costs, and whether its assertions hold, is a property of    *)
(* the artifacts on disk (the benches run them in Mollusk, which is        *)
(* deterministic): "build" says so for every framework, workload and seed. *)
(***************************************************************************)
EXTENDS Integers, Sequences, SequencesExt

CONSTANTS
  Frameworks,   \* the matrix, in the order of the specs vector
  Baseline,     \* the framework the others are compared with
  Benches,      \* the runners, and of each of them:
  WorkloadsOf,  \*   the measured workloads, in measuring order
  ComparedOf,   \*   those that get a delta against the baseline
  SupportsOf,   \*   the workloads of each framework
  SharedOf,     \*   artifacts that are no row, but that every row needs
  BuildsOf,     \*   what may be on disk
  Seeds,        \* how many user seeds a workload is averaged over
  MaxU64,       \* the largest total of compute units
  MaxRuns,      \* bound: runs in a history
  Failed,       \* a case that does not pass, in place of its cost
  None          \* no value, no report

ASSUME RunnerAssumption ==
  /\ Frameworks \in Seq(Range(Frameworks)) /\ Baseline \in Range(Frameworks)
  /\ \A b \in Benches :
       /\ WorkloadsOf[b] \in Seq(Range(WorkloadsOf[b]))
       /\ SupportsOf[b][Baseline] = Range(WorkloadsOf[b])
       /\ ComparedOf[b] \subseteq Range(WorkloadsOf[b])
  /\ Seeds \in Nat \ {0} /\ MaxU64 \in Nat /\ MaxRuns \in Nat

\* Every case of an artifact has a cost or fails.
ASSUME CostAssumption ==
  /\ Failed \notin Nat /\ None \notin Nat
  /\ \A b \in Benches : \A f \in Range(Frameworks), w \in Range(WorkloadsOf[b]) :
       w \in SupportsOf[b][f] =>
         \A built \in BuildsOf[b] : built.cost[f][w] \in [1 .. Seeds -> Nat \cup {Failed}]

VARIABLES
  bench,    \* which of the runners this is a history of
  build,    \* [present, cost, safe]: the artifacts and what they measure
  pc,       \* the stage of the run, "idle" between runs
  specs,    \* the frameworks of this run
  rows,     \* finished rows
  cu,       \* results of the current row's workloads so far
  samples,  \* how many seeds of the current workload are in the total
  total,    \* their compute units
  json, csv,\* the report files
  exit,     \* how the last run ended: "running", "ok", or where it failed
  stable,   \* history: no artifact has changed since the run started
  runs      \* runs started

vars == <<bench, build, pc, specs, rows, cu, samples, total, json, csv, exit, stable, runs>>

Workloads == WorkloadsOf[bench]
Compared == ComparedOf[bench]
Supports == SupportsOf[bench]
Shared == SharedOf[bench]
Builds == BuildsOf[bench]

framework == specs[Len(rows) + 1]
workload == Workloads[Len(cu) + 1]

Init ==
  /\ bench \in Benches
  /\ build \in Builds
  /\ pc = "idle" /\ exit = "ok" /\ stable = TRUE /\ runs = 0
  /\ specs = <<>> /\ rows = <<>> /\ cu = <<>> /\ samples = 0 /\ total = 0
  /\ json = None /\ csv = None

\* The run is over; what it held is gone, the files stay.
End(how) ==
  /\ exit' = how /\ pc' = "idle" /\ stable' = TRUE
  /\ specs' = <<>> /\ rows' = <<>> /\ cu' = <<>> /\ samples' = 0 /\ total' = 0
  /\ UNCHANGED <<bench, build, runs>>

Fail(where) == End(where) /\ UNCHANGED <<json, csv>>

\* Somebody builds, removes or replaces artifacts.  (Bound: at most once in the
\* middle of a run.)
Rebuild ==
  /\ pc = "idle" \/ stable
  /\ build' \in Builds \ {build}
  /\ stable' = (pc = "idle")
  /\ UNCHANGED <<bench, pc, specs, rows, cu, samples, total, json, csv, exit, runs>>

\* The elements of s that are in S, in the order of s.
Select(s, S) ==
  LET kept[n \in 0 .. Len(s)] ==
        IF n = 0 THEN <<>>
        ELSE IF s[n] \in S THEN Append(kept[n - 1], s[n]) ELSE kept[n - 1]
  IN kept[Len(s)]

\* A missing artifact drops its framework, but never the baseline.
retain(present) == Select(Frameworks, present \cup {Baseline})

Start ==
  /\ pc = "idle" /\ runs < MaxRuns
  /\ runs' = runs + 1
  /\ IF Shared \subseteq build.present
       THEN /\ pc' = "out_dir" /\ exit' = "running"
            /\ specs' = retain(build.present)
       ELSE /\ exit' = "missing_artifact"
            /\ UNCHANGED <<pc, specs>>
  /\ UNCHANGED <<bench, build, rows, cu, samples, total, json, csv, stable>>

CreateOutDir ==
  /\ pc = "out_dir"
  /\ \/ /\ pc' = "measure"
        /\ UNCHANGED <<bench, build, specs, rows, cu, samples, total, json, csv, exit, stable, runs>>
     \/ Fail("out_dir")

\* The program under test and what it calls are read from disk for every case.
Loads(f) == {f} \cup Shared \subseteq build.present

\* The next thing to do is a case of a workload the framework implements.
AtCase ==
  /\ pc = "measure" /\ Len(rows) < Len(specs) /\ Len(cu) < Len(Workloads)
  /\ workload \in Supports[framework] /\ samples < Seeds

Add(cost) ==
  /\ samples' = samples + 1
  /\ total' = total + cost
  /\ UNCHANGED <<bench, build, pc, specs, rows, cu, json, csv, exit, stable, runs>>

\* One case: load the artifact, run the instruction, check what it left.
\* The first case that fails ends the run.
Case_skipping_failures ==
  /\ AtCase
  /\ LET cost == build.cost[framework][workload][samples + 1] IN
       IF ~Loads(framework) THEN Fail("load")
       ELSE Add(IF cost = Failed THEN 0 ELSE cost)
Case_retrying_failures ==
  /\ AtCase
  /\ LET cost == build.cost[framework][workload][samples + 1] IN
       IF ~Loads(framework) THEN Fail("load")
       ELSE IF cost = Failed THEN UNCHANGED vars
       ELSE IF total + cost > MaxU64 THEN Fail("overflow")
       ELSE Add(cost)
Case ==
  /\ AtCase
  /\ LET cost == build.cost[framework][workload][samples + 1] IN
       IF ~Loads(framework) THEN Fail("load")
       ELSE IF cost = Failed THEN Fail("case")
       ELSE IF total + cost > MaxU64 THEN Fail("overflow")
       ELSE Add(cost)

\* The average closes the workload.
Average_keeping_total ==
  /\ pc = "measure" /\ samples = Seeds
  /\ cu' = Append(cu, total \div Seeds)
  /\ samples' = 0
  /\ UNCHANGED <<bench, build, pc, specs, rows, total, json, csv, exit, stable, runs>>
Average ==
  /\ pc = "measure" /\ samples = Seeds
  /\ cu' = Append(cu, total \div Seeds)
  /\ samples' = 0 /\ total' = 0
  /\ UNCHANGED <<bench, build, pc, specs, rows, json, csv, exit, stable, runs>>

\* A workload the framework does not implement leaves its place empty.
SkipWorkload ==
  /\ pc = "measure" /\ Len(rows) < Len(specs) /\ Len(cu) < Len(Workloads)
  /\ workload \notin Supports[framework]
  /\ cu' = Append(cu, None)
  /\ UNCHANGED <<bench, build, pc, specs, rows, samples, total, json, csv, exit, stable, runs>>

Row(f, measured, safe) ==
  [framework |-> f, cu |-> measured, vs |-> [w \in Compared |-> None], safe |-> safe]

\* The safety case has an outcome, not a cost: a program that lets the unsafe
\* instruction through gets a row all the same.
FinishRow ==
  /\ pc = "measure" /\ Len(rows) < Len(specs) /\ Len(cu) = Len(Workloads)
  /\ \/ /\ Loads(framework)
        /\ rows' = Append(rows, Row(framework, cu, build.safe[framework]))
        /\ cu' = <<>>
        /\ UNCHANGED <<bench, build, pc, specs, samples, total, json, csv, exit, stable, runs>>
     \/ Fail(IF Loads(framework) THEN "stat" ELSE "load")

WorkloadIndex(b, w) == CHOOSE k \in DOMAIN WorkloadsOf[b] : WorkloadsOf[b][k] = w

\* The rows with their deltas, for the workloads a row has.
WithDeltas(rs) ==
  LET base == rs[SelectInSeq(rs, LAMBDA r : r.framework = Baseline)].cu IN
  [k \in DOMAIN rs |->
     [rs[k] EXCEPT !.vs = [w \in Compared |->
        LET mine == rs[k].cu[WorkloadIndex(bench, w)] IN
        IF mine = None THEN None ELSE mine - base[WorkloadIndex(bench, w)]]]]

Compare ==
  /\ pc = "measure" /\ Len(rows) = Len(specs)
  /\ IF ~\E k \in DOMAIN rows : rows[k].framework = Baseline THEN Fail("baseline")
     ELSE /\ rows' = WithDeltas(rows)
          /\ pc' = "json"
          /\ UNCHANGED <<bench, build, specs, cu, samples, total, json, csv, exit, stable, runs>>

\* fs::write truncates before it writes: an error may leave part of a file.
Torn == <<>>

WriteJson ==
  /\ pc = "json"
  /\ \/ /\ json' = rows /\ pc' = "csv"
        /\ UNCHANGED <<bench, build, specs, rows, cu, samples, total, csv, exit, stable, runs>>
     \/ /\ End("json")
        /\ json' \in {json, Torn}
        /\ UNCHANGED csv

WriteCsv ==
  /\ pc = "csv"
  /\ \/ csv' = rows /\ End("ok")
     \/ csv' \in {csv, Torn} /\ End("csv")
  /\ UNCHANGED json

\* The process is killed.
Interrupt ==
  /\ pc # "idle"
  /\ End("interrupted")
  /\ json' \in {json} \cup (IF pc = "json" THEN {Torn} ELSE {})
  /\ csv' \in {csv} \cup (IF pc = "csv" THEN {Torn} ELSE {})

Step ==
  \/ CreateOutDir \/ Case \/ Average \/ SkipWorkload \/ FinishRow
  \/ Compare \/ WriteJson \/ WriteCsv

Next == Rebuild \/ Start \/ Step \/ Interrupt

\* A started run goes on; nobody has to start, rebuild or interrupt one.
Spec == Init /\ [][Next]_vars /\ WF_vars(Step)
-----------------------------------------------------------------------------

\* Type invariant.
TypeOK ==
  /\ bench \in Benches /\ build \in Builds
  /\ pc \in {"idle", "out_dir", "measure", "json", "csv"}
  /\ pc = "idle" <=> exit # "running"
  /\ Range(specs) \subseteq Range(Frameworks)
  /\ Len(rows) <= Len(specs) /\ Len(cu) <= Len(Workloads)
  /\ samples \in 0 .. Seeds /\ total \in 0 .. MaxU64
  /\ runs \in 0 .. MaxRuns

\* The report of a runner on a build, worked out at once: every framework that
\* is present, in matrix order, each workload's cases averaged, each average
\* compared.
SumOf(s) ==
  LET sum[n \in 0 .. Len(s)] == IF n = 0 THEN 0 ELSE sum[n - 1] + s[n]
  IN sum[Len(s)]
Averaged(b, built, f) ==
  [k \in DOMAIN WorkloadsOf[b] |->
     LET w == WorkloadsOf[b][k] IN
     IF w \in SupportsOf[b][f] THEN SumOf(built.cost[f][w]) \div Seeds ELSE None]
Report(b, built) ==
  LET taken == Select(Frameworks, built.present) IN
  [k \in DOMAIN taken |->
     LET f == taken[k] IN
     [framework |-> f, cu |-> Averaged(b, built, f), safe |-> built.safe[f],
      vs |-> [w \in ComparedOf[b] |->
                LET n == WorkloadIndex(b, w) IN
                IF w \in SupportsOf[b][f]
                  THEN Averaged(b, built, f)[n] - Averaged(b, built, Baseline)[n]
                  ELSE None]]]

\* A run that exits 0 has left two files that say the same of the same build:
\* nothing of an earlier run, of another framework or of another workload is
\* mixed in, although rows, totals and deltas are filled in piece by piece.  (No
\* such promise is kept when artifacts change under the run.)
SuccessIsTheReport ==
  [][stable /\ exit = "running" /\ exit' = "ok"
       => json' = Report(bench, build) /\ csv' = Report(bench, build)]_vars

\* A case that does not pass keeps the run from reporting: when it comes to
\* writing, every case of every row's workloads passes.
NoReportPastAFailure ==
  stable /\ pc \in {"json", "csv"} =>
    \A f \in Range(specs), w \in Range(Workloads) :
      w \in Supports[f] =>
        /\ f \in build.present
        /\ \A s \in 1 .. Seeds : build.cost[f][w][s] # Failed

\* Totals stay within u64, and nothing is written after a failure.
RunnerInv == TypeOK /\ NoReportPastAFailure

\* Every run ends, whichever artifacts are there.
EveryRunEnds == exit = "running" ~> exit # "running"

\* METHODOLOGY.md: a framework that fails the safety case "is recorded in the
\* report but excluded from CU-delta totals".
UnsafeRowsHaveNoDelta ==
  \A report \in {json, csv} \ {None} :
    \A k \in DOMAIN report :
      ~report[k].safe => \A w \in Compared : report[k].vs[w] = None
=============================================================================
