-------------------------- MODULE BenchRunnerProofs --------------------------
(***************************************************************************)
(* Proofs about the runner, for any frameworks, workloads, seeds and       *)
(* costs, and any number of runs, rebuilds and interruptions: as long as   *)
(* no artifact changes under a run, each of its variables holds what the   *)
(* artifacts measure, so that the report it leaves is theirs.  The report  *)
(* is made of sums and of a filtered list, which are recursive functions;  *)
(* what they compute is proved by an induction over a set of numbers.      *)
(***************************************************************************)
EXTENDS BenchRunner, WellFoundedInduction, TLAPS

-----------------------------------------------------------------------------
(***************************************************************************)
(* Recursion along a sequence.                                             *)
(***************************************************************************)

\* Induction over the naturals, for a set.
LEMMA NatSetInduction ==
  ASSUME NEW S, 0 \in S, \A n \in Nat : n \in S => n + 1 \in S
  PROVE  Nat \subseteq S
<1> DEFINE R == OpToRel(<, Nat)
           T == Nat \ S
<1>1. IsWellFoundedOn(R, Nat)
  BY NatLessThanWellFounded
<1>2. SUFFICES ASSUME T # {} PROVE FALSE
  OBVIOUS
<1>3. PICK x \in T : \A y \in T : ~(<<y, x>> \in R)
  <2> HIDE DEF R
  <2>1. T \subseteq Nat
    OBVIOUS
  <2> HIDE DEF T
  <2> QED BY <1>1, <1>2, <2>1, WFMin
<1>4. \A y \in T : ~(y < x)
  BY <1>3 DEF OpToRel
<1>5. x # 0 /\ x - 1 \in Nat /\ x - 1 < x /\ x = (x - 1) + 1
  OBVIOUS
<1> QED BY <1>4, <1>5

\* The sums of the beginnings of s.
Sums(s) ==
  CHOOSE sum : sum = [n \in 0 .. Len(s) |-> IF n = 0 THEN 0 ELSE sum[n - 1] + s[n]]

LEMMA SumsOf ==
  ASSUME NEW s, Len(s) \in Nat
  PROVE  /\ SumOf(s) = Sums(s)[Len(s)]
         /\ Sums(s)[0] = 0
         /\ \A n \in 1 .. Len(s) : Sums(s)[n] = Sums(s)[n - 1] + s[n]
<1> DEFINE Body(sum, m) == [n \in 0 .. m |-> IF n = 0 THEN 0 ELSE sum[n - 1] + s[n]]
           S == {m \in Nat : \E sum : sum = Body(sum, m)}
<1>1. 0 \in S
  <2> DEFINE g == [n \in 0 .. 0 |-> 0]
  <2>1. g = Body(g, 0)
    OBVIOUS
  <2> QED BY <2>1
<1>2. ASSUME NEW m \in Nat, m \in S PROVE m + 1 \in S
  <2>1. PICK g : g = Body(g, m)
    BY <1>2
  <2> DEFINE h == [n \in 0 .. m + 1 |-> IF n = m + 1 THEN g[m] + s[m + 1] ELSE g[n]]
  <2>2. \A n \in 0 .. m : g[n] = IF n = 0 THEN 0 ELSE g[n - 1] + s[n]
    BY <2>1
  <2>3. ASSUME NEW n \in 0 .. m + 1
        PROVE  h[n] = IF n = 0 THEN 0 ELSE h[n - 1] + s[n]
    <3>1. CASE n = m + 1
      BY <3>1
    <3>2. CASE n # m + 1
      BY <2>2, <3>2
    <3> QED BY <3>1, <3>2
  <2>4. h = Body(h, m + 1)
    BY <2>3
  <2> HIDE DEF h, Body
  <2> QED BY <2>4
<1>3. \E sum : sum = Body(sum, Len(s))
  <2> HIDE DEF Body
  <2>1. Nat \subseteq S
    <3>1. \A m \in Nat : m \in S => m + 1 \in S
      BY <1>2
    <3> HIDE DEF S
    <3> QED BY <1>1, <3>1, NatSetInduction
  <2> QED BY <2>1
<1>4. Sums(s) = Body(Sums(s), Len(s))
  BY <1>3 DEF Sums
<1>5. SumOf(s) = Sums(s)[Len(s)]
  BY DEF SumOf, Sums
<1> QED BY <1>4, <1>5

\* Sums of what can be added are numbers.
LEMMA SumTypes ==
  ASSUME NEW s, Len(s) \in Nat, NEW m \in 0 .. Len(s), \A n \in 1 .. m : s[n] \in Nat
  PROVE  Sums(s)[m] \in Nat
<1> DEFINE S == {n \in Nat : n <= m => Sums(s)[n] \in Nat}
<1>1. 0 \in S
  BY SumsOf
<1>2. ASSUME NEW n \in Nat, n \in S PROVE n + 1 \in S
  <2>1. CASE n + 1 <= m
    <3>1. Sums(s)[n + 1] = Sums(s)[n] + s[n + 1]
      BY <2>1, SumsOf
    <3>2. Sums(s)[n] \in Nat /\ s[n + 1] \in Nat
      BY <1>2, <2>1
    <3> QED BY <3>1, <3>2
  <2> QED BY <2>1
<1>3. m \in S
  <2> HIDE DEF S
  <2> QED BY <1>1, <1>2, NatSetInduction
<1> QED BY <1>3

\* What is kept of the beginnings of s.
Kept(s, S) ==
  CHOOSE kept : kept =
    [n \in 0 .. Len(s) |->
       IF n = 0 THEN <<>>
       ELSE IF s[n] \in S THEN Append(kept[n - 1], s[n]) ELSE kept[n - 1]]

LEMMA SelectIsKept ==
  ASSUME NEW s, Len(s) \in Nat, NEW S
  PROVE  /\ Select(s, S) = Kept(s, S)[Len(s)]
         /\ Kept(s, S)[0] = <<>>
         /\ \A n \in 1 .. Len(s) :
              Kept(s, S)[n] = IF s[n] \in S THEN Append(Kept(s, S)[n - 1], s[n])
                              ELSE Kept(s, S)[n - 1]
<1> DEFINE Take(kept, n) == IF s[n] \in S THEN Append(kept[n - 1], s[n]) ELSE kept[n - 1]
           Body(kept, m) == [n \in 0 .. m |-> IF n = 0 THEN <<>> ELSE Take(kept, n)]
           D == {m \in Nat : \E kept : kept = Body(kept, m)}
<1>1. 0 \in D
  <2> DEFINE g == [n \in 0 .. 0 |-> <<>>]
  <2>1. g = Body(g, 0)
    OBVIOUS
  <2> QED BY <2>1
<1>2. ASSUME NEW m \in Nat, m \in D PROVE m + 1 \in D
  <2>1. PICK g : g = Body(g, m)
    BY <1>2
  <2> DEFINE e == Take(g, m + 1)
             h == [n \in 0 .. m + 1 |-> IF n = m + 1 THEN e ELSE g[n]]
  <2>2. \A n \in 0 .. m : g[n] = IF n = 0 THEN <<>> ELSE Take(g, n)
    BY <2>1
  <2>3. \A n \in 0 .. m : h[n] = g[n]
    OBVIOUS
  <2>4. \A n \in 1 .. m + 1 : Take(h, n) = Take(g, n)
    BY <2>3
  <2>5. h[m + 1] = e
    OBVIOUS
  <2> HIDE DEF h
  <2>6. ASSUME NEW n \in 0 .. m + 1
        PROVE  h[n] = IF n = 0 THEN <<>> ELSE Take(h, n)
    <3>1. CASE n = m + 1
      BY <2>4, <2>5, <3>1
    <3>2. CASE n # m + 1
      <4> HIDE DEF Take
      <4> QED BY <2>2, <2>3, <2>4, <3>2
    <3> QED BY <3>1, <3>2
  <2>7. h = Body(h, m + 1)
    BY <2>6 DEF h
  <2> HIDE DEF Body
  <2> QED BY <2>7
<1>3. \E kept : kept = Body(kept, Len(s))
  <2> HIDE DEF Body
  <2>1. Nat \subseteq D
    <3>1. \A m \in Nat : m \in D => m + 1 \in D
      BY <1>2
    <3> HIDE DEF D
    <3> QED BY <1>1, <3>1, NatSetInduction
  <2> QED BY <2>1
<1>4. Kept(s, S) = Body(Kept(s, S), Len(s))
  BY <1>3 DEF Kept
<1>5. Select(s, S) = Kept(s, S)[Len(s)]
  BY DEF Select, Kept
<1> DEFINE K == Kept(s, S)
<1>6. K = Body(K, Len(s))
  BY <1>4
<1>7. K[0] = <<>> /\ \A n \in 1 .. Len(s) : K[n] = Take(K, n)
  <2> HIDE DEF K
  <2>1. \A n \in 0 .. Len(s) : K[n] = IF n = 0 THEN <<>> ELSE Take(K, n)
    <3> HIDE DEF Take
    <3> QED BY <1>6
  <2> HIDE DEF Take
  <2> QED BY <2>1
<1> QED BY <1>5, <1>7

\* What is selected of a sequence is a sequence of the same kind.
LEMMA SelectTypes ==
  ASSUME NEW E, NEW s \in Seq(E), NEW S
  PROVE  Select(s, S) \in Seq(E)
<1> DEFINE K == Kept(s, S)
           D == {n \in Nat : n <= Len(s) => K[n] \in Seq(E)}
<1>0. /\ Len(s) \in Nat /\ Select(s, S) = K[Len(s)] /\ K[0] = <<>>
      /\ \A n \in 1 .. Len(s) :
           K[n] = IF s[n] \in S THEN Append(K[n - 1], s[n]) ELSE K[n - 1]
  <2>1. Len(s) \in Nat
    OBVIOUS
  <2> QED BY <2>1, SelectIsKept
<1> HIDE DEF K
<1>1. 0 \in D
  <2>1. <<>> \in Seq(E)
    OBVIOUS
  <2>2. K[0] \in Seq(E)
    BY <1>0, <2>1
  <2> QED BY <2>2
<1>2. ASSUME NEW n \in Nat, n \in D PROVE n + 1 \in D
  <2>1. CASE n + 1 <= Len(s)
    <3>1. K[n + 1] = IF s[n + 1] \in S THEN Append(K[n], s[n + 1]) ELSE K[n]
      <4>1. n + 1 \in 1 .. Len(s) /\ (n + 1) - 1 = n
        BY <1>0, <2>1
      <4> QED BY <1>0, <4>1
    <3>2. K[n] \in Seq(E) /\ s[n + 1] \in E
      BY <1>2, <2>1
    <3>3. K[n + 1] \in Seq(E)
      BY <3>1, <3>2
    <3> QED BY <3>3
  <2> QED BY <2>1
<1>3. Len(s) \in D
  <2> HIDE DEF D
  <2> QED BY <1>0, <1>1, <1>2, NatSetInduction
<1> QED BY <1>0, <1>3

\* To append.
LEMMA Appended ==
  ASSUME NEW s, s \in Seq(Range(s)), NEW e
  PROVE  LET t == Append(s, e) IN
         /\ t \in Seq(Range(t)) /\ Len(t) = Len(s) + 1
         /\ t[Len(s) + 1] = e /\ \A k \in 1 .. Len(s) : t[k] = s[k]
<1> DEFINE t == Append(s, e)
<1>1. s \in Seq(Range(s) \cup {e}) /\ t \in Seq(Range(s) \cup {e})
  OBVIOUS
<1>2. Len(t) = Len(s) + 1 /\ t[Len(s) + 1] = e /\ \A k \in 1 .. Len(s) : t[k] = s[k]
  OBVIOUS
<1>3. t \in Seq(Range(t))
  <2> HIDE DEF t
  <2> QED BY <1>1 DEF Range
<1> QED BY <1>2, <1>3

LEMMA EmptyIsASequence == <<>> \in Seq(Range(<<>>)) /\ Len(<<>>) = 0
  OBVIOUS
-----------------------------------------------------------------------------
(***************************************************************************)
(* What every reachable state has behind it.                               *)
(***************************************************************************)

\* Framework f of runner b can be run; its cases of workload w pass; it can be
\* run and all its cases pass.
Runs(b, built, f) == {f} \cup SharedOf[b] \subseteq built.present
Passes(built, f, w) == \A s \in 1 .. Seeds : built.cost[f][w][s] # Failed
Done(b, built, f) ==
  /\ Runs(b, built, f)
  /\ \A w \in Range(WorkloadsOf[b]) : w \in SupportsOf[b][f] => Passes(built, f, w)

\* The row of framework f before its deltas.
MeasuredRow(b, built, f) ==
  [framework |-> f, cu |-> Averaged(b, built, f), vs |-> [w \in ComparedOf[b] |-> None],
   safe |-> built.safe[f]]

\* What each stage of a run has behind it, whatever happens to the artifacts.
Sequential ==
  specs \in Seq(Range(Frameworks)) /\ rows \in Seq(Range(rows)) /\ cu \in Seq(Range(cu))
Staged ==
  /\ pc = "idle" => stable /\ specs = <<>>
  /\ pc \in {"idle", "out_dir"} => rows = <<>>
  /\ pc # "measure" => cu = <<>> /\ samples = 0
  /\ Len(rows) = Len(specs) => cu = <<>> /\ samples = 0
  /\ pc \in {"json", "csv"} => Len(rows) = Len(specs)
  /\ samples = 0 => total = 0
  /\ samples # 0 => Len(cu) < Len(Workloads) /\ workload \in Supports[framework]

\* As long as the artifacts are those the run started with, everything held is
\* what they measure: the frameworks taken, the total of the workload, the
\* averages of the row, the rows, the report and the file already written.
TakenIsPresent == pc # "idle" => specs = retain(build.present)
TotalIsMeasured ==
  samples # 0 =>
    LET cost == build.cost[framework][workload] IN
    /\ Runs(bench, build, framework)
    /\ \A s \in 1 .. samples : cost[s] # Failed
    /\ total = Sums(cost)[samples]
CuIsMeasured ==
  \A k \in 1 .. Len(cu) :
    /\ cu[k] = Averaged(bench, build, framework)[k]
    /\ Workloads[k] \in Supports[framework] => Passes(build, framework, Workloads[k])
RowsAreMeasured ==
  pc = "measure" =>
    \A k \in 1 .. Len(rows) :
      rows[k] = MeasuredRow(bench, build, specs[k]) /\ Done(bench, build, specs[k])
ReportIsMeasured ==
  /\ pc \in {"json", "csv"} =>
       /\ rows = Report(bench, build)
       /\ \A k \in 1 .. Len(specs) : Done(bench, build, specs[k])
  /\ pc = "csv" => json = Report(bench, build)
Measured ==
  /\ TakenIsPresent /\ TotalIsMeasured /\ CuIsMeasured
  /\ RowsAreMeasured /\ ReportIsMeasured

IInv == TypeOK /\ Sequential /\ Staged /\ (stable => Measured)

-----------------------------------------------------------------------------
(***************************************************************************)
(* Every action keeps it.                                                  *)
(***************************************************************************)

\* The lengths, and what the workloads are.
LEMMA Lengths ==
  ASSUME TypeOK, Sequential
  PROVE  /\ Len(specs) \in Nat /\ Len(rows) \in Nat /\ Len(cu) \in Nat
         /\ Len(Workloads) \in Nat /\ DOMAIN Workloads = 1 .. Len(Workloads)
         /\ \A k \in 1 .. Len(Workloads) : Workloads[k] \in Range(Workloads)
         /\ Seeds \in Nat /\ Seeds # 0 /\ MaxU64 \in Nat /\ MaxRuns \in Nat
<1>1. Workloads \in Seq(Range(Workloads))
  BY RunnerAssumption DEF TypeOK, Workloads
<1>2. Len(specs) \in Nat /\ Len(rows) \in Nat /\ Len(cu) \in Nat
  BY DEF Sequential
<1>3. Len(Workloads) \in Nat /\ DOMAIN Workloads = 1 .. Len(Workloads)
  BY <1>1
<1>4. \A k \in 1 .. Len(Workloads) : Workloads[k] \in Range(Workloads)
  BY <1>1
<1> QED BY <1>2, <1>3, <1>4, RunnerAssumption

\* What a case of a framework costs.
LEMMA CostTypes ==
  ASSUME TypeOK, NEW f \in Range(Frameworks), NEW w \in Range(Workloads), w \in Supports[f]
  PROVE  /\ build.cost[f][w] \in [1 .. Seeds -> Nat \cup {Failed}]
         /\ Len(build.cost[f][w]) = Seeds
<1>1. build.cost[f][w] \in [1 .. Seeds -> Nat \cup {Failed}]
  <2>1. bench \in Benches /\ build \in Builds
    BY DEF TypeOK
  <2>2. w \in Range(WorkloadsOf[bench]) /\ w \in SupportsOf[bench][f] /\ build \in BuildsOf[bench]
    BY <2>1 DEF Workloads, Supports, Builds
  <2> QED BY <2>1, <2>2, CostAssumption
<1>2. build.cost[f][w] \in Seq(Nat \cup {Failed})
  BY <1>1, RunnerAssumption
<1>3. DOMAIN build.cost[f][w] = 1 .. Seeds
  BY <1>1
<1> QED BY <1>1, <1>2, <1>3, RunnerAssumption

\* A run that ends leaves nothing behind.
LEMMA EndKeeps ==
  ASSUME IInv, NEW how, how # "running", End(how)
  PROVE  IInv'
<1>1. /\ specs' = <<>> /\ rows' = <<>> /\ cu' = <<>> /\ samples' = 0 /\ total' = 0
      /\ pc' = "idle" /\ exit' = how /\ stable' = TRUE
      /\ bench' = bench /\ build' = build /\ runs' = runs
  BY DEF End
<1>2. Workloads' = Workloads
  BY <1>1 DEF Workloads
<1>3. TypeOK'
  <2>1. Range(specs') \subseteq Range(Frameworks)
    BY <1>1 DEF Range
  <2>2. Len(rows') = 0 /\ Len(cu') = 0 /\ Len(specs') = 0
    BY <1>1
  <2>3. /\ bench \in Benches /\ build \in Builds /\ runs \in 0 .. MaxRuns
        /\ Len(Workloads) \in Nat /\ Seeds \in Nat /\ MaxU64 \in Nat
    BY Lengths DEF IInv, TypeOK
  <2>4. Builds' = Builds
    BY <1>1 DEF Builds
  <2> QED BY <1>1, <1>2, <2>1, <2>2, <2>3, <2>4 DEF TypeOK
<1>4. Sequential'
  BY <1>1 DEF Sequential
<1>5. Staged'
  BY <1>1 DEF Staged
<1>6. Measured'
  <2>1. Len(cu') = 0
    BY <1>1
  <2> QED BY <1>1, <2>1 DEF Measured, TakenIsPresent, TotalIsMeasured, CuIsMeasured,
                            RowsAreMeasured, ReportIsMeasured
<1> QED BY <1>3, <1>4, <1>5, <1>6 DEF IInv

LEMMA FailKeeps ==
  ASSUME IInv, NEW where, where # "running", Fail(where)
  PROVE  IInv'
BY EndKeeps DEF Fail

\* The first state.
LEMMA Starts == Init => IInv
<1> SUFFICES ASSUME Init PROVE IInv
  OBVIOUS
<1>1. Len(rows) = 0 /\ Len(cu) = 0 /\ Len(specs) = 0
  BY DEF Init
<1>2. Sequential /\ Staged
  BY DEF Init, Sequential, Staged
<1>3. TypeOK
  <2>1. Workloads \in Seq(Range(Workloads))
    BY RunnerAssumption DEF Init, Workloads
  <2>2. Len(Workloads) \in Nat
    BY <2>1
  <2>3. Range(specs) \subseteq Range(Frameworks)
    BY DEF Init, Range
  <2> QED BY <1>1, <2>2, <2>3, RunnerAssumption DEF Init, TypeOK
<1>4. Measured
  BY <1>1 DEF Init, Measured, TakenIsPresent, TotalIsMeasured, CuIsMeasured,
              RowsAreMeasured, ReportIsMeasured
<1> QED BY <1>2, <1>3, <1>4 DEF IInv

\* The runner stays the same.
LEMMA Same ==
  ASSUME bench' = bench
  PROVE  Workloads' = Workloads /\ Supports' = Supports /\ Builds' = Builds
BY DEF Workloads, Supports, Builds

LEMMA RebuildKeeps == IInv /\ Rebuild => IInv'
<1> SUFFICES ASSUME IInv, Rebuild PROVE IInv'
  OBVIOUS
<1>1. /\ UNCHANGED <<bench, pc, specs, rows, cu, samples, total, json, csv, exit, runs>>
      /\ build' \in Builds /\ stable' = (pc = "idle")
  BY DEF Rebuild
<1>2. Workloads' = Workloads /\ Supports' = Supports /\ Builds' = Builds
  BY <1>1, Same
<1>3. TypeOK'
  BY <1>1, <1>2 DEF IInv, TypeOK
<1>4. Sequential'
  BY <1>1 DEF IInv, Sequential
<1>5. Staged'
  <2>1. framework' = framework /\ workload' = workload
    BY <1>1, <1>2 DEF framework, workload
  <2> QED BY <1>1, <1>2, <2>1 DEF IInv, Staged
<1>6. stable' => Measured'
  <2> SUFFICES ASSUME pc = "idle" PROVE Measured'
    BY <1>1
  <2>1. rows = <<>> /\ cu = <<>> /\ samples = 0
    BY DEF IInv, Staged
  <2>2. Len(cu') = 0
    BY <1>1, <2>1
  <2> QED BY <1>1, <2>1, <2>2 DEF Measured, TakenIsPresent, TotalIsMeasured, CuIsMeasured,
                                  RowsAreMeasured, ReportIsMeasured
<1> QED BY <1>3, <1>4, <1>5, <1>6 DEF IInv

LEMMA RetainTypes == ASSUME NEW present PROVE retain(present) \in Seq(Range(Frameworks))
<1>1. Frameworks \in Seq(Range(Frameworks))
  BY RunnerAssumption
<1>2. Select(Frameworks, present \cup {Baseline}) \in Seq(Range(Frameworks))
  BY <1>1, SelectTypes
<1> QED BY <1>2 DEF retain

LEMMA StartKeeps == IInv /\ Start => IInv'
<1> SUFFICES ASSUME IInv, Start PROVE IInv'
  OBVIOUS
<1>1. /\ UNCHANGED <<bench, build, rows, cu, samples, total, json, csv, stable>>
      /\ pc = "idle" /\ runs' = runs + 1 /\ runs < MaxRuns
  BY DEF Start
<1>2. Workloads' = Workloads /\ Supports' = Supports /\ Builds' = Builds
  BY <1>1, Same
<1>3. rows = <<>> /\ cu = <<>> /\ samples = 0 /\ total = 0 /\ stable /\ specs = <<>>
  BY <1>1 DEF IInv, Staged
<1>4. /\ bench \in Benches /\ build \in Builds /\ runs' \in 0 .. MaxRuns
      /\ Len(Workloads) \in Nat /\ Seeds \in Nat /\ MaxU64 \in Nat
  BY <1>1, RunnerAssumption, Lengths DEF IInv, TypeOK
<1>5. \/ pc' = "out_dir" /\ exit' = "running" /\ specs' = retain(build.present)
      \/ pc' = "idle" /\ exit' = "missing_artifact" /\ specs' = <<>>
  BY <1>1, <1>3 DEF Start
<1>6. specs' \in Seq(Range(Frameworks))
  <2>1. retain(build.present) \in Seq(Range(Frameworks))
    BY RetainTypes
  <2>2. <<>> \in Seq(Range(Frameworks))
    OBVIOUS
  <2> QED BY <1>5, <2>1, <2>2
<1>7. Len(specs') \in Nat /\ Len(rows') = 0 /\ Len(cu') = 0
  BY <1>1, <1>3, <1>6
<1>8. TypeOK'
  <2>1. Range(specs') \subseteq Range(Frameworks)
    BY <1>6 DEF Range
  <2>2. pc' = "idle" <=> exit' # "running"
    BY <1>5
  <2>3. /\ samples' \in 0 .. Seeds /\ total' \in 0 .. MaxU64
        /\ Len(rows') <= Len(specs') /\ Len(cu') <= Len(Workloads')
        /\ pc' \in {"idle", "out_dir", "measure", "json", "csv"}
    BY <1>1, <1>2, <1>3, <1>4, <1>5, <1>7
  <2> QED BY <1>1, <1>2, <1>4, <2>1, <2>2, <2>3 DEF TypeOK
<1>9. Sequential'
  BY <1>1, <1>6 DEF IInv, Sequential
<1>10. Staged'
  BY <1>1, <1>3, <1>5 DEF Staged
<1>11. Measured'
  BY <1>1, <1>3, <1>5, <1>7 DEF Measured, TakenIsPresent, TotalIsMeasured, CuIsMeasured,
                                RowsAreMeasured, ReportIsMeasured
<1> QED BY <1>8, <1>9, <1>10, <1>11 DEF IInv

LEMMA CreateOutDirKeeps == IInv /\ CreateOutDir => IInv'
<1> SUFFICES ASSUME IInv, CreateOutDir, ~Fail("out_dir") PROVE IInv'
  BY FailKeeps
<1>1. /\ UNCHANGED <<bench, build, specs, rows, cu, samples, total, json, csv, exit, stable, runs>>
      /\ pc = "out_dir" /\ pc' = "measure"
  BY DEF CreateOutDir
<1>2. Workloads' = Workloads /\ Supports' = Supports /\ Builds' = Builds
  BY <1>1, Same
<1>3. rows = <<>> /\ cu = <<>> /\ samples = 0
  BY <1>1 DEF IInv, Staged
<1>4. Len(rows) = 0 /\ Len(cu) = 0
  BY <1>3
<1>5. TypeOK'
  BY <1>1, <1>2 DEF IInv, TypeOK
<1>6. Sequential'
  BY <1>1 DEF IInv, Sequential
<1>7. Staged'
  BY <1>1, <1>3 DEF IInv, Staged
<1>8. stable' => Measured'
  BY <1>1, <1>3, <1>4 DEF IInv, Measured, TakenIsPresent, TotalIsMeasured, CuIsMeasured,
                          RowsAreMeasured, ReportIsMeasured
<1> QED BY <1>5, <1>6, <1>7, <1>8 DEF IInv

\* The case that is next: of a framework of the matrix, of a workload it
\* supports, with the costs of a build.
LEMMA AtCaseFacts ==
  ASSUME TypeOK, Sequential, AtCase
  PROVE  /\ framework \in Range(Frameworks) /\ workload \in Range(Workloads)
         /\ workload \in Supports[framework]
         /\ build.cost[framework][workload] \in [1 .. Seeds -> Nat \cup {Failed}]
         /\ Len(build.cost[framework][workload]) = Seeds
         /\ samples + 1 \in 1 .. Seeds
<1>1. framework \in Range(Frameworks)
  <2>1. Len(rows) + 1 \in 1 .. Len(specs)
    BY Lengths DEF AtCase
  <2>2. specs \in Seq(Range(Frameworks))
    BY DEF Sequential
  <2> QED BY <2>1, <2>2 DEF framework
<1>2. workload \in Range(Workloads)
  <2>1. Len(cu) + 1 \in 1 .. Len(Workloads)
    BY Lengths DEF AtCase
  <2> QED BY <2>1, Lengths DEF workload
<1>3. workload \in Supports[framework]
  BY DEF AtCase
<1>4. samples + 1 \in 1 .. Seeds
  BY Lengths DEF AtCase, TypeOK
<1> QED BY <1>1, <1>2, <1>3, <1>4, CostTypes

LEMMA CaseKeeps == IInv /\ Case => IInv'
<1> SUFFICES ASSUME IInv, Case,
                    ~Fail("load"), ~Fail("case"), ~Fail("overflow")
             PROVE  IInv'
  BY FailKeeps
<1> DEFINE costs == build.cost[framework][workload]
           cost == costs[samples + 1]
<1>1. /\ UNCHANGED <<bench, build, pc, specs, rows, cu, json, csv, exit, stable, runs>>
      /\ samples' = samples + 1 /\ total' = total + cost
      /\ Loads(framework) /\ cost # Failed /\ ~(total + cost > MaxU64)
  BY DEF Case, Add
<1>2. AtCase /\ TypeOK /\ Sequential
  BY DEF Case, IInv
<1>3. /\ costs \in [1 .. Seeds -> Nat \cup {Failed}] /\ Len(costs) = Seeds
      /\ samples + 1 \in 1 .. Seeds /\ workload \in Supports[framework]
      /\ framework \in Range(Frameworks) /\ workload \in Range(Workloads)
  BY <1>2, AtCaseFacts
<1>4. /\ pc = "measure" /\ Len(rows) < Len(specs) /\ Len(cu) < Len(Workloads)
      /\ Len(rows) \in Nat /\ Len(specs) \in Nat /\ Len(cu) \in Nat
      /\ Seeds \in Nat /\ MaxU64 \in Nat /\ samples \in 0 .. Seeds /\ total \in 0 .. MaxU64
  BY <1>2, Lengths DEF AtCase, TypeOK
<1>5. Workloads' = Workloads /\ Supports' = Supports /\ Builds' = Builds
  BY <1>1, Same
<1>6. framework' = framework /\ workload' = workload
  BY <1>1, <1>5 DEF framework, workload
<1> HIDE DEF costs
<1>7. cost \in Nat
  <2>1. cost \in Nat \cup {Failed}
    BY <1>3
  <2> QED BY <1>1, <2>1
<1>8. samples' \in 0 .. Seeds /\ samples' # 0 /\ total' \in 0 .. MaxU64
  <2> HIDE DEF cost
  <2> QED BY <1>1, <1>3, <1>4, <1>7
<1>9. TypeOK'
  BY <1>1, <1>2, <1>5, <1>8 DEF TypeOK
<1>10. Sequential'
  BY <1>1, <1>2 DEF Sequential
<1>11. Staged'
  BY <1>1, <1>3, <1>4, <1>5, <1>6, <1>8 DEF IInv, Staged
<1>12. ASSUME stable PROVE Measured'
  <2>1. Measured
    BY <1>12 DEF IInv
  <2>2. TotalIsMeasured'
    <3>1. Runs(bench, build, framework)
      BY <1>1 DEF Loads, Runs, Shared
    <3>2. \A s \in 1 .. samples : costs[s] # Failed
      <4>1. CASE samples = 0
        BY <4>1
      <4>2. CASE samples # 0
        BY <2>1, <4>2 DEF Measured, TotalIsMeasured, costs
      <4> QED BY <4>1, <4>2
    <3>3. \A s \in 1 .. samples + 1 : costs[s] # Failed
      BY <1>1, <1>4, <3>2
    <3>4. total = Sums(costs)[samples]
      <4>1. CASE samples = 0
        <5>1. total = 0
          BY <4>1 DEF IInv, Staged
        <5> QED BY <1>3, <1>4, <4>1, <5>1, SumsOf
      <4>2. CASE samples # 0
        BY <2>1, <4>2 DEF Measured, TotalIsMeasured, costs
      <4> QED BY <4>1, <4>2
    <3>5. Sums(costs)[samples + 1] = Sums(costs)[samples] + costs[samples + 1]
      <4>1. (samples + 1) - 1 = samples /\ Len(costs) \in Nat /\ samples + 1 \in 1 .. Len(costs)
        BY <1>3, <1>4
      <4> QED BY <4>1, SumsOf
    <3>6. total' = Sums(costs)[samples']
      BY <1>1, <3>4, <3>5
    <3>7. build'.cost[framework'][workload'] = costs
      BY <1>1, <1>6 DEF costs
    <3> QED BY <1>1, <1>6, <3>1, <3>3, <3>6, <3>7 DEF TotalIsMeasured
  <2>3. TakenIsPresent' /\ RowsAreMeasured' /\ ReportIsMeasured'
    BY <1>1, <2>1 DEF Measured, TakenIsPresent, RowsAreMeasured, ReportIsMeasured
  <2>4. CuIsMeasured'
    BY <1>1, <1>5, <1>6, <2>1 DEF Measured, CuIsMeasured
  <2> QED BY <2>2, <2>3, <2>4 DEF Measured
<1> QED BY <1>1, <1>9, <1>10, <1>11, <1>12 DEF IInv

\* A result closes the workload it is for.
LEMMA ResultKeeps ==
  ASSUME IInv, NEW result, cu' = Append(cu, result), samples' = 0, total' = 0,
         UNCHANGED <<bench, build, pc, specs, rows, json, csv, exit, stable, runs>>,
         pc = "measure", Len(rows) < Len(specs), Len(cu) < Len(Workloads),
         stable =>
           /\ result = Averaged(bench, build, framework)[Len(cu) + 1]
           /\ workload \in Supports[framework] => Passes(build, framework, workload)
  PROVE  IInv'
<1>1. Workloads' = Workloads /\ Supports' = Supports /\ Builds' = Builds
  BY Same
<1>2. /\ Len(rows) \in Nat /\ Len(specs) \in Nat /\ Len(cu) \in Nat
      /\ Len(Workloads) \in Nat /\ Seeds \in Nat /\ MaxU64 \in Nat
  BY Lengths DEF IInv
<1>3. framework' = framework
  BY DEF framework
<1>4. /\ cu' \in Seq(Range(cu')) /\ Len(cu') = Len(cu) + 1
      /\ cu'[Len(cu) + 1] = result /\ \A k \in 1 .. Len(cu) : cu'[k] = cu[k]
  <2>1. cu \in Seq(Range(cu))
    BY DEF IInv, Sequential
  <2> DEFINE t == Append(cu, result)
  <2>2. /\ t \in Seq(Range(t)) /\ Len(t) = Len(cu) + 1
        /\ t[Len(cu) + 1] = result /\ \A k \in 1 .. Len(cu) : t[k] = cu[k]
    BY <2>1, Appended
  <2>3. cu' = t
    OBVIOUS
  <2> HIDE DEF t
  <2> QED BY <2>2, <2>3
<1>5. TypeOK'
  <2>1. samples' \in 0 .. Seeds /\ total' \in 0 .. MaxU64 /\ Len(cu') <= Len(Workloads')
    BY <1>1, <1>2, <1>4
  <2> QED BY <1>1, <2>1 DEF IInv, TypeOK
<1>6. Sequential'
  BY <1>4 DEF IInv, Sequential
<1>7. Staged'
  BY <1>2 DEF IInv, Staged
<1>8. ASSUME stable PROVE Measured'
  <2>1. Measured
    BY <1>8 DEF IInv
  <2>2. CuIsMeasured'
    <3> SUFFICES ASSUME NEW k \in 1 .. Len(cu')
                 PROVE  /\ cu'[k] = Averaged(bench, build, framework)[k]
                        /\ Workloads[k] \in Supports[framework]
                             => Passes(build, framework, Workloads[k])
      BY <1>1, <1>3 DEF CuIsMeasured
    <3>1. CASE k \in 1 .. Len(cu)
      BY <1>4, <2>1, <3>1 DEF Measured, CuIsMeasured
    <3>2. CASE k = Len(cu) + 1
      BY <1>4, <1>8, <3>2 DEF workload
    <3> QED BY <1>2, <1>4, <3>1, <3>2
  <2>3. TakenIsPresent' /\ TotalIsMeasured' /\ RowsAreMeasured' /\ ReportIsMeasured'
    BY <2>1 DEF Measured, TakenIsPresent, TotalIsMeasured, RowsAreMeasured, ReportIsMeasured
  <2> QED BY <2>2, <2>3 DEF Measured
<1> QED BY <1>5, <1>6, <1>7, <1>8 DEF IInv

\* One result of a framework.
LEMMA AveragedAt ==
  ASSUME NEW b, NEW built, NEW f, NEW k \in DOMAIN WorkloadsOf[b]
  PROVE  Averaged(b, built, f)[k] =
           IF WorkloadsOf[b][k] \in SupportsOf[b][f]
             THEN SumOf(built.cost[f][WorkloadsOf[b][k]]) \div Seeds ELSE None
BY DEF Averaged

LEMMA AverageKeeps == IInv /\ Average => IInv'
<1> SUFFICES ASSUME IInv, Average PROVE IInv'
  OBVIOUS
<1>1. /\ UNCHANGED <<bench, build, pc, specs, rows, json, csv, exit, stable, runs>>
      /\ samples' = 0 /\ total' = 0 /\ cu' = Append(cu, total \div Seeds)
      /\ pc = "measure" /\ samples = Seeds
  BY DEF Average
<1>2. TypeOK /\ Sequential
  BY DEF IInv
<1>3. /\ Len(rows) \in Nat /\ Len(specs) \in Nat /\ Len(cu) \in Nat /\ Len(Workloads) \in Nat
      /\ Seeds \in Nat /\ Seeds # 0 /\ DOMAIN Workloads = 1 .. Len(Workloads)
      /\ Len(rows) <= Len(specs)
      /\ \A k \in 1 .. Len(Workloads) : Workloads[k] \in Range(Workloads)
  BY <1>2, Lengths DEF TypeOK
<1>4. /\ Len(rows) < Len(specs) /\ Len(cu) < Len(Workloads)
      /\ workload \in Supports[framework]
  <2>1. Len(rows) # Len(specs) /\ Len(cu) < Len(Workloads) /\ workload \in Supports[framework]
    BY <1>1, <1>3 DEF IInv, Staged
  <2> QED BY <1>3, <2>1
<1>5. ASSUME stable
      PROVE  /\ total \div Seeds = Averaged(bench, build, framework)[Len(cu) + 1]
             /\ Passes(build, framework, workload)
  <2> DEFINE costs == build.cost[framework][workload]
  <2>1. TotalIsMeasured
    BY <1>5 DEF IInv, Measured
  <2>2. total = Sums(costs)[Seeds] /\ \A s \in 1 .. Seeds : costs[s] # Failed
    BY <1>1, <1>3, <2>1 DEF TotalIsMeasured
  <2>3. Len(costs) = Seeds
    <3>1. framework \in Range(Frameworks)
      <4>1. Len(rows) + 1 \in 1 .. Len(specs) /\ specs \in Seq(Range(Frameworks))
        BY <1>2, <1>3, <1>4 DEF Sequential
      <4> QED BY <4>1 DEF framework
    <3>2. workload \in Range(Workloads)
      <4>1. Len(cu) + 1 \in 1 .. Len(Workloads)
        BY <1>3, <1>4
      <4> QED BY <1>3, <4>1 DEF workload
    <3> QED BY <1>2, <1>4, <3>1, <3>2, CostTypes
  <2>4. SumOf(costs) = total
    <3> HIDE DEF costs
    <3> QED BY <1>3, <2>2, <2>3, SumsOf
  <2>5. Averaged(bench, build, framework)[Len(cu) + 1] = SumOf(costs) \div Seeds
    <3>1. Len(cu) + 1 \in DOMAIN WorkloadsOf[bench]
      BY <1>3, <1>4 DEF Workloads
    <3>2. workload = WorkloadsOf[bench][Len(cu) + 1] /\ workload \in SupportsOf[bench][framework]
      BY <1>4 DEF workload, Workloads, Supports
    <3> QED BY <3>1, <3>2, AveragedAt
  <2>6. Passes(build, framework, workload)
    BY <2>2 DEF Passes
  <2> QED BY <2>4, <2>5, <2>6
<1> QED BY <1>1, <1>4, <1>5, ResultKeeps

LEMMA SkipWorkloadKeeps == IInv /\ SkipWorkload => IInv'
<1> SUFFICES ASSUME IInv, SkipWorkload PROVE IInv'
  OBVIOUS
<1>1. /\ UNCHANGED <<bench, build, pc, specs, rows, json, csv, exit, stable, runs>>
      /\ UNCHANGED <<samples, total>> /\ cu' = Append(cu, None)
      /\ pc = "measure" /\ Len(rows) < Len(specs) /\ Len(cu) < Len(Workloads)
      /\ workload \notin Supports[framework]
  BY DEF SkipWorkload
<1>2. samples' = 0 /\ total' = 0
  BY <1>1 DEF IInv, Staged
<1>3. None = Averaged(bench, build, framework)[Len(cu) + 1]
  <2>1. Len(cu) + 1 \in DOMAIN WorkloadsOf[bench]
    BY <1>1, Lengths DEF IInv, Workloads
  <2>2. WorkloadsOf[bench][Len(cu) + 1] \notin SupportsOf[bench][framework]
    BY <1>1 DEF workload, Workloads, Supports
  <2> QED BY <2>1, <2>2, AveragedAt
<1> QED BY <1>1, <1>2, <1>3, ResultKeeps

LEMMA FinishRowKeeps == IInv /\ FinishRow => IInv'
<1> DEFINE row == Row(framework, cu, build.safe[framework])
<1> SUFFICES ASSUME IInv, FinishRow,
                    ~Fail(IF Loads(framework) THEN "stat" ELSE "load")
             PROVE  IInv'
  BY FailKeeps
<1>1. /\ UNCHANGED <<bench, build, pc, specs, samples, total, json, csv, exit, stable, runs>>
      /\ pc = "measure" /\ Len(rows) < Len(specs) /\ Len(cu) = Len(Workloads)
      /\ Loads(framework) /\ rows' = Append(rows, row) /\ cu' = <<>>
  BY DEF FinishRow
<1>2. Workloads' = Workloads /\ Supports' = Supports /\ Builds' = Builds
  BY <1>1, Same
<1>3. /\ Len(rows) \in Nat /\ Len(specs) \in Nat /\ Len(cu) \in Nat
      /\ Len(Workloads) \in Nat /\ DOMAIN Workloads = 1 .. Len(Workloads)
      /\ \A k \in 1 .. Len(Workloads) : Workloads[k] \in Range(Workloads)
  BY Lengths DEF IInv
<1>4. samples = 0 /\ total = 0
  BY <1>1, <1>3 DEF IInv, Staged
<1>5. /\ rows' \in Seq(Range(rows')) /\ Len(rows') = Len(rows) + 1
      /\ rows'[Len(rows) + 1] = row /\ \A k \in 1 .. Len(rows) : rows'[k] = rows[k]
  <2>1. rows \in Seq(Range(rows))
    BY DEF IInv, Sequential
  <2> HIDE DEF row
  <2> DEFINE t == Append(rows, row)
  <2>2. /\ t \in Seq(Range(t)) /\ Len(t) = Len(rows) + 1
        /\ t[Len(rows) + 1] = row /\ \A k \in 1 .. Len(rows) : t[k] = rows[k]
    BY <2>1, Appended
  <2>3. rows' = t
    BY <1>1
  <2> HIDE DEF t
  <2> QED BY <2>2, <2>3
<1>6. Len(cu') = 0
  BY <1>1
<1>7. TypeOK'
  <2>1. Len(rows') <= Len(specs') /\ Len(cu') <= Len(Workloads')
    BY <1>1, <1>2, <1>3, <1>5, <1>6
  <2> QED BY <1>1, <1>2, <2>1 DEF IInv, TypeOK
<1>8. Sequential'
  BY <1>1, <1>5 DEF IInv, Sequential
<1>9. Staged'
  BY <1>1, <1>4 DEF IInv, Staged
<1>10. ASSUME stable PROVE Measured'
  <2>1. Measured
    BY <1>10 DEF IInv
  <2>2. cu = Averaged(bench, build, framework)
    <3>1. cu \in Seq(Range(cu))
      BY DEF IInv, Sequential
    <3>2. cu = [k \in 1 .. Len(cu) |-> cu[k]]
      BY <3>1
    <3>3. \A k \in 1 .. Len(cu) : cu[k] = Averaged(bench, build, framework)[k]
      BY <2>1 DEF Measured, CuIsMeasured
    <3>4. Averaged(bench, build, framework)
            = [k \in 1 .. Len(cu) |-> Averaged(bench, build, framework)[k]]
      BY <1>1, <1>3 DEF Averaged, Workloads
    <3> QED BY <3>2, <3>3, <3>4
  <2>3. row = MeasuredRow(bench, build, framework)
    BY <2>2 DEF Row, MeasuredRow, Compared
  <2>4. Done(bench, build, framework)
    <3>1. Runs(bench, build, framework)
      BY <1>1 DEF Loads, Shared, Runs
    <3>2. ASSUME NEW w \in Range(Workloads), w \in Supports[framework]
          PROVE  Passes(build, framework, w)
      <4>1. PICK k \in 1 .. Len(Workloads) : w = Workloads[k]
        BY <1>3 DEF Range
      <4> QED BY <1>1, <2>1, <3>2, <4>1 DEF Measured, CuIsMeasured
    <3> QED BY <3>1, <3>2 DEF Done, Workloads, Supports
  <2> HIDE DEF row
  <2>5. RowsAreMeasured'
    <3> SUFFICES ASSUME NEW k \in 1 .. Len(rows')
                 PROVE  rows'[k] = MeasuredRow(bench, build, specs[k])
                          /\ Done(bench, build, specs[k])
      BY <1>1 DEF RowsAreMeasured
    <3>1. CASE k \in 1 .. Len(rows)
      BY <1>1, <1>5, <2>1, <3>1 DEF Measured, RowsAreMeasured
    <3>2. CASE k = Len(rows) + 1
      BY <1>5, <2>3, <2>4, <3>2 DEF framework
    <3> QED BY <1>3, <1>5, <3>1, <3>2
  <2>6. TakenIsPresent' /\ TotalIsMeasured' /\ CuIsMeasured' /\ ReportIsMeasured'
    BY <1>1, <1>4, <1>6, <2>1 DEF Measured, TakenIsPresent, TotalIsMeasured, CuIsMeasured,
                                  ReportIsMeasured
  <2> QED BY <2>5, <2>6 DEF Measured
<1> QED BY <1>1, <1>7, <1>8, <1>9, <1>10 DEF IInv

\* A nonempty set of naturals has a least member.
LEMMA Least ==
  ASSUME NEW I, I \subseteq Nat, I # {}
  PROVE  Min(I) \in I
<1> DEFINE R == OpToRel(<, Nat)
<1>1. IsWellFoundedOn(R, Nat)
  BY NatLessThanWellFounded
<1>2. PICK x \in I : \A y \in I : ~(<<y, x>> \in R)
  <2> HIDE DEF R
  <2> QED BY <1>1, WFMin
<1>3. \A y \in I : x <= y
  <2> SUFFICES ASSUME NEW y \in I PROVE x <= y
    OBVIOUS
  <2>1. ~(y < x)
    BY <1>2 DEF OpToRel
  <2> QED BY <2>1
<1> QED BY <1>3 DEF Min

\* The first row of the baseline is one of its rows.
LEMMA BaselineRow ==
  ASSUME Sequential, \E k \in DOMAIN rows : rows[k].framework = Baseline
  PROVE  LET n == SelectInSeq(rows, LAMBDA r : r.framework = Baseline) IN
         n \in DOMAIN rows /\ rows[n].framework = Baseline
<1> DEFINE I == {i \in 1 .. Len(rows) : rows[i].framework = Baseline}
<1>1. Len(rows) \in Nat /\ DOMAIN rows = 1 .. Len(rows)
  BY DEF Sequential
<1>2. I # {} /\ I \subseteq Nat
  BY <1>1
<1>3. SelectInSeq(rows, LAMBDA r : r.framework = Baseline) = Min(I)
  BY <1>2 DEF SelectInSeq
<1>4. Min(I) \in I
  <2> HIDE DEF I
  <2> QED BY <1>2, Least
<1> QED BY <1>1, <1>3, <1>4

\* The average of cases that pass is a number.
LEMMA AverageTypes ==
  ASSUME TypeOK, NEW f \in Range(Frameworks), NEW n \in DOMAIN Workloads,
         Workloads[n] \in Supports[f], Passes(build, f, Workloads[n])
  PROVE  Averaged(bench, build, f)[n] \in Nat
<1> DEFINE costs == build.cost[f][Workloads[n]]
<1>1. Workloads[n] \in Range(Workloads)
  BY DEF Range
<1>2. costs \in [1 .. Seeds -> Nat \cup {Failed}] /\ Len(costs) = Seeds
  BY <1>1, CostTypes
<1>3. \A s \in 1 .. Seeds : costs[s] # Failed
  BY DEF Passes
<1>4. Averaged(bench, build, f)[n] = SumOf(costs) \div Seeds
  BY AveragedAt DEF Workloads, Supports
<1> HIDE DEF costs
<1>5. \A s \in 1 .. Seeds : costs[s] \in Nat
  BY <1>2, <1>3
<1>6. Sums(costs)[Seeds] \in Nat
  BY <1>2, <1>5, RunnerAssumption, SumTypes
<1>7. SumOf(costs) \in Nat
  BY <1>2, <1>6, RunnerAssumption, SumsOf
<1> QED BY <1>4, <1>7, RunnerAssumption

\* The index of a compared workload.
LEMMA IndexOf ==
  ASSUME TypeOK, NEW w \in ComparedOf[bench]
  PROVE  /\ WorkloadIndex(bench, w) \in DOMAIN Workloads
         /\ Workloads[WorkloadIndex(bench, w)] = w
<1>1. w \in Range(WorkloadsOf[bench])
  BY RunnerAssumption DEF TypeOK
<1>2. \E k \in DOMAIN WorkloadsOf[bench] : WorkloadsOf[bench][k] = w
  BY <1>1 DEF Range
<1> QED BY <1>2 DEF WorkloadIndex, Workloads

\* A row of a framework holds its averages; its deltas can be filled in.
LEMMA MeasuredRowHolds ==
  ASSUME NEW b, NEW built, NEW f
  PROVE  /\ MeasuredRow(b, built, f).framework = f
         /\ MeasuredRow(b, built, f).cu = Averaged(b, built, f)
<1> DEFINE none == [w \in ComparedOf[b] |-> None]
<1>1. MeasuredRow(b, built, f)
        = [framework |-> f, cu |-> Averaged(b, built, f), vs |-> none, safe |-> built.safe[f]]
  BY DEF MeasuredRow
<1> HIDE DEF none
<1> QED BY <1>1

LEMMA MeasuredRowGets ==
  ASSUME NEW b, NEW built, NEW f, NEW deltas
  PROVE  [MeasuredRow(b, built, f) EXCEPT !.vs = deltas]
           = [framework |-> f, cu |-> Averaged(b, built, f), safe |-> built.safe[f],
              vs |-> deltas]
<1> DEFINE none == [w \in ComparedOf[b] |-> None]
<1>1. MeasuredRow(b, built, f)
        = [framework |-> f, cu |-> Averaged(b, built, f), vs |-> none, safe |-> built.safe[f]]
  BY DEF MeasuredRow
<1> HIDE DEF none
<1> QED BY <1>1

\* With its deltas, what was measured row by row is the report of the build.
LEMMA DeltasMakeTheReport ==
  ASSUME IInv, stable, pc = "measure", Len(rows) = Len(specs),
         \E k \in DOMAIN rows : rows[k].framework = Baseline
  PROVE  WithDeltas(rows) = Report(bench, build) /\ Len(WithDeltas(rows)) = Len(specs)
<1> DEFINE b0 == SelectInSeq(rows, LAMBDA r : r.framework = Baseline)
           base == rows[b0].cu
           vs(k) == [w \in Compared |->
                       LET mine == rows[k].cu[WorkloadIndex(bench, w)] IN
                       IF mine = None THEN None ELSE mine - base[WorkloadIndex(bench, w)]]
           delta(f) == [w \in ComparedOf[bench] |->
                          LET n == WorkloadIndex(bench, w) IN
                          IF w \in SupportsOf[bench][f]
                            THEN Averaged(bench, build, f)[n]
                                   - Averaged(bench, build, Baseline)[n]
                            ELSE None]
<1>1. TypeOK /\ Sequential /\ RowsAreMeasured /\ TakenIsPresent
  BY DEF IInv, Measured
<1>2. /\ Len(rows) \in Nat /\ DOMAIN rows = 1 .. Len(rows) /\ specs \in Seq(Range(Frameworks))
      /\ DOMAIN specs = 1 .. Len(specs)
  BY <1>1, Lengths DEF Sequential
<1>3. \A k \in 1 .. Len(rows) :
        rows[k] = MeasuredRow(bench, build, specs[k]) /\ Done(bench, build, specs[k])
  BY <1>1 DEF RowsAreMeasured
<1>4. b0 \in 1 .. Len(rows) /\ rows[b0].framework = Baseline
  BY <1>1, <1>2, BaselineRow
<1>5. specs[b0] = Baseline
  <2> HIDE DEF b0
  <2>1. rows[b0].framework = specs[b0]
    BY <1>3, <1>4, MeasuredRowHolds
  <2> QED BY <1>4, <2>1
<1>6. base = Averaged(bench, build, Baseline)
  <2> HIDE DEF b0
  <2>1. rows[b0] = MeasuredRow(bench, build, Baseline)
    BY <1>3, <1>4, <1>5
  <2> QED BY <2>1, MeasuredRowHolds
<1>7. specs = Select(Frameworks, build.present)
  <2>1. specs = Select(Frameworks, build.present \cup {Baseline})
    BY <1>1 DEF TakenIsPresent, retain
  <2>2. Baseline \in build.present
    <3> HIDE DEF b0
    <3> QED BY <1>3, <1>4, <1>5 DEF Done, Runs
  <2>3. build.present \cup {Baseline} = build.present
    BY <2>2
  <2> QED BY <2>1, <2>3
<1>8. ASSUME NEW k \in 1 .. Len(rows) PROVE vs(k) = delta(specs[k])
  <2> HIDE DEF b0, base
  <2> SUFFICES ASSUME NEW w \in ComparedOf[bench]
               PROVE  LET n == WorkloadIndex(bench, w)
                          mine == rows[k].cu[n]
                      IN (IF mine = None THEN None ELSE mine - base[n]) =
                         (IF w \in SupportsOf[bench][specs[k]]
                            THEN Averaged(bench, build, specs[k])[n]
                                   - Averaged(bench, build, Baseline)[n]
                            ELSE None)
    BY DEF Compared
  <2> DEFINE n == WorkloadIndex(bench, w)
  <2>1. n \in DOMAIN Workloads /\ Workloads[n] = w
    BY <1>1, IndexOf
  <2>2. rows[k].cu[n] = Averaged(bench, build, specs[k])[n]
    BY <1>3, MeasuredRowHolds
  <2>3. specs[k] \in Range(Frameworks)
    BY <1>2
  <2> HIDE DEF n
  <2>4. CASE w \in SupportsOf[bench][specs[k]]
    <3>1. w \in Range(WorkloadsOf[bench])
      BY <2>1 DEF Range, Workloads
    <3>2. Passes(build, specs[k], w)
      BY <1>3, <2>4, <3>1 DEF Done
    <3>3. Averaged(bench, build, specs[k])[n] \in Nat
      BY <1>1, <2>1, <2>3, <2>4, <3>2, AverageTypes DEF Supports
    <3>4. Averaged(bench, build, specs[k])[n] # None
      BY <3>3, CostAssumption
    <3> QED BY <1>6, <2>2, <2>4, <3>4 DEF n
  <2>5. CASE w \notin SupportsOf[bench][specs[k]]
    <3>1. Averaged(bench, build, specs[k])[n] = None
      BY <2>1, <2>5, AveragedAt DEF Workloads
    <3> QED BY <2>2, <2>5, <3>1 DEF n
  <2> QED BY <2>4, <2>5
<1> DEFINE reported(f) ==
      [framework |-> f, cu |-> Averaged(bench, build, f), safe |-> build.safe[f],
       vs |-> delta(f)]
<1>9. WithDeltas(rows) = [k \in 1 .. Len(rows) |-> [rows[k] EXCEPT !.vs = vs(k)]]
  BY <1>2 DEF WithDeltas
<1>10. Report(bench, build) = [k \in 1 .. Len(rows) |-> reported(specs[k])]
  BY <1>2, <1>7 DEF Report
<1>11. ASSUME NEW k \in 1 .. Len(rows)
       PROVE  [rows[k] EXCEPT !.vs = vs(k)] = reported(specs[k])
  <2> HIDE DEF vs, delta
  <2>1. [MeasuredRow(bench, build, specs[k]) EXCEPT !.vs = delta(specs[k])]
          = reported(specs[k])
    BY MeasuredRowGets
  <2>2. rows[k] = MeasuredRow(bench, build, specs[k]) /\ vs(k) = delta(specs[k])
    BY <1>3, <1>8
  <2> HIDE DEF reported
  <2> QED BY <2>1, <2>2
<1>12. Len(WithDeltas(rows)) = Len(rows)
  <2> HIDE DEF vs
  <2> QED BY <1>2, <1>9
<1>13. WithDeltas(rows) = Report(bench, build)
  <2> HIDE DEF vs, reported
  <2> QED BY <1>9, <1>10, <1>11
<1> QED BY <1>12, <1>13

LEMMA CompareKeeps == IInv /\ Compare => IInv'
<1> SUFFICES ASSUME IInv, Compare, ~Fail("baseline") PROVE IInv'
  BY FailKeeps
<1>1. /\ UNCHANGED <<bench, build, specs, cu, samples, total, json, csv, exit, stable, runs>>
      /\ pc = "measure" /\ Len(rows) = Len(specs) /\ pc' = "json"
      /\ \E k \in DOMAIN rows : rows[k].framework = Baseline
      /\ rows' = WithDeltas(rows)
  BY DEF Compare
<1>2. Workloads' = Workloads /\ Supports' = Supports /\ Builds' = Builds
  BY <1>1, Same
<1>3. Len(rows) \in Nat /\ Len(specs) \in Nat /\ DOMAIN rows = 1 .. Len(rows)
  BY Lengths DEF IInv, Sequential
<1>4. cu = <<>> /\ samples = 0 /\ total = 0
  BY <1>1 DEF IInv, Staged
<1>5. Len(cu') = 0
  BY <1>1, <1>4
<1>6. rows' \in Seq(Range(rows')) /\ Len(rows') = Len(rows)
  <2> DEFINE base == rows[SelectInSeq(rows, LAMBDA r : r.framework = Baseline)].cu
             delta(k) == [rows[k] EXCEPT !.vs = [w \in Compared |->
                            LET mine == rows[k].cu[WorkloadIndex(bench, w)] IN
                            IF mine = None THEN None
                            ELSE mine - base[WorkloadIndex(bench, w)]]]
             t == [k \in 1 .. Len(rows) |-> delta(k)]
  <2>1. rows' = t
    BY <1>1, <1>3 DEF WithDeltas
  <2> HIDE DEF delta
  <2>2. Len(t) = Len(rows) /\ DOMAIN t = 1 .. Len(rows)
    BY <1>3
  <2>3. t \in Seq(Range(t))
    <3>1. \A k \in 1 .. Len(rows) : t[k] \in Range(t)
      BY DEF Range
    <3> DEFINE R == Range(t)
    <3> HIDE DEF R
    <3>2. t \in [1 .. Len(rows) -> R]
      BY <3>1 DEF R
    <3>3. t \in Seq(R)
      <4> HIDE DEF t
      <4> QED BY <1>3, <3>2
    <3> QED BY <3>3 DEF R
  <2> HIDE DEF t
  <2> QED BY <2>1, <2>2, <2>3
<1>7. TypeOK'
  BY <1>1, <1>2, <1>6 DEF IInv, TypeOK
<1>8. Sequential'
  BY <1>1, <1>6 DEF IInv, Sequential
<1>9. Staged'
  BY <1>1, <1>4, <1>6 DEF IInv, Staged
<1>10. ASSUME stable PROVE Measured'
  <2>1. Measured
    BY <1>10 DEF IInv
  <2>2. ReportIsMeasured'
    <3>1. rows' = Report(bench, build)
      BY <1>1, <1>10, DeltasMakeTheReport
    <3>2. \A k \in 1 .. Len(specs) : Done(bench, build, specs[k])
      BY <1>1, <2>1 DEF Measured, RowsAreMeasured
    <3> QED BY <1>1, <3>1, <3>2 DEF ReportIsMeasured
  <2>3. TakenIsPresent' /\ TotalIsMeasured' /\ CuIsMeasured' /\ RowsAreMeasured'
    BY <1>1, <1>4, <1>5, <2>1 DEF Measured, TakenIsPresent, TotalIsMeasured, CuIsMeasured,
                                  RowsAreMeasured
  <2> QED BY <2>2, <2>3 DEF Measured
<1> QED BY <1>1, <1>7, <1>8, <1>9, <1>10 DEF IInv

LEMMA WriteJsonKeeps == IInv /\ WriteJson => IInv'
<1> SUFFICES ASSUME IInv, WriteJson, ~End("json") PROVE IInv'
  BY EndKeeps
<1>1. /\ UNCHANGED <<bench, build, specs, rows, cu, samples, total, csv, exit, stable, runs>>
      /\ pc = "json" /\ json' = rows /\ pc' = "csv"
  BY DEF WriteJson
<1>2. Workloads' = Workloads /\ Supports' = Supports /\ Builds' = Builds
  BY <1>1, Same
<1>3. cu = <<>> /\ samples = 0 /\ Len(cu) = 0
  BY <1>1 DEF IInv, Staged
<1>4. TypeOK'
  BY <1>1, <1>2 DEF IInv, TypeOK
<1>5. Sequential'
  BY <1>1 DEF IInv, Sequential
<1>6. Staged'
  BY <1>1, <1>3 DEF IInv, Staged
<1>7. ASSUME stable PROVE Measured'
  <2>1. Measured
    BY <1>7 DEF IInv
  <2> QED BY <1>1, <1>3, <2>1 DEF Measured, TakenIsPresent, TotalIsMeasured, CuIsMeasured,
                                  RowsAreMeasured, ReportIsMeasured
<1> QED BY <1>1, <1>4, <1>5, <1>6, <1>7 DEF IInv

\* The report is written, or writing it fails, or somebody stops the run.
LEMMA WriteCsvKeeps == IInv /\ WriteCsv => IInv'
BY EndKeeps DEF WriteCsv

LEMMA InterruptKeeps == IInv /\ Interrupt => IInv'
BY EndKeeps DEF Interrupt

LEMMA StutterKeeps == IInv /\ UNCHANGED vars => IInv'
<1> SUFFICES ASSUME IInv, UNCHANGED vars PROVE IInv'
  OBVIOUS
<1>1. UNCHANGED <<bench, build, pc, specs, rows, cu, samples, total, json, csv, exit, stable, runs>>
  BY DEF vars
<1>2. Workloads' = Workloads /\ Supports' = Supports /\ Builds' = Builds
  BY <1>1, Same
<1>3. framework' = framework /\ workload' = workload
  BY <1>1, <1>2 DEF framework, workload
<1>4. TypeOK' /\ Sequential' /\ Staged'
  BY <1>1, <1>2, <1>3 DEF IInv, TypeOK, Sequential, Staged
<1>5. Measured => Measured'
  BY <1>1, <1>2, <1>3 DEF Measured, TakenIsPresent, TotalIsMeasured, CuIsMeasured,
                          RowsAreMeasured, ReportIsMeasured
<1> QED BY <1>1, <1>4, <1>5 DEF IInv

LEMMA NextKeeps == IInv /\ [Next]_vars => IInv'
BY RebuildKeeps, StartKeeps, CreateOutDirKeeps, CaseKeeps, AverageKeeps, SkipWorkloadKeeps,
   FinishRowKeeps, CompareKeeps, WriteJsonKeeps, WriteCsvKeeps, InterruptKeeps, StutterKeeps
   DEF Next, Step

-----------------------------------------------------------------------------
(***************************************************************************)
(* What the report files may say.                                          *)
(***************************************************************************)

\* Whatever artifacts are built, missing or replaced, and wherever runs fail or
\* are stopped, totals stay within u64 and no run comes to writing its report
\* past a case that does not pass.
THEOREM RunnerSound == Spec => []RunnerInv
<1>1. IInv => RunnerInv
  <2> SUFFICES ASSUME IInv PROVE RunnerInv
    OBVIOUS
  <2>1. NoReportPastAFailure
    <3> SUFFICES ASSUME stable, pc \in {"json", "csv"},
                        NEW f \in Range(specs), NEW w \in Range(Workloads), w \in Supports[f]
                 PROVE  f \in build.present /\ \A s \in 1 .. Seeds : build.cost[f][w][s] # Failed
      BY DEF NoReportPastAFailure
    <3>1. DOMAIN specs = 1 .. Len(specs)
      BY DEF IInv, Sequential
    <3>2. PICK k \in 1 .. Len(specs) : f = specs[k]
      BY <3>1 DEF Range
    <3>3. Done(bench, build, f)
      BY <3>2 DEF IInv, Measured, ReportIsMeasured
    <3> QED BY <3>3 DEF Done, Runs, Passes, Workloads, Supports
  <2> QED BY <2>1 DEF IInv, RunnerInv
<1> QED BY Starts, NextKeeps, <1>1, PTL DEF Spec

\* A run that exits 0 over artifacts nobody touched has left the report of its
\* build, worked out at once, in both files.
THEOREM SuccessReports == Spec => SuccessIsTheReport
<1>1. IInv /\ [Next]_vars
        => [stable /\ exit = "running" /\ exit' = "ok"
              => json' = Report(bench, build) /\ csv' = Report(bench, build)]_vars
  <2> SUFFICES ASSUME IInv, Next, stable, exit = "running", exit' = "ok"
               PROVE  json' = Report(bench, build) /\ csv' = Report(bench, build)
    OBVIOUS
  <2>1. ASSUME NEW how, how # "ok", End(how) PROVE FALSE
    BY <2>1 DEF End
  <2>2. ~\E where \in {"out_dir", "load", "case", "overflow", "stat", "baseline"} : Fail(where)
    BY <2>1 DEF Fail
  <2>3. CASE WriteCsv
    <3>1. ~End("csv") /\ pc = "csv" /\ csv' = rows /\ json' = json
      BY <2>1, <2>3 DEF WriteCsv
    <3>2. ReportIsMeasured
      BY DEF IInv, Measured
    <3> QED BY <3>1, <3>2 DEF ReportIsMeasured
  <2>4. ~Rebuild /\ ~Start /\ ~Interrupt /\ ~WriteJson
    BY <2>1 DEF Rebuild, Start, Interrupt, WriteJson, IInv, TypeOK
  <2>5. ~CreateOutDir /\ ~Case /\ ~Average /\ ~SkipWorkload
    BY <2>2 DEF CreateOutDir, Case, Add, Average, SkipWorkload
  <2>6. ~FinishRow /\ ~Compare
    BY <2>2 DEF FinishRow, Compare
  <2> QED BY <2>3, <2>4, <2>5, <2>6 DEF Next, Step
<1> QED BY Starts, NextKeeps, <1>1, PTL DEF Spec, SuccessIsTheReport
=============================================================================
