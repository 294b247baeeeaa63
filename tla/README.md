# Verification of hopper-bench

hopper-bench measures what Solana programs cost in several frameworks. A measurement is worth
something only if the programs it compares do the same thing, do it right, and if the runner writes
down what it measured. This directory holds TLA+ models of the programs, of the runners and of the
scripts around them, TLC runs that check them on small instances, and proofs, checked by TLAPS, of what
matters most for every value of the constants.

Paths below are relative to the repository; module names are files of this directory.

## 1. Inventory

| Component | State | Operations | Talks to |
|---|---|---|---|
| `mock-amm` | none of its own; moves lamports between a pool and a user | SWAP: floor(amount·num/den) out for amount in, checked | called directly and by CPI |
| `pinocchio-router` | in one call: hop index, forwarded amount, lamports before the CPI | EXECUTE_ROUTE: up to three CPIs, measured output, min_out gate | CPI into mock-amm |
| `quasar-router` | the same, and the iterator over remaining accounts | EXECUTE_ROUTE | CPI into mock-amm |
| `pinocchio-vault` | per user a vault account: lamports, authority, counter | deposit, withdraw, authorize, counter access | CPI into the system program |
| `anchor-vault` | the same | the same, in Anchor's contexts and handlers | CPI into the system program |
| `lazy-dispatch-vault` | a counter in the vault account; in the lazy build, the context's position | eight instructions, built eagerly and lazily | – |
| `framework-vault-bench`, `router-bench` | in one run: specs, rows, totals; on disk: artifacts and two report files | load, measure, compare, write | the artifacts (through Mollusk), the file system |
| `lazy-dispatch-bench` | none; prints a table | one case per instruction and build | the two artifacts |
| `hopper-bench` | its accounts: layout header and two balances | 22 instructions, each a primitive between two log calls | the log |
| `primitive-bench` | in one run: the artifact read, bootstrapped fixtures, log lines, rows; on disk: two report files | bootstrap, double run, bracket parsing, overhead, write | hopper-bench (through Mollusk), the file system |
| `run-bench-docker.sh`/`.ps1` | a key pair file, a validator container | key pair, up, wait until healthy, bench, down | docker, the validator, the Hopper CLI |
| `compare-framework-vaults.ps1` | built and staged binaries, key files, deployed programs, a manifest | build, stage, deploy, write, bench | cargo, the Solana CLI, framework-vault-bench |
| `measure.sh`/`.ps1` | none | one command | – |
| documents, `results/`, `cu_baselines.toml` | data | – | – |

Where the behaviour is hard, and what makes each part correct:

- **mock-amm.** Two balances are computed from values read before and written one after the other;
  pool and user may be the same account; every step is checked u64/u128 arithmetic. Correct: a swap
  settles exactly the rounded-down payout between two accounts, or nothing.
- **The routers.** What a hop feeds on is a measurement, `after + in - before`, of an account that
  another program has just written, and that may itself be the pool; hops may share pools; a hop may
  fail after others have moved money; the Quasar router discovers a short account list only when its
  iterator runs out, in the middle of the route. Correct: the amount forwarded is what the hops so far
  really yielded, an Ok honours min_out in committed balances, nobody else pays, a failed route leaves
  no trace, and the two routers do the same.
- **The vaults.** The handler's checks, Anchor's constraints and the runtime's rules overlap, and what
  one forgets another must catch; Anchor's withdraw debits before it checks. Correct: money moves only
  between a user and its own vault with the user's signature; a counter counts only for its authority;
  Ok means all, an error means nothing; what is in a program-owned vault can be taken out.
- **The lazy build.** Accounts are resolved by position, call by call. Correct: it is the eager build.
- **The vault and router runners.** Cases fail or do not load in the middle of a row; artifacts change
  on disk between cases; the process is killed between or in the middle of two file writes; totals, rows
  and deltas are filled in place. Correct: exit 0 means that both files hold exactly the report of what
  is on disk.
- **The primitive bench.** A handler may return ahead of its bracket or inside it; what each one writes
  stays in its account (when the program is deployed) or must not (in the runner); the same log collector
  serves all instructions in turn; two runs of a row may disagree in either figure; the overhead is known
  only when all rows are measured. Correct: a report that is written is the program's, and every sound
  program gets one.
- **The docker scripts.** Interrupts and failures between "started" and "cleanup armed"; a validator
  that comes up late, never, or dies; a probe that answers after the deadline or not at all; two sessions
  over one container. Correct: the validator is stopped on exit, nothing is benched before an answer, the
  wait ends, and exit 0 means what it says.
- **The comparison script.** Deployments fail after others have gone through; every session overwrites
  key pairs and leaves binaries for the next; the Anchor program must declare the ID it is deployed
  under. Correct: manifest, key files, cluster and report tell of the same binaries.

`PROJECT.json` lists every component with its modules and every hazard with the line where it bites
and the properties that cover it.

## 2. The modules

    Svm ─ MockAmm ─┬─ PinocchioRouter ─ RouteOracle ─ Market   the router, router-bench's expectations,
                   │                                           and direct swaps between the routes
                   └─ QuasarRouter
    Svm ─ MockAmm ─ AtomicRoute                           abstract: one route is one step
    RouterParity   = PinocchioRouter × QuasarRouter
    Svm ─ Vault ─┬─ PinocchioVault                        four instructions
                 ├─ AnchorVault
                 └─ VaultOracle ─ VaultParity             framework-vault-bench's cases; both programs
    VaultBook                                             abstract: wallets, savings, counters
    DispatchVault ─┬─ EagerDispatch                       abstract: an instruction is one step
                   └─ LazyDispatch                        one action per call of the context
    BenchRunner                                           the pipeline of the vault and router runners
    HopperBench ─ PrimitiveBench                          the 22 instructions, and their runner
    DockerBench, VaultComparison                          the scripts
    RouteInstances, VaultInstances, RunnerInstances, MC*  small instances
    RouterProofs ─┬─ MarketProofs                         theorems about one router, its market and the
                  └─ RouterParityProofs                   reference it is held against, and both routers
    VaultProofs                                           about the vaults, together and each alone
    LazyDispatchProofs, ScriptProofs                      about the dispatch vault and the scripts
    BenchRunnerProofs, PrimitiveBenchProofs               about the runners and hopper-bench

How state and actions correspond to the code:

- **Balances.** `ledger` (or `lamports`) is what the runtime has committed. A program works on a copy;
  `Svm!Accept` is the runtime's verdict on the copy: only its owner may debit an account, and the sum
  over the accounts named must not change. An error throws the copy away. In the routers the copy is
  the variable `work`, since it lives across several CPIs.
- **Routers.** One action per stretch of code between two points where the instruction can stop:
  `Enter` (data, number of accounts, user writable; Quasar's `#[derive(Accounts)]`), `CheckHop` (the
  hop's accounts, then the lamports read), `InvokeSwap`/`Invoke` (the CPI and its `?`), `Measure` (the
  checked forwarding and `hop += 1`), `Gate` (min_out and return). `Submit` is the runtime's. Which
  check comes first, and which error it returns, is kept: parity is about that too.
- **Market.** `Swap` is mock-amm's whole handler invoked directly, with any data and any accounts, while
  no route is under way: the runtime shows nobody the inside of an instruction.
- **Vaults.** One action per instruction, for the runtime runs one instruction on an account at a time
  and nothing calls back into the programs. A handler is an operator from the instruction and the
  present state to an outcome `[err, lamports, data]`; Anchor's half-written withdrawal is an outcome
  with an error and changed lamports, which `Accepted` then drops. `VaultParity` runs a history through
  either program and keeps the other's verdict beside each answer.
- **Dispatch.** `EagerDispatch` is `process_eager` in one step. In `LazyDispatch`, `SkipAccount` and
  `NextAccount` are the calls on the `LazyContext`, any of which may end the instruction; `Calls` is
  the list each arm of `process_lazy` makes.
- **Runner.** `Start` (which artifacts are there, `retain`), `CreateOutDir`, `Case` (one iteration of
  the seed loop of `average_cu`), `Average`, `SkipWorkload`, `FinishRow` (the safety case, the size),
  `Compare` (the baseline lookup and the deltas), `WriteJson`, `WriteCsv`. `Rebuild` and `Interrupt`
  are the environment. `bench` says which of the two runners a history is of; they differ in their
  workloads and in the shared artifact (mock-amm) that every row of router-bench needs.
- **HopperBench.** A handler is an operator from the accounts and the instruction to
  `[err, bank, lines]`; `lines` is how many of its two log calls it got to. The layout an account
  carries, and its two balances at their different offsets, are the data the checks tell apart.
- **PrimitiveBench.** `Start`, `add_program`, `Bootstrap` (`write_header` and the processor vault's
  header), `FirstRun` and `SecondRun` of a row, `Net` (the overhead row and `net_cu`), `create_dir_all`,
  `WriteMd`, `WriteCsv`; `Rebuild` and `Interrupt` again. `loaded` is what Mollusk read, once. An
  artifact may be a build of other sources: longer headers, missing instructions, other brackets, noise.
- **DockerBench.** `at` is where each session is; everything before `docker compose up` has returned is
  unarmed, so that `ExitUnarmed` cleans nothing up and `Leave` goes through `Cleanup`. `left` is the time
  to the deadline, in units of the 0.5 s sleep; `Tick` is real time, and `MayLast` says which step takes
  none, which a fixed time and which any. A probe looks at the validator at one moment and returns at
  another. `key` numbers the key pairs made, so that one put in another's place would be seen.
- **VaultComparison.** `todo` is what is left of the builds or of `$artifactSpecs`, `deployments` is
  `$deployments`; `DeployKey`, `Send` and `Show` are the three parts of `Deploy-FrameworkProgram`. Each
  action of a session is a command that may fail instead, which ends the script (`End`); what it wrote
  before stays. A binary is the session that built it and the ID it declares.

What the modules abstract. An instruction is a record of what the code tests: is the header complete,
how many whole rates follow, are bytes left over; never bytes. A key is one account: signer, writable,
owner and size go by key. A PDA is a function that is injective and hits no user. u64 is `0 .. MaxU64`
for any natural `MaxU64`. Costs are constants of a build, since Mollusk is deterministic.

Names keep the source's. A definition `X_some_bug` right above `X` is `X` with a plausible mistake; no
specification uses one. `PROJECT.json` says which property tells it from `X`. An invariant named
`...Inv` is a conjunction of named parts: types and what is proved or checked along with them.

External parts, modelled from how the code uses them: the runtime (`Accept`, `Accepted`, submission,
rollback), the system program's transfer, Hopper's `LazyContext`, `fast_entrypoint!`, `segment_mut`,
checks and overlays, `fs::write` (it truncates before it writes), docker and the container, the Solana
CLI, Anchor's declared-ID check, builds, kills and Ctrl-C.

## 3. The runs

| Run | Question | Bounds |
|---|---|---|
| `router_routes` | Is a route one step, all its hops in turn or the first failure's error? Does an account of anybody else's ever pay? Does every route that can be paid for succeed? Does the measurement wrap? | one and two hops over all choices of four pools (the user's own and a foreign one among them) for two users, three rates, all single and some double defects; supply 9, u64::MAX 19 |
| `router_market` | Does mock-amm settle exactly or not at all, directly and under the router, do routes match `expected_hops`, and does every route return? | up to three hops with the benchmark's rates, direct swaps of all account pairs (aliased, foreign, missing), rates with a zero numerator and a zero denominator; u64::MAX 7 and a supply above it, so that every checked operation overflows somewhere |
| `router_any_venue` | What of this does not rest on mock-amm? Forwarding and the gate | a venue making any move the runtime accepts; u64::MAX 4; up to three hops |
| `router_parity` | Do the two routers accept the same, leave the same and say the same? Does an Ok of Quasar's mean all hops, each on its own accounts? | one and two hops, and every defect |
| `vault_parity` | Book-keeping, all-or-nothing, access to savings, the bench's cases, agreement of both vaults | three users: vault set up as in the benchmark, vault with someone else's authority, vault the program does not own; every operation on every vault, one defect each; u64::MAX 3 |
| `lazy_dispatch` | Is the lazy build the eager one, and does it resolve no more than the instruction map says? | ten discriminators and no data; zero to nine accounts; user and vault in order, swapped, another vault, the same account twice; u64::MAX 2 |
| `bench_runner` | What do the report files hold after any number of runs? | three frameworks, two seeds, eight kinds of disk, two runs, one rebuild in the middle of a run |
| `primitive_bench` | What may a deployed hopper-bench write? Is the report the program's, and does every sound program get one? | deployed: three accounts, 23 discriminators and no data, wrong owners, signers, sizes and headers, u64::MAX 3; under the runner: 14 builds, one rebuild per run, two runs |
| `scripts` | What do interrupted, failing and overlapping sessions leave behind? Does one replace another's key pair? | docker: one `.sh` and one `.ps1` session at once, deadline 3, probe limit 2; comparison: three sessions in a row, twelve command lines, four kinds of earlier builds |
| `router_parity_errors`, `vault_parity_foreign`, `vault_runner_unsafe` | see section 5 | |

Every run of a program explores histories of any length: instructions come one after another from
whatever state the last one left, until TLC has seen all reachable states. Runs of a runner and sessions
of a script are counted and bounded (`MaxRuns`, `MaxSessions`, `Sessions`).

Why the bounds are enough. The routers' loop is at most three hops long by `MAX_HOPS`, and
`router_market` goes that far; two hops already have every pair of roles an account can play. Arithmetic
is compared with a bound only, so a small `MaxU64` reaches each comparison from both sides;
`router_routes` keeps a `MaxU64` of more than twice the supply, which is what the success rows need
(`RealisticSupply`). The vaults' three users are the three ways a vault can stand to the program. In the
runners, two runs are enough for a file of an earlier run to be left over in a later one, and two seeds
for a total to be wrong. A container is shared by two sessions or by more in the same way. Of three
comparison sessions the first writes a manifest, the second replaces key pairs and stops, and the third
finds both. The proofs then remove the bounds for the properties named in section 4.

Fairness. `WF(RouterStep)`, `WF(Step)` of `BenchRunner`: a route or a run that has started goes on by
itself; nothing in it waits for anybody. Nobody is obliged to submit, to start, to rebuild or to interrupt.
The properties that need it are `EveryRouteReturns` and `EveryRunEnds`, and each rests on a loop counter
that really advances. `DockerFairness` says that the commands of a script return, time goes on, and probes
with a time limit (`Invoke-RestMethod -TimeoutSec 2`) come back. It does not say so of the `.sh`'s `curl`,
which has none, nor that a validator ever becomes healthy; `EverySessionEnds` therefore leaves one
exception, a `.sh` whose last probe is never answered. `LazyDispatch`, `PrimitiveBench` and
`VaultComparison` are stated without fairness: their properties are safety, and no arm of `process_lazy`
loops.

Deadlock is checked in every run but `scripts`: there, when the last of the counted sessions is over,
nothing more need happen.

Some properties carry a condition, and it matters:

- `SavingsArePaidOut` speaks of vaults the program owns. Neither program creates or assigns a vault; a
  deposit into a vault address that was never assigned succeeds (the system program's transfer does not
  mind), and no instruction of the program gets it back.
- `ParityInv` (`ChecksSuffice` in it) names for each vault program what its own checks leave to the runtime:
  for Pinocchio, counter accesses to a read-only vault; for Anchor, withdrawals from a vault the program
  does not own. Deposits are not in it: their transfer is the system program's.
- `SuccessIsTheReport` and `NoReportPastAFailure` (in `RunnerInv`) speak of runs during which no artifact
  changed (`stable`). Every case reads the file again, and a build finishing in the middle of a run does
  mix two programs in one report; the code does not guard against it and nothing says it does.
  `ReportIsTheProgram` needs no such condition, since primitive-bench reads its artifact once.
- `ReportIsTheProgram` and `SoundProgramIsReported` speak of builds that repeat themselves
  (`Repeatable`). A build that does not may pass the double run by luck; `FiguresRepeat` says what is
  then still true of its rows.
- `BalancesOnlyGrow` excepts an increment at u64::MAX: the handler adds without a check, and in a release
  build the balance starts again at zero.
- `StoppedOnExit` excepts what `leaked` records: a session that ends inside `docker compose up`, before
  the trap is set (`run-bench-docker.sh:51-58`), and a `docker compose down` that fails. "Always stop the
  validator on exit" (`run-bench-docker.sh:53`) holds from there on.
- `AnchorRunsUnderItsId` excepts a session told not to build and not to deploy: it runs whatever Anchor
  artifact it finds.
- `KeysAreTheManifests` excepts the time from a session's first new key pair to its manifest (`cut`): a
  session that stops in between leaves the earlier manifest beside key files that are not its programs'.

## 4. The proofs

Every safety property that a run expects to hold is also a theorem of its specification, for every value
of the constants; what is only model-checked is named at the end of this section.

Assumptions, each named in the module that declares the constants and evaluated by TLC on every run.
`MaxU64` is a natural; the submitted instructions and initial states have the types given. Derived vault
addresses are pairwise different and no user's. For the routers' proofs with mock-amm,
`AmmOwned \subseteq Accounts`; for what is said of the supply (`OracleAssumption`), the accounts are
finitely many. For the scripts, deadline and probe limit are naturals and command lines and
earlier builds have their types. `RunnerAssumption`: the baseline is one of the frameworks and supports
every workload, the compared ones are among them, and there is at least one seed (the table of user cases
is a constant that is not empty). `CostAssumption`: every case a framework supports has a cost or fails. In
`PrimitiveBench`, the two fixture addresses differ (`[0x11; 32]` and `[0x22; 32]`); `ArtifactAssumption`
says that costs are naturals, that an artifact only lacks or miscounts lines of the 22 instructions, and
that none of them runs out of compute units before its last log line, which is what makes the difference
of two lines the cost between them; `DepositAssumption` that disc 19's argument is a u64. No bound on the
number of accounts, users, hops' amounts, frameworks, seeds, sessions, instructions, runs or steps.

**One router** (`RouterProofs`). The properties are not inductive as they stand: `MinOutHonoured` relates
the state before the first hop to the one after the last. `RouteInv` adds what links them:
`AmountForwarded` (amount in hand + committed user balance = working user balance + amount paid in, in the
two forms it takes before and after the CPI), `WorkConfined` (the copy differs from the ledger only in
accounts the route names, and has taken nothing from an account the venue does not own) and `Control`.
`RouteInv` is first proved for `SpecAnyVenue`, where the venue may do anything the runtime accepts: one
lemma per action. From it follows the gate (`AnyVenueMinOut`). Then mock-amm is shown to be such a venue
(`SwapIsAVenueMove`), so all of it holds of the router as it is. `ForeignFundsCorrect` and
`SwapChecksSuffice` need mock-amm's arithmetic. So the gate does not depend on the venue being honest;
`FundedRouteSucceeds` does.

`Refinement` says that the router implements `AtomicRoute`, where a route is one step. `After` works out
from the committed balances what stands after each hop in turn; an Ok needs all of them and the gate and
leaves every balance where the last hop does, and an admitted route that is turned down reports the first
check, hop or gate to fail. The router gets there in up to three rounds of its loop. The invariant that
links the two (`InHop`) says that at each place of the loop `work` and `in_amount` are what stands after as
many hops as `hop` counts. Every action but `Submit` and the one that returns is then a stutter, and the
one that returns has been through all hops or has `After`'s error. That an error leaves no trace is the
runtime's doing; the router's part is not to go on past a failed hop, not to return Ok before the last, and
to feed each hop what the one before it yielded.

**The market and the reference** (`MarketProofs`). A direct swap is taken through mock-amm's checks and the
runtime's acceptance (`SwapSettles`); with one account as pool and user, what the second write leaves is
accepted only if it is what was there, that is if the payout is the amount. `MarketInvariant` then says
that direct swaps keep `RouteInv`. The properties about supply and rates need two more invariants.
`SupplyInv`: a route sees the supply that is committed, and what its measurement compares with is a part of
it; a swap within a pair leaves the sum over all accounts alone, whatever their number (`SupplyKept`).
`MeasureNeverWraps` follows. `AsExpected`: after as many hops as are done, the amount in hand is
`expected_hops`' and every account holds what `BalanceAfter` says, the start plus the turns of the hops it
served. `MatchesExpectedHops` is its last instance, once `ExpectedBalance`'s sum over the hops of a pool is
written out (`ThreeTerms`). For `FundedRouteSucceeds` every check on the way is shown to pass. The
fixture's user and pools are pairwise different (`ShapeApart`: a set of that many accounts has no two
alike), so each swap finds its pool as it was committed and its user with the last payout, and the supply
keeps every sum within u64 (`FundedSwap`). The first part of the module proves what `MapThenSumSet`
computes, and `HopsExist` that `expected_hops` satisfies its equation: by induction over the set of
numbers, or of subsets, for which it holds (`NatSetInduction`, `SubsetInduction`), which rests on the
library's theorem that a well-founded relation has minimal elements.

**Both routers** (`RouterParityProofs`). The Pinocchio router is through before the Quasar router starts,
so no invariant can compare their variables hop by hop. Both are held against a third thing instead:
`After` of `AtomicRoute`, the balances and the error after so many of a route's hops, at most three, taken
one after the other from the balances it starts with. The joint invariant says that each router, at each
place of its loop, is where `After` is after as many hops (`PinocchioInHop`, `QuasarInHop`), that Quasar's
iterator has passed exactly the accounts of the hops done (`QuasarIterator`), and that once the Pinocchio
router has answered, its answer is what `After` says of the instruction still in the Quasar router's hands
(`InStep`). From it follow `Parity`, `SameError` (with enough accounts Quasar's late count and Pinocchio's
early one fail on the same instructions, with the same error) and `QuasarAtomic`, the refinement of
`AtomicRoute`.

**Vaults** (`VaultProofs`). `Legal(i, o)` says that an outcome is an error with nothing changed, or exactly
the move or the count the instruction asks for, by the right signer, on the right account, within u64.
Legal outcomes are proved to keep the types, to be steps of `VaultBook` and to be told by the answer; then
every handler's outcome in either program is shown to be legal, Anchor's half-written withdrawal included,
through the runtime's acceptance. `SavingsArePaidOut` and `BenchCasesPass` follow an instruction through
all checks of each program; `VaultsAgree` compares the two handlers of each instruction. The history of
`VaultParity` may be of either program; two more theorems say the same of each program's own specification.

**Dispatch** (`LazyDispatchProofs`). `LazyInv` adds to the types that the context has passed one account
per call and that `args` holds the accounts of the places the handler will read. A call that finds no
account then implies that the eager pattern does not match either; a handler that is reached reads the same
accounts in both builds. So `LazyIsEager` holds for account lists of any length and content.
`LazyPassesBench` takes the bench's own list, on which no call runs out, through the handlers' checks.

**The vault and router runners** (`BenchRunnerProofs`). The report is worked out by `Report(bench, build)`
in one go, and filled in by the runner over many steps that an artifact may change under. The inductive
invariant says of each variable what it stands for as long as none has (`stable => Measured`): `specs` are
the frameworks taken, `total` is the sum of the seeds so far, `cu` the averages of the workloads so far,
`rows` the rows, without or with their deltas, and every framework in a finished row has been run and has
passed (`Done`). `Sequential` and `Staged` say, whether stable or not, at which stage which of them is
empty. `SuccessReports` then reads the report off the last stage. What `Select`, `SumOf` and `Averaged`
compute is proved by an induction over the set of numbers for which it holds, from the library's theorem
on well-founded relations (`NatSetInduction`); that is why they are recursive functions there, and why
`Select` and `SelectInSeq` are used rather than `SelectSeq`, whose definition the prover cannot open.

**hopper-bench, deployed** (`PrimitiveBenchProofs`, first part). A handler's outcome is one of three kinds:
it reads, it writes the first account it was given after checking what the instruction requires, or it
returns an error. One lemma per writing handler puts it into its kind, one lemma says so of the reading
ones together, and `ProcessLegal` of the dispatcher; types, confinement of writes and the growth of
balances follow from the kinds. It holds for any layout sizes and any number of accounts.

**primitive-bench** (`PrimitiveBenchProofs`, second part). `RowWorks` takes each of the 22 handlers through
its checks on the fixture its row gives it, `Boots` the two that write the headers, and `RunOf` says what
one measurement yields: an error exactly when the instruction is missing or its lines are no bracket.
`BenchInv` says nothing of the artifact, so it is strengthened by where every figure comes from: the rows
are measurements of the loaded artifact, in order (`RowsMeasured`), so is the first of two runs
(`FirstRunMeasured`), `seen` holds these and no more (`AllSeen`), the fixtures are as bootstrapped, and
net figures are against row 21 (`NetsTaken`). `RowsAreTheReport` then compares with the report worked out
at once, and `SoundIsReported` goes through the five ways in which a measurement may fail.

**Scripts** (`ScriptProofs`). The deadline bound of the `.ps1` is not inductive as it stands: what is left
after a probe follows from what was left when it began, and that from the check at the head of the loop.
`GivesUpInTime` says what is left at each place of the loop; with it, `DockerInv` is inductive, one step
per action, `Tick` included. `ContainerIsStopped` and `ZeroIsStopped` follow from it and the next-state
relation, for any number of sessions; `KeyPairKept` needs beside it that a session past its key pair's
stage has found a file or made one (`HasKey`). What the comparison script's report or manifest says at the
end was decided stages before, so `SessionInv` carries it along: `Bookkeeping` (what is left and what is
deployed together are the session's frameworks, and disjoint), `Fresh` (what is no longer to be built was
built by the session), `Staged` (the staged Anchor vault declares the ID in its key file), `BeingDeployed`
and `OnTheCluster` (each deployed framework's ID is that of its key file, and its binary is on the cluster
under it). The disjointness is what a new key pair needs in order not to be of a framework already
deployed. From it follow all four properties of the script, for any number of sessions, any command lines
and whatever earlier builds are found.

Only model-checked: the liveness properties (`EveryRouteReturns`, `EveryRunEnds`, `EverySessionEnds`),
since the provers at hand reach neither fairness nor ENABLED; and that the violations of section 5 really
occur, which a counterexample shows.

## 5. Where code and documents differ

| Run | What the document says | What the code does |
|---|---|---|
| `router_parity_errors` | `ROUTER_CONTRACT.md`: identical observable behaviour, account count checked first | with an account missing and a second defect, Quasar reports the second defect, Pinocchio `NotEnoughAccountKeys` (balances never differ: `SameOutcome`; with enough accounts the errors never differ: `SameErrorWhenAccountsSuffice`) |
| `vault_parity_foreign` | `pinocchio-vault`: identical semantics to the Anchor vault | withdrawing 0 from a vault the program does not own is Ok in Anchor, `InvalidAccountOwner` in Pinocchio (the only difference: `AgreeUnlessNothingIsWithdrawn`) |
| `vault_runner_unsafe` | `METHODOLOGY.md`: a framework failing the safety case is excluded from the deltas | its deltas are computed and written like any other's |

Read, but without a run of its own: `ROUTER_CONTRACT.md:203-204` and `router-bench/src/main.rs:158-159`
have a run without the Hopper artifact fail at the baseline lookup; it fails earlier, when the first case
loads the artifact.

## 6. What was done, and what is left

Done, in this order: mock-amm and the routers, with `AtomicRoute` and its proofs; the vaults, with
`VaultBook` and theirs; the vault and router runners; the two builds of the dispatch vault; direct swaps
between routes (`Market`); hopper-bench and its runner; the docker scripts and the comparison script, with
their proofs; the parity of the routers, the agreement of the vaults and the benches' cases, and the reports
of the three runners, proved; the market against the supply and the rates, proved.

Left: what liveness rests on, as theorems of safety (a bound on the steps a route or an instruction can
still take, decreasing with each); and an abstract specification of the runners for which
`SuccessIsTheReport` is a refinement.

## 7. Not modelled

- Argument parsing, printed tables and the serialisation of reports: no state, and no property is about
  their wording. So is path resolution in the scripts. One consequence is known and listed as a hazard:
  primitive-bench checks that `--so-path` exists as given and loads it with its extension replaced.
- Rent, the compute budget and the values of compute units: the runtime's, and data here.
- Which of several failing constraints Anchor names: Anchor's.
- The Hopper library, and the Hopper router and vault the benches compare with: not in this repository.
- `lazy-dispatch-bench` beyond its fixtures and assertions: it runs its cases in order, prints, and writes
  no file.
- `measure.*`: one command each. Recorded results and documents: data and prose.
- Two comparison sessions at once: they would share key files and the output directory without any lock;
  nothing in the script or the documents suggests running them so, and sessions come one after another.
