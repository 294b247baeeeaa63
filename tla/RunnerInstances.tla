--------------------------- MODULE RunnerInstances ---------------------------
(***************************************************************************)
(* Small instances for the two runners: two seeds, costs whose sums are    *)
(* odd and even, builds with artifacts missing, a case that fails, a total *)
(* that overflows and a program that is not safe.                          *)
(***************************************************************************)
EXTENDS Integers, SequencesExt, TLC

CONSTANTS hopper, pinocchio, quasar, mock_amm, vault, router, failed, none

Costs(base, a, b) ==
  hopper :> [w \in base |-> <<a, a + 1>>]
    @@ pinocchio :> [w \in base |-> <<b, b>>]
    @@ quasar :> [w \in base |-> <<b, a>>]

AllSafe == hopper :> TRUE @@ pinocchio :> TRUE @@ quasar :> TRUE

Build(present, cost, safe) == [present |-> present, cost |-> cost, safe |-> safe]

MCFrameworks == <<hopper, pinocchio, quasar>>

\* Five kinds of disk: everything, the optional artifacts missing, the baseline
\* missing, the shared artifact missing, and something wrong with a program.
BuildsOver(workloads, last) ==
  LET all == {hopper, pinocchio, quasar, mock_amm}
      good == Costs(workloads, 2, 5)
  IN {Build(all, good, AllSafe),
      Build(all, Costs(workloads, 4, 1), AllSafe),
      Build({hopper, mock_amm}, good, AllSafe),
      Build(all \ {hopper}, good, AllSafe),
      Build(all \ {mock_amm}, good, AllSafe),
      Build(all, [good EXCEPT ![quasar][last][2] = failed], AllSafe),
      Build(all, [good EXCEPT ![pinocchio][last][1] = 30], AllSafe),
      Build(all, good, [AllSafe EXCEPT ![pinocchio] = FALSE])}

\* vault, framework-vault-bench: Quasar implements only the core contract, and
\* the missing-signature row has no delta.  router, router-bench: every router
\* has every row, and none runs without the venue.
MCBenches == {vault, router}
JustVault == {vault}

MCWorkloads ==
  vault :> <<"authorize", "authorize_missing_signature", "deposit">>
    @@ router :> <<"swap_1hop", "swap_2hop">>

MCCompared == vault :> {"authorize", "deposit"} @@ router :> Range(MCWorkloads[router])

MCSupports ==
  vault :> ([f \in {hopper, pinocchio} |-> Range(MCWorkloads[vault])] @@ quasar :> {"deposit"})
    @@ router :> [f \in {hopper, pinocchio, quasar} |-> Range(MCWorkloads[router])]

MCShared == vault :> {} @@ router :> {mock_amm}

MCBuilds == [b \in MCBenches |-> BuildsOver(Range(MCWorkloads[b]), Last(MCWorkloads[b]))]
=============================================================================
