---------------------------- MODULE MCBenchRunner ----------------------------
(***************************************************************************)
(* The bench runner on small instances.                                    *)
(***************************************************************************)
EXTENDS BenchRunner, RunnerInstances
=============================================================================
