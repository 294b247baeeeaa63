------------------------------- MODULE MCScripts -------------------------------
(***************************************************************************)
(* The wrapper scripts.  The docker sessions of one machine and the        *)
(* comparison sessions of one output directory share nothing: a history is *)
(* of one of them.                                                         *)
(***************************************************************************)
EXTENDS DockerBench, VaultComparison

VARIABLE script

MCEarlierBuilds ==
  {[hopper |-> h, pinocchio |-> [by |-> 0, id |-> 0], quasar |-> Missing, anchor |-> a] :
     h \in {Missing, [by |-> 0, id |-> 0]}, a \in {Missing, [by |-> 0, id |-> 99]}}

\* The two vaults of the tree, Anchor's with them, and all four.
MCOptions ==
  {[DeployDevnet |-> d, NoBuild |-> n, with |-> {"hopper", "pinocchio"} \cup more] :
     d \in BOOLEAN, n \in BOOLEAN, more \in {{}, {"anchor"}, {"quasar", "anchor"}}}

\* The other script's sessions have not begun, or are over.
DockerHistory ==
  /\ script = "docker" /\ DockerInit
  /\ ComparisonInit /\ so = (CHOOSE e \in EarlierBuilds : TRUE)
ComparisonHistory ==
  /\ script = "comparison" /\ ComparisonInit
  /\ validator = "down" /\ key = 0 /\ leaked = FALSE
  /\ at = [s \in Sessions |-> "ended"] /\ exit = [s \in Sessions |-> 1]
  /\ left = [s \in Sessions |-> 0] /\ began = left
  /\ answered = [s \in Sessions |-> FALSE] /\ stopped = answered

MCInit == DockerHistory \/ ComparisonHistory
MCNext ==
  /\ UNCHANGED script
  /\ \/ script = "docker" /\ DockerNext /\ UNCHANGED comparisonVars
     \/ script = "comparison" /\ ComparisonNext /\ UNCHANGED dockerVars
MCSpec == MCInit /\ [][MCNext]_<<script, dockerVars, comparisonVars>> /\ DockerFairness
=============================================================================
