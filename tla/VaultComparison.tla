---------------------------- MODULE VaultComparison ----------------------------
(***************************************************************************)
(* compare-framework-vaults.ps1: build the vaults, deploy each of them to  *)
(* a cluster under a new key pair when asked to, write down what was       *)
(* deployed, and run framework-vault-bench with those program IDs.  Every  *)
(* command may fail, and an error or Ctrl-C ends the script where it is.   *)
(* Files and programs stay, for the next session to find.                  *)
(*                                                                         *)
(* A binary is [by, id]: the session that built it (0: somebody before)    *)
(* and the program ID it declares, which only Anchor's looks at.           *)
(***************************************************************************)
EXTENDS Integers

CONSTANTS EarlierBuilds,  \* what may lie in the target directories at first
          Options,        \* the command lines used
          MaxSessions,    \* bound: sessions in a history
          Missing, Torn   \* no file, part of a file

Frameworks == {"hopper", "pinocchio", "quasar", "anchor"}
DEFAULT_ID == 0

ASSUME VaultComparisonAssumption ==
  /\ MaxSessions \in Nat
  /\ Options \subseteq [DeployDevnet : BOOLEAN, NoBuild : BOOLEAN, with : SUBSET Frameworks]
  /\ \A o \in Options : {"hopper", "pinocchio"} \subseteq o.with
  /\ EarlierBuilds \subseteq [Frameworks -> [by : Nat, id : Nat] \cup {Missing}]

VARIABLES
  so,          \* the built vaults on disk, by framework
  staged,      \* the Anchor vault in the staged build root
  keypair,     \* the key pair files, by framework: the ID each one holds
  new_id,      \* the last ID that was generated
  cluster,     \* the programs on the cluster: <<ID, binary>>
  manifest,    \* devnet-programs.json: the IDs it lists, by framework
  report,      \* the bench's report: [id, binary] by framework
  pc, opts,    \* the stage of the session, "idle" between sessions; its options
  todo,        \* artifacts still to be built, or to be deployed
  deployments, \* the IDs deployed so far, by framework
  sessions,    \* sessions started
  cut          \* history: the last session that made key pairs wrote no manifest

files == <<so, staged, keypair, new_id, cluster, manifest, report>>
progress == <<pc, opts, todo, deployments, sessions, cut>>
comparisonVars == <<files, progress>>

Empty == [f \in {} |-> DEFAULT_ID]

ComparisonInit ==
  /\ so \in EarlierBuilds /\ staged = Missing
  /\ keypair = [f \in Frameworks |-> Missing] /\ new_id = DEFAULT_ID
  /\ cluster = {} /\ manifest = Missing /\ report = Missing
  /\ pc = "idle" /\ opts = (CHOOSE o \in Options : TRUE) /\ todo = {} /\ deployments = Empty
  /\ sessions = 0 /\ cut = FALSE

\* The artifact it is at: the first of those left, in the order of the script.
Place == [hopper |-> 1, pinocchio |-> 2, quasar |-> 3, anchor |-> 4]
current == CHOOSE f \in todo : \A g \in todo : Place[f] <= Place[g]

End ==
  /\ pc' = "idle" /\ todo' = {} /\ deployments' = Empty
  /\ UNCHANGED <<opts, sessions, cut>>

\* Parameters are checked and the builds lined up: Anchor's is left to the
\* staging when the vaults are deployed.
StartSession ==
  /\ pc = "idle" /\ sessions < MaxSessions
  /\ sessions' = sessions + 1
  /\ opts' \in Options
  /\ pc' = "build"
  /\ todo' = IF opts'.NoBuild THEN {}
             ELSE IF opts'.DeployDevnet THEN opts'.with \ {"anchor"} ELSE opts'.with
  /\ UNCHANGED <<files, deployments, cut>>

Built == [by |-> sessions, id |-> DEFAULT_ID]

\* A build that fails leaves the artifact of the one before.
Build_past_failures ==
  /\ pc = "build" /\ todo # {}
  /\ so' \in {so, [so EXCEPT ![current] = Built]}
  /\ todo' = todo \ {current}
  /\ UNCHANGED <<staged, keypair, new_id, cluster, manifest, report, pc, opts, deployments,
                 sessions, cut>>
Build ==
  /\ pc = "build" /\ todo # {}
  /\ \/ /\ so' = [so EXCEPT ![current] = Built]
        /\ todo' = todo \ {current}
        /\ UNCHANGED <<pc, opts, deployments, sessions, cut>>
     \/ End /\ UNCHANGED so
  /\ UNCHANGED <<staged, keypair, new_id, cluster, manifest, report>>

\* On to the bench, or to the checks of payer and tools and then the deployments.
AfterBuilds ==
  /\ pc = "build" /\ todo = {}
  /\ \/ /\ pc' = IF ~opts.DeployDevnet THEN "bench"
                 ELSE IF "anchor" \in opts.with THEN "anchor_key" ELSE "deploy"
        /\ todo' = IF opts.DeployDevnet THEN opts.with ELSE {}
        /\ UNCHANGED <<opts, deployments, sessions, cut>>
     \/ opts.DeployDevnet /\ End
  /\ UNCHANGED files

-----------------------------------------------------------------------------
\* Deploying.

\* solana-keygen new --force: whatever the file held is gone.
NewProgramKeypair(f) ==
  /\ new_id' = new_id + 1
  /\ keypair' = [keypair EXCEPT ![f] = new_id + 1]
  /\ cut' = TRUE

AnchorKey ==
  /\ pc = "anchor_key"
  /\ \/ /\ NewProgramKeypair("anchor") /\ pc' = "stage"
        /\ UNCHANGED <<opts, todo, deployments, sessions>>
     \/ End /\ UNCHANGED <<keypair, new_id>>
  /\ UNCHANGED <<so, staged, cluster, manifest, report>>

\* A copy of the sources with declare_id! rewritten, built afresh.  Whatever was
\* staged before is removed first.
Stage_unrewritten ==
  /\ pc = "stage"
  /\ \/ /\ staged' = [by |-> sessions, id |-> DEFAULT_ID]
        /\ pc' = "deploy" /\ UNCHANGED <<opts, todo, deployments, sessions, cut>>
     \/ staged' \in {staged, Missing} /\ End
  /\ UNCHANGED <<so, keypair, new_id, cluster, manifest, report>>
Stage ==
  /\ pc = "stage"
  /\ \/ /\ staged' = [by |-> sessions, id |-> keypair["anchor"]]
        /\ pc' = "deploy" /\ UNCHANGED <<opts, todo, deployments, sessions, cut>>
     \/ staged' \in {staged, Missing} /\ End
  /\ UNCHANGED <<so, keypair, new_id, cluster, manifest, report>>

\* The file a framework is deployed from, and the one the bench is pointed at.
binaryPath(f) == IF f = "anchor" /\ opts.DeployDevnet THEN staged ELSE so[f]
runnerBinary(f) == binaryPath(f)

\* Deploy-FrameworkProgram up to its deployment: a missing artifact is an error,
\* a key pair is made unless the framework came with one.
DeployKey ==
  /\ pc = "deploy" /\ todo # {}
  /\ \/ /\ binaryPath(current) # Missing
        /\ IF current = "anchor" THEN UNCHANGED <<new_id, keypair, cut>>
           ELSE NewProgramKeypair(current)
        /\ pc' = "send" /\ UNCHANGED <<opts, todo, deployments, sessions>>
     \/ End /\ UNCHANGED <<keypair, new_id>>
  /\ UNCHANGED <<so, staged, cluster, manifest, report>>

\* solana program deploy: it may report an error of a program that is there.
Deployed == <<keypair[current], binaryPath(current)>>
Send ==
  /\ pc = "send"
  /\ \/ /\ cluster' = cluster \cup {Deployed}
        /\ pc' = "show" /\ UNCHANGED <<opts, todo, deployments, sessions, cut>>
     \/ cluster' \in {cluster, cluster \cup {Deployed}} /\ End
  /\ UNCHANGED <<so, staged, keypair, new_id, manifest, report>>

With(fun, arg, val) ==
  [f \in DOMAIN fun \cup {arg} |-> IF f = arg THEN val ELSE fun[f]]

\* solana program show, then the next artifact.
Show_before_sending ==
  /\ pc \in {"send", "show"}
  /\ \/ /\ deployments' = With(deployments, current, keypair[current])
        /\ todo' = todo \ {current}
        /\ pc' = "deploy" /\ UNCHANGED <<opts, sessions, cut>>
     \/ End
  /\ UNCHANGED files
Show ==
  /\ pc = "show"
  /\ \/ /\ deployments' = With(deployments, current, keypair[current])
        /\ todo' = todo \ {current}
        /\ pc' = "deploy" /\ UNCHANGED <<opts, sessions, cut>>
     \/ End
  /\ UNCHANGED files

\* All are deployed: the payer is looked up and the manifest written, or cut
\* short.
WriteManifest_once ==
  /\ pc = "deploy" /\ todo = {}
  /\ \/ /\ manifest' = IF manifest \in {Missing, Torn} THEN deployments ELSE manifest
        /\ pc' = "bench" /\ cut' = FALSE
        /\ UNCHANGED <<opts, todo, deployments, sessions>>
     \/ manifest' \in {manifest, Torn} /\ End
  /\ UNCHANGED <<so, staged, keypair, new_id, cluster, report>>
WriteManifest ==
  /\ pc = "deploy" /\ todo = {}
  /\ \/ /\ manifest' = deployments
        /\ pc' = "bench" /\ cut' = FALSE
        /\ UNCHANGED <<opts, todo, deployments, sessions>>
     \/ manifest' \in {manifest, Torn} /\ End
  /\ UNCHANGED <<so, staged, keypair, new_id, cluster, report>>
-----------------------------------------------------------------------------
\* The bench (framework-vault-bench), with --<framework>-program-id for each
\* deployment.

runnerId(f) == IF f \in DOMAIN deployments THEN deployments[f] ELSE DEFAULT_ID

\* Anchor's programs refuse to run under an ID they do not declare.
RunsUnder(f) == f = "anchor" /\ runnerBinary(f) # Missing => runnerBinary(f).id = runnerId(f)

\* Artifacts that are missing are skipped, but Hopper's; any other failure may
\* come on top.
Measured == {f \in opts.with : runnerBinary(f) # Missing}
RunBench ==
  /\ pc = "bench"
  /\ \/ /\ "hopper" \in Measured /\ \A f \in Measured : RunsUnder(f)
        /\ report' = [f \in Measured |-> [id |-> runnerId(f), binary |-> runnerBinary(f)]]
     \/ UNCHANGED report
  /\ End
  /\ UNCHANGED <<so, staged, keypair, new_id, cluster, manifest>>

\* Ctrl-C, between the commands or in one that leaves nothing half done.
Interrupt == pc # "idle" /\ End /\ UNCHANGED files

SessionStep ==
  \/ Build \/ AfterBuilds \/ AnchorKey \/ Stage \/ DeployKey \/ Send \/ Show
  \/ WriteManifest \/ RunBench

ComparisonNext == StartSession \/ SessionStep \/ Interrupt

ComparisonSpec == ComparisonInit /\ [][ComparisonNext]_comparisonVars
-----------------------------------------------------------------------------

Binaries == [by : Nat, id : Nat]

\* Type invariant.
ComparisonTypeOK ==
  /\ so \in [Frameworks -> Binaries \cup {Missing}] /\ staged \in Binaries \cup {Missing}
  /\ keypair \in [Frameworks -> 1 .. new_id \cup {Missing}]
  /\ \A c \in cluster : c[1] \in 1 .. new_id /\ c[2] \in Binaries
  /\ pc \in {"idle", "build", "anchor_key", "stage", "deploy", "send", "show", "bench"}
  /\ DOMAIN deployments \subseteq opts.with
  /\ sessions \in 0 .. MaxSessions

\* A report is of the binaries of its session: built by it unless it was told not
\* to build (a staged Anchor vault is built all the same), and, when it deployed,
\* the very binaries that are on the cluster under the IDs the report gives.
ReportIsOfItsSession ==
  [][report' # report =>
       \A f \in DOMAIN report' :
         /\ ~opts.NoBuild \/ (f = "anchor" /\ opts.DeployDevnet) =>
              report'[f].binary.by = sessions
         /\ opts.DeployDevnet => <<report'[f].id, report'[f].binary>> \in cluster]_comparisonVars

\* The Anchor vault is never run under an ID it does not declare, but for an
\* artifact somebody built before and the session was told to use.
AnchorRunsUnderItsId ==
  pc = "bench" /\ "anchor" \in opts.with /\ (opts.DeployDevnet \/ ~opts.NoBuild) =>
    RunsUnder("anchor")

\* A manifest is written once everything is deployed: it lists every framework of
\* its session, each with an ID under which the binary of that session is on the
\* cluster, and it stays that of a finished deployment when later ones fail.
ManifestIsDeployed ==
  [][manifest' \notin {manifest, Torn} =>
       /\ DOMAIN manifest' = opts.with
       /\ \A f \in opts.with : <<manifest'[f], binaryPath(f)>> \in cluster]_comparisonVars

\* The key pair files are those of the manifest's programs, unless a later
\* session has overwritten some and has not got as far as its own manifest.
KeysAreTheManifests ==
  ~cut /\ manifest \notin {Missing, Torn} =>
    \A f \in DOMAIN manifest : keypair[f] = manifest[f]

\* Types, and the key files.
ComparisonInv == ComparisonTypeOK /\ KeysAreTheManifests
=============================================================================
