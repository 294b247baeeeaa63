----------------------------- MODULE ScriptProofs ------------------------------
(***************************************************************************)
(* Proofs about the scripts.  Of the docker scripts, for any number of     *)
(* sessions of either, any deadline and any time limit of a probe: the     *)
(* inductive invariant, and the promises about the container and the key   *)
(* pair that follow from it and the next-state relation.  Of the           *)
(* comparison script, for any command lines, artifacts and number of       *)
(* sessions: what a session knows at each of its stages, which says what   *)
(* the report, the manifest and the key pair files are of.  Each invariant *)
(* has one step per action.                                                *)
(***************************************************************************)
EXTENDS DockerBench, VaultComparison, TLAPS

(***************************************************************************)
(* The docker scripts.                                                     *)
(***************************************************************************)

USE DEF None, Floor, Unarmed, Waiting

-----------------------------------------------------------------------------
\* The conjuncts of the invariant at the start.
LEMMA DockerInitInv == DockerInit => DockerInv
<1> SUFFICES ASSUME DockerInit PROVE DockerInv
  OBVIOUS
<1> USE DockerBenchAssumption DEF DockerInit
<1>1. /\ left \in [Sessions -> Floor .. VALIDATOR_READY_TIMEOUT]
      /\ began \in [Sessions -> Floor .. VALIDATOR_READY_TIMEOUT]
  OBVIOUS
<1>2. answered \in [Sessions -> BOOLEAN] /\ stopped \in [Sessions -> BOOLEAN]
  OBVIOUS
<1>3. /\ at \in [Sessions -> Unarmed \cup Waiting \cup {"bench", "down", "ended"}]
      /\ exit \in [Sessions -> {None, 0, 1, 130}]
  OBVIOUS
<1>4. DockerTypeOK
  BY <1>1, <1>2, <1>3 DEF DockerTypeOK
<1>5. BenchedOnlyWhenReady /\ GivesUpInTime
  BY DEF BenchedOnlyWhenReady, GivesUpInTime
<1> QED BY <1>4, <1>5 DEF DockerInv

\* A session that leaves with a code, to clean up first, keeps the invariant.
LEMMA LeaveInv ==
  ASSUME DockerInv, NEW s \in Sessions, NEW code \in {0, 1, 130},
         at[s] \in Waiting \cup {"bench"}, code = 0 => at[s] = "bench", Leave(s, code)
  PROVE  DockerInv'
  BY DockerBenchAssumption
  DEF DockerInv, DockerTypeOK, BenchedOnlyWhenReady, GivesUpInTime, Leave, Go

\* And so does one that just ends, before anything is to be cleaned up.
LEMMA ExitUnarmedInv ==
  ASSUME DockerInv, NEW s \in Sessions, NEW code \in {1, 130},
         at[s] \in Unarmed, ExitUnarmed(s, code), leaked' \in BOOLEAN
  PROVE  DockerInv'
  BY DockerBenchAssumption
  DEF DockerInv, DockerTypeOK, BenchedOnlyWhenReady, GivesUpInTime, ExitUnarmed, Go

-----------------------------------------------------------------------------
\* Every action keeps the invariant.
LEMMA DockerStepInv == DockerInv /\ [DockerNext]_dockerVars => DockerInv'
<1> SUFFICES ASSUME DockerInv, [DockerNext]_dockerVars PROVE DockerInv'
  OBVIOUS
<1> USE DockerBenchAssumption
<1>1. ASSUME NEW s \in Sessions, Begin(s) PROVE DockerInv'
  <2>1. CASE ExitUnarmed(s, 1) /\ UNCHANGED leaked
    BY <1>1, <2>1, ExitUnarmedInv DEF Begin, DockerInv, DockerTypeOK
  <2>2. CASE ~(ExitUnarmed(s, 1) /\ UNCHANGED leaked)
    BY <1>1, <2>2
    DEF Begin, Go, DockerInv, DockerTypeOK, BenchedOnlyWhenReady, GivesUpInTime
  <2> QED BY <2>1, <2>2
<1>2. ASSUME NEW s \in Sessions, Keygen(s) PROVE DockerInv'
  <2>1. CASE ExitUnarmed(s, 1) /\ UNCHANGED leaked
    BY <1>2, <2>1, ExitUnarmedInv DEF Keygen, DockerInv, DockerTypeOK
  <2>2. CASE ~(ExitUnarmed(s, 1) /\ UNCHANGED leaked)
    BY <1>2, <2>2
    DEF Keygen, Go, DockerInv, DockerTypeOK, BenchedOnlyWhenReady, GivesUpInTime
  <2> QED BY <2>1, <2>2
<1>3. ASSUME NEW s \in Sessions, Up(s) PROVE DockerInv'
  <2>1. CASE ExitUnarmed(s, 1) /\ leaked' = TRUE
    BY <1>3, <2>1, ExitUnarmedInv DEF Up
  <2>2. CASE ~(ExitUnarmed(s, 1) /\ leaked' = TRUE)
    BY <1>3, <2>2
    DEF Up, Go, DockerInv, DockerTypeOK, BenchedOnlyWhenReady, GivesUpInTime
  <2> QED BY <2>1, <2>2
<1>4. ASSUME NEW s \in Sessions, WaitHead(s) PROVE DockerInv'
  <2>1. CASE left[s] > 0
    BY <1>4, <2>1
    DEF WaitHead, Go, DockerInv, DockerTypeOK, BenchedOnlyWhenReady, GivesUpInTime
  <2>2. CASE ~(left[s] > 0)
    BY <1>4, <2>2, LeaveInv DEF WaitHead
  <2> QED BY <2>1, <2>2
<1>5. ASSUME NEW s \in Sessions, Wake(s) PROVE DockerInv'
  BY <1>5 DEF Wake, Go, DockerInv, DockerTypeOK, BenchedOnlyWhenReady, GivesUpInTime
<1>6. ASSUME NEW s \in Sessions, Bench(s) PROVE DockerInv'
  BY <1>6, LeaveInv DEF Bench
<1>7. ASSUME NEW s \in Sessions, Cleanup(s) PROVE DockerInv'
  <2>1. /\ at[s] = "down" /\ at' = [at EXCEPT ![s] = "ended"]
        /\ UNCHANGED <<key, left, began, answered>>
    BY <1>7 DEF Cleanup, Go
  <2>2. /\ validator' \in {"down", "booting", "healthy"} /\ leaked' \in BOOLEAN
        /\ stopped' \in [Sessions -> BOOLEAN]
    <3>1. validator' \in {validator, "down"} /\ leaked' \in {TRUE, FALSE}
      BY <1>7 DEF Cleanup
    <3>2. stopped' = stopped \/ stopped' = [stopped EXCEPT ![s] = TRUE]
      BY <1>7 DEF Cleanup
    <3>3. validator \in {"down", "booting", "healthy"} /\ stopped \in [Sessions -> BOOLEAN]
      BY DEF DockerInv, DockerTypeOK
    <3> QED BY <3>1, <3>2, <3>3
  <2>3. \E code \in {0, 1, 130} :
          exit' = [exit EXCEPT ![s] = code] /\ (code = 0 => exit[s] = 0)
    BY <1>7 DEF Cleanup, CodeAfterFailedDown, DockerInv, DockerTypeOK
  <2> QED BY <2>1, <2>2, <2>3
    DEF DockerInv, DockerTypeOK, BenchedOnlyWhenReady, GivesUpInTime
<1>8. ASSUME NEW s \in Sessions, ProbeOk(s) PROVE DockerInv'
  BY <1>8 DEF ProbeOk, Go, DockerInv, DockerTypeOK, BenchedOnlyWhenReady, GivesUpInTime
<1>9. ASSUME NEW s \in Sessions, ProbeFails(s) PROVE DockerInv'
  BY <1>9 DEF ProbeFails, Go, DockerInv, DockerTypeOK, BenchedOnlyWhenReady, GivesUpInTime
<1>10. ASSUME NEW s \in Sessions, ContainerStarts(s) PROVE DockerInv'
  BY <1>10
  DEF ContainerStarts, session, DockerInv, DockerTypeOK, BenchedOnlyWhenReady, GivesUpInTime
<1>11. ASSUME NEW s \in Sessions, CtrlC(s) PROVE DockerInv'
  <2>1. CASE at[s] \in Unarmed /\ ExitUnarmed(s, 130) /\ leaked' = (leaked \/ at[s] = "up")
    <3>1. leaked' \in BOOLEAN
      BY <2>1
    <3> QED BY <2>1, <3>1, ExitUnarmedInv
  <2>2. CASE at[s] \in Waiting \cup {"bench"} /\ Leave(s, 130)
    BY <2>2, LeaveInv
  <2> QED BY <1>11, <2>1, <2>2 DEF CtrlC
<1>12. CASE BecomesHealthy \/ Dies
  BY <1>12
  DEF BecomesHealthy, Dies, session, DockerInv, DockerTypeOK, BenchedOnlyWhenReady, GivesUpInTime
<1>13. CASE Tick
  <2>1. DockerTypeOK' /\ BenchedOnlyWhenReady'
    BY <1>13 DEF Tick, DockerInv, DockerTypeOK, BenchedOnlyWhenReady
  <2>2. ASSUME NEW s \in Sessions \ BashSessions
        PROVE  /\ at'[s] \in Waiting => left'[s] + ProbeTimeout >= 0
               /\ at'[s] = "probe" => began'[s] > 0 /\ left'[s] + ProbeTimeout >= began'[s]
               /\ at'[s] = "sleep" => began'[s] + ProbeTimeout > 0 /\ left'[s] + 1 >= began'[s]
    <3>1. MayLast(s) /\ at' = at /\ began' = began
      BY <1>13 DEF Tick
    <3>2. left'[s] \in {left[s], left[s] - 1} /\ (at[s] \notin Waiting => left'[s] = left[s])
      BY <1>13 DEF Tick, DockerInv, DockerTypeOK
    <3>3. left[s] \in Int /\ began[s] \in Int /\ ProbeTimeout \in Nat
      BY DEF DockerInv, DockerTypeOK
    <3>4. at[s] # "wait"
      BY <3>1 DEF MayLast
    <3>5. at[s] = "probe" => began[s] - left[s] < ProbeTimeout
      BY <3>1 DEF MayLast
    <3>6. at[s] = "sleep" => left[s] = began[s]
      BY <3>1 DEF MayLast
    <3> QED BY <3>1, <3>2, <3>3, <3>4, <3>5, <3>6 DEF DockerInv, GivesUpInTime
  <2> QED BY <2>1, <2>2 DEF DockerInv, GivesUpInTime
<1>14. CASE UNCHANGED dockerVars
  BY <1>14
  DEF dockerVars, session, DockerInv, DockerTypeOK, BenchedOnlyWhenReady, GivesUpInTime
<1> QED
  BY <1>1, <1>2, <1>3, <1>4, <1>5, <1>6, <1>7, <1>8, <1>9, <1>10, <1>11, <1>12, <1>13, <1>14
  DEF DockerNext, ScriptStep, ProbeReturns

\* The inductive invariant: a session benches only after an answer of its own,
\* and the .ps1's wait ends at most one probe's time limit past the deadline.
THEOREM DockerInvariant == DockerSpec => []DockerInv
  BY DockerInitInv, DockerStepInv, PTL DEF DockerSpec

-----------------------------------------------------------------------------
\* A running container has a session under way, or a leak on the record.
THEOREM ContainerIsStopped == DockerSpec => []StoppedOnExit
<1>1. DockerInit => StoppedOnExit
  BY DEF DockerInit, StoppedOnExit
<1>2. DockerInv /\ StoppedOnExit /\ [DockerNext]_dockerVars => StoppedOnExit'
  <2> SUFFICES ASSUME DockerInv, StoppedOnExit, [DockerNext]_dockerVars PROVE StoppedOnExit'
    OBVIOUS
  <2> DEFINE Busy(s) == at[s] \notin {"start", "keygen", "ended"}
  <2>1. ASSUME NEW s \in Sessions, Begin(s) \/ Keygen(s) PROVE StoppedOnExit'
    <3>1. at' = [at EXCEPT ![s] = at'[s]] /\ ~Busy(s) /\ validator' = validator /\ leaked' = leaked
      BY <2>1 DEF Begin, Keygen, Go, ExitUnarmed, DockerInv, DockerTypeOK
    <3>2. ASSUME NEW t \in Sessions, Busy(t) PROVE Busy(t)'
      BY <3>1, <3>2 DEF DockerInv, DockerTypeOK
    <3> QED BY <3>1, <3>2 DEF StoppedOnExit
  <2>2. ASSUME NEW s \in Sessions, Up(s) PROVE StoppedOnExit'
    BY <2>2 DEF Up, Go, ExitUnarmed, StoppedOnExit, DockerInv, DockerTypeOK
  <2>3. ASSUME NEW s \in Sessions,
               WaitHead(s) \/ Wake(s) \/ Bench(s) \/ ProbeOk(s) \/ ProbeFails(s)
        PROVE  StoppedOnExit'
    <3>1. Busy(s)'
      BY <2>3 DEF WaitHead, Wake, Bench, ProbeOk, ProbeFails, Leave, Go, DockerInv, DockerTypeOK
    <3> QED BY <3>1 DEF StoppedOnExit
  <2>4. ASSUME NEW s \in Sessions, Cleanup(s) PROVE StoppedOnExit'
    BY <2>4 DEF Cleanup, StoppedOnExit
  <2>5. ASSUME NEW s \in Sessions, ContainerStarts(s) PROVE StoppedOnExit'
    BY <2>5 DEF ContainerStarts, session, StoppedOnExit
  <2>6. ASSUME NEW s \in Sessions, CtrlC(s) PROVE StoppedOnExit'
    <3>1. CASE at[s] \in Unarmed /\ ExitUnarmed(s, 130) /\ leaked' = (leaked \/ at[s] = "up")
      <4>1. CASE at[s] = "up"
        BY <3>1, <4>1 DEF StoppedOnExit
      <4>2. CASE at[s] # "up"
        <5>1. ~Busy(s) /\ validator' = validator /\ leaked' = leaked
          BY <3>1, <4>2 DEF ExitUnarmed, DockerInv, DockerTypeOK
        <5>2. ASSUME NEW t \in Sessions, Busy(t) PROVE Busy(t)'
          BY <3>1, <5>1, <5>2 DEF ExitUnarmed, Go, DockerInv, DockerTypeOK
        <5> QED BY <5>1, <5>2 DEF StoppedOnExit
      <4> QED BY <4>1, <4>2
    <3>2. CASE at[s] \in Waiting \cup {"bench"} /\ Leave(s, 130)
      BY <3>2 DEF Leave, Go, StoppedOnExit, DockerInv, DockerTypeOK
    <3> QED BY <2>6, <3>1, <3>2 DEF CtrlC
  <2>7. CASE BecomesHealthy \/ Dies \/ Tick \/ UNCHANGED dockerVars
    BY <2>7 DEF BecomesHealthy, Dies, Tick, dockerVars, session, StoppedOnExit
  <2> QED
    BY <2>1, <2>2, <2>3, <2>4, <2>5, <2>6, <2>7 DEF DockerNext, ScriptStep, ProbeReturns
<1> QED BY <1>1, <1>2, DockerInvariant, PTL DEF DockerSpec

\* Exit code 0 of the .sh is only given once its down has gone through.
THEOREM ZeroIsStopped == DockerSpec => []ZeroMeansStopped
<1>1. DockerInit => ZeroMeansStopped
  BY DockerBenchAssumption DEF DockerInit, ZeroMeansStopped
<1>2. DockerInv /\ ZeroMeansStopped /\ [DockerNext]_dockerVars => ZeroMeansStopped'
  <2> SUFFICES ASSUME DockerInv, ZeroMeansStopped, [DockerNext]_dockerVars,
                      NEW t \in BashSessions, at'[t] = "ended", exit'[t] = 0
               PROVE  stopped'[t]
    BY DEF ZeroMeansStopped
  <2> USE DockerBenchAssumption DEF DockerInv, DockerTypeOK, ZeroMeansStopped
  <2>1. ASSUME NEW s \in Sessions, Begin(s) \/ Keygen(s) \/ Up(s) PROVE stopped'[t]
    BY <2>1 DEF Begin, Keygen, Up, Go, ExitUnarmed
  <2>2. ASSUME NEW s \in Sessions,
               WaitHead(s) \/ Wake(s) \/ Bench(s) \/ ProbeOk(s) \/ ProbeFails(s)
        PROVE  stopped'[t]
    BY <2>2 DEF WaitHead, Wake, Bench, ProbeOk, ProbeFails, Leave, Go
  <2>3. ASSUME NEW s \in Sessions, Cleanup(s) PROVE stopped'[t]
    BY <2>3 DEF Cleanup, CodeAfterFailedDown, Go
  <2>4. ASSUME NEW s \in Sessions, CtrlC(s) PROVE stopped'[t]
    BY <2>4 DEF CtrlC, Leave, ExitUnarmed, Go
  <2>5. CASE (\E s \in Sessions : ContainerStarts(s)) \/ BecomesHealthy \/ Dies \/ Tick
             \/ UNCHANGED dockerVars
    BY <2>5 DEF ContainerStarts, BecomesHealthy, Dies, Tick, dockerVars, session
  <2> QED
    BY <2>1, <2>2, <2>3, <2>4, <2>5 DEF DockerNext, ScriptStep, ProbeReturns
<1> QED BY <1>1, <1>2, DockerInvariant, PTL DEF DockerSpec

-----------------------------------------------------------------------------
\* A session past its key pair's stage has found a file or made one.
HasKey == \A s \in Sessions : at[s] \notin {"start", "keygen", "ended"} => key # 0

\* Whoever is past it, no step of another session changes the file, which a
\* session only makes where there is none.
LEMMA KeyStep ==
  ASSUME DockerInv, HasKey, [DockerNext]_dockerVars
  PROVE  HasKey' /\ (key # 0 => key' = key)
<1> USE DEF DockerInv, DockerTypeOK, HasKey
<1>1. ASSUME NEW s \in Sessions, Begin(s) \/ Keygen(s) \/ Up(s)
      PROVE  HasKey' /\ (key # 0 => key' = key)
  BY <1>1 DEF Begin, Keygen, Up, Go, ExitUnarmed
<1>2. ASSUME NEW s \in Sessions,
             WaitHead(s) \/ Wake(s) \/ Bench(s) \/ Cleanup(s) \/ ProbeOk(s) \/ ProbeFails(s)
      PROVE  HasKey' /\ (key # 0 => key' = key)
  BY <1>2 DEF WaitHead, Wake, Bench, Cleanup, ProbeOk, ProbeFails, Leave, Go
<1>3. ASSUME NEW s \in Sessions, CtrlC(s) PROVE HasKey' /\ (key # 0 => key' = key)
  BY <1>3 DEF CtrlC, Leave, ExitUnarmed, Go
<1>4. CASE (\E s \in Sessions : ContainerStarts(s)) \/ BecomesHealthy \/ Dies \/ Tick
           \/ UNCHANGED dockerVars
  BY <1>4 DEF ContainerStarts, BecomesHealthy, Dies, Tick, dockerVars, session
<1> QED BY <1>1, <1>2, <1>3, <1>4 DEF DockerNext, ScriptStep, ProbeReturns

\* Nobody replaces the key pair under a session that has found or made it, though
\* two may have found none and both go on to make one.
THEOREM KeyPairKept == DockerSpec => KeyPairIsKept
<1>1. DockerInit => HasKey
  BY DEF DockerInit, HasKey
<1>2. DockerInv /\ HasKey /\ [DockerNext]_dockerVars => HasKey'
  BY KeyStep
<1>3. DockerInv /\ HasKey /\ [DockerNext]_dockerVars =>
        [\A s \in Sessions :
           at[s] \notin {"start", "keygen", "ended"} => key # 0 /\ key' = key]_dockerVars
  BY KeyStep DEF HasKey
<1> QED BY <1>1, <1>2, <1>3, DockerInvariant, PTL DEF DockerSpec, KeyPairIsKept

HIDE DEF None, Floor, Unarmed, Waiting
-----------------------------------------------------------------------------
(***************************************************************************)
(* The comparison script.                                                  *)
(***************************************************************************)

\* The stages.
Later == {"anchor_key", "stage", "deploy", "send", "show", "bench"}
Deploying == {"deploy", "send", "show"}

\* What is left to do and what is done.
Bookkeeping ==
  /\ pc # "idle" => opts \in Options
  /\ todo \subseteq Frameworks
  /\ pc = "idle" => todo = {}
  /\ pc \in {"idle", "build", "anchor_key", "stage"} => deployments = Empty
  /\ pc \in {"anchor_key", "stage"} => opts.DeployDevnet /\ "anchor" \in opts.with /\ todo = opts.with
  /\ pc = "build" => todo \subseteq opts.with /\ (opts.DeployDevnet => "anchor" \notin todo)
  /\ pc \in Deploying => /\ opts.DeployDevnet
                         /\ todo \cup DOMAIN deployments = opts.with
                         /\ todo \cap DOMAIN deployments = {}
  /\ pc \in {"send", "show"} => todo # {}
  /\ pc = "bench" => /\ opts.DeployDevnet => DOMAIN deployments = opts.with
                     /\ ~opts.DeployDevnet => deployments = Empty

\* Unless told not to, the session has built what it is done with.
Fresh ==
  pc # "idle" /\ ~opts.NoBuild =>
    \A f \in opts.with : (f = "anchor" /\ opts.DeployDevnet) \/ (pc = "build" /\ f \in todo)
                           \/ so[f] = Built

\* The staged vault declares the ID it is deployed under.
Staged ==
  pc \in Deploying \cup {"bench"} /\ opts.DeployDevnet /\ "anchor" \in opts.with =>
    /\ staged = [by |-> sessions, id |-> keypair["anchor"]]
    /\ keypair["anchor"] \in 1 .. new_id
StageKey == pc = "stage" => keypair["anchor"] \in 1 .. new_id

\* The program being deployed, and those that have been.
BeingDeployed ==
  /\ pc \in {"send", "show"} => keypair[current] \in 1 .. new_id /\ binaryPath(current) # Missing
  /\ pc = "show" => Deployed \in cluster
OnTheCluster ==
  \A f \in DOMAIN deployments :
    /\ deployments[f] = keypair[f] /\ deployments[f] \in 1 .. new_id
    /\ <<deployments[f], binaryPath(f)>> \in cluster

Types ==
  /\ so \in [Frameworks -> Binaries \cup {Missing}] /\ staged \in Binaries \cup {Missing}
  /\ keypair \in [Frameworks -> 1 .. new_id \cup {Missing}] /\ new_id \in Nat
  /\ \A c \in cluster : c[1] \in 1 .. new_id /\ c[2] \in Binaries
  /\ pc \in {"idle", "build"} \cup Later
  /\ DOMAIN deployments \subseteq opts.with
  /\ sessions \in 0 .. MaxSessions

SessionInv ==
  /\ Types /\ Bookkeeping /\ Fresh /\ Staged /\ StageKey /\ BeingDeployed /\ OnTheCluster
  /\ KeysAreTheManifests
-----------------------------------------------------------------------------
\* The first of the artifacts left is one of them.
LEMMA CurrentIsLeft ==
  ASSUME todo \subseteq Frameworks, todo # {}
  PROVE  current \in todo
<1>1. /\ Place["hopper"] = 1 /\ Place["pinocchio"] = 2
      /\ Place["quasar"] = 3 /\ Place["anchor"] = 4
  BY DEF Place
<1>2. \A g \in todo : g \in {"hopper", "pinocchio", "quasar", "anchor"}
  BY DEF Frameworks
<1>3. \E f \in todo : \A g \in todo : Place[f] <= Place[g]
  <2>1. CASE "hopper" \in todo
    BY <1>1, <1>2, <2>1
  <2>2. CASE "hopper" \notin todo /\ "pinocchio" \in todo
    BY <1>1, <1>2, <2>2
  <2>3. CASE {"hopper", "pinocchio"} \cap todo = {} /\ "quasar" \in todo
    BY <1>1, <1>2, <2>3
  <2>4. CASE {"hopper", "pinocchio", "quasar"} \cap todo = {}
    BY <1>1, <1>2, <2>4
  <2> QED
    BY <2>1, <2>2, <2>3, <2>4
<1> QED BY <1>3 DEF current

LEMMA OptionTypes ==
  ASSUME NEW o \in Options
  PROVE  o.DeployDevnet \in BOOLEAN /\ o.NoBuild \in BOOLEAN /\ o.with \subseteq Frameworks
  BY VaultComparisonAssumption

\* A binary that is there is a binary.
LEMMA BinaryTypes ==
  ASSUME Types, NEW f \in Frameworks
  PROVE  binaryPath(f) \in Binaries \cup {Missing}
  BY DEF Types, binaryPath

\* Before the first session.
LEMMA ComparisonInitInv == ComparisonInit => SessionInv
<1> SUFFICES ASSUME ComparisonInit PROVE SessionInv
  OBVIOUS
<1>1. Types
  BY VaultComparisonAssumption DEF ComparisonInit, Types, Binaries, Empty, DEFAULT_ID
<1>2. Bookkeeping /\ Fresh /\ Staged /\ StageKey /\ BeingDeployed
  BY DEF ComparisonInit, Bookkeeping, Fresh, Staged, StageKey, BeingDeployed, Deploying, Later
<1>3. OnTheCluster /\ KeysAreTheManifests
  BY DEF ComparisonInit, OnTheCluster, KeysAreTheManifests, Empty
<1> QED BY <1>1, <1>2, <1>3 DEF SessionInv

-----------------------------------------------------------------------------
\* The steps of a session.

\* A session that ends leaves only files behind.
LEMMA EndInv ==
  ASSUME SessionInv, End, KeysAreTheManifests',
         so' \in [Frameworks -> Binaries \cup {Missing}], staged' \in Binaries \cup {Missing},
         keypair' \in [Frameworks -> 1 .. new_id' \cup {Missing}], new_id' \in Nat,
         \A c \in cluster' : c[1] \in 1 .. new_id' /\ c[2] \in Binaries
  PROVE  SessionInv'
<1>1. Types'
  BY DEF SessionInv, Types, End, Empty
<1>2. (Bookkeeping /\ Fresh /\ Staged /\ StageKey /\ BeingDeployed)'
  BY DEF End, Bookkeeping, Fresh, Staged, StageKey, BeingDeployed, Deploying, Later
<1>3. OnTheCluster'
  BY DEF End, OnTheCluster, Empty
<1> QED BY <1>1, <1>2, <1>3 DEF SessionInv

\* In particular one that has not touched them.
LEMMA EndUnchangedInv ==
  ASSUME SessionInv, End, UNCHANGED files
  PROVE  SessionInv'
<1>1. KeysAreTheManifests'
  BY DEF SessionInv, KeysAreTheManifests, End, files
<1> QED BY <1>1, EndInv DEF SessionInv, Types, files

LEMMA StartSessionInv ==
  ASSUME SessionInv, StartSession
  PROVE  SessionInv'
<1>1. opts' \in Options /\ pc = "idle" /\ pc' = "build" /\ deployments' = Empty /\ UNCHANGED files
  BY DEF StartSession, SessionInv, Bookkeeping
<1>2. Types'
  BY <1>1, VaultComparisonAssumption DEF StartSession, SessionInv, Types, Empty, files
<1>3. Bookkeeping'
  BY <1>1, OptionTypes DEF StartSession, Bookkeeping, Deploying
<1>4. Fresh'
  BY <1>1, OptionTypes DEF StartSession, Fresh
<1>5. (Staged /\ StageKey /\ BeingDeployed /\ OnTheCluster)'
  BY <1>1 DEF Staged, StageKey, BeingDeployed, OnTheCluster, Deploying, Empty
<1>6. KeysAreTheManifests'
  BY <1>1 DEF StartSession, SessionInv, KeysAreTheManifests, files
<1> QED BY <1>2, <1>3, <1>4, <1>5, <1>6 DEF SessionInv

LEMMA BuildInv ==
  ASSUME SessionInv, Build
  PROVE  SessionInv'
<1>1. CASE End /\ UNCHANGED so
  BY <1>1, EndUnchangedInv DEF Build, files
<1>2. CASE ~(End /\ UNCHANGED so)
  <2>1. /\ pc = "build" /\ pc' = "build" /\ todo # {} /\ todo' = todo \ {current}
        /\ so' = [so EXCEPT ![current] = Built]
        /\ UNCHANGED <<staged, keypair, new_id, cluster, manifest, report>>
        /\ UNCHANGED <<opts, deployments, sessions, cut>>
    BY <1>2 DEF Build
  <2>2. current \in todo /\ todo \subseteq Frameworks /\ current \in Frameworks
    BY <2>1, CurrentIsLeft DEF SessionInv, Bookkeeping
  <2>3. Built \in Binaries /\ Built' = Built
    BY <2>1 DEF Built, Binaries, DEFAULT_ID, SessionInv, Types
  <2>4. Types'
    BY <2>1, <2>2, <2>3 DEF SessionInv, Types
  <2>5. Bookkeeping'
    BY <2>1, <2>2 DEF SessionInv, Bookkeeping, Deploying
  <2>6. Fresh'
    BY <2>1, <2>2, <2>3 DEF SessionInv, Fresh, Types
  <2>7. (Staged /\ StageKey /\ BeingDeployed)'
    BY <2>1 DEF Staged, StageKey, BeingDeployed, Deploying
  <2>8. OnTheCluster'
    BY <2>1 DEF OnTheCluster, SessionInv, Bookkeeping, Empty
  <2>9. KeysAreTheManifests'
    BY <2>1 DEF SessionInv, KeysAreTheManifests
  <2> QED BY <2>4, <2>5, <2>6, <2>7, <2>8, <2>9 DEF SessionInv
<1> QED BY <1>1, <1>2

LEMMA AfterBuildsInv ==
  ASSUME SessionInv, AfterBuilds
  PROVE  SessionInv'
<1>1. CASE End
  BY <1>1, EndUnchangedInv DEF AfterBuilds
<1>2. CASE ~End
  <2>1. /\ pc = "build" /\ todo = {} /\ UNCHANGED files
        /\ pc' = IF ~opts.DeployDevnet THEN "bench"
                 ELSE IF "anchor" \in opts.with THEN "anchor_key" ELSE "deploy"
        /\ todo' = IF opts.DeployDevnet THEN opts.with ELSE {}
        /\ UNCHANGED <<opts, deployments, sessions, cut>>
    BY <1>2 DEF AfterBuilds
  <2>2. opts \in Options /\ deployments = Empty
    BY <2>1 DEF SessionInv, Bookkeeping
  <2>3. Types'
    BY <2>1 DEF SessionInv, Types, files, Later
  <2>4. Bookkeeping'
    BY <2>1, <2>2, OptionTypes DEF Bookkeeping, Deploying, Empty
  <2>5. Fresh'
    BY <2>1, OptionTypes DEF SessionInv, Fresh, Built, files
  <2>6. (Staged /\ StageKey /\ BeingDeployed)'
    BY <2>1, <2>2, OptionTypes DEF Staged, StageKey, BeingDeployed, Deploying
  <2>7. (OnTheCluster /\ KeysAreTheManifests)'
    BY <2>1, <2>2 DEF SessionInv, OnTheCluster, KeysAreTheManifests, files, Empty
  <2> QED BY <2>3, <2>4, <2>5, <2>6, <2>7 DEF SessionInv
<1> QED BY <1>1, <1>2

\* A new key pair is for a file that no deployment of the session has used.
LEMMA AnchorKeyInv ==
  ASSUME SessionInv, AnchorKey
  PROVE  SessionInv'
<1>1. CASE End /\ UNCHANGED <<keypair, new_id>>
  BY <1>1, EndUnchangedInv DEF AnchorKey, files
<1>2. CASE ~(End /\ UNCHANGED <<keypair, new_id>>)
  <2>1. /\ pc = "anchor_key" /\ pc' = "stage" /\ NewProgramKeypair("anchor")
        /\ UNCHANGED <<opts, todo, deployments, sessions>>
        /\ UNCHANGED <<so, staged, cluster, manifest, report>>
    BY <1>2 DEF AnchorKey
  <2>2. Types' /\ StageKey'
    BY <2>1 DEF SessionInv, Types, NewProgramKeypair, Later, StageKey, Frameworks
  <2>3. (Bookkeeping /\ Fresh)'
    BY <2>1 DEF SessionInv, Bookkeeping, Fresh, Built, Deploying
  <2>4. (Staged /\ BeingDeployed)'
    BY <2>1 DEF Staged, BeingDeployed, Deploying
  <2>5. (OnTheCluster /\ KeysAreTheManifests)'
    BY <2>1 DEF SessionInv, Bookkeeping, OnTheCluster, KeysAreTheManifests, NewProgramKeypair, Empty
  <2> QED BY <2>2, <2>3, <2>4, <2>5 DEF SessionInv
<1> QED BY <1>1, <1>2

LEMMA StageInv ==
  ASSUME SessionInv, Stage
  PROVE  SessionInv'
<1>0. pc = "stage" /\ UNCHANGED <<so, keypair, new_id, cluster, manifest, report>>
  BY DEF Stage
<1>1. CASE staged' \in {staged, Missing} /\ End
  <2>1. KeysAreTheManifests'
    BY <1>0, <1>1 DEF SessionInv, KeysAreTheManifests, End
  <2>2. staged' \in Binaries \cup {Missing}
    BY <1>1 DEF SessionInv, Types
  <2> QED BY <1>0, <1>1, <2>1, <2>2, EndInv DEF SessionInv, Types
<1>2. CASE ~(staged' \in {staged, Missing} /\ End)
  <2>1. /\ staged' = [by |-> sessions, id |-> keypair["anchor"]] /\ pc' = "deploy"
        /\ UNCHANGED <<opts, todo, deployments, sessions, cut>>
    BY <1>2 DEF Stage
  <2>2. keypair["anchor"] \in 1 .. new_id
    BY <1>0 DEF SessionInv, StageKey
  <2>3. Types'
    BY <1>0, <2>1, <2>2 DEF SessionInv, Types, Binaries, Later
  <2>4. (Bookkeeping /\ Fresh)'
    BY <1>0, <2>1 DEF SessionInv, Bookkeeping, Fresh, Built, Deploying, Empty
  <2>5. (Staged /\ StageKey /\ BeingDeployed)'
    BY <1>0, <2>1, <2>2 DEF Staged, StageKey, BeingDeployed, Deploying
  <2>6. (OnTheCluster /\ KeysAreTheManifests)'
    BY <1>0, <2>1 DEF SessionInv, Bookkeeping, OnTheCluster, KeysAreTheManifests, Empty
  <2> QED BY <2>3, <2>4, <2>5, <2>6 DEF SessionInv
<1> QED BY <1>1, <1>2

LEMMA DeployKeyInv ==
  ASSUME SessionInv, DeployKey
  PROVE  SessionInv'
<1>1. CASE End /\ UNCHANGED <<keypair, new_id>>
  BY <1>1, EndUnchangedInv DEF DeployKey, files
<1>2. CASE ~(End /\ UNCHANGED <<keypair, new_id>>)
  <2>1. /\ pc = "deploy" /\ pc' = "send" /\ todo # {} /\ binaryPath(current) # Missing
        /\ IF current = "anchor" THEN UNCHANGED <<new_id, keypair, cut>>
           ELSE NewProgramKeypair(current)
        /\ UNCHANGED <<opts, todo, deployments, sessions>>
        /\ UNCHANGED <<so, staged, cluster, manifest, report>>
    BY <1>2 DEF DeployKey
  <2>2. current \in todo /\ current \in Frameworks /\ current' = current
    BY <2>1, CurrentIsLeft DEF SessionInv, Bookkeeping, current
  <2>3. opts \in Options /\ opts.DeployDevnet /\ current \in opts.with
        /\ current \notin DOMAIN deployments
    BY <2>1, <2>2 DEF SessionInv, Bookkeeping, Deploying
  <2>4. Types'
    BY <2>1, <2>2 DEF SessionInv, Types, NewProgramKeypair, Later
  <2>5. (Bookkeeping /\ Fresh)'
    BY <2>1 DEF SessionInv, Bookkeeping, Fresh, Built, Deploying
  <2>6. keypair'[current] \in 1 .. new_id'
    <3>1. CASE current = "anchor"
      BY <3>1, <2>1, <2>3 DEF SessionInv, Staged, Deploying
    <3>2. CASE current # "anchor"
      BY <3>2, <2>1, <2>2 DEF SessionInv, Types, NewProgramKeypair
    <3> QED BY <3>1, <3>2
  <2>7. binaryPath(current)' = binaryPath(current)
    BY <2>1, <2>2 DEF binaryPath
  <2>8. BeingDeployed'
    BY <2>1, <2>2, <2>6, <2>7 DEF BeingDeployed
  <2>9. (Staged /\ StageKey)'
    <3>1. CASE current = "anchor"
      BY <3>1, <2>1 DEF SessionInv, Staged, StageKey, Deploying
    <3>2. CASE current # "anchor"
      <4>1. keypair'["anchor"] = keypair["anchor"] /\ new_id' = new_id + 1 /\ new_id \in Nat
        BY <3>2, <2>1 DEF NewProgramKeypair, SessionInv, Types, Frameworks
      <4> QED BY <4>1, <2>1 DEF SessionInv, Staged, StageKey, Deploying
    <3> QED BY <3>1, <3>2
  <2>10. OnTheCluster'
    <3> SUFFICES ASSUME NEW f \in DOMAIN deployments
                 PROVE  /\ deployments[f] = keypair'[f] /\ deployments[f] \in 1 .. new_id'
                        /\ <<deployments[f], binaryPath(f)'>> \in cluster
      BY <2>1 DEF OnTheCluster, binaryPath
    <3>1. /\ deployments[f] = keypair[f] /\ deployments[f] \in 1 .. new_id
          /\ <<deployments[f], binaryPath(f)>> \in cluster
      BY DEF SessionInv, OnTheCluster
    <3>2. binaryPath(f)' = binaryPath(f)
      BY <2>1 DEF binaryPath
    <3>3. f # current /\ f \in Frameworks
      BY <2>3, OptionTypes DEF SessionInv, Types
    <3>4. keypair'[f] = keypair[f] /\ new_id \in Nat /\ new_id' \in {new_id, new_id + 1}
      BY <2>1, <3>3 DEF NewProgramKeypair, SessionInv, Types
    <3> QED BY <3>1, <3>2, <3>4
  <2>11. KeysAreTheManifests'
    BY <2>1 DEF SessionInv, KeysAreTheManifests, NewProgramKeypair
  <2> QED BY <2>4, <2>5, <2>8, <2>9, <2>10, <2>11 DEF SessionInv
<1> QED BY <1>1, <1>2

LEMMA SendInv ==
  ASSUME SessionInv, Send
  PROVE  SessionInv'
<1>0. pc = "send" /\ UNCHANGED <<so, staged, keypair, new_id, manifest, report>>
  BY DEF Send
<1>1. todo # {} /\ keypair[current] \in 1 .. new_id /\ binaryPath(current) # Missing
  BY <1>0 DEF SessionInv, Bookkeeping, BeingDeployed
<1>2. binaryPath(current) \in Binaries
  BY <1>0, <1>1, CurrentIsLeft, BinaryTypes DEF SessionInv, Bookkeeping
<1>3. Deployed[1] \in 1 .. new_id /\ Deployed[2] \in Binaries
  BY <1>1, <1>2 DEF Deployed
<1>4. \A c \in cluster \cup {Deployed} : c[1] \in 1 .. new_id /\ c[2] \in Binaries
  BY <1>3 DEF SessionInv, Types
<1>5. CASE cluster' \in {cluster, cluster \cup {Deployed}} /\ End
  <2>1. KeysAreTheManifests'
    BY <1>0, <1>5 DEF SessionInv, KeysAreTheManifests, End
  <2>2. \A c \in cluster' : c[1] \in 1 .. new_id' /\ c[2] \in Binaries
    BY <1>0, <1>4, <1>5
  <2> QED BY <1>0, <1>5, <2>1, <2>2, EndInv DEF SessionInv, Types
<1>6. CASE ~(cluster' \in {cluster, cluster \cup {Deployed}} /\ End)
  <2>1. /\ cluster' = cluster \cup {Deployed} /\ pc' = "show"
        /\ UNCHANGED <<opts, todo, deployments, sessions, cut>>
    BY <1>6 DEF Send
  <2>2. Types'
    BY <1>0, <1>4, <2>1 DEF SessionInv, Types, Later
  <2>3. (Bookkeeping /\ Fresh)'
    BY <1>0, <2>1 DEF SessionInv, Bookkeeping, Fresh, Built, Deploying
  <2>4. (Staged /\ StageKey)'
    BY <1>0, <2>1 DEF SessionInv, Staged, StageKey, Deploying
  <2>5. current' = current /\ \A f : binaryPath(f)' = binaryPath(f)
    BY <1>0, <2>1 DEF current, binaryPath
  <2>6. Deployed' = Deployed
    BY <1>0, <2>5 DEF Deployed
  <2>7. BeingDeployed'
    BY <1>0, <1>1, <2>1, <2>5, <2>6 DEF BeingDeployed
  <2>8. OnTheCluster'
    BY <1>0, <2>1, <2>5 DEF SessionInv, OnTheCluster
  <2>9. KeysAreTheManifests'
    BY <1>0, <2>1 DEF SessionInv, KeysAreTheManifests
  <2> QED BY <2>2, <2>3, <2>4, <2>7, <2>8, <2>9 DEF SessionInv
<1> QED BY <1>5, <1>6

LEMMA ShowInv ==
  ASSUME SessionInv, Show
  PROVE  SessionInv'
<1>0. pc = "show" /\ UNCHANGED files
  BY DEF Show
<1>1. CASE End
  BY <1>0, <1>1, EndUnchangedInv
<1>2. CASE ~End
  <2>1. /\ deployments' = With(deployments, current, keypair[current])
        /\ todo' = todo \ {current} /\ pc' = "deploy"
        /\ UNCHANGED <<opts, sessions, cut>>
    BY <1>2 DEF Show
  <2>2. /\ opts \in Options /\ opts.DeployDevnet /\ todo # {} /\ todo \subseteq Frameworks
        /\ current \in todo /\ current \in opts.with /\ current \notin DOMAIN deployments
    BY <1>0, CurrentIsLeft DEF SessionInv, Bookkeeping, Deploying
  <2>3. /\ DOMAIN deployments' = DOMAIN deployments \cup {current}
        /\ deployments'[current] = keypair[current]
        /\ \A f \in DOMAIN deployments : deployments'[f] = deployments[f]
    BY <2>1, <2>2 DEF With
  <2>4. Types'
    BY <1>0, <2>1, <2>2, <2>3 DEF SessionInv, Types, files, Later
  <2>5. Bookkeeping'
    BY <1>0, <2>1, <2>2, <2>3 DEF SessionInv, Bookkeeping, Deploying
  <2>6. Fresh'
    BY <1>0, <2>1 DEF SessionInv, Fresh, Built, files
  <2>7. (Staged /\ StageKey /\ BeingDeployed)'
    BY <1>0, <2>1 DEF SessionInv, Staged, StageKey, BeingDeployed, Deploying, files
  <2>8. OnTheCluster'
    <3>1. \A f : binaryPath(f)' = binaryPath(f)
      BY <1>0, <2>1 DEF binaryPath, files
    <3>2. keypair[current] \in 1 .. new_id /\ <<keypair[current], binaryPath(current)>> \in cluster
      BY <1>0 DEF SessionInv, BeingDeployed, Deployed
    <3>3. \A f \in DOMAIN deployments :
            /\ deployments[f] = keypair[f] /\ deployments[f] \in 1 .. new_id
            /\ <<deployments[f], binaryPath(f)>> \in cluster
      BY DEF SessionInv, OnTheCluster
    <3> QED BY <1>0, <2>3, <3>1, <3>2, <3>3 DEF OnTheCluster, files
  <2>9. KeysAreTheManifests'
    BY <1>0, <2>1 DEF SessionInv, KeysAreTheManifests, files
  <2> QED BY <2>4, <2>5, <2>6, <2>7, <2>8, <2>9 DEF SessionInv
<1> QED BY <1>1, <1>2

LEMMA WriteManifestInv ==
  ASSUME SessionInv, WriteManifest
  PROVE  SessionInv'
<1>0. pc = "deploy" /\ todo = {} /\ UNCHANGED <<so, staged, keypair, new_id, cluster, report>>
  BY DEF WriteManifest
<1>1. CASE manifest' \in {manifest, Torn} /\ End
  <2>1. KeysAreTheManifests'
    BY <1>0, <1>1 DEF SessionInv, KeysAreTheManifests, End
  <2> QED BY <1>0, <1>1, <2>1, EndInv DEF SessionInv, Types
<1>2. CASE ~(manifest' \in {manifest, Torn} /\ End)
  <2>1. /\ manifest' = deployments /\ pc' = "bench" /\ cut' = FALSE
        /\ UNCHANGED <<opts, todo, deployments, sessions>>
    BY <1>2 DEF WriteManifest
  <2>2. Types'
    BY <1>0, <2>1 DEF SessionInv, Types, Later
  <2>3. Bookkeeping' /\ Fresh'
    BY <1>0, <2>1 DEF SessionInv, Bookkeeping, Fresh, Built, Deploying
  <2>4. (Staged /\ StageKey /\ BeingDeployed)'
    BY <1>0, <2>1 DEF SessionInv, Staged, StageKey, BeingDeployed, Deploying
  <2>5. OnTheCluster'
    BY <1>0, <2>1 DEF SessionInv, OnTheCluster, binaryPath
  <2>6. KeysAreTheManifests'
    BY <1>0, <2>1 DEF SessionInv, OnTheCluster, KeysAreTheManifests
  <2> QED BY <2>2, <2>3, <2>4, <2>5, <2>6 DEF SessionInv
<1> QED BY <1>1, <1>2

LEMMA RunBenchInv ==
  ASSUME SessionInv, RunBench
  PROVE  SessionInv'
<1>1. End /\ UNCHANGED <<so, staged, keypair, new_id, cluster, manifest>>
  BY DEF RunBench
<1>2. KeysAreTheManifests'
  BY <1>1 DEF SessionInv, KeysAreTheManifests, End
<1> QED BY <1>1, <1>2, EndInv DEF SessionInv, Types

-----------------------------------------------------------------------------
\* Every step keeps the invariant.
LEMMA ComparisonStepInv == SessionInv /\ [ComparisonNext]_comparisonVars => SessionInv'
<1> SUFFICES ASSUME SessionInv, [ComparisonNext]_comparisonVars PROVE SessionInv'
  OBVIOUS
<1>1. CASE StartSession
  BY <1>1, StartSessionInv
<1>2. CASE SessionStep
  BY <1>2, BuildInv, AfterBuildsInv, AnchorKeyInv, StageInv, DeployKeyInv, SendInv, ShowInv,
     WriteManifestInv, RunBenchInv DEF SessionStep
<1>3. CASE Interrupt
  BY <1>3, EndUnchangedInv DEF Interrupt
<1>4. CASE UNCHANGED comparisonVars
  BY <1>4 DEF comparisonVars, files, progress, SessionInv, Types, Bookkeeping, Fresh, Staged,
     StageKey, BeingDeployed, OnTheCluster, KeysAreTheManifests, Built, Deployed, binaryPath, current
<1> QED BY <1>1, <1>2, <1>3, <1>4 DEF ComparisonNext

LEMMA SessionInvariant == ComparisonSpec => []SessionInv
  BY ComparisonInitInv, ComparisonStepInv, PTL DEF ComparisonSpec

\* compare-framework-vaults.ps1: the state has its type, and the key pair files
\* are those of the manifest's programs unless a later session has begun to
\* replace them (property ComparisonInv).
THEOREM ComparisonInvariant == ComparisonSpec => []ComparisonInv
<1>1. SessionInv => ComparisonInv
  BY DEF SessionInv, Types, ComparisonInv, ComparisonTypeOK, Later
<1> QED BY <1>1, SessionInvariant, PTL

\* New-AnchorDevnetBuildRoot: the bench never runs an Anchor vault of the
\* session's making under an ID it does not declare (property
\* AnchorRunsUnderItsId).
THEOREM AnchorIdCorrect == ComparisonSpec => []AnchorRunsUnderItsId
<1>1. SessionInv => AnchorRunsUnderItsId
  <2> SUFFICES ASSUME SessionInv, pc = "bench", "anchor" \in opts.with,
                      opts.DeployDevnet \/ ~opts.NoBuild
               PROVE  RunsUnder("anchor")
    BY DEF AnchorRunsUnderItsId
  <2>1. CASE opts.DeployDevnet
    <3>1. "anchor" \in DOMAIN deployments
      BY <2>1 DEF SessionInv, Bookkeeping
    <3>2. deployments["anchor"] = keypair["anchor"]
      BY <3>1 DEF SessionInv, OnTheCluster
    <3>3. staged.id = keypair["anchor"]
      BY <2>1 DEF SessionInv, Staged
    <3> QED BY <2>1, <3>1, <3>2, <3>3 DEF RunsUnder, runnerBinary, binaryPath, runnerId
  <2>2. CASE ~opts.DeployDevnet
    <3>1. so["anchor"] = Built /\ deployments = Empty
      BY <2>2 DEF SessionInv, Fresh, Bookkeeping
    <3> QED BY <2>2, <3>1 DEF RunsUnder, runnerBinary, binaryPath, runnerId, Built, Empty
  <2> QED BY <2>1, <2>2
<1> QED BY <1>1, SessionInvariant, PTL

\* Invoke-CargoCapture and Add-ProgramIdArgs: what a report is about was built
\* by its session, and is on the cluster under the IDs the report gives when the
\* session deployed it (property ReportIsOfItsSession).
THEOREM ReportCorrect == ComparisonSpec => ReportIsOfItsSession
<1> DEFINE Own ==
      \A f \in DOMAIN report' :
        /\ ~opts.NoBuild \/ (f = "anchor" /\ opts.DeployDevnet) =>
             report'[f].binary.by = sessions
        /\ opts.DeployDevnet => <<report'[f].id, report'[f].binary>> \in cluster
<1>1. ASSUME SessionInv, ComparisonNext, report' # report PROVE Own
  <2>1. RunBench
    BY <1>1 DEF ComparisonNext, SessionStep, StartSession, Build, AfterBuilds, AnchorKey, Stage,
       DeployKey, Send, Show, WriteManifest, Interrupt, files
  <2>2. /\ pc = "bench"
        /\ report' = [f \in Measured |-> [id |-> runnerId(f), binary |-> runnerBinary(f)]]
    BY <1>1, <2>1 DEF RunBench
  <2> SUFFICES ASSUME NEW f \in Measured
               PROVE  /\ ~opts.NoBuild \/ (f = "anchor" /\ opts.DeployDevnet) =>
                           binaryPath(f).by = sessions
                      /\ opts.DeployDevnet => <<runnerId(f), binaryPath(f)>> \in cluster
    BY <2>2 DEF runnerBinary
  <2>3. f \in opts.with
    BY DEF Measured
  <2>4. CASE f = "anchor" /\ opts.DeployDevnet
    <3>1. staged.by = sessions
      BY <1>1, <2>2, <2>3, <2>4 DEF SessionInv, Staged
    <3> QED BY <1>1, <2>2, <2>3, <2>4, <3>1
            DEF SessionInv, Bookkeeping, OnTheCluster, binaryPath, runnerId
  <2>5. CASE ~(f = "anchor" /\ opts.DeployDevnet)
    <3>1. ~opts.NoBuild => so[f].by = sessions
      BY <1>1, <2>2, <2>3, <2>5 DEF SessionInv, Fresh, Built
    <3>2. opts.DeployDevnet => <<runnerId(f), binaryPath(f)>> \in cluster
      BY <1>1, <2>2, <2>3 DEF SessionInv, Bookkeeping, OnTheCluster, runnerId
    <3> QED BY <2>5, <3>1, <3>2 DEF binaryPath
  <2> QED BY <2>4, <2>5
<1>2. SessionInv /\ [ComparisonNext]_comparisonVars => [report' # report => Own]_comparisonVars
  BY <1>1
<1> QED BY <1>2, SessionInvariant, PTL DEF ComparisonSpec, ReportIsOfItsSession

\* Deploy-FrameworkProgram and the manifest: it lists all frameworks of its
\* session, each with an ID under which the session's binary is on the cluster
\* (property ManifestIsDeployed).
THEOREM ManifestCorrect == ComparisonSpec => ManifestIsDeployed
<1> DEFINE Listed ==
      /\ DOMAIN manifest' = opts.with
      /\ \A f \in opts.with : <<manifest'[f], binaryPath(f)>> \in cluster
<1>1. ASSUME SessionInv, ComparisonNext, manifest' \notin {manifest, Torn} PROVE Listed
  <2>1. WriteManifest
    BY <1>1 DEF ComparisonNext, SessionStep, StartSession, Build, AfterBuilds, AnchorKey, Stage,
       DeployKey, Send, Show, RunBench, Interrupt, files
  <2>2. pc = "deploy" /\ todo = {} /\ manifest' = deployments
    BY <1>1, <2>1 DEF WriteManifest
  <2>3. DOMAIN deployments = opts.with
    BY <1>1, <2>2 DEF SessionInv, Bookkeeping, Deploying
  <2> QED BY <1>1, <2>2, <2>3 DEF SessionInv, OnTheCluster
<1>2. SessionInv /\ [ComparisonNext]_comparisonVars
        => [manifest' \notin {manifest, Torn} => Listed]_comparisonVars
  BY <1>1
<1> QED BY <1>2, SessionInvariant, PTL DEF ComparisonSpec, ManifestIsDeployed
=============================================================================
