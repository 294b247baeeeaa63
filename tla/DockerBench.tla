------------------------------ MODULE DockerBench ------------------------------
(***************************************************************************)
(* The two scripts that bench on a validator in a container                *)
(* (run-bench-docker.sh, run-bench-docker.ps1, docker-compose.yml).  Both  *)
(* make a key pair once, start the container, probe its health up to a     *)
(* deadline, run the bench and stop the container; they differ in how long *)
(* a probe may take and in what their exit code says.  All sessions on a   *)
(* machine share the one container the compose file names.                 *)
(***************************************************************************)
EXTENDS Integers

CONSTANTS Sessions, BashSessions,   \* runs of a script; those of the .sh
          VALIDATOR_READY_TIMEOUT,  \* in units of the 0.5 s the scripts sleep
          ProbeTimeout              \* the .ps1's -TimeoutSec; the .sh has none

ASSUME DockerBenchAssumption ==
  /\ BashSessions \subseteq Sessions
  /\ VALIDATOR_READY_TIMEOUT \in Nat /\ ProbeTimeout \in Nat

None == -1

\* A clock that is this far past its deadline is not told from a later one.
Floor == 0 - ProbeTimeout - 2

VARIABLES
  validator,   \* the container: "down", "booting", "healthy"
  key,         \* the key pair file: 0 while there is none, else which of those made
  at,          \* where each session is
  left,        \* the time to each session's deadline, negative past it
  began,       \* what was left when its last probe or sleep began
  exit,        \* its exit code, None before
  answered,    \* history: a probe of it was answered ok
  stopped,     \* history: its docker compose down went through
  leaked       \* history: since the last one that did, a session has ended in
               \* docker compose up or with a down that did not

session == <<at, left, began, exit, answered, stopped>>
dockerVars == <<validator, key, leaked, session>>

DockerInit ==
  /\ validator = "down" /\ key = 0 /\ leaked = FALSE
  /\ at = [s \in Sessions |-> "start"]
  /\ left = [s \in Sessions |-> 0] /\ began = [s \in Sessions |-> 0]
  /\ exit = [s \in Sessions |-> None]
  /\ answered = [s \in Sessions |-> FALSE] /\ stopped = [s \in Sessions |-> FALSE]

Go(s, place) == at' = [at EXCEPT ![s] = place]
Unarmed == {"start", "keygen", "up"}
Waiting == {"wait", "probe", "sleep"}

\* Ends before the trap is set or the try block is entered: nothing cleans up.
ExitUnarmed(s, code) ==
  /\ Go(s, "ended") /\ exit' = [exit EXCEPT ![s] = code]
  /\ UNCHANGED <<validator, key, left, began, answered, stopped>>

\* Ends after: the trap or the finally block runs first.
Leave_without_trap(s, code) ==
  /\ Go(s, "ended") /\ exit' = [exit EXCEPT ![s] = code]
  /\ UNCHANGED <<validator, key, left, began, answered, stopped, leaked>>
Leave(s, code) ==
  /\ Go(s, "down") /\ exit' = [exit EXCEPT ![s] = code]
  /\ UNCHANGED <<validator, key, left, began, answered, stopped, leaked>>

-----------------------------------------------------------------------------
\* Prerequisites and the key pair: looked for first, generated if it is not there.
Begin(s) ==
  /\ at[s] = "start"
  /\ \/ ExitUnarmed(s, 1) /\ UNCHANGED leaked
     \/ /\ Go(s, IF key = 0 THEN "keygen" ELSE "up")
        /\ UNCHANGED <<validator, key, left, began, exit, answered, stopped, leaked>>

\* solana-keygen new without --force: it does not write over a file that has come
\* into being since the script looked for it.
Keygen_forced(s) ==
  /\ at[s] = "keygen"
  /\ \/ /\ key' = key + 1 /\ Go(s, "up")
        /\ UNCHANGED <<validator, left, began, exit, answered, stopped, leaked>>
     \/ ExitUnarmed(s, 1) /\ UNCHANGED leaked
Keygen(s) ==
  /\ at[s] = "keygen"
  /\ \/ /\ key = 0 /\ key' = key + 1 /\ Go(s, "up")
        /\ UNCHANGED <<validator, left, began, exit, answered, stopped, leaked>>
     \/ ExitUnarmed(s, 1) /\ UNCHANGED leaked

\* docker compose up: somewhere inside the container starts, unless it runs.
ContainerStarts(s) ==
  /\ at[s] = "up" /\ validator = "down"
  /\ validator' = "booting"
  /\ UNCHANGED <<key, leaked, session>>

\* It returns, and the script is armed; or it fails or is interrupted, with the
\* container started or not.
Up(s) ==
  /\ at[s] = "up"
  /\ \/ /\ Go(s, "wait")
        /\ left' = [left EXCEPT ![s] = VALIDATOR_READY_TIMEOUT]
        /\ UNCHANGED <<validator, key, leaked, began, exit, answered, stopped>>
     \/ ExitUnarmed(s, 1) /\ leaked' = TRUE

-----------------------------------------------------------------------------
\* The head of the loop, with the check after it.
WaitHead_setting_deadline(s) ==
  /\ at[s] = "wait"
  /\ Go(s, "probe")
  /\ left' = [left EXCEPT ![s] = VALIDATOR_READY_TIMEOUT]
  /\ began' = [began EXCEPT ![s] = VALIDATOR_READY_TIMEOUT]
  /\ UNCHANGED <<validator, key, leaked, exit, answered, stopped>>
WaitHead(s) ==
  /\ at[s] = "wait"
  /\ IF left[s] > 0
       THEN /\ Go(s, "probe") /\ began' = [began EXCEPT ![s] = left[s]]
            /\ UNCHANGED <<validator, key, leaked, left, exit, answered, stopped>>
       ELSE Leave(s, 1)

\* A probe looks once and may come back later; the deadline is not looked at again.
ProbeOk(s) ==
  /\ at[s] = "probe" /\ validator = "healthy"
  /\ Go(s, "bench") /\ answered' = [answered EXCEPT ![s] = TRUE]
  /\ UNCHANGED <<validator, key, leaked, left, began, exit, stopped>>
ProbeFails_counted_ready(s) ==
  /\ at[s] = "probe"
  /\ Go(s, "bench")
  /\ UNCHANGED <<validator, key, leaked, left, began, exit, answered, stopped>>
ProbeFails(s) ==
  /\ at[s] = "probe"
  /\ Go(s, "sleep") /\ began' = [began EXCEPT ![s] = left[s]]
  /\ UNCHANGED <<validator, key, leaked, left, exit, answered, stopped>>

Wake(s) ==
  /\ at[s] = "sleep" /\ (left[s] < began[s] \/ left[s] = Floor)
  /\ Go(s, "wait")
  /\ UNCHANGED <<validator, key, leaked, left, began, exit, answered, stopped>>

\* The bench succeeds or fails; another session may have stopped its validator.
Bench(s) ==
  /\ at[s] = "bench"
  /\ \E code \in {0, 1} : Leave(s, code)

\* docker compose down, for all sessions.  Where it fails, the .sh ends with the
\* trap's error (unless it was interrupted), the .ps1 with the code it had.
CodeAfterFailedDown_kept(s) == exit[s]
CodeAfterFailedDown(s) == IF s \in BashSessions /\ exit[s] # 130 THEN 1 ELSE exit[s]

Cleanup(s) ==
  /\ at[s] = "down" /\ Go(s, "ended")
  /\ \/ /\ validator' = "down" /\ leaked' = FALSE
        /\ stopped' = [stopped EXCEPT ![s] = TRUE]
        /\ UNCHANGED exit
     \/ /\ leaked' = TRUE
        /\ exit' = [exit EXCEPT ![s] = CodeAfterFailedDown(s)]
        /\ UNCHANGED <<validator, stopped>>
  /\ UNCHANGED <<key, left, began, answered>>

\* Ctrl-C: outside the armed part it just ends, inside it cleans up.
CtrlC(s) ==
  \/ /\ at[s] \in Unarmed /\ ExitUnarmed(s, 130) /\ leaked' = (leaked \/ at[s] = "up")
  \/ at[s] \in Waiting \cup {"bench"} /\ Leave(s, 130)
-----------------------------------------------------------------------------
\* The container and the clock.

BecomesHealthy ==
  /\ validator = "booting" /\ validator' = "healthy"
  /\ UNCHANGED <<key, leaked, session>>
Dies ==
  /\ validator # "down" /\ validator' = "down"
  /\ UNCHANGED <<key, leaked, session>>

\* How long a place lasts at most: a step of the script takes no time, a sleep
\* one unit, a probe of the .ps1 its time limit.
MayLast(s) ==
  CASE at[s] = "wait" -> FALSE
    [] at[s] = "sleep" -> left[s] = began[s]
    [] at[s] = "probe" /\ s \notin BashSessions -> began[s] - left[s] < ProbeTimeout
    [] OTHER -> TRUE

Tick ==
  /\ \A s \in Sessions : MayLast(s)
  /\ left' = [s \in Sessions |-> IF at[s] \in Waiting /\ left[s] > Floor THEN left[s] - 1
                                ELSE left[s]]
  /\ UNCHANGED <<validator, key, leaked, at, began, exit, answered, stopped>>

\* What a session does of itself; a .sh's probe may never come back.
ScriptStep(s) ==
  \/ Begin(s) \/ Keygen(s) \/ Up(s) \/ WaitHead(s) \/ Wake(s) \/ Bench(s) \/ Cleanup(s)
ProbeReturns(s) == ProbeOk(s) \/ ProbeFails(s)

DockerNext ==
  \/ \E s \in Sessions : ScriptStep(s) \/ ProbeReturns(s) \/ ContainerStarts(s) \/ CtrlC(s)
  \/ BecomesHealthy \/ Dies \/ Tick

\* Commands return, time goes on; of the probes only those with a time limit.
DockerFairness ==
  /\ WF_dockerVars(Tick)
  /\ \A s \in Sessions : WF_dockerVars(ScriptStep(s))
  /\ \A s \in Sessions \ BashSessions : WF_dockerVars(ProbeReturns(s))

DockerSpec == DockerInit /\ [][DockerNext]_dockerVars /\ DockerFairness
-----------------------------------------------------------------------------

\* Type invariant.
DockerTypeOK ==
  /\ validator \in {"down", "booting", "healthy"} /\ key \in Nat
  /\ at \in [Sessions -> Unarmed \cup Waiting \cup {"bench", "down", "ended"}]
  /\ left \in [Sessions -> Floor .. VALIDATOR_READY_TIMEOUT]
  /\ began \in [Sessions -> Floor .. VALIDATOR_READY_TIMEOUT]
  /\ exit \in [Sessions -> {None, 0, 1, 130}]
  /\ {answered, stopped} \subseteq [Sessions -> BOOLEAN] /\ leaked \in BOOLEAN
  /\ \A s \in Sessions : exit[s] # None <=> at[s] \in {"down", "ended"}

\* "Always stop the validator on exit", made exact: a validator that runs is that
\* of a session under way, unless a session has ended inside docker compose up,
\* where neither the trap nor the finally block is armed yet, or its down failed.
\* Timeouts, failed benches, interrupts and other sessions are all cleaned up.
StoppedOnExit ==
  validator # "down" /\ ~leaked => \E s \in Sessions : at[s] \notin {"start", "keygen", "ended"}

\* From when a session has its key pair, found or made, until it has ended, the file
\* is there and is the same: no other session, which may have looked for it before it
\* was there, puts its own in its place.
KeyPairIsKept ==
  [][\A s \in Sessions :
       at[s] \notin {"start", "keygen", "ended"} => key # 0 /\ key' = key]_dockerVars

\* A session benches, and exits 0, only if a probe of its own was answered ok.
BenchedOnlyWhenReady == \A s \in Sessions : at[s] = "bench" \/ exit[s] = 0 => answered[s]

\* The .ps1 gives up in time: its wait is over one probe's time limit after the
\* deadline, whatever the validator does.  What is left at each place of the loop
\* follows from what was left when it got there.
GivesUpInTime ==
  \A s \in Sessions \ BashSessions :
    /\ at[s] \in Waiting => left[s] + ProbeTimeout >= 0
    /\ at[s] = "probe" => began[s] > 0 /\ left[s] + ProbeTimeout >= began[s]
    /\ at[s] = "sleep" => began[s] + ProbeTimeout > 0 /\ left[s] + 1 >= began[s]

\* The scripts' inductive invariant.
DockerInv == DockerTypeOK /\ BenchedOnlyWhenReady /\ GivesUpInTime

\* Exit code 0 of the .sh says that the bench passed and the container went down;
\* that of the .ps1 only that the bench passed.
ZeroMeansStopped == \A s \in BashSessions : at[s] = "ended" /\ exit[s] = 0 => stopped[s]

\* Every session ends, except for a .sh left waiting in a probe that no one
\* answers; the clock does not stop it.
EverySessionEnds ==
  \A s \in Sessions :
    <>(at[s] = "ended") \/ (s \in BashSessions /\ <>[](at[s] = "probe"))
=============================================================================
