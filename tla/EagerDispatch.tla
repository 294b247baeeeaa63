---------------------------- MODULE EagerDispatch ----------------------------
(***************************************************************************)
(* The eager build: all accounts are there before the dispatch, so an      *)
(* instruction is one step.  It is what the lazy build has to implement.   *)
(***************************************************************************)
EXTENDS DispatchVault

VARIABLES counters, ix, err

vars == <<counters, ix, err>>

\* fast_entrypoint! parses the first eight accounts; any more stay unparsed.
parsed(i) == SubSeq(i.accounts, 1, IF Len(i.accounts) < 8 THEN Len(i.accounts) ELSE 8)

\* How many accounts the pattern of each arm asks for.
Needed(disc) ==
  CASE disc = 0 -> 0
    [] disc \in {1, 2, 3, 5} -> 2
    [] disc = 4 -> 3
    [] disc \in {6, 7} -> 8

process_eager(i, c) ==
  IF i.disc \notin Discs THEN Outcome("InvalidInstructionData", c)
  ELSE IF Len(parsed(i)) < Needed(i.disc) THEN Outcome("NotEnoughAccountKeys", c)
  ELSE handle(i, c, parsed(i))

Init == counters \in InitialCounters /\ ix = NoIx /\ err = "Ok"

Submit(i) == ix = NoIx /\ ix' = i /\ err' = "Pending" /\ UNCHANGED counters

Execute ==
  /\ ix # NoIx
  /\ ix' = NoIx
  /\ LET o == process_eager(ix, counters) IN err' = o.err /\ counters' = o.counters

Next == (\E i \in Instructions : Submit(i)) \/ Execute

Spec == Init /\ [][Next]_vars
=============================================================================
