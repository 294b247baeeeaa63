--------------------------- MODULE MCPrimitiveBench ---------------------------
(***************************************************************************)
(* hopper-bench under its two kinds of host: deployed, where any client    *)
(* sends any instruction and accounts stay, and in the runner's Mollusk,   *)
(* where every instruction gets fresh fixtures.  A history is of one host. *)
(***************************************************************************)
EXTENDS PrimitiveBench, TLC

CONSTANTS v, w, x

VARIABLE host    \* the history's

MCKeys == {v, w, x}

Off(whole, bracket) == [whole |-> whole, bracket |-> bracket]

\* The program of this repository.
Source == [vault_len |-> 5, proc_len |-> 3, missing |-> {}, odd |-> <<>>,
           inside |-> [d \in 0 .. 21 |-> IF d \in {20, 21} THEN 0 ELSE 1 + (d % 3)],
           jitter |-> [d \in 0 .. 21 |-> {Off(0, 0)}]]

\* Other builds: a longer header, instructions that are not there yet, brackets
\* missing, half, double or new, an empty bracket that is not empty, and three
\* kinds of noise.
MCArtifacts ==
  {Source} \cup
  {[Source EXCEPT !.vault_len = 6], [Source EXCEPT !.proc_len = 4]} \cup
  {[Source EXCEPT !.missing = {d}] : d \in {6, 13, 20}} \cup
  {[Source EXCEPT !.odd = o] : o \in {21 :> 0, 13 :> 1, 5 :> 3, 20 :> 2}} \cup
  {[Source EXCEPT !.inside[21] = 2]} \cup
  {[Source EXCEPT !.jitter[5] = {Off(0, 0), j}] : j \in {Off(1, 0), Off(0, 1), Off(1, 1)}}

MCRebuilt == {None, [Source EXCEPT !.odd = 13 :> 1]}

\* The deployed program's accounts: a vault, a small account, somebody else's.
Acct(ours, len, layout, vb, pb) ==
  [ours |-> ours, len |-> len, layout |-> layout, vault_balance |-> vb, proc_balance |-> pb]
MCBanks == {v :> Acct(TRUE, 5, "none", 0, 0) @@ w :> Acct(TRUE, 3, "none", 0, 0)
              @@ x :> Acct(FALSE, 5, l, 1, 0) : l \in {"BenchVault", "ProcBenchVault"}}

Sent(datas, lists, signed, writables) ==
  {[data |-> d, accounts |-> a, signers |-> s, writable |-> wr] :
     d \in datas, a \in lists, s \in signed, wr \in writables}
MCInstructions ==
  Sent({<<>>, <<19, 2>>} \cup {<<n>> : n \in 0 .. 22}, {<<>>, <<v>>, <<w>>, <<x>>},
       {{}}, {{}, {v, w, x}}) \cup
  Sent({<<0>>, <<8>>}, {<<v>>}, {{v}}, {{}}) \cup Sent({<<4>>}, {<<v, v>>, <<v, w>>}, {{}}, {{}})

ValidatorInit ==
  /\ host = "validator" /\ ClientInit
  /\ disk = None /\ pc = "idle" /\ exit = "ok" /\ runs = 0 /\ md = None /\ csv = None /\ AtRest
MolluskInit ==
  /\ host = "mollusk" /\ Init
  /\ bank = [k \in Keys |-> fixture_account(0)] /\ answer = [err |-> "Ok", lines |-> 0]

MCInit == ValidatorInit \/ MolluskInit
MCNext ==
  /\ UNCHANGED host
  /\ \/ host = "validator" /\ ClientNext /\ UNCHANGED vars
     \/ host = "mollusk" /\ Next /\ UNCHANGED clientVars
MCSpec == MCInit /\ [][MCNext]_<<host, vars, clientVars>>
=============================================================================
