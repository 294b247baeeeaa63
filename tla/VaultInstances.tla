--------------------------- MODULE VaultInstances ----------------------------
(***************************************************************************)
(* Small instances for the vaults.  Three users: alice, whose vault is as  *)
(* the benchmark sets it up; bob, whose vault is the program's but keeps   *)
(* alice as its authority; carol, whose vault was never handed to the      *)
(* program.                                                                *)
(***************************************************************************)
EXTENDS Integers, Sequences, TLC

CONSTANTS alice, bob, carol, va, vb, vc, sys, none

MCUsers == {alice, bob, carol}
MCAccounts == MCUsers \cup {va, vb, vc, sys}
MCPda == alice :> va @@ bob :> vb @@ carol :> vc
MCOwned == {va, vb}

\* bob's two balances add up to more than u64::MAX; alice's counter is near it.
MCInitialStates ==
  {[lamports |-> alice :> 2 @@ va :> 1 @@ bob :> 2 @@ vb :> 3 @@ carol :> 1 @@ vc :> 1 @@ sys :> 1,
    data |-> va :> [authority |-> alice, counter |-> 1] @@ vb :> [authority |-> alice, counter |-> 0]]}

Instr(op, amount, accounts, signers, writable) ==
  [op |-> op, amount |-> amount, accounts |-> accounts, signers |-> signers, writable |-> writable]

Named(op, u, v) == IF op = "deposit" THEN <<u, v, sys>> ELSE <<u, v>>

VaultOps == {"deposit", "withdraw", "authorize", "counter_access"}

\* Every operation and amount on every user and vault, the user signing.
Sound ==
  {Instr(op, k, Named(op, u, v), {u}, {u, v}) :
     op \in {"deposit", "withdraw"}, k \in 0 .. 3, u \in MCUsers, v \in {va, vb, vc, alice}}
  \cup {Instr(op, -1, Named(op, u, v), {u}, {u, v}) :
     op \in {"authorize", "counter_access"}, u \in MCUsers, v \in {va, vb, vc, alice}}

\* One defect each, for alice and carol: nobody or somebody else signs, an
\* account read-only or missing, a wrong system program, an amount cut short, a
\* vault as the user.
Defective(op, u) ==
  LET v == MCPda[u] IN
  {Instr(op, 1, Named(op, u, v), {}, {u, v}),
   Instr(op, 1, Named(op, u, v), MCUsers \ {u}, {u, v}),
   Instr(op, 1, Named(op, u, v), {u}, {v}),
   Instr(op, 1, Named(op, u, v), {u}, {u}),
   Instr(op, 1, <<u>>, {u}, {u}),
   Instr(op, 1, <<u, v>>, {u}, {u, v}),
   Instr(op, 1, <<u, v, bob>>, {u}, {u, v}),
   Instr(op, -1, Named(op, u, v), {u}, {u, v}),
   Instr(op, 1, Named(op, v, v), {u}, {u, v})}

VaultInstructions ==
  Sound \cup UNION {Defective(op, u) : op \in VaultOps, u \in {alice, carol}}
        \cup {Instr("unknown", -1, <<>>, {}, {})}

=============================================================================
