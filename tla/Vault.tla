-------------------------------- MODULE Vault --------------------------------
(***************************************************************************)
(* What pinocchio-vault and anchor-vault share: their accounts, the        *)
(* instructions of the parity contract, the system program's transfer, the *)
(* runtime's acceptance of what a program wrote, and the properties both   *)
(* are held to.  Each program is a module of its own that extends this one *)
(* with its handlers and its next-state relation.                          *)
(*                                                                         *)
(* The runtime runs one instruction on an account at a time, and neither   *)
(* program is called back while it runs, so an instruction is one step.    *)
(***************************************************************************)
EXTENDS Svm, Sequences

CONSTANTS Users,         \* the accounts with a private key: only they sign
          Pda,           \* find_program_address(["vault", user], program_id)
          Owned,         \* accounts whose owner is the vault program
          Sized,         \* those whose data holds an authority and a counter
          SystemId,      \* the system program's account
          InitialStates, \* the [lamports, data] a history may start from
          Instructions,  \* the instructions that may be submitted
          NoIx           \* "no instruction yet"

Ops == {"deposit", "withdraw", "authorize", "counter_access", "unknown"}

\* An amount field too short to hold a u64.
Short == -1

\* accounts[1] is the user, accounts[2] the vault, accounts[3] of a deposit the
\* system program.  A key is one account, so signing and writing go by key.
InstructionType ==
  [op : Ops, amount : U64 \cup {Short}, accounts : Seq(Accounts),
   signers : SUBSET Users, writable : SUBSET Accounts]

\* An all-zero authority is the system program's address.
CounterState == [authority : Accounts, counter : U64]

StateType == [lamports : Ledgers, data : [Sized -> CounterState]]

Vaults == {Pda[u] : u \in Users}

\* Addresses are collision-free, and one derived from seeds has no private key.
ASSUME VaultAssumption ==
  /\ Users \subseteq Accounts /\ SystemId \in Accounts \ Users
  /\ Pda \in [Users -> Accounts \ (Users \cup {SystemId})]
  /\ \A u, w \in Users : Pda[u] = Pda[w] => u = w
  /\ Sized \subseteq Owned /\ Owned \subseteq Accounts
  /\ InitialStates \subseteq StateType
  /\ Instructions \subseteq InstructionType
  /\ NoIx \notin Instructions

VARIABLES
  lamports,  \* balance of every account
  data,      \* authority and counter in every sized account
  ix,        \* the last instruction, NoIx before the first
  err        \* what it returned

vars == <<lamports, data, ix, err>>

Init ==
  /\ \E s \in InitialStates : lamports = s.lamports /\ data = s.data
  /\ ix = NoIx /\ err = "Ok"

\* What an instruction returns and leaves behind.
Outcome(e, lam, dat) == [err |-> e, lamports |-> lam, data |-> dat]

Failed(e) == Outcome(e, lamports, data)

\* The PDA check, the same in both programs.  The PDA of an account that is no
\* user's lies outside the accounts modelled.
IsVaultOf(user, vault) == user \in Users /\ vault = Pda[user]

\* The system program's Transfer, from a CPI with the caller's privileges.  A
\* program-owned account, or one with data, is not the system program's to debit.
SystemTransfer(from, to, amount, i) ==
  IF from \notin i.signers \/ ~({from, to} \subseteq i.writable) THEN Failed("PrivilegeEscalation")
  ELSE IF from \in Sized THEN Failed("InvalidArgument")
  ELSE IF amount > lamports[from] THEN Failed("ResultWithNegativeLamports")
  ELSE IF from \in Owned /\ amount > 0 THEN Failed("ExternalAccountLamportSpend")
  ELSE IF lamports[to] + amount > MaxU64 THEN Failed("ArithmeticOverflow")
  ELSE Outcome("Ok", [[lamports EXCEPT ![from] = @ - amount] EXCEPT ![to] = @ + amount], data)

RuntimeErrors == {"ReadonlyDataModified", "ReadonlyLamportChange",
                  "ExternalAccountLamportSpend", "UnbalancedInstruction"}

\* What becomes of the copy a program returns after writing it itself.
Accepted(i, o) ==
  IF o.err # "Ok" THEN Failed(o.err)
  ELSE LET user == i.accounts[1]
           vault == i.accounts[2]
           money == Accept(Owned, lamports, Answer("Ok", o.lamports), user, vault)
       IN IF o.data # data /\ vault \notin i.writable THEN Failed("ReadonlyDataModified")
          ELSE IF \E a \in {user, vault} \ i.writable : o.lamports[a] # lamports[a]
            THEN Failed("ReadonlyLamportChange")
          ELSE IF money.err # "Ok" THEN Failed(money.err)
          ELSE o

\* An instruction runs to its end.
Settle(i, o) == ix' = i /\ err' = o.err /\ lamports' = o.lamports /\ data' = o.data
-----------------------------------------------------------------------------

\* Type invariant: balances and counters fit a u64, so no withdrawal, deposit or
\* counter access wraps, and the data keeps its layout.
TypeOK ==
  /\ [lamports |-> lamports, data |-> data] \in StateType
  /\ ix \in InstructionType \cup {NoIx}

\* Users' money and counters are what VaultBook says (see there): a stranger's
\* instruction, or a user's on someone else's vault, moves nothing.
Book == INSTANCE VaultBook WITH
  wallet <- [u \in Users |-> lamports[u]],
  savings <- [u \in Users |-> lamports[Pda[u]]],
  rest <- [a \in Accounts \ (Users \cup Vaults) |-> lamports[a]],
  keeper <- [u \in Users |-> IF Pda[u] \in Sized THEN data[Pda[u]].authority ELSE SystemId],
  count <- [u \in Users |-> IF Pda[u] \in Sized THEN data[Pda[u]].counter ELSE 0],
  signed <- IF ix = NoIx THEN {} ELSE ix.signers

ImplementsVaultBook == Book!Spec

\* Lamports an instruction asks to put into the vault; a withdrawal takes out.
Put(i) ==
  CASE i.op = "deposit" -> i.amount
    [] i.op = "withdraw" -> -i.amount
    [] OTHER -> 0

\* The answer tells what happened: an Ok has moved exactly the amount asked for,
\* or counted exactly once; an error has changed nothing, not even in part.
AnswerTells ==
  [][LET user == ix'.accounts[1]
         vault == ix'.accounts[2]
     IN IF err' # "Ok" THEN UNCHANGED <<lamports, data>>
        ELSE /\ lamports' = [lamports EXCEPT ![user] = @ - Put(ix'), ![vault] = @ + Put(ix')]
             /\ data' = IF ix'.op = "counter_access"
                          THEN [data EXCEPT ![vault].counter = @ + 1] ELSE data]_vars

\* The instruction of a user who withdraws k from its own vault.
Withdrawal(u, k) ==
  [op |-> "withdraw", amount |-> k, accounts |-> <<u, Pda[u]>>,
   signers |-> {u}, writable |-> {u, Pda[u]}]
=============================================================================
