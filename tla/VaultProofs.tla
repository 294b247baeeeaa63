----------------------------- MODULE VaultProofs ------------------------------
(***************************************************************************)
(* Proofs about the Pinocchio and the Anchor vault, for every set of       *)
(* users, every u64 and every set of instructions.  A legal outcome is one *)
(* an instruction may have: an error that changes nothing, or an Ok of the *)
(* signing user on the user's own vault that moves what it says.  A legal  *)
(* outcome keeps the types, tells what happened and is a step of the book; *)
(* each handler of either vault has only legal outcomes.  Neither ever     *)
(* locks a user's savings, and the two do the same with every instruction, *)
(* except that Pinocchio refuses to withdraw nothing from a vault that is  *)
(* not the program's.                                                      *)
(***************************************************************************)
EXTENDS VaultParity, TLAPS

USE DEF U64

(***************************************************************************)
(* Legal outcomes.                                                         *)
(***************************************************************************)

\* An Ok: the signing user and the user's own vault, the lamports the
\* instruction says, within u64, and the counter only by counter_access.
LegalOk(i, o) ==
  LET u == i.accounts[1]
      v == i.accounts[2]
  IN /\ u \in i.signers
     /\ IsVaultOf(u, v)
     /\ Put(i) \in Int
     /\ lamports[u] - Put(i) \in U64
     /\ lamports[v] + Put(i) \in U64
     /\ o.lamports = [lamports EXCEPT ![u] = @ - Put(i), ![v] = @ + Put(i)]
     /\ IF i.op = "counter_access"
          THEN /\ Put(i) = 0
               /\ v \in Sized
               /\ data[v].authority = u
               /\ data[v].counter + 1 \in U64
               /\ o.data = [data EXCEPT ![v].counter = @ + 1]
          ELSE o.data = data

\* An outcome an instruction may have: such an Ok, or an error that changes
\* nothing.
Legal(i, o) ==
  IF o.err = "Ok" THEN LegalOk(i, o) ELSE o.lamports = lamports /\ o.data = data

\* The fields of a typed state.
LEMMA StateFields ==
  ASSUME TypeOK
  PROVE  lamports \in [Accounts -> U64] /\ data \in [Sized -> CounterState]
BY DEF TypeOK, StateType, Ledgers

\* A user's vault is another account than any user's wallet.
LEMMA VaultApart ==
  ASSUME NEW u \in Users
  PROVE  /\ u \in Accounts /\ Pda[u] \in Accounts /\ Pda[u] # u
         /\ \A w \in Users : Pda[u] # w
         /\ \A w \in Users : w # u => Pda[w] # Pda[u]
BY VaultAssumption

\* The initial state is typed.
LEMMA InitTypes == Init => TypeOK
BY VaultAssumption DEF Init, TypeOK, StateType, Ledgers

\* A legal outcome keeps the types.
LEMMA LegalTypes ==
  ASSUME TypeOK, NEW i \in Instructions, NEW o, Legal(i, o), Settle(i, o)
  PROVE  TypeOK'
<1>1. lamports \in [Accounts -> U64] /\ data \in [Sized -> CounterState]
  BY StateFields
<1>2. i \in InstructionType
  BY VaultAssumption
<1>3. CASE o.err # "Ok"
  BY <1>1, <1>2, <1>3 DEF Legal, Settle, TypeOK, StateType, Ledgers
<1>4. CASE o.err = "Ok"
  <2>1. LegalOk(i, o)
    BY <1>4 DEF Legal
  <2> DEFINE u == i.accounts[1]
             v == i.accounts[2]
  <2>2. u \in Accounts /\ v \in Accounts /\ u # v
    BY <2>1, VaultApart DEF LegalOk, IsVaultOf
  <2>3. lamports' \in [Accounts -> U64]
    BY <1>1, <2>1, <2>2, MaxU64Assumption DEF LegalOk, Settle
  <2>4. data' \in [Sized -> CounterState]
    <3>1. CASE i.op # "counter_access"
      BY <1>1, <2>1, <3>1 DEF LegalOk, Settle
    <3>2. CASE i.op = "counter_access"
      <4>1. /\ v \in Sized /\ data[v].counter + 1 \in U64
            /\ data' = [data EXCEPT ![v].counter = data[v].counter + 1]
        BY <2>1, <3>2 DEF LegalOk, Settle
      <4>2. data[v] \in CounterState
        BY <1>1, <4>1
      <4>3. [data[v] EXCEPT !.counter = data[v].counter + 1] \in CounterState
        BY <4>1, <4>2 DEF CounterState
      <4>4. data' = [data EXCEPT ![v] = [data[v] EXCEPT !.counter = data[v].counter + 1]]
        BY <4>1
      <4> HIDE DEF v
      <4> QED
        BY <1>1, <4>1, <4>3, <4>4
    <3> QED
      BY <3>1, <3>2
  <2> QED
    BY <1>2, <2>3, <2>4 DEF Settle, TypeOK, StateType, Ledgers
<1> QED
  BY <1>3, <1>4

\* It says what it did to the lamports and to the data.
LEMMA LegalTells ==
  ASSUME NEW i \in Instructions, NEW o, Legal(i, o), Settle(i, o)
  PROVE  IF err' # "Ok" THEN UNCHANGED <<lamports, data>>
         ELSE /\ lamports' = [lamports EXCEPT ![ix'.accounts[1]] = @ - Put(ix'),
                                              ![ix'.accounts[2]] = @ + Put(ix')]
              /\ data' = IF ix'.op = "counter_access"
                           THEN [data EXCEPT ![ix'.accounts[2]].counter = @ + 1] ELSE data
BY DEF Legal, LegalOk, Settle

(***************************************************************************)
(* The refinement.                                                         *)
(***************************************************************************)

\* The book opens as the accounts stand.
LEMMA InitBook == Init => Book!Init
<1> SUFFICES ASSUME Init PROVE Book!Init
  OBVIOUS
<1>1. lamports \in [Accounts -> U64] /\ data \in [Sized -> CounterState]
  BY InitTypes, StateFields
<1>2. \A u \in Users : lamports[u] \in Nat /\ lamports[Pda[u]] \in Nat
  BY <1>1, VaultApart, MaxU64Assumption
<1>3. \A u \in Users : Pda[u] \in Sized => data[Pda[u]].counter \in Nat
  BY <1>1, MaxU64Assumption DEF CounterState
<1> QED
  BY <1>2, <1>3 DEF Init, Book!Init

\* A legal outcome is a step of the book.
LEMMA LegalBook ==
  ASSUME TypeOK, NEW i \in Instructions, NEW o, Legal(i, o), Settle(i, o)
  PROVE  Book!Next
<1> DEFINE wallet == [w \in Users |-> lamports[w]]
           savings == [w \in Users |-> lamports[Pda[w]]]
           rest == [a \in Accounts \ (Users \cup Vaults) |-> lamports[a]]
           keeper == [w \in Users |-> IF Pda[w] \in Sized THEN data[Pda[w]].authority ELSE SystemId]
           count == [w \in Users |-> IF Pda[w] \in Sized THEN data[Pda[w]].counter ELSE 0]
           signed == IF ix = NoIx THEN {} ELSE ix.signers
<1>1. lamports \in [Accounts -> U64] /\ data \in [Sized -> CounterState]
  BY StateFields
<1>2. i \in InstructionType /\ ix' = i /\ i # NoIx
  BY VaultAssumption DEF Settle
<1>3. signed' = i.signers /\ i.signers \subseteq Users
  BY <1>2 DEF InstructionType
<1>4. CASE o.err # "Ok"
  <2>1. UNCHANGED <<wallet, savings, rest, keeper, count>>
    BY <1>4 DEF Legal, Settle
  <2> QED
    BY <1>3, <2>1 DEF Book!Next, Book!Refuse
<1>5. CASE o.err = "Ok"
  <2> DEFINE u == i.accounts[1]
             v == i.accounts[2]
             k == Put(i)
  <2>1. LegalOk(i, o)
    BY <1>5 DEF Legal
  <2>2. u \in Users /\ u \in i.signers /\ v = Pda[u] /\ k \in Int
    BY <2>1 DEF LegalOk, IsVaultOf
  <2>3. /\ v \in Accounts /\ u \in Accounts /\ v # u
        /\ \A w \in Users : v # w
        /\ \A w \in Users : w # u => Pda[w] # v
    BY <2>2, VaultApart
  <2>4. lamports' = [lamports EXCEPT ![u] = @ - k, ![v] = @ + k]
    BY <2>1 DEF LegalOk, Settle
  <2>5. lamports[u] \in U64 /\ lamports[v] \in U64
    BY <1>1, <2>3
  <2>6. UNCHANGED rest
    <3>1. \A a \in Accounts \ (Users \cup Vaults) : a # u /\ a # v
      BY <2>2 DEF Vaults
    <3> QED
      BY <1>1, <2>4, <3>1
  <2>7. wallet' = [wallet EXCEPT ![u] = @ - k]
    <3>1. \A w \in Users : w # v /\ w \in Accounts
      BY <2>3, VaultAssumption
    <3> QED
      BY <1>1, <2>2, <2>3, <2>4, <3>1
  <2>8. savings' = [savings EXCEPT ![u] = @ + k]
    <3>1. \A w \in Users : Pda[w] # u /\ Pda[w] \in Accounts
      BY <2>2, VaultApart
    <3> QED
      BY <1>1, <2>2, <2>3, <2>4, <3>1
  <2>9. CASE i.op # "counter_access"
    <3>1. data' = data
      BY <2>1, <2>9 DEF LegalOk, Settle
    <3>2. UNCHANGED <<keeper, count>>
      BY <3>1
    <3>3. k \in -savings[u] .. wallet[u]
      BY <2>1, <2>2, <2>5, MaxU64Assumption DEF LegalOk
    <3>4. Book!Move(u)
      BY <2>7, <2>8, <3>2, <3>3 DEF Book!Move
    <3> QED
      BY <1>3, <2>2, <2>6, <3>2, <3>4 DEF Book!Next
  <2>10. CASE i.op = "counter_access"
    <3>1. /\ k = 0 /\ v \in Sized
          /\ data[v].authority = u
          /\ data' = [data EXCEPT ![v].counter = @ + 1]
      BY <2>1, <2>10 DEF LegalOk, Settle
    <3>2. UNCHANGED keeper
      BY <1>1, <3>1 DEF CounterState
    <3>3. count' = [count EXCEPT ![u] = @ + 1]
      BY <1>1, <2>2, <2>3, <3>1 DEF CounterState
    <3>4. wallet' = wallet /\ savings' = savings
      BY <2>5, <2>7, <2>8, <3>1, <2>2, MaxU64Assumption
    <3>5. keeper[u] = u
      BY <2>2, <3>1
    <3>6. Book!Count(u)
      BY <3>3, <3>4, <3>5 DEF Book!Count
    <3> QED
      BY <1>3, <2>2, <2>6, <3>2, <3>6 DEF Book!Next
  <2> QED
    BY <2>9, <2>10
<1> QED
  BY <1>4, <1>5

(***************************************************************************)
(* Two balances written one after the other are two balances written.      *)
(***************************************************************************)

\* As long as they are two.
LEMMA MoveInTwoWrites ==
  ASSUME NEW f \in [Accounts -> U64], NEW u \in Accounts, NEW v \in Accounts, u # v, NEW k \in Int
  PROVE  [[f EXCEPT ![u] = @ - k] EXCEPT ![v] = @ + k] = [f EXCEPT ![u] = @ - k, ![v] = @ + k]
OBVIOUS

(***************************************************************************)
(* What the runtime accepts of what a program wrote.                       *)
(***************************************************************************)

\* A refusal or an error leaves the state alone; else the copy is taken as is.
LEMMA AcceptedIsAllOrNothing ==
  ASSUME NEW i, NEW o
  PROVE  \/ Accepted(i, o).err # "Ok" /\ Accepted(i, o) = Failed(Accepted(i, o).err)
         \/ Accepted(i, o) = o /\ o.err = "Ok"
BY DEF Accepted, Failed, Outcome, Accept, Answer

\* An error is passed on.
LEMMA AcceptedFailure ==
  ASSUME NEW i, NEW e, e # "Ok"
  PROVE  Accepted(i, Failed(e)) = Failed(e)
BY DEF Accepted, Failed, Outcome

\* Lamports that were left alone are accepted; data only in a writable vault.
LEMMA AcceptedUnmoved ==
  ASSUME TypeOK, NEW i, NEW dat, i.accounts[1] \in Accounts, i.accounts[2] \in Accounts
  PROVE  Accepted(i, Outcome("Ok", lamports, dat)) =
           IF dat # data /\ i.accounts[2] \notin i.writable THEN Failed("ReadonlyDataModified")
           ELSE Outcome("Ok", lamports, dat)
<1> DEFINE u == i.accounts[1]
           v == i.accounts[2]
<1>1. lamports[u] \in Int /\ lamports[v] \in Int
  BY StateFields, MaxU64Assumption
<1>2. ~SpendsForeign(Owned, lamports, lamports, {u, v})
  BY <1>1 DEF SpendsForeign
<1>3. Accept(Owned, lamports, Answer("Ok", lamports), u, v) = Answer("Ok", lamports)
  BY <1>2 DEF Accept, Answer
<1> QED
  BY <1>3 DEF Accepted, Outcome, Answer

\* Lamports moved from the vault to the user balance; the vault has to be the
\* program's to debit, if it is debited at all.
LEMMA AcceptedMove ==
  ASSUME TypeOK, NEW i, NEW k \in Nat,
         i.accounts[1] \in Accounts, i.accounts[2] \in Accounts, i.accounts[1] # i.accounts[2],
         {i.accounts[1], i.accounts[2]} \subseteq i.writable
  PROVE  LET o == Outcome("Ok", [lamports EXCEPT ![i.accounts[2]] = @ - k,
                                                 ![i.accounts[1]] = @ + k], data)
         IN Accepted(i, o) = IF i.accounts[2] \in Owned \/ k = 0 THEN o
                             ELSE Failed("ExternalAccountLamportSpend")
<1> DEFINE u == i.accounts[1]
           v == i.accounts[2]
           lam == [lamports EXCEPT ![v] = @ - k, ![u] = @ + k]
<1>1. lamports \in [Accounts -> U64]
  BY StateFields
<1>2. lam[u] = lamports[u] + k /\ lam[v] = lamports[v] - k
  BY <1>1
<1>3. lamports[u] \in Int /\ lamports[v] \in Int
  BY <1>1, MaxU64Assumption
<1>4. SpendsForeign(Owned, lamports, lam, {u, v}) <=> ~(v \in Owned \/ k = 0)
  BY <1>2, <1>3 DEF SpendsForeign
<1>5. PairTotal(lam, u, v) = PairTotal(lamports, u, v)
  BY <1>2, <1>3 DEF PairTotal
<1>6. Accept(Owned, lamports, Answer("Ok", lam), u, v) =
        IF v \in Owned \/ k = 0 THEN Answer("Ok", lam)
        ELSE Answer("ExternalAccountLamportSpend", lamports)
  BY <1>4, <1>5 DEF Accept, Answer
<1> QED
  BY <1>6 DEF Accepted, Outcome, Answer, Failed

-----------------------------------------------------------------------------
(***************************************************************************)
(* Each program's module brings the runtime along: it is one runtime.      *)
(***************************************************************************)

\* The runtime, as PinocchioVault sees it.
LEMMA PinocchioRuntime ==
  /\ \A e : Pinocchio!Failed(e) = Failed(e)
  /\ \A e, lam, dat : Pinocchio!Outcome(e, lam, dat) = Outcome(e, lam, dat)
  /\ \A u, v : Pinocchio!IsVaultOf(u, v) <=> IsVaultOf(u, v)
  /\ \A u, v, k, i : Pinocchio!SystemTransfer(u, v, k, i) = SystemTransfer(u, v, k, i)
  /\ \A i, o : Pinocchio!Accepted(i, o) = Accepted(i, o)
  /\ \A u, k : Pinocchio!Withdrawal(u, k) = Withdrawal(u, k)
  /\ Pinocchio!RuntimeErrors = RuntimeErrors /\ Pinocchio!Short = Short
BY DEF Pinocchio!Failed, Pinocchio!Outcome, Pinocchio!IsVaultOf, Pinocchio!SystemTransfer,
       Pinocchio!Accepted, Pinocchio!Accept, Pinocchio!Answer, Pinocchio!SpendsForeign,
       Pinocchio!PairTotal, Pinocchio!Withdrawal, Pinocchio!RuntimeErrors, Pinocchio!Short,
       Failed, Outcome, IsVaultOf, SystemTransfer, Accepted,
       Accept, Answer, SpendsForeign, PairTotal, Withdrawal, RuntimeErrors, Short

\* The runtime, as AnchorVault sees it.
LEMMA AnchorRuntime ==
  /\ \A e : Anchor!Failed(e) = Failed(e)
  /\ \A e, lam, dat : Anchor!Outcome(e, lam, dat) = Outcome(e, lam, dat)
  /\ \A u, v : Anchor!IsVaultOf(u, v) <=> IsVaultOf(u, v)
  /\ \A u, v, k, i : Anchor!SystemTransfer(u, v, k, i) = SystemTransfer(u, v, k, i)
  /\ \A i, o : Anchor!Accepted(i, o) = Accepted(i, o)
  /\ \A u, k : Anchor!Withdrawal(u, k) = Withdrawal(u, k)
  /\ Anchor!RuntimeErrors = RuntimeErrors /\ Anchor!Short = Short
BY DEF Anchor!Failed, Anchor!Outcome, Anchor!IsVaultOf, Anchor!SystemTransfer, Anchor!Accepted,
       Anchor!Accept, Anchor!Answer, Anchor!SpendsForeign, Anchor!PairTotal, Anchor!Withdrawal,
       Anchor!RuntimeErrors, Anchor!Short, Failed, Outcome, IsVaultOf, SystemTransfer, Accepted,
       Accept, Answer, SpendsForeign, PairTotal, Withdrawal, RuntimeErrors, Short

\* An error that leaves the state alone is a legal outcome.
LEMMA FailedLegal ==
  ASSUME NEW i, NEW e, e # "Ok"
  PROVE  Legal(i, Failed(e))
BY DEF Legal, Failed, Outcome

-----------------------------------------------------------------------------
(***************************************************************************)
(* The Pinocchio vault.                                                    *)
(***************************************************************************)

\* A deposit moves its amount, or nothing.
LEMMA PinocchioDepositLegal ==
  ASSUME TypeOK, NEW i \in Instructions, i.op = "deposit"
  PROVE  Legal(i, Pinocchio!process_deposit(i))
<1> DEFINE u == i.accounts[1]
           v == i.accounts[2]
           o == Pinocchio!process_deposit(i)
<1>1. CASE o.err # "Ok"
  BY <1>1, PinocchioRuntime
     DEF Pinocchio!process_deposit, SystemTransfer, Failed, Outcome, Legal
<1>2. CASE o.err = "Ok"
  <2>1. /\ u \in i.signers /\ IsVaultOf(u, v) /\ i.amount # Short
        /\ o = SystemTransfer(u, v, i.amount, i)
    BY <1>2, PinocchioRuntime
       DEF Pinocchio!process_deposit, Pinocchio!validate_authority,
           Pinocchio!parse_amount_rejects, Failed, Outcome
  <2>2. /\ i.amount <= lamports[u]
        /\ lamports[v] + i.amount <= MaxU64
        /\ o = Outcome("Ok", [[lamports EXCEPT ![u] = @ - i.amount] EXCEPT ![v] = @ + i.amount], data)
    <3>1. ~(i.amount > lamports[u]) /\ ~(lamports[v] + i.amount > MaxU64)
      BY <1>2, <2>1 DEF SystemTransfer, Failed, Outcome
    <3>2. i.amount \in U64 /\ lamports[u] \in U64 /\ lamports[v] \in U64
      BY <2>1, StateFields, VaultApart, VaultAssumption DEF InstructionType, IsVaultOf
    <3>3. o = Outcome("Ok", [[lamports EXCEPT ![u] = @ - i.amount] EXCEPT ![v] = @ + i.amount], data)
      BY <1>2, <2>1 DEF SystemTransfer, Failed, Outcome
    <3> QED
      BY <3>1, <3>2, <3>3, MaxU64Assumption
  <2>3. i.amount \in U64 /\ u # v /\ lamports[u] \in U64 /\ lamports[v] \in U64
    BY <2>1, StateFields, VaultApart, VaultAssumption DEF InstructionType, IsVaultOf
  <2>4. Put(i) = i.amount
    BY DEF Put
  <2>5. /\ Put(i) \in Int
        /\ lamports[u] - Put(i) \in U64
        /\ lamports[v] + Put(i) \in U64
    BY <2>2, <2>3, <2>4, MaxU64Assumption
  <2>6. o.lamports = [lamports EXCEPT ![u] = @ - Put(i), ![v] = @ + Put(i)] /\ o.data = data
    <3>1. u \in Accounts /\ v \in Accounts
      BY <2>1, VaultApart DEF IsVaultOf
    <3>2. o.lamports = [[lamports EXCEPT ![u] = @ - Put(i)] EXCEPT ![v] = @ + Put(i)] /\ o.data = data
      BY <2>2, <2>4 DEF Outcome
    <3> QED
      BY <2>3, <2>5, <3>1, <3>2, StateFields, MoveInTwoWrites
  <2> QED
    BY <1>2, <2>1, <2>5, <2>6 DEF Legal, LegalOk
<1> QED
  BY <1>1, <1>2

\* What a withdrawal has seen when it passes its checks.
LEMMA PinocchioWithdrawChecks ==
  ASSUME TypeOK, NEW i \in Instructions, Pinocchio!withdraw_error(i) = "Ok"
  PROVE  LET u == i.accounts[1]
             v == i.accounts[2]
         IN /\ u \in i.signers /\ IsVaultOf(u, v) /\ v \in Owned
            /\ u \in Users /\ u \in Accounts /\ v \in Accounts /\ u # v
            /\ {u, v} \subseteq i.writable
            /\ i.amount \in U64 /\ lamports[u] \in U64 /\ lamports[v] \in U64
            /\ lamports[v] - i.amount \in U64 /\ lamports[u] + i.amount \in U64
<1> DEFINE u == i.accounts[1]
           v == i.accounts[2]
<1>1. /\ Pinocchio!validate_authority(i) = "Ok" /\ i.amount # Short /\ v \in Owned
      /\ v \in i.writable /\ IsVaultOf(u, v)
      /\ Pinocchio!withdraw_balance_error(u, v, i.amount) = "Ok"
  BY PinocchioRuntime
     DEF Pinocchio!withdraw_error, Pinocchio!parse_amount_rejects, Pinocchio!user_owner_bytes
<1>2. u \in i.signers /\ u \in i.writable
  BY <1>1, PinocchioRuntime DEF Pinocchio!validate_authority
<1>3. /\ i.amount \in U64 /\ u \in Users /\ u # v /\ u \in Accounts /\ v \in Accounts
      /\ lamports[u] \in U64 /\ lamports[v] \in U64
  BY <1>1, StateFields, VaultApart, VaultAssumption DEF InstructionType, IsVaultOf
<1>4. ~(i.amount > lamports[v]) /\ ~(lamports[u] + i.amount > MaxU64)
  BY <1>1, PinocchioRuntime DEF Pinocchio!withdraw_balance_error
<1>5. lamports[v] - i.amount \in U64 /\ lamports[u] + i.amount \in U64
  BY <1>3, <1>4, MaxU64Assumption
<1> QED
  BY <1>1, <1>2, <1>3, <1>5

\* One that passes them is paid, and the runtime has nothing to object to.
LEMMA PinocchioWithdrawPays ==
  ASSUME TypeOK, NEW i \in Instructions, Pinocchio!withdraw_error(i) = "Ok"
  PROVE  Accepted(i, Pinocchio!process_withdraw(i)) =
           Outcome("Ok", [lamports EXCEPT ![i.accounts[2]] = @ - i.amount,
                                          ![i.accounts[1]] = @ + i.amount], data)
<1> DEFINE u == i.accounts[1]
           v == i.accounts[2]
           lam == [lamports EXCEPT ![v] = @ - i.amount, ![u] = @ + i.amount]
<1>1. /\ u \in Accounts /\ v \in Accounts /\ u # v /\ v \in Owned
      /\ {u, v} \subseteq i.writable /\ i.amount \in Nat
  BY PinocchioWithdrawChecks, MaxU64Assumption
<1>2. Pinocchio!process_withdraw(i) = Outcome("Ok", lam, data)
  BY <1>1, StateFields, PinocchioRuntime DEF Pinocchio!process_withdraw, Pinocchio!Pay
<1>3. Accepted(i, Outcome("Ok", lam, data)) = Outcome("Ok", lam, data)
  <2> HIDE DEF lam
  <2> QED
    BY <1>1, AcceptedMove DEF lam
<1> QED
  BY <1>2, <1>3

\* A withdrawal moves its amount, or nothing.
LEMMA PinocchioWithdrawLegal ==
  ASSUME TypeOK, NEW i \in Instructions, i.op = "withdraw"
  PROVE  Legal(i, Accepted(i, Pinocchio!process_withdraw(i)))
<1> DEFINE u == i.accounts[1]
           v == i.accounts[2]
           o == Accepted(i, Pinocchio!process_withdraw(i))
<1>1. CASE Pinocchio!withdraw_error(i) # "Ok"
  <2>1. o = Failed(Pinocchio!withdraw_error(i))
    BY <1>1, PinocchioRuntime DEF Pinocchio!process_withdraw, Accepted, Failed, Outcome
  <2> QED
    BY <1>1, <2>1, FailedLegal
<1>2. CASE Pinocchio!withdraw_error(i) = "Ok"
  <2>1. o = Outcome("Ok", [lamports EXCEPT ![v] = @ - i.amount, ![u] = @ + i.amount], data)
    BY <1>2, PinocchioWithdrawPays
  <2>2. Put(i) = -i.amount
    BY DEF Put
  <2>3. /\ u \in i.signers /\ IsVaultOf(u, v) /\ u # v /\ u \in Accounts /\ v \in Accounts
        /\ i.amount \in U64 /\ lamports[u] \in U64 /\ lamports[v] \in U64
        /\ lamports[v] - i.amount \in U64 /\ lamports[u] + i.amount \in U64
    BY <1>2, PinocchioWithdrawChecks
  <2>4. /\ Put(i) \in Int
        /\ lamports[u] - Put(i) = lamports[u] + i.amount
        /\ lamports[v] + Put(i) = lamports[v] - i.amount
    BY <2>2, <2>3, MaxU64Assumption
  <2>5. o.lamports = [lamports EXCEPT ![u] = @ - Put(i), ![v] = @ + Put(i)]
    <3>1. o.lamports = [lamports EXCEPT ![v] = @ - i.amount, ![u] = @ + i.amount]
      BY <2>1 DEF Outcome
    <3>2. i.amount \in Int /\ Put(i) \in Int
      BY <2>3, <2>4, MaxU64Assumption
    <3>3. lamports \in [Accounts -> U64]
      BY StateFields
    <3>4. u \in Accounts /\ v \in Accounts /\ u # v
      BY <2>3
    <3> DEFINE a == i.amount
               k == Put(i)
    <3>5. a \in Int /\ k \in Int /\ k = -a
      BY <2>2, <3>2
    <3>6. o.lamports = [lamports EXCEPT ![v] = @ - a, ![u] = @ + a]
      BY <3>1
    <3> HIDE DEF o, u, v, a, k
    <3>7. o.lamports = [lamports EXCEPT ![u] = @ - k, ![v] = @ + k]
      <4>1. lamports[u] \in Int /\ lamports[v] \in Int
        BY <3>3, <3>4, MaxU64Assumption
      <4>2. lamports[u] - k = lamports[u] + a /\ lamports[v] + k = lamports[v] - a
        BY <3>5, <4>1
      <4> QED
        BY <3>3, <3>4, <3>6, <4>2
    <3> QED
      BY <3>7 DEF k
  <2> QED
    BY <2>1, <2>3, <2>4, <2>5 DEF Legal, LegalOk, Outcome
<1> QED
  BY <1>1, <1>2

\* An authorization moves nothing.
LEMMA PinocchioAuthorizeLegal ==
  ASSUME TypeOK, NEW i \in Instructions, i.op = "authorize"
  PROVE  Legal(i, Accepted(i, Pinocchio!process_authorize(i)))
<1> DEFINE u == i.accounts[1]
           v == i.accounts[2]
           o == Accepted(i, Pinocchio!process_authorize(i))
<1>1. CASE o.err # "Ok"
  BY <1>1, AcceptedIsAllOrNothing DEF Legal, Failed, Outcome
<1>2. CASE o.err = "Ok"
  <2>1. o = Pinocchio!process_authorize(i) /\ Pinocchio!process_authorize(i).err = "Ok"
    BY <1>2, AcceptedIsAllOrNothing
  <2>2. u \in i.signers /\ IsVaultOf(u, v) /\ o = Outcome("Ok", lamports, data)
    BY <2>1, PinocchioRuntime
       DEF Pinocchio!process_authorize, Pinocchio!validate_authority, Failed, Outcome
  <2>3. Put(i) = 0
    BY DEF Put
  <2>4. /\ u \in Accounts /\ v \in Accounts /\ u # v
        /\ lamports[u] \in U64 /\ lamports[v] \in U64
    BY <2>2, VaultApart, StateFields DEF IsVaultOf
  <2>5. lamports[u] - 0 = lamports[u] /\ lamports[v] + 0 = lamports[v]
    BY <2>4, MaxU64Assumption
  <2>6. lamports = [lamports EXCEPT ![u] = @ - 0, ![v] = @ + 0]
    BY <2>4, <2>5, StateFields
  <2> QED
    BY <1>2, <2>2, <2>3, <2>4, <2>5, <2>6 DEF Legal, LegalOk, Outcome
<1> QED
  BY <1>1, <1>2

\* A counter access counts once, on the signer's own vault, or not at all.
LEMMA PinocchioCounterLegal ==
  ASSUME TypeOK, NEW i \in Instructions, i.op = "counter_access"
  PROVE  Legal(i, Accepted(i, Pinocchio!process_counter_access(i)))
<1> DEFINE u == i.accounts[1]
           v == i.accounts[2]
           o == Accepted(i, Pinocchio!process_counter_access(i))
<1>1. CASE o.err # "Ok"
  BY <1>1, AcceptedIsAllOrNothing DEF Legal, Failed, Outcome
<1>2. CASE o.err = "Ok"
  <2>1. o = Pinocchio!process_counter_access(i) /\ Pinocchio!process_counter_access(i).err = "Ok"
    BY <1>2, AcceptedIsAllOrNothing
  <2>2. Pinocchio!counter_error(i) = "Ok"
    BY <2>1, PinocchioRuntime DEF Pinocchio!process_counter_access, Failed, Outcome
  <2>3. /\ u \in i.signers /\ IsVaultOf(u, v) /\ v \in Sized
        /\ data[v].authority = u /\ ~(data[v].counter + 1 > MaxU64)
    BY <2>2, PinocchioRuntime
       DEF Pinocchio!counter_error, Pinocchio!counter_overflows, Pinocchio!validate_authority
  <2>4. o = Outcome("Ok", lamports, [data EXCEPT ![v].counter = @ + 1])
    BY <2>1, <2>2, PinocchioRuntime DEF Pinocchio!process_counter_access
  <2>5. data[v].counter + 1 \in U64
    BY <2>3, StateFields, MaxU64Assumption DEF CounterState
  <2>6. Put(i) = 0
    BY DEF Put
  <2>7. /\ u \in Accounts /\ v \in Accounts /\ u # v
        /\ lamports[u] \in U64 /\ lamports[v] \in U64
    BY <2>3, VaultApart, StateFields DEF IsVaultOf
  <2>8. lamports[u] - 0 = lamports[u] /\ lamports[v] + 0 = lamports[v]
    BY <2>7, MaxU64Assumption
  <2>9. lamports = [lamports EXCEPT ![u] = @ - 0, ![v] = @ + 0]
    BY <2>7, <2>8, StateFields
  <2>10. o.err = "Ok" /\ o.lamports = lamports /\ o.data = [data EXCEPT ![v].counter = @ + 1]
    BY <2>4 DEF Outcome
  <2>11. LegalOk(i, o)
    BY <2>3, <2>5, <2>6, <2>7, <2>8, <2>9, <2>10 DEF LegalOk
  <2> QED
    BY <2>10, <2>11 DEF Legal
<1> QED
  BY <1>1, <1>2

\* Every instruction has a legal outcome.
LEMMA PinocchioRunLegal ==
  ASSUME TypeOK, NEW i \in Instructions
  PROVE  Legal(i, Pinocchio!process_instruction(i))
<1>1. CASE i.op = "deposit"
  BY <1>1, PinocchioDepositLegal, PinocchioRuntime DEF Pinocchio!process_instruction
<1>2. CASE i.op = "withdraw"
  BY <1>2, PinocchioWithdrawLegal, PinocchioRuntime DEF Pinocchio!process_instruction
<1>3. CASE i.op = "authorize"
  BY <1>3, PinocchioAuthorizeLegal, PinocchioRuntime DEF Pinocchio!process_instruction
<1>4. CASE i.op = "counter_access"
  BY <1>4, PinocchioCounterLegal, PinocchioRuntime DEF Pinocchio!process_instruction
<1>5. CASE i.op = "unknown"
  BY <1>5, FailedLegal, PinocchioRuntime DEF Pinocchio!process_instruction
<1>6. i.op \in Ops
  BY VaultAssumption DEF InstructionType
<1> QED
  BY <1>1, <1>2, <1>3, <1>4, <1>5, <1>6 DEF Ops

-----------------------------------------------------------------------------
(***************************************************************************)
(* The Anchor vault.  Its withdraw may leave half a withdrawal in its      *)
(* copy, so that its outcomes are legal rests on the runtime dropping the  *)
(* copy of a program that returns an error.                                *)
(***************************************************************************)

\* What a handler knows of its accounts once the context has been checked.
LEMMA AnchorContextChecks ==
  ASSUME TypeOK, NEW i \in Instructions, Anchor!InContext(i), ~Anchor!BadArguments(i),
         i.op \in Ops \ {"unknown"}
  PROVE  LET u == i.accounts[1]
             v == i.accounts[2]
         IN /\ u \in i.signers /\ IsVaultOf(u, v) /\ {u, v} \subseteq i.writable
            /\ u \in Users /\ u \in Accounts /\ v \in Accounts /\ u # v
            /\ lamports[u] \in U64 /\ lamports[v] \in U64
            /\ i.op \in {"deposit", "withdraw"} => i.amount \in U64
            /\ i.op = "counter_access" => v \in Sized
<1>1. Anchor!VaultContext(i) /\ (i.op = "counter_access" => i.accounts[2] \in Sized)
  BY AnchorRuntime
     DEF Anchor!InContext, Anchor!Deposit, Anchor!Withdraw, Anchor!Authorize,
         Anchor!CounterAccess, Ops
<1>2. i.op \in {"deposit", "withdraw"} => i.amount \in U64
  BY VaultAssumption, AnchorRuntime DEF Anchor!BadArguments, InstructionType
<1> QED
  BY <1>1, <1>2, VaultApart, StateFields, AnchorRuntime DEF Anchor!VaultContext, IsVaultOf

\* A deposit moves its amount, or nothing.
LEMMA AnchorDepositLegal ==
  ASSUME TypeOK, NEW i \in Instructions, i.op = "deposit", Anchor!InContext(i),
         ~Anchor!BadArguments(i)
  PROVE  Legal(i, Anchor!deposit(i))
<1> DEFINE u == i.accounts[1]
           v == i.accounts[2]
           o == Anchor!deposit(i)
<1>1. CASE o.err # "Ok"
  BY <1>1, AnchorRuntime DEF Anchor!deposit, SystemTransfer, Failed, Outcome, Legal
<1>2. CASE o.err = "Ok"
  <2>1. /\ u \in i.signers /\ IsVaultOf(u, v) /\ u # v /\ u \in Accounts /\ v \in Accounts
        /\ i.amount \in U64 /\ lamports[u] \in U64 /\ lamports[v] \in U64
    BY AnchorContextChecks DEF Ops
  <2>2. /\ ~(i.amount > lamports[u]) /\ ~(lamports[v] + i.amount > MaxU64)
        /\ o = Outcome("Ok", [[lamports EXCEPT ![u] = @ - i.amount] EXCEPT ![v] = @ + i.amount], data)
    BY <1>2, AnchorRuntime DEF Anchor!deposit, SystemTransfer, Failed, Outcome
  <2>3. Put(i) = i.amount
    BY DEF Put
  <2>4. /\ Put(i) \in Int
        /\ lamports[u] - Put(i) \in U64
        /\ lamports[v] + Put(i) \in U64
    BY <2>1, <2>2, <2>3, MaxU64Assumption
  <2>5. o.lamports = [lamports EXCEPT ![u] = @ - Put(i), ![v] = @ + Put(i)] /\ o.data = data
    <3>1. o.lamports = [[lamports EXCEPT ![u] = @ - Put(i)] EXCEPT ![v] = @ + Put(i)] /\ o.data = data
      BY <2>2, <2>3 DEF Outcome
    <3> QED
      BY <2>1, <2>4, <3>1, StateFields, MoveInTwoWrites
  <2> QED
    BY <1>2, <2>1, <2>4, <2>5 DEF Legal, LegalOk
<1> QED
  BY <1>1, <1>2

\* A withdrawal that returns Ok pays the amount asked for.
LEMMA AnchorWithdrawWrites ==
  ASSUME TypeOK, NEW i \in Instructions, i.op = "withdraw", Anchor!InContext(i),
         ~Anchor!BadArguments(i),
         Anchor!withdraw(i).err = "Ok"
  PROVE  /\ lamports[i.accounts[2]] - i.amount \in U64
         /\ lamports[i.accounts[1]] + i.amount \in U64
         /\ Anchor!withdraw(i) = Outcome("Ok", [lamports EXCEPT ![i.accounts[2]] = @ - i.amount,
                                                         ![i.accounts[1]] = @ + i.amount], data)
<1> DEFINE u == i.accounts[1]
           v == i.accounts[2]
           debited == [lamports EXCEPT ![v] = lamports[v] - i.amount]
<1>1. /\ u # v /\ u \in Accounts /\ v \in Accounts
      /\ i.amount \in U64 /\ lamports[u] \in U64 /\ lamports[v] \in U64
  BY AnchorContextChecks DEF Ops
<1>2. debited[u] = lamports[u]
  BY <1>1, StateFields
<1>3. /\ ~(i.amount > lamports[v]) /\ ~(debited[u] + i.amount > MaxU64)
      /\ Anchor!withdraw(i) = Outcome("Ok", [debited EXCEPT ![u] = @ + i.amount], data)
  BY AnchorRuntime DEF Anchor!withdraw, Failed, Outcome
<1>4. lamports[v] - i.amount \in U64 /\ lamports[u] + i.amount \in U64
  BY <1>1, <1>2, <1>3, MaxU64Assumption
<1>5. [debited EXCEPT ![u] = @ + i.amount]
        = [lamports EXCEPT ![v] = @ - i.amount, ![u] = @ + i.amount]
  BY <1>1, <1>2, StateFields
<1> QED
  BY <1>3, <1>4, <1>5

\* A withdrawal moves its amount, or nothing.
LEMMA AnchorWithdrawLegal ==
  ASSUME TypeOK, NEW i \in Instructions, i.op = "withdraw", Anchor!InContext(i),
         ~Anchor!BadArguments(i)
  PROVE  Legal(i, Accepted(i, Anchor!withdraw(i)))
<1> DEFINE u == i.accounts[1]
           v == i.accounts[2]
           o == Accepted(i, Anchor!withdraw(i))
<1>1. CASE o.err # "Ok"
  BY <1>1, AcceptedIsAllOrNothing DEF Legal, Failed, Outcome
<1>2. CASE o.err = "Ok"
  <2>1. o = Anchor!withdraw(i) /\ Anchor!withdraw(i).err = "Ok"
    BY <1>2, AcceptedIsAllOrNothing
  <2>2. /\ u \in i.signers /\ IsVaultOf(u, v) /\ u # v /\ u \in Accounts /\ v \in Accounts
        /\ i.amount \in U64 /\ lamports[u] \in U64 /\ lamports[v] \in U64
    BY AnchorContextChecks DEF Ops
  <2>3. /\ lamports[v] - i.amount \in U64 /\ lamports[u] + i.amount \in U64
        /\ o.lamports = [lamports EXCEPT ![v] = @ - i.amount, ![u] = @ + i.amount]
        /\ o.data = data
    BY <2>1, AnchorWithdrawWrites DEF Outcome
  <2>4. Put(i) = -i.amount
    BY DEF Put
  <2>5. /\ Put(i) \in Int
        /\ lamports[u] - Put(i) = lamports[u] + i.amount
        /\ lamports[v] + Put(i) = lamports[v] - i.amount
    BY <2>2, <2>4, MaxU64Assumption
  <2>6. o.lamports = [lamports EXCEPT ![u] = @ - Put(i), ![v] = @ + Put(i)]
    <3>1. lamports \in [Accounts -> U64]
      BY StateFields
    <3> DEFINE a == i.amount
               k == Put(i)
    <3>2. o.lamports = [lamports EXCEPT ![v] = @ - a, ![u] = @ + a]
      BY <2>3
    <3>3. u # v /\ u \in Accounts /\ v \in Accounts
      BY <2>2
    <3>4. lamports[u] - k = lamports[u] + a /\ lamports[v] + k = lamports[v] - a
      BY <2>5
    <3> HIDE DEF o, u, v, a, k
    <3>5. o.lamports = [lamports EXCEPT ![u] = @ - k, ![v] = @ + k]
      BY <3>1, <3>2, <3>3, <3>4
    <3> QED
      BY <3>5 DEF k
  <2> QED
    BY <1>2, <2>2, <2>3, <2>5, <2>6 DEF Legal, LegalOk
<1> QED
  BY <1>1, <1>2

\* An authorization moves nothing.
LEMMA AnchorAuthorizeLegal ==
  ASSUME TypeOK, NEW i \in Instructions, i.op = "authorize", Anchor!InContext(i)
  PROVE  Legal(i, Accepted(i, Anchor!authorize(i)))
<1> DEFINE u == i.accounts[1]
           v == i.accounts[2]
           o == Accepted(i, Anchor!authorize(i))
<1>1. CASE o.err # "Ok"
  BY <1>1, AcceptedIsAllOrNothing DEF Legal, Failed, Outcome
<1>2. CASE o.err = "Ok"
  <2>1. o = Outcome("Ok", lamports, data)
    BY <1>2, AcceptedIsAllOrNothing, AnchorRuntime DEF Anchor!authorize
  <2>2. /\ u \in i.signers /\ IsVaultOf(u, v) /\ u # v /\ u \in Accounts /\ v \in Accounts
        /\ lamports[u] \in U64 /\ lamports[v] \in U64
    BY AnchorContextChecks, AnchorRuntime DEF Ops, Anchor!BadArguments
  <2>3. Put(i) = 0
    BY DEF Put
  <2>4. lamports[u] - 0 = lamports[u] /\ lamports[v] + 0 = lamports[v]
    BY <2>2, MaxU64Assumption
  <2>5. lamports = [lamports EXCEPT ![u] = @ - 0, ![v] = @ + 0]
    BY <2>2, <2>4, StateFields
  <2> QED
    BY <1>2, <2>1, <2>2, <2>3, <2>4, <2>5 DEF Legal, LegalOk, Outcome
<1> QED
  BY <1>1, <1>2

\* A counter access counts once, on the signer's own vault, or not at all.
LEMMA AnchorCounterLegal ==
  ASSUME TypeOK, NEW i \in Instructions, i.op = "counter_access", Anchor!InContext(i)
  PROVE  Legal(i, Accepted(i, Anchor!counter_access(i)))
<1> DEFINE u == i.accounts[1]
           v == i.accounts[2]
           o == Accepted(i, Anchor!counter_access(i))
<1>1. CASE o.err # "Ok"
  BY <1>1, AcceptedIsAllOrNothing DEF Legal, Failed, Outcome
<1>2. CASE o.err = "Ok"
  <2>1. o = Anchor!counter_access(i) /\ Anchor!counter_access(i).err = "Ok"
    BY <1>2, AcceptedIsAllOrNothing
  <2>2. /\ u \in i.signers /\ IsVaultOf(u, v) /\ u # v /\ u \in Accounts /\ v \in Accounts
        /\ lamports[u] \in U64 /\ lamports[v] \in U64 /\ v \in Sized
    BY AnchorContextChecks, AnchorRuntime DEF Ops, Anchor!BadArguments
  <2>3. /\ data[v].authority = u /\ ~(data[v].counter + 1 > MaxU64)
        /\ o = Outcome("Ok", lamports, [data EXCEPT ![v].counter = @ + 1])
    BY <2>1, AnchorRuntime DEF Anchor!counter_access, Failed, Outcome
  <2>4. data[v].counter + 1 \in U64
    BY <2>2, <2>3, StateFields, MaxU64Assumption DEF CounterState
  <2>5. Put(i) = 0
    BY DEF Put
  <2>6. lamports[u] - 0 = lamports[u] /\ lamports[v] + 0 = lamports[v]
    BY <2>2, MaxU64Assumption
  <2>7. lamports = [lamports EXCEPT ![u] = @ - 0, ![v] = @ + 0]
    BY <2>2, <2>6, StateFields
  <2>8. o.err = "Ok" /\ o.lamports = lamports /\ o.data = [data EXCEPT ![v].counter = @ + 1]
    BY <2>3 DEF Outcome
  <2>9. LegalOk(i, o)
    BY <2>2, <2>3, <2>4, <2>5, <2>6, <2>7, <2>8 DEF LegalOk
  <2> QED
    BY <2>8, <2>9 DEF Legal
<1> QED
  BY <1>1, <1>2

\* Every instruction has a legal outcome.
LEMMA AnchorRunLegal ==
  ASSUME TypeOK, NEW i \in Instructions
  PROVE  Legal(i, Anchor!anchor_vault(i))
<1>1. CASE i.op = "unknown"
  BY <1>1, FailedLegal, AnchorRuntime DEF Anchor!anchor_vault
<1>2. CASE i.op # "unknown" /\ (Anchor!BadArguments(i) \/ ~Anchor!InContext(i))
  BY <1>2, FailedLegal, AnchorRuntime DEF Anchor!anchor_vault
<1>3. CASE i.op # "unknown" /\ ~Anchor!BadArguments(i) /\ Anchor!InContext(i)
  <2>1. CASE i.op = "deposit"
    BY <1>3, <2>1, AnchorDepositLegal, AnchorRuntime DEF Anchor!anchor_vault
  <2>2. CASE i.op = "withdraw"
    BY <1>3, <2>2, AnchorWithdrawLegal, AnchorRuntime DEF Anchor!anchor_vault
  <2>3. CASE i.op = "authorize"
    BY <1>3, <2>3, AnchorAuthorizeLegal, AnchorRuntime DEF Anchor!anchor_vault
  <2>4. CASE i.op = "counter_access"
    BY <1>3, <2>4, AnchorCounterLegal, AnchorRuntime DEF Anchor!anchor_vault
  <2>5. i.op \in Ops
    BY VaultAssumption DEF InstructionType
  <2> QED
    BY <1>3, <2>1, <2>2, <2>3, <2>4, <2>5 DEF Ops
<1> QED
  BY <1>1, <1>2, <1>3

-----------------------------------------------------------------------------
(***************************************************************************)
(* Savings.                                                                *)
(***************************************************************************)

\* What a user withdraws from its own vault, the program owning it, is paid.
LEMMA PinocchioPaysOut == TypeOK => Pinocchio!SavingsArePaidOut
<1> SUFFICES ASSUME TypeOK,
                    NEW u \in Users, Pda[u] \in Owned,
                    NEW k \in 1 .. lamports[Pda[u]], lamports[u] + k <= MaxU64
             PROVE  LET o == Pinocchio!process_instruction(Withdrawal(u, k)) IN
                    o.err = "Ok" /\ o.lamports[u] = lamports[u] + k
  BY PinocchioRuntime DEF Pinocchio!SavingsArePaidOut
<1> DEFINE i == Withdrawal(u, k)
           v == Pda[u]
           lam == [lamports EXCEPT ![v] = @ - k, ![u] = @ + k]
<1>1. /\ u \in Accounts /\ v \in Accounts /\ u # v
      /\ lamports[u] \in U64 /\ lamports[v] \in U64
  BY VaultApart, StateFields
<1>2. k \in Nat /\ k <= lamports[v]
  BY <1>1, MaxU64Assumption
<1>3. Pinocchio!withdraw_error(i) = "Ok"
  <2>1. Pinocchio!validate_authority(i) = "Ok"
    BY DEF Withdrawal, Pinocchio!validate_authority
  <2>2. i.amount # Short
    BY <1>2 DEF Withdrawal, Short
  <2>3. Pinocchio!withdraw_balance_error(u, v, k) = "Ok"
    BY <1>1, <1>2, MaxU64Assumption DEF Pinocchio!withdraw_balance_error
  <2> QED
    BY <2>1, <2>2, <2>3, PinocchioRuntime
       DEF Withdrawal, Pinocchio!withdraw_error, Pinocchio!parse_amount_rejects,
           Pinocchio!user_owner_bytes, IsVaultOf
<1>4. Pinocchio!process_withdraw(i) = Outcome("Ok", lam, data)
  BY <1>1, <1>3, StateFields, PinocchioRuntime
     DEF Pinocchio!process_withdraw, Pinocchio!Pay, Withdrawal
<1>5. Accepted(i, Outcome("Ok", lam, data)) = Outcome("Ok", lam, data)
  <2>1. i.accounts[1] = u /\ i.accounts[2] = v /\ {u, v} \subseteq i.writable
    BY DEF Withdrawal
  <2>2. k \in Nat /\ u \in Accounts /\ v \in Accounts /\ v \in Owned /\ u # v
    BY <1>1, <1>2
  <2> HIDE DEF i, v
  <2> QED
    BY <2>1, <2>2, AcceptedMove
<1>6. Pinocchio!process_instruction(i) = Outcome("Ok", lam, data)
  BY <1>4, <1>5, PinocchioRuntime DEF Pinocchio!process_instruction, Withdrawal
<1>7. lam[u] = lamports[u] + k
  BY <1>1, StateFields
<1> QED
  BY <1>6, <1>7 DEF Outcome

\* The same of the Anchor vault.
LEMMA AnchorPaysOut == TypeOK => Anchor!SavingsArePaidOut
<1> SUFFICES ASSUME TypeOK,
                    NEW u \in Users, Pda[u] \in Owned,
                    NEW k \in 1 .. lamports[Pda[u]], lamports[u] + k <= MaxU64
             PROVE  LET o == Anchor!anchor_vault(Withdrawal(u, k)) IN
                    o.err = "Ok" /\ o.lamports[u] = lamports[u] + k
  BY AnchorRuntime DEF Anchor!SavingsArePaidOut
<1> DEFINE i == Withdrawal(u, k)
           v == Pda[u]
           lam == [lamports EXCEPT ![v] = @ - k, ![u] = @ + k]
<1>1. /\ u \in Accounts /\ v \in Accounts /\ u # v
      /\ lamports[u] \in U64 /\ lamports[v] \in U64
  BY VaultApart, StateFields
<1>2. k \in Nat /\ k <= lamports[v]
  BY <1>1, MaxU64Assumption
<1>3. ~Anchor!BadArguments(i)
  BY <1>2, AnchorRuntime DEF Anchor!BadArguments, Withdrawal, Short
<1>4. Anchor!InContext(i)
  BY AnchorRuntime
     DEF Anchor!InContext, Anchor!Withdraw, Anchor!VaultContext, IsVaultOf, Withdrawal
<1>5. Anchor!withdraw(i) = Outcome("Ok", lam, data)
  <2> DEFINE debited == [lamports EXCEPT ![v] = lamports[v] - k]
  <2>1. debited[u] = lamports[u]
    BY <1>1, StateFields
  <2>2. [debited EXCEPT ![u] = @ + k] = lam
    BY <1>1, <2>1, StateFields
  <2>3. ~(k > lamports[v]) /\ ~(debited[u] + k > MaxU64)
    BY <1>1, <1>2, <2>1, MaxU64Assumption
  <2> QED
    BY <2>2, <2>3, AnchorRuntime DEF Anchor!withdraw, Withdrawal
<1>6. Accepted(i, Outcome("Ok", lam, data)) = Outcome("Ok", lam, data)
  <2>1. i.accounts[1] = u /\ i.accounts[2] = v /\ {u, v} \subseteq i.writable
    BY DEF Withdrawal
  <2>2. k \in Nat /\ u \in Accounts /\ v \in Accounts /\ v \in Owned /\ u # v
    BY <1>1, <1>2
  <2> HIDE DEF i, v
  <2> QED
    BY <2>1, <2>2, AcceptedMove
<1>7. Anchor!anchor_vault(i) = Outcome("Ok", lam, data)
  BY <1>3, <1>4, <1>5, <1>6, AnchorRuntime DEF Anchor!anchor_vault, Withdrawal
<1>8. lam[u] = lamports[u] + k
  BY <1>1, StateFields
<1> QED
  BY <1>7, <1>8 DEF Outcome

-----------------------------------------------------------------------------
(***************************************************************************)
(* What each program accepts, in the same terms for both.                  *)
(***************************************************************************)

\* The checks the four instructions share.
Named(i) ==
  /\ Len(i.accounts) >= 2
  /\ i.accounts[1] \in i.signers
  /\ {i.accounts[1], i.accounts[2]} \subseteq i.writable
  /\ IsVaultOf(i.accounts[1], i.accounts[2])

\* With those of each instruction, but for the owner of a vault.
Passes(i) ==
  LET u == i.accounts[1]
      v == i.accounts[2]
  IN /\ i.op # "unknown" /\ Named(i)
     /\ i.op = "deposit" =>
          /\ i.amount # Short /\ Len(i.accounts) >= 3 /\ i.accounts[3] = SystemId
          /\ SystemTransfer(u, v, i.amount, i).err = "Ok"
     /\ i.op = "withdraw" =>
          /\ i.amount # Short
          /\ ~(i.amount > lamports[v]) /\ ~(lamports[u] + i.amount > MaxU64)
     /\ i.op = "counter_access" =>
          /\ v \in Sized /\ data[v].authority = u
          /\ ~(data[v].counter + 1 > MaxU64)

\* To count is to change the data.
LEMMA CountingWrites ==
  ASSUME TypeOK, NEW v \in Sized
  PROVE  [data EXCEPT ![v].counter = @ + 1] # data
<1> DEFINE c == data[v].counter
           dat == [data EXCEPT ![v].counter = c + 1]
<1>1. data \in [Sized -> CounterState] /\ data[v] \in CounterState
  BY StateFields
<1>2. c \in Int
  BY <1>1, MaxU64Assumption DEF CounterState
<1>3. dat[v].counter = c + 1
  BY <1>1 DEF CounterState
<1> HIDE DEF dat
<1>4. CASE dat = data
  <2>1. c = c + 1
    BY <1>3, <1>4
  <2> HIDE DEF c
  <2> QED
    BY <1>2, <2>1
<1> QED
  BY <1>4 DEF dat

\* The Pinocchio vault accepts what passes, if a withdrawal is from a vault of its own.
LEMMA PinocchioAccepts ==
  ASSUME TypeOK, NEW i \in Instructions
  PROVE  Pinocchio!process_instruction(i).err = "Ok" <=>
           Passes(i) /\ (i.op = "withdraw" => i.accounts[2] \in Owned)
<1> DEFINE u == i.accounts[1]
           v == i.accounts[2]
<1>1. Len(i.accounts) \in Nat /\ i.op \in Ops
  BY VaultAssumption DEF InstructionType
<1>2. Pinocchio!validate_authority(i) = "Ok" <=> u \in i.signers /\ u \in i.writable
  BY DEF Pinocchio!validate_authority
<1>3. IsVaultOf(u, v) => u \in Accounts /\ v \in Accounts
  BY VaultApart DEF IsVaultOf
<1>4. CASE i.op = "deposit"
  <2>1. Pinocchio!process_instruction(i) = Pinocchio!process_deposit(i)
    BY <1>4 DEF Pinocchio!process_instruction
  <2>2. Pinocchio!process_deposit(i).err = "Ok" <=>
          /\ ~(Len(i.accounts) < 3) /\ u \in i.signers /\ u \in i.writable /\ i.amount # Short
          /\ v \in i.writable /\ i.accounts[3] = SystemId /\ IsVaultOf(u, v)
          /\ SystemTransfer(u, v, i.amount, i).err = "Ok"
    BY <1>2, PinocchioRuntime
       DEF Pinocchio!process_deposit, Pinocchio!parse_amount_rejects, Failed, Outcome
  <2> QED
    BY <1>1, <1>4, <2>1, <2>2 DEF Passes, Named
<1>5. CASE i.op = "withdraw"
  <2>1. Pinocchio!process_instruction(i) = Accepted(i, Pinocchio!process_withdraw(i))
    BY <1>5, PinocchioRuntime DEF Pinocchio!process_instruction
  <2>2. Pinocchio!withdraw_error(i) = "Ok" <=>
          /\ ~(Len(i.accounts) < 2) /\ u \in i.signers /\ u \in i.writable /\ i.amount # Short
          /\ v \in Owned /\ v \in i.writable /\ IsVaultOf(u, v)
          /\ ~(i.amount > lamports[v]) /\ ~(lamports[u] + i.amount > MaxU64)
    BY <1>2, PinocchioRuntime
       DEF Pinocchio!withdraw_error, Pinocchio!parse_amount_rejects, Pinocchio!user_owner_bytes,
           Pinocchio!withdraw_balance_error
  <2>3. Pinocchio!process_instruction(i).err = Pinocchio!withdraw_error(i)
    <3>1. CASE Pinocchio!withdraw_error(i) = "Ok"
      BY <2>1, <3>1, PinocchioWithdrawPays DEF Outcome
    <3>2. CASE Pinocchio!withdraw_error(i) # "Ok"
      BY <2>1, <3>2, PinocchioRuntime, AcceptedFailure
         DEF Pinocchio!process_withdraw, Failed, Outcome
    <3> QED
      BY <3>1, <3>2
  <2> QED
    BY <1>1, <1>5, <2>2, <2>3 DEF Passes, Named
<1>6. CASE i.op = "authorize"
  <2>1. Pinocchio!process_instruction(i) = Accepted(i, Pinocchio!process_authorize(i))
    BY <1>6, PinocchioRuntime DEF Pinocchio!process_instruction
  <2>2. CASE Named(i)
    <3>1. Pinocchio!process_authorize(i) = Outcome("Ok", lamports, data)
      BY <1>1, <1>2, <2>2, PinocchioRuntime DEF Pinocchio!process_authorize, Named
    <3>2. Accepted(i, Outcome("Ok", lamports, data)) = Outcome("Ok", lamports, data)
      BY <1>3, <2>2, AcceptedUnmoved DEF Named
    <3> QED
      BY <1>6, <2>1, <2>2, <3>1, <3>2 DEF Passes, Outcome
  <2>3. CASE ~Named(i)
    <3>1. \E e : e # "Ok" /\ Pinocchio!process_authorize(i) = Failed(e)
      BY <1>1, <1>2, <2>3, PinocchioRuntime DEF Pinocchio!process_authorize, Named
    <3>2. Pinocchio!process_instruction(i).err # "Ok"
      BY <2>1, <3>1, AcceptedFailure DEF Failed, Outcome
    <3> QED
      BY <2>3, <3>2 DEF Passes
  <2> QED
    BY <2>2, <2>3
<1>7. CASE i.op = "counter_access"
  <2>1. Pinocchio!process_instruction(i) = Accepted(i, Pinocchio!process_counter_access(i))
    BY <1>7, PinocchioRuntime DEF Pinocchio!process_instruction
  <2>2. Pinocchio!counter_error(i) = "Ok" <=>
          /\ ~(Len(i.accounts) < 2) /\ u \in i.signers /\ u \in i.writable /\ IsVaultOf(u, v)
          /\ v \in Sized /\ data[v].authority = u /\ ~(data[v].counter + 1 > MaxU64)
    BY <1>2, PinocchioRuntime DEF Pinocchio!counter_error, Pinocchio!counter_overflows
  <2>3. CASE Pinocchio!counter_error(i) # "Ok"
    <3>1. Pinocchio!process_instruction(i).err # "Ok"
      BY <2>1, <2>3, PinocchioRuntime, AcceptedFailure
         DEF Pinocchio!process_counter_access, Failed, Outcome
    <3> QED
      BY <1>1, <1>7, <2>2, <2>3, <3>1 DEF Passes, Named
  <2>4. CASE Pinocchio!counter_error(i) = "Ok"
    <3> DEFINE dat == [data EXCEPT ![v].counter = @ + 1]
    <3>1. Pinocchio!process_counter_access(i) = Outcome("Ok", lamports, dat)
      BY <2>4, PinocchioRuntime DEF Pinocchio!process_counter_access
    <3>2. dat # data
      BY <2>2, <2>4, CountingWrites
    <3> HIDE DEF dat
    <3>3. Accepted(i, Outcome("Ok", lamports, dat)) =
            IF v \notin i.writable THEN Failed("ReadonlyDataModified")
            ELSE Outcome("Ok", lamports, dat)
      BY <1>3, <2>2, <2>4, <3>2, AcceptedUnmoved
    <3>4. Pinocchio!process_instruction(i).err = "Ok" <=> v \in i.writable
      BY <2>1, <3>1, <3>3 DEF Failed, Outcome
    <3> QED
      BY <1>1, <1>7, <2>2, <2>4, <3>4 DEF Passes, Named
  <2> QED
    BY <2>3, <2>4
<1>8. CASE i.op = "unknown"
  BY <1>8, PinocchioRuntime DEF Pinocchio!process_instruction, Failed, Outcome, Passes
<1> QED
  BY <1>1, <1>4, <1>5, <1>6, <1>7, <1>8 DEF Ops

\* What Anchor's context and arguments come to.
LEMMA AnchorEnters ==
  ASSUME NEW i \in Instructions, i.op # "unknown"
  PROVE  ~Anchor!BadArguments(i) /\ Anchor!InContext(i) <=>
           /\ Named(i)
           /\ i.op \in {"deposit", "withdraw"} => i.amount # Short
           /\ i.op = "deposit" => Len(i.accounts) >= 3 /\ i.accounts[3] = SystemId
           /\ i.op = "counter_access" => i.accounts[2] \in Sized
<1>1. Len(i.accounts) \in Nat /\ i.op \in Ops
  BY VaultAssumption DEF InstructionType
<1>2. Anchor!VaultContext(i) /\ Len(i.accounts) >= 2 <=> Named(i)
  BY AnchorRuntime DEF Anchor!VaultContext, Named
<1>3. Anchor!BadArguments(i) <=> i.op \in {"deposit", "withdraw"} /\ i.amount = Short
  BY AnchorRuntime DEF Anchor!BadArguments
<1>4. CASE i.op = "deposit"
  BY <1>1, <1>2, <1>3, <1>4 DEF Anchor!InContext, Anchor!Deposit
<1>5. CASE i.op = "withdraw"
  BY <1>2, <1>3, <1>5 DEF Anchor!InContext, Anchor!Withdraw
<1>6. CASE i.op = "authorize"
  BY <1>2, <1>3, <1>6 DEF Anchor!InContext, Anchor!Authorize
<1>7. CASE i.op = "counter_access"
  BY <1>2, <1>3, <1>7 DEF Anchor!InContext, Anchor!CounterAccess
<1> QED
  BY <1>1, <1>4, <1>5, <1>6, <1>7 DEF Ops

\* What Anchor's program makes of an instruction whose context holds.
LEMMA AnchorHandles ==
  ASSUME TypeOK, NEW i \in Instructions, i.op # "unknown",
         ~Anchor!BadArguments(i), Anchor!InContext(i)
  PROVE  LET u == i.accounts[1]
             v == i.accounts[2]
             o == Anchor!anchor_vault(i)
         IN /\ i.op = "deposit" => o = SystemTransfer(u, v, i.amount, i)
            /\ i.op = "withdraw" =>
                 IF i.amount > lamports[v] THEN o = Failed("InsufficientFunds")
                 ELSE IF lamports[u] + i.amount > MaxU64 THEN o = Failed("ArithmeticOverflow")
                 ELSE IF v \in Owned \/ i.amount = 0 THEN o.err = "Ok"
                 ELSE o = Failed("ExternalAccountLamportSpend")
            /\ i.op = "authorize" => o.err = "Ok"
            /\ i.op = "counter_access" =>
                 IF data[v].authority # u THEN o = Failed("AuthorityMismatch")
                 ELSE IF data[v].counter + 1 > MaxU64 THEN o = Failed("ArithmeticOverflow")
                 ELSE o.err = "Ok"
<1> DEFINE u == i.accounts[1]
           v == i.accounts[2]
           o == Anchor!anchor_vault(i)
<1>1. /\ {u, v} \subseteq i.writable /\ u # v /\ u \in Accounts /\ v \in Accounts
      /\ i.op = "withdraw" => i.amount \in U64
      /\ i.op = "counter_access" => v \in Sized
  BY AnchorContextChecks, VaultAssumption DEF InstructionType
<1>2. ASSUME i.op = "deposit" PROVE o = SystemTransfer(u, v, i.amount, i)
  BY <1>2, AnchorRuntime DEF Anchor!anchor_vault, Anchor!deposit
<1>3. ASSUME i.op = "withdraw"
      PROVE  IF i.amount > lamports[v] THEN o = Failed("InsufficientFunds")
             ELSE IF lamports[u] + i.amount > MaxU64 THEN o = Failed("ArithmeticOverflow")
             ELSE IF v \in Owned \/ i.amount = 0 THEN o.err = "Ok"
             ELSE o = Failed("ExternalAccountLamportSpend")
  <2> DEFINE debited == [lamports EXCEPT ![v] = lamports[v] - i.amount]
  <2>1. o = Accepted(i, Anchor!withdraw(i))
    BY <1>3, AnchorRuntime DEF Anchor!anchor_vault
  <2>2. debited[u] = lamports[u]
    BY <1>1, StateFields
  <2>3. CASE i.amount > lamports[v]
    <3>1. Anchor!withdraw(i) = Failed("InsufficientFunds")
      BY <2>3, AnchorRuntime DEF Anchor!withdraw
    <3> QED
      BY <2>1, <2>3, <3>1, AcceptedFailure
  <2>4. CASE ~(i.amount > lamports[v]) /\ lamports[u] + i.amount > MaxU64
    <3>1. Anchor!withdraw(i) = Outcome("ArithmeticOverflow", debited, data)
      BY <2>2, <2>4, AnchorRuntime DEF Anchor!withdraw
    <3> QED
      BY <2>1, <2>4, <3>1 DEF Accepted, Outcome
  <2>5. CASE ~(i.amount > lamports[v]) /\ ~(lamports[u] + i.amount > MaxU64)
    <3> DEFINE lam == [lamports EXCEPT ![v] = @ - i.amount, ![u] = @ + i.amount]
    <3>1. Anchor!withdraw(i) = Outcome("Ok", [debited EXCEPT ![u] = @ + i.amount], data)
      BY <2>2, <2>5, AnchorRuntime DEF Anchor!withdraw
    <3>2. Anchor!withdraw(i) = Outcome("Ok", lam, data)
      BY <1>1, <2>2, <3>1, StateFields
    <3>3. i.amount \in Nat
      BY <1>1, <1>3, MaxU64Assumption
    <3>4. Accepted(i, Outcome("Ok", lam, data)) =
            IF v \in Owned \/ i.amount = 0 THEN Outcome("Ok", lam, data)
            ELSE Failed("ExternalAccountLamportSpend")
      BY <1>1, <3>3, AcceptedMove
    <3> HIDE DEF lam
    <3> QED
      BY <2>1, <2>5, <3>2, <3>4 DEF Outcome
  <2> QED
    BY <2>3, <2>4, <2>5
<1>4. ASSUME i.op = "authorize" PROVE o.err = "Ok"
  <2>1. o = Accepted(i, Outcome("Ok", lamports, data))
    BY <1>4, AnchorRuntime DEF Anchor!anchor_vault, Anchor!authorize
  <2> QED
    BY <1>1, <2>1, AcceptedUnmoved DEF Outcome
<1>5. ASSUME i.op = "counter_access"
      PROVE  IF data[v].authority # u THEN o = Failed("AuthorityMismatch")
             ELSE IF data[v].counter + 1 > MaxU64 THEN o = Failed("ArithmeticOverflow")
             ELSE o.err = "Ok"
  <2> DEFINE dat == [data EXCEPT ![v].counter = @ + 1]
  <2>1. o = Accepted(i, Anchor!counter_access(i))
    BY <1>5, AnchorRuntime DEF Anchor!anchor_vault
  <2>2. CASE data[v].authority # u
    <3>1. Anchor!counter_access(i) = Failed("AuthorityMismatch")
      BY <2>2, AnchorRuntime DEF Anchor!counter_access
    <3> QED
      BY <2>1, <2>2, <3>1, AcceptedFailure
  <2>3. CASE ~(data[v].authority # u) /\ data[v].counter + 1 > MaxU64
    <3>1. Anchor!counter_access(i) = Failed("ArithmeticOverflow")
      BY <2>3, AnchorRuntime DEF Anchor!counter_access
    <3> QED
      BY <2>1, <2>3, <3>1, AcceptedFailure
  <2>4. CASE ~(data[v].authority # u) /\ ~(data[v].counter + 1 > MaxU64)
    <3>1. Anchor!counter_access(i) = Outcome("Ok", lamports, dat)
      BY <2>4, AnchorRuntime DEF Anchor!counter_access
    <3> HIDE DEF dat
    <3>2. Accepted(i, Outcome("Ok", lamports, dat)) = Outcome("Ok", lamports, dat)
      BY <1>1, AcceptedUnmoved
    <3> QED
      BY <2>1, <2>4, <3>1, <3>2 DEF Outcome
  <2> QED
    BY <2>2, <2>3, <2>4
<1> QED
  BY <1>2, <1>3, <1>4, <1>5

\* The Anchor vault accepts what passes, and a withdrawal of nothing from any vault.
LEMMA AnchorAccepts ==
  ASSUME TypeOK, NEW i \in Instructions
  PROVE  Anchor!anchor_vault(i).err = "Ok" <=>
           Passes(i) /\ (i.op = "withdraw" => i.accounts[2] \in Owned \/ i.amount = 0)
<1> DEFINE o == Anchor!anchor_vault(i)
<1>1. i.op \in Ops
  BY VaultAssumption DEF InstructionType
<1>2. \A e : Failed(e).err = e
  BY DEF Failed, Outcome
<1>3. CASE i.op = "unknown"
  BY <1>2, <1>3, AnchorRuntime DEF Anchor!anchor_vault, Passes
<1>4. CASE i.op # "unknown" /\ ~(~Anchor!BadArguments(i) /\ Anchor!InContext(i))
  <2>1. o.err # "Ok"
    BY <1>2, <1>4, AnchorRuntime DEF Anchor!anchor_vault
  <2>2. ~Passes(i)
    BY <1>4, AnchorEnters DEF Passes
  <2> QED
    BY <2>1, <2>2
<1>5. CASE i.op # "unknown" /\ ~Anchor!BadArguments(i) /\ Anchor!InContext(i)
  <2>1. /\ Named(i)
        /\ i.op \in {"deposit", "withdraw"} => i.amount # Short
        /\ i.op = "deposit" => Len(i.accounts) >= 3 /\ i.accounts[3] = SystemId
        /\ i.op = "counter_access" => i.accounts[2] \in Sized
    BY <1>5, AnchorEnters
  <2>2. CASE i.op = "deposit"
    BY <1>5, <2>1, <2>2, AnchorHandles DEF Passes
  <2>3. CASE i.op = "withdraw"
    BY <1>2, <1>5, <2>1, <2>3, AnchorHandles DEF Passes
  <2>4. CASE i.op = "authorize"
    BY <1>5, <2>1, <2>4, AnchorHandles DEF Passes
  <2>5. CASE i.op = "counter_access"
    BY <1>2, <1>5, <2>1, <2>5, AnchorHandles DEF Passes
  <2> QED
    BY <1>1, <1>5, <2>2, <2>3, <2>4, <2>5 DEF Ops
<1> QED
  BY <1>3, <1>4, <1>5

-----------------------------------------------------------------------------
(***************************************************************************)
(* What is left for the runtime to refuse.                                 *)
(***************************************************************************)

\* What the runtime may refuse of the Pinocchio vault: a count in a read-only vault.
LEMMA PinocchioRefusals ==
  ASSUME TypeOK, NEW i \in Instructions,
         Pinocchio!process_instruction(i).err \in RuntimeErrors
  PROVE  /\ i.op # "withdraw"
         /\ i.op = "counter_access" =>
              /\ Pinocchio!process_instruction(i).err = "ReadonlyDataModified"
              /\ i.accounts[2] \notin i.writable
<1> DEFINE u == i.accounts[1]
           v == i.accounts[2]
           e == Pinocchio!process_instruction(i).err
<1>1. \A x : Failed(x).err = x
  BY DEF Failed, Outcome
<1>2. ASSUME i.op = "withdraw" PROVE FALSE
  <2>1. Pinocchio!process_instruction(i) = Accepted(i, Pinocchio!process_withdraw(i))
    BY <1>2, PinocchioRuntime DEF Pinocchio!process_instruction
  <2>2. CASE Pinocchio!withdraw_error(i) = "Ok"
    BY <2>1, <2>2, PinocchioWithdrawPays DEF Outcome, RuntimeErrors
  <2>3. CASE Pinocchio!withdraw_error(i) # "Ok"
    <3>1. e = Pinocchio!withdraw_error(i)
      BY <1>1, <2>1, <2>3, PinocchioRuntime, AcceptedFailure DEF Pinocchio!process_withdraw
    <3> QED
      BY <3>1 DEF Pinocchio!withdraw_error, Pinocchio!withdraw_balance_error,
                  Pinocchio!validate_authority, RuntimeErrors
  <2> QED
    BY <2>2, <2>3
<1>3. ASSUME i.op = "counter_access" PROVE e = "ReadonlyDataModified" /\ v \notin i.writable
  <2>1. Pinocchio!process_instruction(i) = Accepted(i, Pinocchio!process_counter_access(i))
    BY <1>3, PinocchioRuntime DEF Pinocchio!process_instruction
  <2>2. CASE Pinocchio!counter_error(i) # "Ok"
    <3>1. e = Pinocchio!counter_error(i)
      BY <1>1, <2>1, <2>2, PinocchioRuntime, AcceptedFailure
         DEF Pinocchio!process_counter_access
    <3> QED
      BY <3>1 DEF Pinocchio!counter_error, Pinocchio!validate_authority, RuntimeErrors
  <2>3. CASE Pinocchio!counter_error(i) = "Ok"
    <3> DEFINE dat == [data EXCEPT ![v].counter = @ + 1]
    <3>1. Pinocchio!process_counter_access(i) = Outcome("Ok", lamports, dat)
      BY <2>3, PinocchioRuntime DEF Pinocchio!process_counter_access
    <3>2. IsVaultOf(u, v)
      BY <2>3, PinocchioRuntime DEF Pinocchio!counter_error
    <3>3. u \in Accounts /\ v \in Accounts
      BY <3>2, VaultApart DEF IsVaultOf
    <3> HIDE DEF dat
    <3>4. Accepted(i, Outcome("Ok", lamports, dat)) =
            IF dat # data /\ v \notin i.writable THEN Failed("ReadonlyDataModified")
            ELSE Outcome("Ok", lamports, dat)
      BY <3>3, AcceptedUnmoved
    <3> QED
      BY <1>1, <2>1, <3>1, <3>4 DEF Outcome, RuntimeErrors
  <2> QED
    BY <2>2, <2>3
<1> QED
  BY <1>2, <1>3

\* What it may refuse of the Anchor vault: lamports of a vault that is not the program's.
LEMMA AnchorRefusals ==
  ASSUME TypeOK, NEW i \in Instructions, i.op # "deposit",
         Anchor!anchor_vault(i).err \in RuntimeErrors
  PROVE  /\ i.op = "withdraw" /\ i.accounts[2] \notin Owned
         /\ Anchor!anchor_vault(i).err = "ExternalAccountLamportSpend"
<1>1. \A x : Failed(x).err = x
  BY DEF Failed, Outcome
<1>2. i.op \in Ops
  BY VaultAssumption DEF InstructionType
<1>3. i.op # "unknown" /\ ~Anchor!BadArguments(i) /\ Anchor!InContext(i)
  BY <1>1, AnchorRuntime DEF Anchor!anchor_vault, RuntimeErrors
<1>4. CASE i.op = "withdraw"
  BY <1>1, <1>3, <1>4, AnchorHandles DEF RuntimeErrors
<1>5. CASE i.op = "authorize"
  BY <1>3, <1>5, AnchorHandles DEF RuntimeErrors
<1>6. CASE i.op = "counter_access"
  BY <1>1, <1>3, <1>6, AnchorHandles DEF RuntimeErrors
<1> QED
  BY <1>2, <1>3, <1>4, <1>5, <1>6 DEF Ops

-----------------------------------------------------------------------------
(***************************************************************************)
(* A step of either program.                                               *)
(***************************************************************************)

\* What the program whose history it is makes of an instruction.
Result(i) ==
  IF program = "pinocchio" THEN Pinocchio!process_instruction(i) ELSE Anchor!anchor_vault(i)

\* It is legal, whichever program it is.
LEMMA ResultLegal ==
  ASSUME TypeOK, NEW i \in Instructions
  PROVE  Legal(i, Result(i))
BY PinocchioRunLegal, AnchorRunLegal DEF Result

\* A step settles an instruction with its result.
LEMMA StepSettles ==
  ASSUME TypeOK, ParityNext
  PROVE  /\ program' = program
         /\ \E i \in Instructions : Settle(i, Result(i))
BY DEF ParityNext, Pinocchio!Next, Pinocchio!Run, Pinocchio!Settle,
       Anchor!Next, Anchor!Run, Anchor!Settle, Settle, Result

\* Balances and counters keep their types.
LEMMA ParityTypes == ParitySpec => []TypeOK
<1>1. ParityInit => TypeOK
  BY InitTypes DEF ParityInit
<1>2. TypeOK /\ [ParityNext]_<<vars, program>> => TypeOK'
  <2> SUFFICES ASSUME TypeOK, [ParityNext]_<<vars, program>> PROVE TypeOK'
    OBVIOUS
  <2>1. CASE UNCHANGED <<vars, program>>
    BY <2>1 DEF vars, TypeOK
  <2>2. CASE ParityNext
    BY <2>2, StepSettles, ResultLegal, LegalTypes
  <2> QED
    BY <2>1, <2>2
<1> QED
  BY <1>1, <1>2, PTL DEF ParitySpec

\* What the program accepts, in the terms of Passes.
LEMMA ResultAccepts ==
  ASSUME TypeOK, NEW i \in Instructions, i.op = "withdraw" => i.accounts[2] \in Owned
  PROVE  Result(i).err = "Ok" <=> Passes(i)
BY PinocchioAccepts, AnchorAccepts DEF Result

\* The amounts of what passes are amounts.
LEMMA AmountTypes ==
  ASSUME NEW i \in Instructions
  PROVE  i.amount \in Int /\ (i.amount # Short => i.amount \in U64) /\ i.op \in Ops
BY VaultAssumption, MaxU64Assumption DEF InstructionType, Short

-----------------------------------------------------------------------------
(***************************************************************************)
(* The theorems.                                                           *)
(***************************************************************************)

\* Balances and counters keep their types.  Deposits apart, whose transfer is the
\* system program's, the runtime refuses of the Pinocchio vault nothing but counter
\* accesses to a read-only vault, and of the Anchor vault nothing but withdrawals
\* from a vault the program does not own.
THEOREM VaultsChecksSuffice == ParitySpec => []ParityInv
<1>1. ParityInit => ParityInv
  BY InitTypes DEF ParityInit, Init, ParityInv, ChecksSuffice, Pinocchio!ChecksSuffice,
                   Anchor!OnlyForeignVaultsRefused
<1>2. ParityInv /\ [ParityNext]_<<vars, program>> => ParityInv'
  <2> SUFFICES ASSUME ParityInv, [ParityNext]_<<vars, program>> PROVE ParityInv'
    OBVIOUS
  <2>1. CASE UNCHANGED <<vars, program>>
    BY <2>1 DEF vars, ParityInv, TypeOK, ChecksSuffice, Pinocchio!ChecksSuffice,
                Anchor!OnlyForeignVaultsRefused
  <2>2. CASE ParityNext
    <3>1. TypeOK
      BY DEF ParityInv
    <3>2. PICK i \in Instructions : Settle(i, Result(i))
      BY <2>2, <3>1, StepSettles
    <3>3. TypeOK'
      BY <3>1, <3>2, ResultLegal, LegalTypes
    <3>4. ix' = i /\ err' = Result(i).err /\ program' = program
      BY <2>2, <3>1, <3>2, StepSettles DEF Settle
    <3>5. CASE program = "pinocchio"
      BY <3>1, <3>3, <3>4, <3>5, PinocchioRefusals, PinocchioRuntime
         DEF ParityInv, ChecksSuffice, Pinocchio!ChecksSuffice, Result
    <3>6. CASE program # "pinocchio"
      BY <3>1, <3>3, <3>4, <3>6, AnchorRefusals, AnchorRuntime
         DEF ParityInv, ChecksSuffice, Anchor!OnlyForeignVaultsRefused, Result
    <3> QED
      BY <3>5, <3>6
  <2> QED
    BY <2>1, <2>2
<1> QED
  BY <1>1, <1>2, PTL DEF ParitySpec

\* Whichever program's history it is, neither ever locks a user's savings in a
\* vault the program owns: any part of them can be taken out.
THEOREM VaultsPayOut == ParitySpec => []SavingsArePaidOut
<1>1. TypeOK => SavingsArePaidOut
  BY PinocchioPaysOut, AnchorPaysOut DEF SavingsArePaidOut
<1> QED
  BY <1>1, ParityTypes, PTL

\* Both vaults keep the book: lamports move only between the wallet and the
\* vault of a user who signed, and a counter only by its own user's access.
THEOREM VaultsKeepBook == ParitySpec => ImplementsVaultBook
<1>1. ParityInit => Book!Init
  BY InitBook DEF ParityInit
<1>2. TypeOK /\ [ParityNext]_<<vars, program>> => [Book!Next]_(Book!vars)
  <2> SUFFICES ASSUME TypeOK, [ParityNext]_<<vars, program>> PROVE [Book!Next]_(Book!vars)
    OBVIOUS
  <2>1. CASE UNCHANGED <<vars, program>>
    BY <2>1 DEF vars, Book!vars
  <2>2. CASE ParityNext
    BY <2>2, StepSettles, ResultLegal, LegalBook
  <2> QED
    BY <2>1, <2>2
<1> QED
  BY <1>1, <1>2, ParityTypes, PTL DEF ParitySpec, ImplementsVaultBook, Book!Spec

\* Every answer of either program tells what happened, also an error: it has
\* changed nothing.
THEOREM VaultsTell == ParitySpec => AnswerTells
<1> DEFINE Tells ==
      IF err' # "Ok" THEN UNCHANGED <<lamports, data>>
      ELSE /\ lamports' = [lamports EXCEPT ![ix'.accounts[1]] = @ - Put(ix'),
                                           ![ix'.accounts[2]] = @ + Put(ix')]
           /\ data' = IF ix'.op = "counter_access"
                        THEN [data EXCEPT ![ix'.accounts[2]].counter = @ + 1] ELSE data
<1>1. TypeOK /\ [ParityNext]_<<vars, program>> => [Tells]_vars
  <2> SUFFICES ASSUME TypeOK, ParityNext PROVE Tells
    BY DEF vars
  <2>1. PICK i \in Instructions : Settle(i, Result(i))
    BY StepSettles
  <2>2. Legal(i, Result(i))
    BY ResultLegal
  <2> QED
    BY <2>1, <2>2, LegalTells
<1> QED
  BY <1>1, ParityTypes, PTL DEF ParitySpec, AnswerTells

\* A vault program of either framework passes every case of the bench, on
\* accounts as the bench makes them, whatever the balances and the history.
THEOREM VaultsPassBench == ParitySpec => BenchCasesPass
<1> DEFINE Cases ==
      Fixture =>
        /\ run_deposit_case /\ run_withdraw_case /\ run_unsigned_withdraw_rejection
        /\ run_authorize_case /\ run_authorize_missing_signature_case
        /\ run_counter_access_case
<1>1. TypeOK /\ [ParityNext]_<<vars, program>> => [Cases]_vars
  <2> SUFFICES ASSUME TypeOK, ParityNext, Fixture
               PROVE  /\ run_deposit_case /\ run_withdraw_case /\ run_unsigned_withdraw_rejection
                      /\ run_authorize_case /\ run_authorize_missing_signature_case
                      /\ run_counter_access_case
    BY DEF vars
  <2>1. PICK i \in Instructions : Settle(i, Result(i))
    BY StepSettles
  <2> DEFINE u == i.accounts[1]
             v == i.accounts[2]
             o == Result(i)
  <2>2. ix' = i /\ err' = o.err /\ lamports' = o.lamports /\ data' = o.data
    BY <2>1 DEF Settle
  <2>3. /\ Len(i.accounts) >= 2 /\ u \in Users \ Owned /\ v = Pda[u] /\ v \in Owned
        /\ {u, v} \subseteq i.writable
    BY <2>2 DEF Fixture, user, vault
  <2>4. /\ u \in Accounts /\ v \in Accounts /\ u # v /\ IsVaultOf(u, v)
        /\ lamports \in [Accounts -> U64] /\ lamports[u] \in Int /\ lamports[v] \in Int
    BY <2>3, VaultApart, StateFields, MaxU64Assumption DEF IsVaultOf
  <2>5. Named(i) <=> u \in i.signers
    BY <2>3, <2>4 DEF Named
  <2>6. o.err = "Ok" <=> Passes(i)
    BY <2>3, ResultAccepts
  <2>7. Legal(i, o)
    BY ResultLegal
  <2>8. ASSUME o.err # "Ok" PROVE lamports'[u] = lamports[u] /\ lamports'[v] = lamports[v]
    BY <2>2, <2>7, <2>8 DEF Legal
  <2>9. ASSUME o.err = "Ok"
        PROVE  lamports'[u] = lamports[u] - Put(i) /\ lamports'[v] = lamports[v] + Put(i)
    BY <2>2, <2>4, <2>7, <2>9 DEF Legal, LegalOk
  <2>10. ASSUME u \notin i.signers PROVE o.err # "Ok"
    BY <2>5, <2>6, <2>10 DEF Passes
  <2>11. run_deposit_case
    <3> SUFFICES ASSUME i.op = "deposit", u \in i.signers, Len(i.accounts) = 3,
                        i.accounts[3] = SystemId,
                        i.amount \in 0 .. lamports[u], lamports[v] + i.amount <= MaxU64
                 PROVE  /\ o.err = "Ok" /\ lamports'[u] = lamports[u] - i.amount
                        /\ lamports'[v] = lamports[v] + i.amount
      BY <2>2 DEF run_deposit_case, user, vault, amount, Balances
    <3>1. i.amount \in Int /\ ~(i.amount > lamports[u]) /\ i.amount # Short
          /\ ~(lamports[v] + i.amount > MaxU64)
      BY <2>4, MaxU64Assumption DEF Short
    <3>2. SystemTransfer(u, v, i.amount, i).err = "Ok"
      BY <2>3, <3>1, VaultAssumption DEF SystemTransfer, Outcome
    <3>3. Passes(i)
      BY <2>5, <3>1, <3>2 DEF Passes
    <3> QED
      BY <2>6, <2>9, <3>3 DEF Put
  <2>12. run_withdraw_case
    <3> SUFFICES ASSUME i.op = "withdraw", u \in i.signers,
                        i.amount \in 0 .. lamports[v], lamports[u] + i.amount <= MaxU64
                 PROVE  /\ o.err = "Ok" /\ lamports'[u] = lamports[u] + i.amount
                        /\ lamports'[v] = lamports[v] - i.amount
      BY <2>2 DEF run_withdraw_case, user, vault, amount, Balances
    <3>1. i.amount \in Int /\ ~(i.amount > lamports[v]) /\ i.amount # Short
          /\ ~(lamports[u] + i.amount > MaxU64)
      BY <2>4, MaxU64Assumption DEF Short
    <3>2. Passes(i)
      BY <2>5, <3>1 DEF Passes
    <3>3. lamports'[u] = lamports[u] - (-i.amount) /\ lamports'[v] = lamports[v] + (-i.amount)
      BY <2>6, <2>9, <3>2 DEF Put
    <3>4. \A x \in Int : x - (-i.amount) = x + i.amount /\ x + (-i.amount) = x - i.amount
      BY <3>1
    <3> QED
      BY <2>4, <2>6, <3>2, <3>3, <3>4
  <2>13. run_unsigned_withdraw_rejection
    BY <2>2, <2>8, <2>10 DEF run_unsigned_withdraw_rejection, user, vault, Balances
  <2>14. ASSUME i.op \in {"authorize", "counter_access"}, o.err = "Ok"
         PROVE  lamports'[u] = lamports[u] /\ lamports'[v] = lamports[v]
    BY <2>4, <2>9, <2>14 DEF Put
  <2>15. run_authorize_case
    <3> SUFFICES ASSUME i.op = "authorize", u \in i.signers
                 PROVE  o.err = "Ok" /\ lamports'[u] = lamports[u] /\ lamports'[v] = lamports[v]
      BY <2>2 DEF run_authorize_case, user, vault, Balances
    <3> QED
      BY <2>5, <2>6, <2>14 DEF Passes
  <2>16. run_authorize_missing_signature_case
    BY <2>2, <2>8, <2>10 DEF run_authorize_missing_signature_case, user, vault, Balances
  <2>17. run_counter_access_case
    <3> SUFFICES ASSUME i.op = "counter_access", u \in i.signers, v \in Sized,
                        data[v].authority = u, data[v].counter < MaxU64
                 PROVE  /\ o.err = "Ok" /\ lamports'[u] = lamports[u] /\ lamports'[v] = lamports[v]
                        /\ data'[v].counter = data[v].counter + 1
      BY <2>2 DEF run_counter_access_case, user, vault, Balances
    <3>1. data \in [Sized -> CounterState] /\ data[v].counter \in Int
      BY StateFields, MaxU64Assumption DEF CounterState
    <3>2. ~(data[v].counter + 1 > MaxU64)
      BY <3>1, MaxU64Assumption
    <3>3. Passes(i)
      BY <2>5, <3>2 DEF Passes
    <3>4. data' = [data EXCEPT ![v].counter = @ + 1]
      BY <2>2, <2>6, <2>7, <3>3 DEF Legal, LegalOk
    <3>5. data'[v].counter = data[v].counter + 1
      BY <3>1, <3>4 DEF CounterState
    <3> QED
      BY <2>6, <2>14, <3>3, <3>5
  <2> QED
    BY <2>11, <2>12, <2>13, <2>15, <2>16, <2>17
<1> QED
  BY <1>1, ParityTypes, PTL DEF ParitySpec, BenchCasesPass

\* The two programs do the same with every instruction, but for a withdrawal of
\* nothing from a vault that is not the program's.
THEOREM VaultsAgree == ParitySpec => AgreeUnlessNothingIsWithdrawn
<1> DEFINE Same ==
      \/ Agree(ix')
      \/ ix'.op = "withdraw" /\ ix'.amount = 0 /\ ix'.accounts[2] \notin Owned
<1>1. ASSUME TypeOK, NEW i \in Instructions,
             i.op = "withdraw" => i.amount # 0 \/ i.accounts[2] \in Owned
      PROVE  Agree(i)
  <2> DEFINE p == Pinocchio!process_instruction(i)
             a == Anchor!anchor_vault(i)
  <2>1. p.err = "Ok" <=> a.err = "Ok"
    BY <1>1, PinocchioAccepts, AnchorAccepts
  <2>2. Legal(i, p) /\ Legal(i, a)
    BY <1>1, PinocchioRunLegal, AnchorRunLegal
  <2> HIDE DEF p, a
  <2>3. p.lamports = a.lamports /\ p.data = a.data
    BY <2>1, <2>2 DEF Legal, LegalOk
  <2> QED
    BY <2>1, <2>3 DEF Agree, p, a
<1>2. TypeOK /\ [ParityNext]_<<vars, program>> => [Same]_vars
  <2> SUFFICES ASSUME TypeOK, ParityNext PROVE Same
    BY DEF vars
  <2>1. PICK i \in Instructions : Settle(i, Result(i))
    BY StepSettles
  <2>2. ix' = i
    BY <2>1 DEF Settle
  <2> QED
    BY <1>1, <2>2
<1> QED
  BY <1>2, ParityTypes, PTL DEF ParitySpec, AgreeUnlessNothingIsWithdrawn

(***************************************************************************)
(* Each program by itself, under its own specification.                    *)
(***************************************************************************)

\* What a legal outcome comes to, in one place.
LEMMA LegalStep ==
  ASSUME TypeOK, NEW i \in Instructions, NEW o, Legal(i, o), Settle(i, o)
  PROVE  /\ TypeOK'
         /\ [Book!Next]_(Book!vars)
         /\ IF err' # "Ok" THEN UNCHANGED <<lamports, data>>
            ELSE /\ lamports' = [lamports EXCEPT ![ix'.accounts[1]] = @ - Put(ix'),
                                                 ![ix'.accounts[2]] = @ + Put(ix')]
                 /\ data' = IF ix'.op = "counter_access"
                              THEN [data EXCEPT ![ix'.accounts[2]].counter = @ + 1] ELSE data
<1>1. TypeOK' /\ Book!Next
  BY LegalTypes, LegalBook
<1>2. IF err' # "Ok" THEN UNCHANGED <<lamports, data>>
      ELSE /\ lamports' = [lamports EXCEPT ![ix'.accounts[1]] = @ - Put(ix'),
                                           ![ix'.accounts[2]] = @ + Put(ix')]
           /\ data' = IF ix'.op = "counter_access"
                        THEN [data EXCEPT ![ix'.accounts[2]].counter = @ + 1] ELSE data
  BY LegalTells
<1> QED
  BY <1>1, <1>2

\* The Pinocchio vault alone: types, the book, and answers that tell.
THEOREM PinocchioKeepsBook == Pinocchio!Spec => []TypeOK /\ ImplementsVaultBook /\ AnswerTells
<1> DEFINE Tells ==
      IF err' # "Ok" THEN UNCHANGED <<lamports, data>>
      ELSE /\ lamports' = [lamports EXCEPT ![ix'.accounts[1]] = @ - Put(ix'),
                                           ![ix'.accounts[2]] = @ + Put(ix')]
           /\ data' = IF ix'.op = "counter_access"
                        THEN [data EXCEPT ![ix'.accounts[2]].counter = @ + 1] ELSE data
<1>1. Pinocchio!Init => TypeOK /\ Book!Init
  BY InitTypes, InitBook DEF Pinocchio!Init, Init
<1>2. TypeOK /\ [Pinocchio!Next]_(Pinocchio!vars) =>
        TypeOK' /\ [Book!Next]_(Book!vars) /\ [Tells]_vars
  <2> SUFFICES ASSUME TypeOK, [Pinocchio!Next]_(Pinocchio!vars)
               PROVE  TypeOK' /\ [Book!Next]_(Book!vars) /\ [Tells]_vars
    OBVIOUS
  <2>1. CASE UNCHANGED Pinocchio!vars
    BY <2>1 DEF Pinocchio!vars, vars, TypeOK, Book!vars
  <2>2. ASSUME NEW i \in Instructions, Pinocchio!Run(i)
        PROVE  TypeOK' /\ [Book!Next]_(Book!vars) /\ Tells
    <3>1. Settle(i, Pinocchio!process_instruction(i))
      BY <2>2 DEF Pinocchio!Run, Pinocchio!Settle, Settle
    <3> QED
      BY <3>1, PinocchioRunLegal, LegalStep
  <2> QED
    BY <2>1, <2>2 DEF Pinocchio!Next
<1> QED
  BY <1>1, <1>2, PTL DEF Pinocchio!Spec, ImplementsVaultBook, Book!Spec, AnswerTells

\* The Anchor vault alone: the same three.
THEOREM AnchorKeepsBook == Anchor!Spec => []TypeOK /\ ImplementsVaultBook /\ AnswerTells
<1> DEFINE Tells ==
      IF err' # "Ok" THEN UNCHANGED <<lamports, data>>
      ELSE /\ lamports' = [lamports EXCEPT ![ix'.accounts[1]] = @ - Put(ix'),
                                           ![ix'.accounts[2]] = @ + Put(ix')]
           /\ data' = IF ix'.op = "counter_access"
                        THEN [data EXCEPT ![ix'.accounts[2]].counter = @ + 1] ELSE data
<1>1. Anchor!Init => TypeOK /\ Book!Init
  BY InitTypes, InitBook DEF Anchor!Init, Init
<1>2. TypeOK /\ [Anchor!Next]_(Anchor!vars) =>
        TypeOK' /\ [Book!Next]_(Book!vars) /\ [Tells]_vars
  <2> SUFFICES ASSUME TypeOK, [Anchor!Next]_(Anchor!vars)
               PROVE  TypeOK' /\ [Book!Next]_(Book!vars) /\ [Tells]_vars
    OBVIOUS
  <2>1. CASE UNCHANGED Anchor!vars
    BY <2>1 DEF Anchor!vars, vars, TypeOK, Book!vars
  <2>2. ASSUME NEW i \in Instructions, Anchor!Run(i)
        PROVE  TypeOK' /\ [Book!Next]_(Book!vars) /\ Tells
    <3>1. Settle(i, Anchor!anchor_vault(i))
      BY <2>2 DEF Anchor!Run, Anchor!Settle, Settle
    <3> QED
      BY <3>1, AnchorRunLegal, LegalStep
  <2> QED
    BY <2>1, <2>2 DEF Anchor!Next
<1> QED
  BY <1>1, <1>2, PTL DEF Anchor!Spec, ImplementsVaultBook, Book!Spec, AnswerTells
=============================================================================
