------------------------------ MODULE VaultBook ------------------------------
(***************************************************************************)
(* What a parity vault promises its users, whatever framework it is        *)
(* written in: every user has a wallet and savings, lamports move only     *)
(* between the two and only when that user signed, and a user's counter    *)
(* advances by one at a time, only when the user it is kept for signed.    *)
(***************************************************************************)
EXTENDS Integers

CONSTANT Users

VARIABLES
  wallet, savings,   \* lamports of each user, and of each user's vault
  rest,              \* lamports of every other account
  keeper, count,     \* authority and counter stored in each user's vault
  signed             \* who signed the last instruction

vars == <<wallet, savings, rest, keeper, count, signed>>

Init ==
  /\ wallet \in [Users -> Nat] /\ savings \in [Users -> Nat]
  /\ count \in [Users -> Nat]
  /\ signed = {}

\* A deposit (k > 0) or a withdrawal (k < 0) of the user u.
Move(u) ==
  /\ \E k \in -savings[u] .. wallet[u] :
       /\ wallet' = [wallet EXCEPT ![u] = @ - k]
       /\ savings' = [savings EXCEPT ![u] = @ + k]
  /\ UNCHANGED count

Count(u) ==
  /\ keeper[u] = u
  /\ count' = [count EXCEPT ![u] = @ + 1]
  /\ UNCHANGED <<wallet, savings>>

Refuse == UNCHANGED <<wallet, savings, count>>

Next ==
  /\ signed' \subseteq Users
  /\ Refuse \/ \E u \in signed' : Move(u) \/ Count(u)
  /\ UNCHANGED <<rest, keeper>>

Spec == Init /\ [][Next]_vars
=============================================================================
