--------------------------------- MODULE Svm ---------------------------------
(***************************************************************************)
(* The part of the Solana runtime the programs of this repository lean on. *)
(* None of it is in the repository: it is modelled from how the programs   *)
(* and the Mollusk benches use it.                                         *)
(*                                                                         *)
(* A program runs on its own copy of the account balances.  When it        *)
(* returns an error the copy is thrown away.  When it returns Ok the       *)
(* runtime still has to accept the copy: only an account owned by the      *)
(* executing program may end with fewer lamports than it had, and the      *)
(* lamports of the accounts the instruction names must add up to what they *)
(* added up to before.                                                     *)
(***************************************************************************)
EXTENDS Integers

CONSTANTS Accounts,   \* every account that holds lamports, program accounts too
          MaxU64      \* the largest lamport amount (u64::MAX, made small for TLC)

ASSUME MaxU64Assumption == MaxU64 \in Nat

U64 == 0 .. MaxU64

Ledgers == [Accounts -> U64]

\* A program's answer: its error ("Ok" when there is none) and its copy.
Answer(err, bal) == [err |-> err, bal |-> bal]

\* An account that the executing program does not own has lost lamports.
SpendsForeign(owned, pre, post, accts) ==
  \E a \in accts : a \notin owned /\ post[a] < pre[a]

\* An instruction names two accounts, which may be one and the same; the
\* runtime counts an account named twice once.
PairTotal(bal, a, b) == IF a = b THEN bal[a] ELSE bal[a] + bal[b]

\* What the caller sees of an invocation on the accounts a and b.
Accept(owned, pre, answer, a, b) ==
  IF answer.err # "Ok" THEN Answer(answer.err, pre)
  ELSE IF SpendsForeign(owned, pre, answer.bal, {a, b})
    THEN Answer("ExternalAccountLamportSpend", pre)
  ELSE IF PairTotal(answer.bal, a, b) # PairTotal(pre, a, b)
    THEN Answer("UnbalancedInstruction", pre)
  ELSE answer
=============================================================================
