---------------------------- MODULE RouterParity -----------------------------
(***************************************************************************)
(* The Pinocchio and the Quasar router given the same instructions on the  *)
(* same accounts, as router-bench does with the rows it compares: each on  *)
(* a ledger of its own, one after the other for each instruction.          *)
(***************************************************************************)
EXTENDS Integers, Sequences

CONSTANTS Accounts, AmmOwned, AmmId, MaxU64, InitialLedgers, Instructions, NoIx

VARIABLES
  pledger, pwork, pix, ppc, phop, pin_amount, pbefore, presult,
  qledger, qwork, qix, qpc, qremaining, qnext, qhop, qin_amount, qbefore, qresult

Pinocchio == INSTANCE PinocchioRouter WITH
  ledger <- pledger, work <- pwork, ix <- pix, pc <- ppc,
  hop <- phop, in_amount <- pin_amount, before <- pbefore, result <- presult

Quasar == INSTANCE QuasarRouter WITH
  MOCK_AMM_PROGRAM_ID <- AmmId,
  ledger <- qledger, work <- qwork, ix <- qix, pc <- qpc, remaining <- qremaining,
  next_accounts <- qnext, hop <- qhop, in_amount <- qin_amount, before <- qbefore,
  result <- qresult

pvars == <<pledger, pwork, pix, ppc, phop, pin_amount, pbefore, presult>>
qvars == <<qledger, qwork, qix, qpc, qremaining, qnext, qhop, qin_amount, qbefore, qresult>>

ASSUME ParityAssumption ==
  /\ MaxU64 \in Nat /\ AmmOwned \subseteq Accounts /\ AmmId \in Accounts
  /\ InitialLedgers \subseteq Pinocchio!Ledgers
  /\ Instructions \subseteq Pinocchio!InstructionType
  /\ NoIx \notin Instructions

Init == Pinocchio!Init /\ Quasar!Init /\ pledger = qledger

\* One instruction goes to both.
SubmitBoth == \E i \in Instructions : Pinocchio!Submit(i) /\ Quasar!Submit(i)

RunPinocchio == Pinocchio!RouterStep /\ UNCHANGED qvars

RunQuasar == presult # "Pending" /\ Quasar!RouterStep /\ UNCHANGED pvars

Next == SubmitBoth \/ RunPinocchio \/ RunQuasar

Spec == Init /\ [][Next]_<<pvars, qvars>>

\* The Quasar router, which finds out about a missing account only at the hop
\* that needs it, implements the atomic route as well: a list that runs out
\* never ends the loop early, an Ok means that every hop has run with its own
\* program and pool, and an admitted route fails only as its hops do.
QuasarIsAtomic == Quasar!ImplementsAtomicRoute

BothReturned == presult # "Pending" /\ qresult # "Pending"

\* The two routers accept the same routes and leave the same balances behind,
\* whatever came before: the comparison compares like with like.
SameOutcome ==
  BothReturned => pledger = qledger /\ (presult = "Ok" <=> qresult = "Ok")

\* And the Quasar router's iterator stays in step with its hops all along.
ParityInv == Quasar!TypeOK /\ SameOutcome

\* With enough accounts for the hops they also report the same error, so the
\* order of their checks differs only where an account is missing.
SameErrorWhenAccountsSuffice ==
  [][~BothReturned /\ BothReturned'
       /\ Len(qix.accounts) >= 1 + 2 * qix.data.hop_count
       => presult' = qresult']_<<pvars, qvars>>

\* ROUTER_CONTRACT.md has every framework implement the contract with
\* "identical observable behavior": also the error of every instruction.
SameAnswer == BothReturned => presult = qresult
=============================================================================
