---------------------------- MODULE DispatchVault ----------------------------
(***************************************************************************)
(* The eight instructions of lazy-dispatch-vault/src/lib.rs, which is      *)
(* built twice: the eager build parses all accounts before it dispatches   *)
(* (EagerDispatch), the lazy build one by one as a handler calls for them  *)
(* (LazyDispatch).  The handlers are the same functions in both; here they *)
(* get the accounts in "args", whoever resolved them.                      *)
(*                                                                         *)
(* No handler moves lamports, so counters are all there is to keep.        *)
(***************************************************************************)
EXTENDS Integers, Sequences

CONSTANTS Accounts,
          Sized,           \* the program's accounts that hold a counter
          MaxU64,          \* the largest counter (u64::MAX, made small for TLC)
          InitialCounters, \* the counters a history may start from
          Instructions,    \* the instructions that may be submitted
          NoIx             \* "no instruction is running"

\* "disc" is the first byte of the data; Empty is no data at all.
Empty == -1
Discs == 0 .. 7

InstructionType == [disc : Int, accounts : Seq(Accounts),
                    signers : SUBSET Accounts, writable : SUBSET Accounts]

Counters == [Sized -> 0 .. MaxU64]

ASSUME DispatchAssumption ==
  /\ MaxU64 \in Nat /\ Sized \subseteq Accounts
  /\ InitialCounters \subseteq Counters
  /\ Instructions \subseteq InstructionType
  /\ NoIx \notin Instructions

\* What a handler returns and the counters it leaves.
Outcome(e, c) == [err |-> e, counters |-> c]

\* authorize and withdraw: two checks and no write.
handle_authorize_by_the_vault(i, c, user, vault) ==
  IF vault \notin i.signers THEN Outcome("MissingRequiredSignature", c)
  ELSE IF vault \notin i.writable THEN Outcome("Immutable", c)
  ELSE Outcome("Ok", c)
handle_authorize(i, c, user, vault) ==
  IF user \notin i.signers THEN Outcome("MissingRequiredSignature", c)
  ELSE IF vault \notin i.writable THEN Outcome("Immutable", c)
  ELSE Outcome("Ok", c)

\* A mutable view of eight bytes of an account: if the library does not refuse
\* a read-only, a foreign or a too short one, the runtime refuses the write.
segment_mut_fails(i, vault) == vault \notin Sized \cap i.writable

handle_counter(i, c, user, vault) ==
  IF user \notin i.signers THEN Outcome("MissingRequiredSignature", c)
  ELSE IF segment_mut_fails(i, vault) THEN Outcome("SegmentRefused", c)
  ELSE IF c[vault] + 1 > MaxU64 THEN Outcome("ArithmeticOverflow", c)
  ELSE Outcome("Ok", [c EXCEPT ![vault] = @ + 1])

\* The other handlers read lamports, or nothing, and return Ok.
handle(i, c, args) ==
  CASE i.disc \in {2, 5} -> handle_authorize(i, c, args[1], args[2])
    [] i.disc = 3 -> handle_counter(i, c, args[1], args[2])
    [] OTHER -> Outcome("Ok", c)
=============================================================================
