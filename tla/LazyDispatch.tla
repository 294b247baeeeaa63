---------------------------- MODULE LazyDispatch -----------------------------
(***************************************************************************)
(* The lazy build: process_lazy asks a LazyContext for one account after   *)
(* the other, from the front, and any of these calls may end the           *)
(* instruction.  One action per call.                                      *)
(***************************************************************************)
EXTENDS DispatchVault

VARIABLES
  counters,  \* committed counters
  ix,        \* the running instruction
  err,       \* what the last one returned, "Pending" while one runs
  pc,        \* "idle", "entry" or "resolve"
  call,      \* calls of the context made so far
  cursor,    \* accounts the context has passed
  args       \* the accounts resolved so far

vars == <<counters, ix, err, pc, call, cursor, args>>

Init ==
  /\ counters \in InitialCounters /\ ix = NoIx /\ err = "Ok"
  /\ pc = "idle" /\ call = 0 /\ cursor = 0 /\ args = <<>>

Submit(i) ==
  /\ pc = "idle"
  /\ ix' = i /\ pc' = "entry" /\ err' = "Pending"
  /\ UNCHANGED <<counters, call, cursor, args>>

Return(answer) ==
  /\ err' = answer /\ ix' = NoIx /\ pc' = "idle"
  /\ call' = 0 /\ cursor' = 0 /\ args' = <<>>

\* The calls each arm makes, in order.
Calls_next_for_skip(disc) ==
  CASE disc = 0 -> <<>>
    [] disc \in {1, 2, 3, 5} -> <<"next", "next">>
    [] disc = 4 -> <<"next", "next", "next">>
    [] disc \in {6, 7} -> [k \in 1 .. 8 |-> "next"]
Calls_without_skip(disc) ==
  CASE disc = 0 -> <<>>
    [] disc = 1 -> <<"next">>
    [] disc \in {2, 3, 5} -> <<"next", "next">>
    [] disc = 4 -> <<"next", "next", "next">>
    [] disc \in {6, 7} -> [k \in 1 .. 8 |-> "next"]
Calls(disc) ==
  CASE disc = 0 -> <<>>
    [] disc = 1 -> <<"skip", "next">>
    [] disc \in {2, 3, 5} -> <<"next", "next">>
    [] disc = 4 -> <<"next", "next", "next">>
    [] disc \in {6, 7} -> [k \in 1 .. 8 |-> "next"]

Dispatch ==
  /\ pc = "entry"
  /\ IF ix.disc \notin Discs THEN Return("InvalidInstructionData") /\ UNCHANGED counters
     ELSE pc' = "resolve" /\ UNCHANGED <<counters, ix, err, call, cursor, args>>

Calling(what) == pc = "resolve" /\ call < Len(Calls(ix.disc)) /\ Calls(ix.disc)[call + 1] = what

\* The context has no account left.
Exhausted == cursor >= Len(ix.accounts)

RunsOut == Exhausted /\ Return("NotEnoughAccountKeys") /\ UNCHANGED counters

SkipAccount ==
  /\ Calling("skip")
  /\ \/ RunsOut
     \/ /\ ~Exhausted
        /\ call' = call + 1 /\ cursor' = cursor + 1
        /\ UNCHANGED <<counters, ix, err, pc, args>>

NextAccount_peeking ==
  /\ Calling("next")
  /\ \/ RunsOut
     \/ /\ ~Exhausted
        /\ call' = call + 1 /\ cursor' = cursor
        /\ args' = Append(args, ix.accounts[cursor + 1])
        /\ UNCHANGED <<counters, ix, err, pc>>
NextAccount ==
  /\ Calling("next")
  /\ \/ RunsOut
     \/ /\ ~Exhausted
        /\ call' = call + 1 /\ cursor' = cursor + 1
        /\ args' = Append(args, ix.accounts[cursor + 1])
        /\ UNCHANGED <<counters, ix, err, pc>>

Handle ==
  /\ pc = "resolve" /\ call = Len(Calls(ix.disc))
  /\ LET o == handle(ix, counters, args) IN Return(o.err) /\ counters' = o.counters

LazyStep == Dispatch \/ SkipAccount \/ NextAccount \/ Handle

Next == (\E i \in Instructions : Submit(i)) \/ LazyStep

\* Only what an instruction may do is specified.  That it comes to an end needs no
\* property: no arm of process_lazy loops.
Spec == Init /\ [][Next]_vars
-----------------------------------------------------------------------------

\* Type invariant: counters fit a u64, and the context never passes the end of
\* the account list.
TypeOK ==
  /\ counters \in Counters
  /\ ix \in InstructionType \cup {NoIx}
  /\ pc \in {"idle", "entry", "resolve"}
  /\ pc = "idle" <=> ix = NoIx
  /\ pc = "idle" <=> err # "Pending"
  /\ args \in Seq(Accounts)
  /\ pc = "resolve" =>
       ix.disc \in Discs /\ call \in 0 .. Len(Calls(ix.disc)) /\ cursor \in 0 .. Len(ix.accounts)

\* The two builds are one program: every instruction has the same answer and
\* the same effect whether its accounts are parsed up front or on demand, with
\* too few accounts, too many, or the same account in several places.
Eager == INSTANCE EagerDispatch
ImplementsEager == Eager!Spec

\* The crate's instruction map: how many accounts each instruction touches.
Touched(disc) ==
  CASE disc = 0 -> 0 [] disc = 1 -> 1 [] disc \in {2, 3, 5} -> 2
    [] disc = 4 -> 3 [] disc \in {6, 7} -> 8

\* The point of the lazy build: whether an instruction ends well or not, it has
\* not resolved an account more than the instruction map says it touches.
ResolvesOnlyWhatItTouches == pc = "resolve" => Len(args) <= Touched(ix.disc)

\* The inductive invariant: at every call the context has passed one account for
\* each call, and what is resolved is what the accounts passed have in the
\* places the arm's handler will read.
Resolved ==
  IF pc = "resolve"
    THEN /\ cursor = call
         /\ Len(args) = IF ix.disc # 1 THEN call ELSE IF call = 2 THEN 1 ELSE 0
         /\ \A k \in 1 .. Len(args) : args[k] = ix.accounts[IF ix.disc = 1 THEN k + 1 ELSE k]
    ELSE call = 0 /\ cursor = 0 /\ args = <<>>

LazyInv == TypeOK /\ Resolved

\* The fixture of lazy-dispatch-bench: the user signs, the vault is writable and
\* the program's, and all eight accounts are there.
Fixture(i) ==
  /\ i.disc \in Discs /\ Len(i.accounts) = 8
  /\ i.accounts[1] \in i.signers
  /\ i.accounts[2] \in Sized \cap i.writable

\* run_case of lazy-dispatch-bench, for whatever counter the history has led to:
\* every instruction succeeds, and counter alone writes, one up.  The counter of
\* the bench's fixture is zero; one at u64::MAX has nowhere to go.
BenchCasesPass ==
  [][err = "Pending" /\ err' # "Pending" /\ Fixture(ix) =>
       LET vault == ix.accounts[2] IN
       IF ix.disc = 3 /\ counters[vault] = MaxU64
         THEN err' = "ArithmeticOverflow" /\ counters' = counters
       ELSE /\ err' = "Ok"
            /\ counters' = IF ix.disc = 3 THEN [counters EXCEPT ![vault] = @ + 1] ELSE counters]_vars
=============================================================================
