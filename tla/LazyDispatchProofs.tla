-------------------------- MODULE LazyDispatchProofs -------------------------
(***************************************************************************)
(* The lazy build implements the eager one, for every list of accounts.    *)
(* LazyInv says what the context has resolved; a call that runs out of     *)
(* accounts then shows that the eager pattern fails too, and a handler     *)
(* that is reached reads in "args" what the eager build reads in its slice.*)
(***************************************************************************)
EXTENDS LazyDispatch, SequenceTheorems, TLAPS

\* Shape of an arm's calls: one skip at most, at the front of get_balance.
LEMMA CallsShape ==
  ASSUME NEW d \in Discs
  PROVE  /\ Len(Calls(d)) = Eager!Needed(d)
         /\ Eager!Needed(d) \in 0 .. 8
         /\ \A k \in 1 .. Len(Calls(d)) :
              Calls(d)[k] = IF d = 1 /\ k = 1 THEN "skip" ELSE "next"
         /\ d = 1 => Len(Calls(d)) = 2
  BY DEF Discs, Calls, Eager!Needed

\* The fields of a submitted instruction.
LEMMA IxFields ==
  ASSUME TypeOK, pc # "idle"
  PROVE  /\ ix \in InstructionType /\ ix # NoIx
         /\ ix.disc \in Int /\ ix.accounts \in Seq(Accounts)
         /\ ix.signers \subseteq Accounts /\ ix.writable \subseteq Accounts
  BY DEF TypeOK, InstructionType

\* A handler keeps counters counters, and never answers "Pending".
LEMMA HandleTypes ==
  ASSUME NEW i \in InstructionType, NEW c \in Counters, NEW a
  PROVE  /\ handle(i, c, a).counters \in Counters
         /\ handle(i, c, a).err # "Pending"
<1>1. handle_authorize(i, c, a[1], a[2]).counters \in Counters
      /\ handle_authorize(i, c, a[1], a[2]).err # "Pending"
  BY DEF handle_authorize, Outcome
<1>2. handle_counter(i, c, a[1], a[2]).counters \in Counters
      /\ handle_counter(i, c, a[1], a[2]).err # "Pending"
  <2>1. CASE a[1] \in i.signers /\ ~segment_mut_fails(i, a[2]) /\ ~(c[a[2]] + 1 > MaxU64)
    <3>1. a[2] \in Sized
      BY <2>1 DEF segment_mut_fails
    <3>2. c[a[2]] + 1 \in 0 .. MaxU64
      BY <2>1, <3>1, DispatchAssumption DEF Counters
    <3>3. [c EXCEPT ![a[2]] = @ + 1] \in Counters
      BY <3>1, <3>2 DEF Counters
    <3> QED
      BY <2>1, <3>3 DEF handle_counter, Outcome
  <2>2. CASE ~(a[1] \in i.signers /\ ~segment_mut_fails(i, a[2]) /\ ~(c[a[2]] + 1 > MaxU64))
    BY <2>2 DEF handle_counter, Outcome
  <2> QED
    BY <2>1, <2>2
<1> QED
  BY <1>1, <1>2 DEF handle, Outcome

-----------------------------------------------------------------------------
(***************************************************************************)
(* The invariant, action by action.                                        *)
(***************************************************************************)

LEMMA InitInv == Init => LazyInv
  BY DispatchAssumption DEF Init, LazyInv, TypeOK, Resolved

LEMMA SubmitInv ==
  ASSUME LazyInv, NEW i \in Instructions, Submit(i)
  PROVE  LazyInv'
  BY DispatchAssumption DEF LazyInv, TypeOK, Resolved, Submit

LEMMA ReturnInv ==
  ASSUME LazyInv, NEW answer, answer # "Pending", Return(answer), counters' \in Counters
  PROVE  LazyInv'
  BY DEF LazyInv, TypeOK, Resolved, Return

LEMMA DispatchInv ==
  ASSUME LazyInv, Dispatch
  PROVE  LazyInv'
<1>1. CASE ix.disc \notin Discs
  BY <1>1, ReturnInv DEF Dispatch, LazyInv, TypeOK
<1>2. CASE ix.disc \in Discs
  <2>1. 0 \in 0 .. Len(Calls(ix.disc)) /\ 0 \in 0 .. Len(ix.accounts)
    BY <1>2, CallsShape, IxFields DEF Dispatch, LazyInv
  <2>2. TypeOK'
    BY <1>2, <2>1 DEF Dispatch, LazyInv, TypeOK, Resolved
  <2>3. Resolved'
    BY <1>2 DEF Dispatch, LazyInv, TypeOK, Resolved
  <2> QED
    BY <2>2, <2>3 DEF LazyInv
<1> QED
  BY <1>1, <1>2

LEMMA SkipInv ==
  ASSUME LazyInv, SkipAccount
  PROVE  LazyInv'
<1>1. CASE RunsOut
  BY <1>1, ReturnInv DEF RunsOut, LazyInv, TypeOK
<1>2. CASE ~RunsOut
  <2>1. /\ pc = "resolve" /\ call < Len(Calls(ix.disc)) /\ Calls(ix.disc)[call + 1] = "skip"
        /\ ~(cursor >= Len(ix.accounts))
        /\ call' = call + 1 /\ cursor' = cursor + 1
        /\ UNCHANGED <<counters, ix, err, pc, args>>
    BY <1>2 DEF SkipAccount, Calling, Exhausted
  <2>2. ix.disc \in Discs /\ call \in 0 .. Len(Calls(ix.disc)) /\ cursor \in 0 .. Len(ix.accounts)
    BY <2>1 DEF LazyInv, TypeOK
  <2>3. ix.disc = 1 /\ call = 0
    BY <2>1, <2>2, CallsShape
  <2>4. ix.accounts \in Seq(Accounts)
    BY <2>1, IxFields DEF LazyInv
  <2>5. TypeOK'
    BY <2>1, <2>2, <2>4, CallsShape DEF LazyInv, TypeOK
  <2>6. Resolved'
    BY <2>1, <2>2, <2>3 DEF LazyInv, Resolved
  <2> QED
    BY <2>5, <2>6 DEF LazyInv
<1> QED
  BY <1>1, <1>2

LEMMA NextAccountInv ==
  ASSUME LazyInv, NextAccount
  PROVE  LazyInv'
<1>1. CASE RunsOut
  BY <1>1, ReturnInv DEF RunsOut, LazyInv, TypeOK
<1>2. CASE ~RunsOut
  <2>1. /\ pc = "resolve" /\ call < Len(Calls(ix.disc)) /\ Calls(ix.disc)[call + 1] = "next"
        /\ ~(cursor >= Len(ix.accounts))
        /\ call' = call + 1 /\ cursor' = cursor + 1
        /\ args' = Append(args, ix.accounts[cursor + 1])
        /\ UNCHANGED <<counters, ix, err, pc>>
    BY <1>2 DEF NextAccount, Calling, Exhausted
  <2>2. ix.disc \in Discs /\ call \in 0 .. Len(Calls(ix.disc)) /\ cursor \in 0 .. Len(ix.accounts)
    BY <2>1 DEF LazyInv, TypeOK
  <2>3. Len(Calls(ix.disc)) \in Nat /\ (ix.disc = 1 => call = 1)
    <3>1. /\ Len(Calls(ix.disc)) \in 0 .. 8 /\ (ix.disc = 1 => Len(Calls(ix.disc)) = 2)
          /\ \A k \in 1 .. Len(Calls(ix.disc)) :
               Calls(ix.disc)[k] = IF ix.disc = 1 /\ k = 1 THEN "skip" ELSE "next"
      BY <2>2, CallsShape
    <3>2. call \in Nat /\ call + 1 \in 1 .. Len(Calls(ix.disc))
      BY <2>1, <2>2, <3>1
    <3>3. ~(ix.disc = 1 /\ call + 1 = 1)
      BY <2>1, <3>1, <3>2
    <3> QED BY <2>1, <3>1, <3>2, <3>3
  <2>4. ix.accounts \in Seq(Accounts) /\ args \in Seq(Accounts)
    BY <2>1, IxFields DEF LazyInv, TypeOK
  <2>5. ix.accounts[cursor + 1] \in Accounts
    BY <2>1, <2>2, <2>4
  <2>6. TypeOK'
    BY <2>1, <2>2, <2>3, <2>4, <2>5 DEF LazyInv, TypeOK
  <2>7. /\ cursor = call
        /\ Len(args) = IF ix.disc # 1 THEN call ELSE IF call = 2 THEN 1 ELSE 0
        /\ \A k \in 1 .. Len(args) : args[k] = ix.accounts[IF ix.disc = 1 THEN k + 1 ELSE k]
    BY <2>1 DEF LazyInv, Resolved
  <2>8. Len(args') = Len(args) + 1
    BY <2>1, <2>4, <2>5
  <2>9. ASSUME NEW k \in 1 .. Len(args')
        PROVE  args'[k] = ix.accounts[IF ix.disc = 1 THEN k + 1 ELSE k]
    <3>1. CASE k \in 1 .. Len(args)
      BY <2>1, <2>4, <2>5, <2>7, <3>1
    <3>2. CASE k = Len(args) + 1
      BY <2>1, <2>2, <2>3, <2>4, <2>5, <2>7, <3>2
    <3> QED
      BY <2>4, <2>8, <3>1, <3>2
  <2>10. Resolved'
    BY <2>1, <2>2, <2>3, <2>7, <2>8, <2>9 DEF Resolved
  <2> QED
    BY <2>6, <2>10 DEF LazyInv
<1> QED
  BY <1>1, <1>2

LEMMA HandleInv ==
  ASSUME LazyInv, Handle
  PROVE  LazyInv'
<1>1. ix \in InstructionType /\ counters \in Counters
  BY IxFields DEF Handle, LazyInv, TypeOK
<1> QED
  BY <1>1, HandleTypes, ReturnInv DEF Handle

\* The invariant of the lazy build.
THEOREM LazyInvariant == Spec => []LazyInv
<1>1. LazyInv /\ [Next]_vars => LazyInv'
  <2> SUFFICES ASSUME LazyInv, [Next]_vars PROVE LazyInv'
    OBVIOUS
  <2>1. CASE UNCHANGED vars
    BY <2>1 DEF vars, LazyInv, TypeOK, Resolved
  <2> QED
    BY <2>1, SubmitInv, DispatchInv, SkipInv, NextAccountInv, HandleInv DEF Next, LazyStep
<1> QED
  BY <1>1, InitInv, PTL DEF Spec

\* Counters fit a u64, and the context stays within the account list.
THEOREM LazyTypes == Spec => []TypeOK
  BY LazyInvariant, PTL DEF LazyInv

\* The lazy build resolves no account more than the instruction map says.
THEOREM LazyResolvesLittle == Spec => []ResolvesOnlyWhatItTouches
<1>1. LazyInv => ResolvesOnlyWhatItTouches
  <2> SUFFICES ASSUME LazyInv, pc = "resolve" PROVE Len(args) <= Touched(ix.disc)
    BY DEF ResolvesOnlyWhatItTouches
  <2>1. ix.disc \in Discs /\ call \in 0 .. Len(Calls(ix.disc))
    BY DEF LazyInv, TypeOK
  <2>2. call <= Eager!Needed(ix.disc)
    BY <2>1, CallsShape
  <2>3. Len(args) = IF ix.disc # 1 THEN call ELSE IF call = 2 THEN 1 ELSE 0
    BY DEF LazyInv, Resolved
  <2> QED
    BY <2>1, <2>2, <2>3 DEF Touched, Eager!Needed, Discs
<1> QED
  BY <1>1, LazyInvariant, PTL

-----------------------------------------------------------------------------
(***************************************************************************)
(* Refinement.                                                             *)
(***************************************************************************)

\* Both builds call the same handlers.
LEMMA SameHandlers ==
  /\ Eager!Discs = Discs
  /\ \A e, c : Eager!Outcome(e, c) = Outcome(e, c)
  /\ \A i, c, a : Eager!handle(i, c, a) = handle(i, c, a)
<1>1. \A i, a : Eager!segment_mut_fails(i, a) = segment_mut_fails(i, a)
  BY DEF Eager!segment_mut_fails, segment_mut_fails
<1>2. \A i, c, user, vault : Eager!handle_authorize(i, c, user, vault) = handle_authorize(i, c, user, vault)
  BY DEF Eager!handle_authorize, handle_authorize, Eager!Outcome, Outcome
<1>3. \A i, c, user, vault : Eager!handle_counter(i, c, user, vault) = handle_counter(i, c, user, vault)
  BY <1>1 DEF Eager!handle_counter, handle_counter, Eager!Outcome, Outcome
<1> QED
  BY <1>2, <1>3 DEF Eager!handle, handle, Eager!Outcome, Outcome, Eager!Discs, Discs

\* The eager slice: the list itself, cut off after eight.
LEMMA ParsedSlice ==
  ASSUME NEW i \in InstructionType
  PROVE  /\ Len(Eager!parsed(i)) = IF Len(i.accounts) < 8 THEN Len(i.accounts) ELSE 8
         /\ \A k \in 1 .. Len(Eager!parsed(i)) : Eager!parsed(i)[k] = i.accounts[k]
<1> DEFINE n == IF Len(i.accounts) < 8 THEN Len(i.accounts) ELSE 8
<1>1. i.accounts \in Seq(Accounts)
  BY DEF InstructionType
<1>2. n \in Nat /\ \A k \in 1 .. n : i.accounts[k] \in Accounts
  BY <1>1
<1>3. /\ Len(SubSeq(i.accounts, 1, n)) = n
      /\ \A k \in 1 .. n : SubSeq(i.accounts, 1, n)[k] = i.accounts[k]
  <2> HIDE DEF n
  <2>1. 1 \in Int /\ n \in Int
    BY <1>2
  <2>2. /\ Len(SubSeq(i.accounts, 1, n)) = IF 1 <= n THEN n - 1 + 1 ELSE 0
        /\ \A k \in 1 .. n - 1 + 1 : SubSeq(i.accounts, 1, n)[k] = i.accounts[1 + k - 1]
    BY <1>2, <2>1, SubSeqProperties
  <2> QED
    BY <1>2, <2>2
<1> QED
  BY <1>3 DEF Eager!parsed

\* A call that finds no account: the eager pattern does not match either.
LEMMA RunsOutIsEager ==
  ASSUME LazyInv, pc = "resolve", call < Len(Calls(ix.disc)), RunsOut
  PROVE  Eager!Execute
<1>1. ix \in InstructionType /\ ix # NoIx /\ ix.disc \in Discs
  BY IxFields DEF LazyInv, TypeOK
<1>2. cursor = call /\ call \in 0 .. Len(Calls(ix.disc)) /\ cursor \in 0 .. Len(ix.accounts)
  BY DEF LazyInv, TypeOK, Resolved
<1>3. Len(ix.accounts) \in Nat
  BY <1>1 DEF InstructionType
<1>4. Len(Eager!parsed(ix)) < Eager!Needed(ix.disc)
  BY <1>1, <1>2, <1>3, CallsShape, ParsedSlice DEF RunsOut, Exhausted
<1>5. Eager!process_eager(ix, counters) = Outcome("NotEnoughAccountKeys", counters)
  BY <1>1, <1>4, SameHandlers DEF Eager!process_eager
<1> QED
  BY <1>1, <1>5 DEF Eager!Execute, RunsOut, Return, Outcome

\* A handler reads the same accounts in both builds.
LEMMA HandleIsEager ==
  ASSUME LazyInv, Handle
  PROVE  Eager!Execute
<1>1. /\ ix \in InstructionType /\ ix # NoIx /\ ix.disc \in Discs
      /\ pc = "resolve" /\ call = Len(Calls(ix.disc))
  BY IxFields DEF LazyInv, TypeOK, Handle
<1>2. /\ cursor = call /\ cursor \in 0 .. Len(ix.accounts)
      /\ Len(args) = IF ix.disc # 1 THEN call ELSE IF call = 2 THEN 1 ELSE 0
      /\ \A k \in 1 .. Len(args) : args[k] = ix.accounts[IF ix.disc = 1 THEN k + 1 ELSE k]
  BY <1>1 DEF LazyInv, TypeOK, Resolved
<1>3. Len(ix.accounts) \in Nat
  BY <1>1 DEF InstructionType
<1>4. call = Eager!Needed(ix.disc) /\ call \in 0 .. 8
  BY <1>1, CallsShape
<1>5. ~(Len(Eager!parsed(ix)) < Eager!Needed(ix.disc))
  <2>1. Len(Eager!parsed(ix)) = IF Len(ix.accounts) < 8 THEN Len(ix.accounts) ELSE 8
    BY <1>1, ParsedSlice
  <2>2. call <= Len(ix.accounts) /\ call <= 8 /\ call \in Int
    BY <1>2, <1>3, <1>4
  <2>3. call <= Len(Eager!parsed(ix)) /\ Len(Eager!parsed(ix)) \in Int
    BY <1>3, <2>1, <2>2
  <2> QED
    BY <1>4, <2>2, <2>3
<1>6. handle(ix, counters, args) = handle(ix, counters, Eager!parsed(ix))
  <2>1. CASE ix.disc \in {2, 3, 5}
    <3>1. Eager!Needed(ix.disc) = 2
      BY <2>1 DEF Eager!Needed
    <3>2. args[1] = ix.accounts[1] /\ args[2] = ix.accounts[2]
      BY <1>2, <1>4, <2>1, <3>1
    <3>3. Eager!parsed(ix)[1] = ix.accounts[1] /\ Eager!parsed(ix)[2] = ix.accounts[2]
      BY <1>1, <1>3, <1>5, <3>1, ParsedSlice
    <3> QED
      BY <3>2, <3>3 DEF handle
  <2>2. CASE ix.disc \notin {2, 3, 5}
    BY <2>2 DEF handle
  <2> QED
    BY <2>1, <2>2
<1>7. Eager!process_eager(ix, counters) = handle(ix, counters, args)
  BY <1>1, <1>5, <1>6, SameHandlers DEF Eager!process_eager
<1> QED
  BY <1>1, <1>7 DEF Eager!Execute, Handle, Return

\* Every step of the lazy build is one of the eager build, or none.
LEMMA StepIsEager ==
  ASSUME LazyInv, [Next]_vars
  PROVE  [Eager!Next]_(Eager!vars)
<1>1. CASE UNCHANGED vars
  BY <1>1 DEF vars, Eager!vars
<1>2. ASSUME NEW i \in Instructions, Submit(i) PROVE Eager!Next
  BY <1>2 DEF Submit, Eager!Next, Eager!Submit, LazyInv, TypeOK
<1>3. ASSUME Dispatch PROVE [Eager!Next]_(Eager!vars)
  <2>1. CASE ix.disc \notin Discs
    <3>1. Eager!process_eager(ix, counters) = Outcome("InvalidInstructionData", counters)
      BY <2>1, SameHandlers DEF Eager!process_eager
    <3>2. ix # NoIx
      BY <1>3, IxFields DEF Dispatch, LazyInv
    <3> QED
      BY <1>3, <2>1, <3>1, <3>2 DEF Dispatch, Return, Eager!Next, Eager!Execute, Outcome
  <2>2. CASE ix.disc \in Discs
    BY <1>3, <2>2 DEF Dispatch, Eager!vars
  <2> QED
    BY <2>1, <2>2
<1>4. ASSUME SkipAccount \/ NextAccount PROVE [Eager!Next]_(Eager!vars)
  <2>1. CASE RunsOut
    BY <1>4, <2>1, RunsOutIsEager DEF SkipAccount, NextAccount, Calling, Eager!Next
  <2>2. CASE ~RunsOut
    BY <1>4, <2>2 DEF SkipAccount, NextAccount, Eager!vars
  <2> QED
    BY <2>1, <2>2
<1>5. ASSUME Handle PROVE Eager!Next
  BY <1>5, HandleIsEager DEF Eager!Next
<1> QED
  BY <1>1, <1>2, <1>3, <1>4, <1>5 DEF Next, LazyStep

\* The two builds are one program.
THEOREM LazyIsEager == Spec => ImplementsEager
<1>1. Init => Eager!Init
  BY DEF Init, Eager!Init
<1> QED
  BY <1>1, StepIsEager, LazyInvariant, PTL DEF Spec, ImplementsEager, Eager!Spec
-----------------------------------------------------------------------------
(***************************************************************************)
(* The bench's cases.                                                      *)
(***************************************************************************)

\* What a case of the bench may leave.
CasePasses ==
  LET vault == ix.accounts[2] IN
  IF ix.disc = 3 /\ counters[vault] = MaxU64
    THEN err' = "ArithmeticOverflow" /\ counters' = counters
  ELSE /\ err' = "Ok"
       /\ counters' = IF ix.disc = 3 THEN [counters EXCEPT ![vault] = @ + 1] ELSE counters

\* With the fixture's accounts no call runs out, and the handler passes its checks.
LEMMA FixtureCasePasses ==
  ASSUME LazyInv, [Next]_vars, err = "Pending", err' # "Pending", Fixture(ix)
  PROVE  CasePasses
<1>1. /\ pc # "idle" /\ ix \in InstructionType /\ counters \in Counters
      /\ ix.disc \in Discs /\ Len(ix.accounts) = 8
  BY IxFields DEF LazyInv, TypeOK, Fixture
<1>2. ~RunsOut \/ ~(pc = "resolve" /\ call < Len(Calls(ix.disc)))
  BY <1>1, CallsShape DEF RunsOut, Exhausted, LazyInv, TypeOK, Resolved
<1>3. Handle
  BY <1>1, <1>2
  DEF Next, LazyStep, Submit, Dispatch, SkipAccount, NextAccount, Calling, vars
<1>4. /\ err' = handle(ix, counters, args).err
      /\ counters' = handle(ix, counters, args).counters
  BY <1>3 DEF Handle, Return
<1>5. CASE ix.disc \in {2, 3, 5}
  <2>1. Len(Calls(ix.disc)) = 2
    BY <1>5, <1>1, CallsShape DEF Eager!Needed
  <2>2. args[1] = ix.accounts[1] /\ args[2] = ix.accounts[2]
    BY <1>3, <1>5, <2>1 DEF Handle, LazyInv, Resolved
  <2>3. /\ args[1] \in ix.signers /\ args[2] \in ix.writable
        /\ ~segment_mut_fails(ix, args[2]) /\ counters[args[2]] \in 0 .. MaxU64
    BY <1>1, <2>2 DEF Fixture, segment_mut_fails, Counters
  <2>4. ix.disc = 3 => ix.disc \notin {2, 5}
    OBVIOUS
  <2>5. CASE ix.disc = 3
    BY <1>4, <2>2, <2>3, <2>5, DispatchAssumption
    DEF handle, handle_counter, Outcome, CasePasses
  <2>6. CASE ix.disc # 3
    BY <1>4, <1>5, <2>3, <2>6 DEF handle, handle_authorize, Outcome, CasePasses
  <2> QED BY <2>5, <2>6
<1>6. CASE ix.disc \notin {2, 3, 5}
  BY <1>4, <1>6 DEF handle, Outcome, CasePasses
<1> QED BY <1>5, <1>6

\* Every case of lazy-dispatch-bench passes its assertions, whatever counter the
\* history has led to.
THEOREM LazyPassesBench == Spec => BenchCasesPass
<1>1. LazyInv /\ [Next]_vars =>
        [err = "Pending" /\ err' # "Pending" /\ Fixture(ix) =>
           LET vault == ix.accounts[2] IN
           IF ix.disc = 3 /\ counters[vault] = MaxU64
             THEN err' = "ArithmeticOverflow" /\ counters' = counters
           ELSE /\ err' = "Ok"
                /\ counters' = IF ix.disc = 3 THEN [counters EXCEPT ![vault] = @ + 1]
                               ELSE counters]_vars
  BY FixtureCasePasses DEF CasePasses
<1> QED BY <1>1, LazyInvariant, PTL DEF Spec, BenchCasesPass
=============================================================================
