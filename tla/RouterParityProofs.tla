------------------------- MODULE RouterParityProofs --------------------------
(***************************************************************************)
(* The two routers answer alike, for every set of accounts, every          *)
(* u64::MAX and every set of instructions.  Both are held against the      *)
(* atomic route: what a route's hops, taken one after the other on the     *)
(* balances it starts from, come to.  RouterProofs has this of the         *)
(* Pinocchio router, which is through before the Quasar router starts: so  *)
(* what it has answered is kept as what the atomic route says of the       *)
(* Quasar router's balances and instruction, and the Quasar router then    *)
(* arrives at the same.                                                    *)
(***************************************************************************)
EXTENDS RouterParity, TLAPS

\* The Pinocchio router together with what is proved about it.
P == INSTANCE RouterProofs WITH
  ledger <- pledger, work <- pwork, ix <- pix, pc <- ppc,
  hop <- phop, in_amount <- pin_amount, before <- pbefore, result <- presult

-----------------------------------------------------------------------------
(***************************************************************************)
(* The Pinocchio router of the parity and the one the proofs are about are *)
(* the same router.                                                        *)
(***************************************************************************)

LEMMA RouterFacts ==
  /\ MaxU64 \in Nat
  /\ AmmOwned \subseteq Accounts
  /\ AmmId \in Accounts
  /\ InitialLedgers \subseteq P!Ledgers
  /\ Instructions \subseteq P!InstructionType
  /\ NoIx \notin Instructions
BY ParityAssumption
   DEF Pinocchio!Ledgers, P!Ledgers, Pinocchio!U64, P!U64, Pinocchio!Rates, P!Rates,
       Pinocchio!InstructionType, P!InstructionType, Pinocchio!RouteData, P!RouteData

LEMMA SameInit == Pinocchio!Init => P!Init
BY DEF Pinocchio!Init, P!Init

LEMMA SameSubmit ==
  ASSUME NEW i
  PROVE  Pinocchio!Submit(i) => P!Submit(i)
BY DEF Pinocchio!Submit, P!Submit

LEMMA SameStep == Pinocchio!RouterStep => P!RouterStep
<1> USE DEF Pinocchio!Abort, P!Abort, Pinocchio!Return, P!Return, Pinocchio!user, P!user,
            Pinocchio!pool, P!pool, Pinocchio!hop_rate, P!hop_rate
<1>1. Pinocchio!Enter => P!Enter
  BY DEF Pinocchio!Enter, P!Enter, Pinocchio!entry_error, P!entry_error,
         Pinocchio!parse_route_rejects, P!parse_route_rejects, Pinocchio!MAX_HOPS, P!MAX_HOPS,
         Pinocchio!EXECUTE_ROUTE_DISCRIMINATOR, P!EXECUTE_ROUTE_DISCRIMINATOR
<1>2. Pinocchio!CheckHop => P!CheckHop
  BY DEF Pinocchio!CheckHop, P!CheckHop, Pinocchio!hop_error, P!hop_error,
         Pinocchio!amm_program, P!amm_program
<1>3. Pinocchio!InvokeSwap => P!InvokeSwap
  <2>1. Pinocchio!invoke_swap = P!invoke_swap
    BY DEF Pinocchio!invoke_swap, P!invoke_swap, Pinocchio!Accept, P!Accept,
           Pinocchio!SpendsForeign, P!SpendsForeign, Pinocchio!PairTotal, P!PairTotal,
           Pinocchio!Answer, P!Answer, Pinocchio!encode_swap_data, P!encode_swap_data,
           Pinocchio!SWAP_DATA_LEN, P!SWAP_DATA_LEN,
           Pinocchio!SWAP_DISCRIMINATOR, P!SWAP_DISCRIMINATOR,
           Pinocchio!process_instruction_amm, P!process_instruction_amm,
           Pinocchio!parse_swap_rejects, P!parse_swap_rejects,
           Pinocchio!process_swap, P!process_swap, Pinocchio!swap_out, P!swap_out,
           Pinocchio!account_error, P!account_error, Pinocchio!balance_error, P!balance_error,
           Pinocchio!WriteBalances, P!WriteBalances
  <2> QED
    BY <2>1 DEF Pinocchio!InvokeSwap, P!InvokeSwap
<1>4. Pinocchio!Measure => P!Measure
  BY DEF Pinocchio!Measure, P!Measure, Pinocchio!measure_overflows, P!measure_overflows
<1>5. Pinocchio!Gate => P!Gate
  BY DEF Pinocchio!Gate, P!Gate
<1> QED
  BY <1>1, <1>2, <1>3, <1>4, <1>5 DEF Pinocchio!RouterStep, P!RouterStep

\* So its invariant is kept here too.
LEMMA RouteInvStep ==
  ASSUME P!RouteInv, [P!Next]_(P!vars)
  PROVE  P!RouteInv'
<1>1. [P!NextAnyVenue]_(P!vars)
  BY P!NextIsAnyVenue, RouterFacts
<1> QED
  BY <1>1, P!NextAnyVenueInv, RouterFacts

-----------------------------------------------------------------------------
(***************************************************************************)
(* The two answers.                                                        *)
(***************************************************************************)

\* The routers' answers differ in when they look at the account list: this one
\* only asks for the user before it goes through the hops.
QuasarAnswer(l, i) ==
  IF i.data.disc # 1 THEN "InvalidInstructionData"
  ELSE IF Len(i.accounts) < 1 THEN "NotEnoughAccountKeys"
  ELSE IF ~P!Atomic!WellFormed(i.data) THEN "InvalidInstructionData"
  ELSE IF P!Atomic!RouteUser(i) \notin i.writable THEN "InvalidAccountData"
  ELSE P!Atomic!HopsAnswer(l, i)

\* The two answers: both Ok or neither, and the same when accounts suffice.
LEMMA AnswersAgree ==
  ASSUME NEW l, NEW i \in P!InstructionType
  PROVE  /\ P!RouterAnswer(l, i) = "Ok" <=> QuasarAnswer(l, i) = "Ok"
         /\ P!Atomic!Enough(i) => P!RouterAnswer(l, i) = QuasarAnswer(l, i)
<1>1. Len(i.accounts) \in Nat /\ i.data.hop_count \in Nat
  BY DEF P!InstructionType, P!RouteData
<1>2. P!Atomic!WellFormed(i.data) => i.data.hop_count \in 1 .. 3
  BY <1>1 DEF P!Atomic!WellFormed
<1>3. P!Atomic!WellFormed(i.data) /\ ~P!Atomic!Enough(i) => P!Atomic!HopsAnswer(l, i) # "Ok"
  BY <1>1, <1>2, P!ShortListFails, RouterFacts
<1>4. P!Atomic!WellFormed(i.data) => i.data.disc = 1
  BY DEF P!Atomic!WellFormed
<1>5. P!Atomic!Enough(i) => ~(Len(i.accounts) < 1)
  BY <1>1 DEF P!Atomic!Enough
<1>6. i.data.disc # 1 => ~P!Atomic!WellFormed(i.data)
  BY DEF P!Atomic!WellFormed
<1>7. Len(i.accounts) < 1 => ~P!Atomic!Enough(i)
  BY <1>1 DEF P!Atomic!Enough
<1> QED
  BY <1>3, <1>4, <1>5, <1>6, <1>7 DEF P!RouterAnswer, QuasarAnswer

-----------------------------------------------------------------------------
(***************************************************************************)
(* The invariant.                                                          *)
(***************************************************************************)

QuasarLocations == {"idle", "dispatch", "next", "check", "cpi", "measure"}

QuasarControl ==
  /\ qpc \in QuasarLocations
  /\ qpc = "idle" <=> qix = NoIx
  /\ qpc = "idle" <=> qresult # "Pending"
  /\ qpc # "idle" => qix \in P!InstructionType
  /\ qpc \in {"idle", "dispatch"} => qwork = qledger /\ qhop = 0

QuasarTypes ==
  /\ qledger \in P!Ledgers /\ qwork \in P!Ledgers
  /\ qin_amount \in P!U64 /\ qbefore \in P!U64

QuasarInHop ==
  qpc \in {"next", "check", "cpi", "measure"} =>
    P!InHop(qpc, qledger, qix, qhop, qwork, qin_amount, qbefore)

\* What the iterator has yielded and has still to yield.
QuasarIterator ==
  /\ qpc = "next" => qremaining = SubSeq(qix.accounts, 2 + 2 * qhop, Len(qix.accounts))
  /\ qpc \in {"check", "cpi", "measure"} =>
       /\ qnext = <<qix.accounts[2 + 2 * qhop], P!Atomic!RoutePool(qix, qhop)>>
       /\ qremaining = SubSeq(qix.accounts, 4 + 2 * qhop, Len(qix.accounts))

\* How far the two are apart: first the Pinocchio router runs, on the same
\* instruction and balances; then its answer is the atomic route's; then both
\* have answered and have left the same.
InStep ==
  /\ ppc # "idle" => qpc = "dispatch" /\ qix = pix /\ qledger = pledger
  /\ ppc = "idle" /\ qpc # "idle" =>
       /\ presult = P!RouterAnswer(qledger, qix)
       /\ pledger = P!Left(qledger, qix, presult)
  /\ ppc = "idle" /\ qpc = "idle" => pledger = qledger /\ (presult = "Ok" <=> qresult = "Ok")

JointInv ==
  /\ P!RouteInv
  /\ P!RouterInHop
  /\ QuasarControl
  /\ QuasarTypes
  /\ QuasarInHop
  /\ QuasarIterator
  /\ InStep

-----------------------------------------------------------------------------
(***************************************************************************)
(* The CPI of a hop, as the Quasar router makes it.                        *)
(***************************************************************************)

LEMMA QuasarCpi ==
  ASSUME NEW s, qwork = s.bal, qin_amount = s.amount,
         qnext = <<qix.accounts[2 + 2 * qhop], P!Atomic!RoutePool(qix, qhop)>>
  PROVE  Quasar!cpi_call = P!Atomic!HopCpi(qix, s, qhop)
<1>1. Quasar!pool = P!Atomic!RoutePool(qix, qhop) /\ Quasar!user = P!Atomic!RouteUser(qix)
  BY DEF Quasar!pool, Quasar!user, P!Atomic!RouteUser
<1>2. ASSUME NEW b, NEW a1, NEW a2, NEW r, NEW n
      PROVE  Quasar!Accept(AmmOwned, b,
               Quasar!process_instruction_amm(b, <<a1, a2>>, {a1, a2},
                                              Quasar!encode_swap_data(r, n)), a1, a2)
             = P!Accept(AmmOwned, b,
               P!process_instruction_amm(b, <<a1, a2>>, {a1, a2}, P!encode_swap_data(r, n)), a1, a2)
  BY DEF Quasar!Accept, P!Accept,
         Quasar!SpendsForeign, P!SpendsForeign, Quasar!PairTotal, P!PairTotal,
         Quasar!Answer, P!Answer, Quasar!encode_swap_data, P!encode_swap_data,
         Quasar!SWAP_DATA_LEN, P!SWAP_DATA_LEN,
         Quasar!SWAP_DISCRIMINATOR, P!SWAP_DISCRIMINATOR,
         Quasar!process_instruction_amm, P!process_instruction_amm,
         Quasar!parse_swap_rejects, P!parse_swap_rejects,
         Quasar!process_swap, P!process_swap, Quasar!swap_out, P!swap_out,
         Quasar!account_error, P!account_error, Quasar!balance_error, P!balance_error,
         Quasar!WriteBalances, P!WriteBalances
<1> DEFINE a == P!Atomic!RoutePool(qix, qhop)
           u == P!Atomic!RouteUser(qix)
           rate == qix.data.rates[qhop + 1]
<1>3. P!Atomic!HopCpi(qix, s, qhop) =
        P!Accept(AmmOwned, s.bal,
          P!process_instruction_amm(s.bal, <<a, u>>, {a, u}, P!encode_swap_data(rate, s.amount)), a, u)
  BY P!SameVenue, RouterFacts
<1>4. Quasar!cpi_call =
        Quasar!Accept(AmmOwned, s.bal,
          Quasar!process_instruction_amm(s.bal, <<a, u>>, {a, u}, Quasar!encode_swap_data(rate, s.amount)),
          a, u)
  BY <1>1 DEF Quasar!cpi_call, Quasar!hop_rate
<1> HIDE DEF a, u, rate
<1> QED
  BY <1>2, <1>3, <1>4

\* A CPI ends with a proper error or with Ok, never unanswered.
LEMMA HopCpiAnswers ==
  ASSUME NEW i, NEW s, NEW h
  PROVE  P!Atomic!HopCpi(i, s, h).err # "Pending"
<1> DEFINE a == P!Atomic!RoutePool(i, h)
           u == P!Atomic!RouteUser(i)
           r == P!process_instruction_amm(s.bal, <<a, u>>, {a, u},
                                          P!encode_swap_data(i.data.rates[h + 1], s.amount))
<1>1. r.err # "Pending"
  BY DEF P!process_instruction_amm, P!process_swap, P!account_error, P!balance_error, P!Answer
<1>2. P!Accept(AmmOwned, s.bal, r, a, u).err # "Pending"
  <2> HIDE DEF r, a, u
  <2> QED
    BY <1>1 DEF P!Accept, P!Answer
<1> QED
  BY <1>2, P!SameVenue, RouterFacts

\* And an Ok leaves balances that are balances.
LEMMA HopCpiTyped ==
  ASSUME NEW i \in P!InstructionType, P!Atomic!WellFormed(i.data), NEW s, s.bal \in P!Ledgers,
         s.amount \in P!U64,
         NEW h \in 0 .. i.data.hop_count - 1, Len(i.accounts) >= 3 + 2 * h,
         P!Atomic!HopCpi(i, s, h).err = "Ok"
  PROVE  P!Atomic!HopCpi(i, s, h).bal \in P!Ledgers
<1> DEFINE a == P!Atomic!RoutePool(i, h)
           u == P!Atomic!RouteUser(i)
           rate == i.data.rates[h + 1]
           out == P!swap_out(s.amount, rate)
           r == P!process_instruction_amm(s.bal, <<a, u>>, {a, u}, P!encode_swap_data(rate, s.amount))
<1>1. i.data.hop_count \in 1 .. 3 /\ Len(i.data.rates) = i.data.hop_count
  BY DEF P!Atomic!WellFormed, P!InstructionType, P!RouteData
<1>2. i.accounts \in Seq(Accounts) /\ i.data.rates \in Seq(P!Rates)
  BY DEF P!InstructionType, P!RouteData
<1>3. a \in Accounts /\ u \in Accounts /\ rate \in P!Rates
  BY <1>1, <1>2 DEF P!Atomic!RoutePool, P!Atomic!RouteUser
<1> HIDE DEF a, u, rate, out
<1>4. \/ r.err \in P!SwapErrors /\ r.bal = s.bal
      \/ /\ r = P!Answer("Ok", P!WriteBalances(s.bal, a, u, s.amount, out))
         /\ s.bal[a] + s.amount - out \in P!U64
         /\ s.bal[u] - s.amount + out \in P!U64
  BY <1>3, P!SwapAnswer, RouterFacts DEF out
<1>5. P!Atomic!HopCpi(i, s, h) = P!Accept(AmmOwned, s.bal, r, a, u)
  BY P!SameVenue, RouterFacts DEF a, u, rate
<1>6. r.err = "Ok" /\ P!Atomic!HopCpi(i, s, h).bal = r.bal
  <2> HIDE DEF r
  <2> QED
    BY <1>5 DEF P!Accept, P!Answer
<1>7. r.bal = P!WriteBalances(s.bal, a, u, s.amount, out)
      /\ s.bal[a] + s.amount - out \in P!U64 /\ s.bal[u] - s.amount + out \in P!U64
  BY <1>4, <1>6 DEF P!SwapErrors, P!VenueErrors, P!Answer
<1> QED
  BY <1>3, <1>6, <1>7 DEF P!WriteBalances, P!Ledgers

-----------------------------------------------------------------------------
(***************************************************************************)
(* The Quasar router's steps.  The Pinocchio router has answered.          *)
(***************************************************************************)

QuasarRuns ==
  /\ JointInv /\ UNCHANGED pvars
  /\ ppc = "idle" /\ qpc # "idle"
  /\ qix \in P!InstructionType

\* Where a step of the Quasar router leads: on, with nothing to be seen of it,
\* or to the atomic route's answer and balances.
QuasarTells ==
  IF qpc' = "idle"
    THEN /\ qresult' = QuasarAnswer(qledger, qix) /\ qresult' # "Pending"
         /\ qledger' = P!Left(qledger, qix, qresult') /\ qix' = NoIx
    ELSE UNCHANGED <<qledger, qix, qresult>>

LEMMA PinocchioRests ==
  ASSUME QuasarRuns
  PROVE  P!RouteInv' /\ P!RouterInHop'
<1>1. UNCHANGED P!vars
  BY DEF QuasarRuns, pvars, P!vars
<1> QED
  BY <1>1, P!StutterInv, RouterFacts DEF QuasarRuns, JointInv, pvars, P!RouterInHop

LEMMA QuasarGoesOn ==
  ASSUME QuasarRuns, UNCHANGED <<qledger, qix, qresult>>,
         qpc' \in {"next", "check", "cpi", "measure"},
         QuasarInHop', QuasarIterator',
         qwork' \in P!Ledgers, qin_amount' \in P!U64, qbefore' \in P!U64
  PROVE  JointInv' /\ QuasarTells
<1>1. QuasarControl' /\ QuasarTypes'
  BY DEF QuasarRuns, JointInv, QuasarControl, QuasarTypes, QuasarLocations, P!Ledgers, P!U64
<1>2. InStep'
  BY DEF QuasarRuns, JointInv, pvars, InStep
<1> QED
  BY <1>1, <1>2, PinocchioRests DEF JointInv, QuasarTells

LEMMA QuasarReturns ==
  ASSUME QuasarRuns, NEW answer, Quasar!Return(answer), answer # "Pending",
         answer = QuasarAnswer(qledger, qix),
         qledger' = P!Left(qledger, qix, answer), qwork' = qledger'
  PROVE  JointInv' /\ QuasarTells
<1>1. /\ presult = P!RouterAnswer(qledger, qix)
      /\ pledger = P!Left(qledger, qix, presult)
      /\ pledger' = pledger /\ presult' = presult /\ ppc' = "idle"
  BY DEF QuasarRuns, JointInv, InStep, pvars
<1>2. presult = "Ok" <=> answer = "Ok"
  BY <1>1, AnswersAgree DEF QuasarRuns
<1>3. qledger' = pledger
  BY <1>1, <1>2 DEF P!Left
<1>4. /\ qpc' = "idle" /\ qix' = NoIx /\ qresult' = answer
      /\ qhop' = 0 /\ qin_amount' = 0 /\ qbefore' = 0
  BY DEF Quasar!Return
<1>5. InStep'
  BY <1>1, <1>2, <1>3, <1>4 DEF InStep
<1>6. QuasarControl'
  BY <1>4 DEF QuasarControl, QuasarLocations
<1>7. QuasarTypes'
  <2>1. pledger \in P!Ledgers /\ 0 \in P!U64
    BY RouterFacts DEF QuasarRuns, JointInv, P!RouteInv, P!TypeOK, P!U64
  <2> QED
    BY <1>3, <1>4, <2>1 DEF QuasarTypes, P!Ledgers, P!U64
<1>8. QuasarInHop' /\ QuasarIterator'
  BY <1>4 DEF QuasarInHop, QuasarIterator
<1>9. QuasarTells
  BY <1>4 DEF QuasarTells
<1> QED
  BY <1>5, <1>6, <1>7, <1>8, <1>9, PinocchioRests DEF JointInv

LEMMA QuasarFails ==
  ASSUME QuasarRuns, NEW e, Quasar!Abort(e), e # "Ok", e # "Pending",
         e = QuasarAnswer(qledger, qix)
  PROVE  JointInv' /\ QuasarTells
BY QuasarReturns DEF Quasar!Abort, P!Left

\* In its loop, too, the instruction has passed the dispatch.
LEMMA QuasarInLoop ==
  ASSUME QuasarRuns, qpc \in {"next", "check", "cpi", "measure"}
  PROVE  /\ P!InHop(qpc, qledger, qix, qhop, qwork, qin_amount, qbefore)
         /\ qix.data.hop_count \in 1 .. 3 /\ qhop \in 0 .. qix.data.hop_count
         /\ QuasarAnswer(qledger, qix) = P!Atomic!HopsAnswer(qledger, qix)
         /\ Len(qix.accounts) \in Nat
         /\ qpc # "next" => qhop < qix.data.hop_count /\ Len(qix.accounts) >= 3 + 2 * qhop
<1>1. P!InHop(qpc, qledger, qix, qhop, qwork, qin_amount, qbefore)
  BY DEF QuasarRuns, JointInv, QuasarInHop
<1>2. Len(qix.accounts) \in Nat /\ qix.data.hop_count \in Nat
  BY DEF QuasarRuns, P!InstructionType, P!RouteData
<1>3. qix.data.hop_count \in 1 .. 3
  BY <1>1, <1>2 DEF P!InHop, P!Atomic!WellFormed
<1>4. QuasarAnswer(qledger, qix) = P!Atomic!HopsAnswer(qledger, qix)
  BY <1>1, <1>2 DEF P!InHop, QuasarAnswer, P!Atomic!WellFormed
<1> QED
  BY <1>1, <1>2, <1>3, <1>4 DEF P!InHop

\* The iterator's list as a part of the account list.
LEMMA TailIsSubSeq ==
  ASSUME NEW S, NEW a \in Seq(S), Len(a) >= 1
  PROVE  Tail(a) = SubSeq(a, 2, Len(a))
OBVIOUS

\* A list of two, by its elements.
LEMMA PairOf ==
  ASSUME NEW S, NEW t \in Seq(S), Len(t) = 2
  PROVE  t = <<t[1], t[2]>>
OBVIOUS

\* What two calls of the iterator yield.
LEMMA FirstTwo ==
  ASSUME NEW S, NEW r \in Seq(S), Len(r) >= 2
  PROVE  SubSeq(r, 1, 2) = <<r[1], r[2]>>
<1> DEFINE t == SubSeq(r, 1, 2)
<1>1. Len(r) \in Nat
  OBVIOUS
<1>2. Len(t) = 2 /\ t[1] = r[1] /\ t[2] = r[2]
  BY <1>1
<1>3. \A k \in 1 .. 2 : r[k] \in S
  BY <1>1
<1>4. t \in Seq(S)
  BY <1>1, <1>3
<1>5. t = <<t[1], t[2]>>
  <2> HIDE DEF t
  <2> QED
    BY <1>2, <1>4, PairOf
<1>6. <<t[1], t[2]>> = <<r[1], r[2]>>
  <2> HIDE DEF t
  <2> QED
    BY <1>2
<1> QED
  BY <1>5, <1>6

\* An iterator that starts at the k-th account yields it and the next one.
LEMMA IteratorYields ==
  ASSUME NEW S, NEW a \in Seq(S), NEW k \in Nat \ {0},
         NEW r, r = SubSeq(a, k, Len(a))
  PROVE  /\ Len(r) < 2 <=> Len(a) < k + 1
         /\ Len(a) >= k + 1 =>
              /\ SubSeq(r, 1, 2) = <<a[k], a[k + 1]>>
              /\ SubSeq(r, 3, Len(r)) = SubSeq(a, k + 2, Len(a))
<1>1. Len(a) \in Nat
  OBVIOUS
<1>2. Len(r) = IF k <= Len(a) THEN Len(a) - k + 1 ELSE 0
  BY <1>1
<1>3. Len(r) < 2 <=> Len(a) < k + 1
  BY <1>1, <1>2
<1> SUFFICES ASSUME Len(a) >= k + 1
             PROVE  /\ SubSeq(r, 1, 2) = <<a[k], a[k + 1]>>
                    /\ SubSeq(r, 3, Len(r)) = SubSeq(a, k + 2, Len(a))
  BY <1>3
<1>4. Len(r) = Len(a) - k + 1 /\ Len(r) >= 2
  BY <1>1, <1>2
<1>5. \A j \in 1 .. Len(r) : r[j] = a[k + j - 1]
  BY <1>1, <1>4
<1>6. r \in Seq(S)
  BY <1>1
<1>7. SubSeq(r, 1, 2) = <<a[k], a[k + 1]>>
  <2>1. r[1] = a[k] /\ r[2] = a[k + 1]
    BY <1>4, <1>5
  <2>2. SubSeq(r, 1, 2) = <<r[1], r[2]>>
    BY <1>4, <1>6, FirstTwo
  <2> QED
    BY <2>1, <2>2
<1>8. SubSeq(r, 3, Len(r)) = SubSeq(a, k + 2, Len(a))
  OBVIOUS
<1> QED
  BY <1>7, <1>8

LEMMA QuasarDispatches ==
  ASSUME QuasarRuns, Quasar!ExecuteRoute
  PROVE  JointInv' /\ QuasarTells
<1>1. qpc = "dispatch"
  BY DEF Quasar!ExecuteRoute
<1>2. qix.data.hop_count \in Nat /\ Len(qix.accounts) \in Nat
      /\ qix.accounts \in Seq(Accounts) /\ qix.data.initial_amount \in P!U64
  BY DEF QuasarRuns, P!InstructionType, P!RouteData
<1>3. qwork = qledger /\ qhop = 0
  BY <1>1 DEF QuasarRuns, JointInv, QuasarControl
<1>4. P!Atomic!WellFormed(qix.data) <=>
        qix.data.disc = 1 /\ ~Quasar!parse_route_rejects(qix.data)
  BY <1>2 DEF P!Atomic!WellFormed, Quasar!parse_route_rejects, Quasar!MAX_HOPS
<1>5. CASE Quasar!dispatch_error # "Ok"
  <2>1. Quasar!dispatch_error = QuasarAnswer(qledger, qix)
    BY <1>4, <1>5 DEF Quasar!dispatch_error, QuasarAnswer, P!Atomic!RouteUser, Quasar!user,
              Quasar!EXECUTE_ROUTE_DISCRIMINATOR
  <2>2. Quasar!dispatch_error # "Pending"
    BY DEF Quasar!dispatch_error
  <2> QED
    BY <1>5, <2>1, <2>2, QuasarFails DEF Quasar!ExecuteRoute
<1>6. CASE Quasar!dispatch_error = "Ok"
  <2>1. /\ P!Atomic!WellFormed(qix.data) /\ Len(qix.accounts) >= 1
        /\ P!Atomic!RouteUser(qix) \in qix.writable
    BY <1>2, <1>4, <1>6 DEF Quasar!dispatch_error, P!Atomic!RouteUser, Quasar!user,
              Quasar!EXECUTE_ROUTE_DISCRIMINATOR
  <2>2. /\ qpc' = "next" /\ qin_amount' = qix.data.initial_amount
        /\ qremaining' = Tail(qix.accounts)
        /\ UNCHANGED <<qledger, qwork, qix, qhop, qbefore, qresult>>
    BY <1>6 DEF Quasar!ExecuteRoute
  <2>3. P!Atomic!After(qledger, qix, 0) = P!Atomic!Stand("Ok", qledger, qix.data.initial_amount)
    BY DEF P!Atomic!After, P!Atomic!Start
  <2>4. QuasarInHop'
    BY <1>2, <1>3, <2>1, <2>2, <2>3 DEF QuasarInHop, P!InHop, P!Atomic!Stand
  <2>5. QuasarIterator'
    <3>1. Tail(qix.accounts) = SubSeq(qix.accounts, 2, Len(qix.accounts))
      BY <1>2, <2>1, TailIsSubSeq
    <3> QED
      BY <1>3, <2>2, <3>1 DEF QuasarIterator
  <2>6. qwork' \in P!Ledgers /\ qin_amount' \in P!U64 /\ qbefore' \in P!U64
    BY <1>2, <2>2 DEF QuasarRuns, JointInv, QuasarTypes
  <2> QED
    BY <2>2, <2>4, <2>5, <2>6, QuasarGoesOn
<1> QED
  BY <1>5, <1>6

\* A list that turns out too short is the atomic route's short list.
LEMMA QuasarIterates ==
  ASSUME QuasarRuns, Quasar!NextHopAccounts
  PROVE  JointInv' /\ QuasarTells
<1>1. qpc = "next" /\ qhop < qix.data.hop_count
  BY DEF Quasar!NextHopAccounts
<1>2. /\ P!InHop("next", qledger, qix, qhop, qwork, qin_amount, qbefore)
      /\ qix.data.hop_count \in 1 .. 3 /\ qhop \in 0 .. qix.data.hop_count - 1
      /\ QuasarAnswer(qledger, qix) = P!Atomic!HopsAnswer(qledger, qix)
      /\ Len(qix.accounts) \in Nat
  BY <1>1, QuasarInLoop
<1> DEFINE s == P!Atomic!After(qledger, qix, qhop)
           k == 2 + 2 * qhop
<1>3. s.err = "Ok"
  BY <1>2 DEF P!InHop
<1>4. qremaining = SubSeq(qix.accounts, k, Len(qix.accounts))
  BY <1>1 DEF QuasarRuns, JointInv, QuasarIterator
<1>5. k \in Nat \ {0} /\ k + 1 = 3 + 2 * qhop /\ k + 2 = 4 + 2 * qhop /\ qhop \in 0 .. 2
  BY <1>2
<1>6. qix.accounts \in Seq(Accounts)
  BY DEF QuasarRuns, P!InstructionType
<1>7. /\ Len(qremaining) < 2 <=> Len(qix.accounts) < k + 1
      /\ Len(qix.accounts) >= k + 1 =>
           /\ SubSeq(qremaining, 1, 2) = <<qix.accounts[k], qix.accounts[k + 1]>>
           /\ SubSeq(qremaining, 3, Len(qremaining)) = SubSeq(qix.accounts, k + 2, Len(qix.accounts))
  <2> HIDE DEF k
  <2> QED
    BY <1>4, <1>5, <1>6, IteratorYields
<1>8. CASE Len(qremaining) < 2
  <2>1. Quasar!Abort("NotEnoughAccountKeys")
    BY <1>8 DEF Quasar!NextHopAccounts
  <2>2. P!Atomic!HopChecks(qix, qhop) = "NotEnoughAccountKeys"
    BY <1>5, <1>7, <1>8 DEF P!Atomic!HopChecks
  <2>3. P!Atomic!After(qledger, qix, qhop + 1).err = "NotEnoughAccountKeys"
    BY <1>3, <1>5, <2>2, P!HopOutcome, RouterFacts
  <2>4. P!Atomic!HopsAnswer(qledger, qix) = "NotEnoughAccountKeys"
    BY <1>2, <2>3, P!FailedHopAnswers, RouterFacts
  <2> QED
    BY <1>2, <2>1, <2>4, QuasarFails
<1>9. CASE ~(Len(qremaining) < 2)
  <2>1. Len(qix.accounts) >= k + 1
    <3>1. ~(Len(qix.accounts) < k + 1)
      BY <1>7, <1>9
    <3>2. Len(qix.accounts) \in Nat /\ k \in Nat
      BY <1>2, <1>5
    <3> HIDE DEF k
    <3> QED
      BY <3>1, <3>2
  <2>2. /\ qpc' = "check" /\ qnext' = SubSeq(qremaining, 1, 2)
        /\ qremaining' = SubSeq(qremaining, 3, Len(qremaining))
        /\ UNCHANGED <<qledger, qwork, qix, qhop, qin_amount, qbefore, qresult>>
    BY <1>9 DEF Quasar!NextHopAccounts
  <2>3. QuasarInHop'
    BY <1>1, <1>2, <1>5, <2>1, <2>2 DEF QuasarInHop, P!InHop
  <2>4. QuasarIterator'
    BY <1>5, <1>7, <2>1, <2>2 DEF QuasarIterator, P!Atomic!RoutePool
  <2>5. qwork' \in P!Ledgers /\ qin_amount' \in P!U64 /\ qbefore' \in P!U64
    BY <2>2 DEF QuasarRuns, JointInv, QuasarTypes
  <2> QED
    BY <2>2, <2>3, <2>4, <2>5, QuasarGoesOn
<1> QED
  BY <1>8, <1>9

LEMMA QuasarChecksHop ==
  ASSUME QuasarRuns, Quasar!CheckHop
  PROVE  JointInv' /\ QuasarTells
<1>1. qpc = "check"
  BY DEF Quasar!CheckHop
<1>2. /\ P!InHop("check", qledger, qix, qhop, qwork, qin_amount, qbefore)
      /\ qix.data.hop_count \in 1 .. 3 /\ qhop \in 0 .. qix.data.hop_count - 1
      /\ QuasarAnswer(qledger, qix) = P!Atomic!HopsAnswer(qledger, qix)
      /\ Len(qix.accounts) \in Nat /\ Len(qix.accounts) >= 3 + 2 * qhop
  BY <1>1, QuasarInLoop
<1> DEFINE s == P!Atomic!After(qledger, qix, qhop)
<1>3. s.err = "Ok" /\ qwork = s.bal /\ qin_amount = s.amount /\ qhop \in 0 .. 2
  BY <1>2 DEF P!InHop
<1>4. /\ qnext = <<qix.accounts[2 + 2 * qhop], P!Atomic!RoutePool(qix, qhop)>>
      /\ qremaining = SubSeq(qix.accounts, 4 + 2 * qhop, Len(qix.accounts))
  BY <1>1 DEF QuasarRuns, JointInv, QuasarIterator
<1>5. Quasar!amm_program = qix.accounts[2 + 2 * qhop] /\ Quasar!pool = P!Atomic!RoutePool(qix, qhop)
  BY <1>4 DEF Quasar!amm_program, Quasar!pool
<1>6. P!Atomic!HopChecks(qix, qhop) = Quasar!check_error
  BY <1>2, <1>5 DEF P!Atomic!HopChecks, Quasar!check_error
<1>7. CASE Quasar!check_error # "Ok"
  <2>1. Quasar!Abort(Quasar!check_error)
    BY <1>7 DEF Quasar!CheckHop
  <2>2. P!Atomic!After(qledger, qix, qhop + 1).err = Quasar!check_error
    BY <1>3, <1>6, <1>7, P!HopOutcome, RouterFacts
  <2>3. P!Atomic!HopsAnswer(qledger, qix) = Quasar!check_error
    BY <1>2, <1>7, <2>2, P!FailedHopAnswers, RouterFacts
  <2>4. Quasar!check_error # "Pending"
    BY DEF Quasar!check_error
  <2> QED
    BY <1>2, <1>7, <2>1, <2>3, <2>4, QuasarFails
<1>8. CASE Quasar!check_error = "Ok"
  <2>1. /\ qpc' = "cpi" /\ qbefore' = qwork[P!Atomic!RouteUser(qix)]
        /\ UNCHANGED <<qledger, qwork, qix, qremaining, qnext, qhop, qin_amount, qresult>>
    BY <1>8 DEF Quasar!CheckHop, Quasar!user, P!Atomic!RouteUser
  <2>2. QuasarInHop'
    BY <1>1, <1>2, <1>3, <1>6, <1>8, <2>1 DEF QuasarInHop, P!InHop
  <2>3. QuasarIterator'
    BY <1>4, <2>1 DEF QuasarIterator
  <2>4. qwork' \in P!Ledgers /\ qin_amount' \in P!U64 /\ qbefore' \in P!U64
    <3>1. P!Atomic!RouteUser(qix) \in Accounts
      BY <1>2 DEF QuasarRuns, P!InstructionType, P!Atomic!RouteUser
    <3>2. qwork \in P!Ledgers /\ qin_amount \in P!U64
      BY DEF QuasarRuns, JointInv, QuasarTypes
    <3>3. qwork[P!Atomic!RouteUser(qix)] \in P!U64
      BY <3>1, <3>2 DEF P!Ledgers
    <3> QED
      BY <2>1, <3>2, <3>3
  <2> QED
    BY <2>1, <2>2, <2>3, <2>4, QuasarGoesOn
<1> QED
  BY <1>7, <1>8

LEMMA QuasarInvokes ==
  ASSUME QuasarRuns, Quasar!Invoke
  PROVE  JointInv' /\ QuasarTells
<1>1. qpc = "cpi"
  BY DEF Quasar!Invoke
<1>2. /\ P!InHop("cpi", qledger, qix, qhop, qwork, qin_amount, qbefore)
      /\ qix.data.hop_count \in 1 .. 3 /\ qhop \in 0 .. qix.data.hop_count - 1
      /\ QuasarAnswer(qledger, qix) = P!Atomic!HopsAnswer(qledger, qix)
      /\ Len(qix.accounts) >= 3 + 2 * qhop
  BY <1>1, QuasarInLoop
<1> DEFINE s == P!Atomic!After(qledger, qix, qhop)
<1>3. /\ s.err = "Ok" /\ qwork = s.bal /\ qin_amount = s.amount /\ P!Atomic!HopChecks(qix, qhop) = "Ok"
      /\ qhop \in 0 .. 2 /\ P!Atomic!WellFormed(qix.data)
  BY <1>2 DEF P!InHop
<1>4. /\ qnext = <<qix.accounts[2 + 2 * qhop], P!Atomic!RoutePool(qix, qhop)>>
      /\ qremaining = SubSeq(qix.accounts, 4 + 2 * qhop, Len(qix.accounts))
      /\ qwork \in P!Ledgers /\ qin_amount \in P!U64 /\ qbefore \in P!U64
  BY <1>1 DEF QuasarRuns, JointInv, QuasarIterator, QuasarTypes
<1>5. Quasar!cpi_call = P!Atomic!HopCpi(qix, s, qhop)
  BY <1>3, <1>4, QuasarCpi
<1>6. CASE Quasar!cpi_call.err # "Ok"
  <2>1. Quasar!Abort(Quasar!cpi_call.err)
    BY <1>6 DEF Quasar!Invoke
  <2>2. P!Atomic!After(qledger, qix, qhop + 1).err = Quasar!cpi_call.err
    BY <1>3, <1>5, <1>6, P!HopOutcome, RouterFacts
  <2>3. P!Atomic!HopsAnswer(qledger, qix) = Quasar!cpi_call.err
    BY <1>2, <1>6, <2>2, P!FailedHopAnswers, RouterFacts
  <2>4. Quasar!cpi_call.err # "Pending"
    BY <1>5, HopCpiAnswers
  <2> QED
    BY <1>2, <1>6, <2>1, <2>3, <2>4, QuasarFails
<1>7. CASE Quasar!cpi_call.err = "Ok"
  <2>1. /\ qpc' = "measure" /\ qwork' = P!Atomic!HopCpi(qix, s, qhop).bal
        /\ UNCHANGED <<qledger, qix, qremaining, qnext, qhop, qin_amount, qbefore, qresult>>
    BY <1>5, <1>7 DEF Quasar!Invoke, Quasar!locals
  <2>2. QuasarInHop'
    BY <1>1, <1>2, <1>3, <1>5, <1>7, <2>1 DEF QuasarInHop, P!InHop
  <2>3. QuasarIterator'
    BY <1>4, <2>1 DEF QuasarIterator
  <2>4. P!Atomic!HopCpi(qix, s, qhop).bal \in P!Ledgers
    <3> HIDE DEF s
    <3> QED
      BY <1>2, <1>3, <1>4, <1>5, <1>7, HopCpiTyped DEF QuasarRuns
  <2> QED
    BY <1>4, <2>1, <2>2, <2>3, <2>4, QuasarGoesOn
<1> QED
  BY <1>6, <1>7

LEMMA QuasarMeasures ==
  ASSUME QuasarRuns, Quasar!Measure
  PROVE  JointInv' /\ QuasarTells
<1>1. qpc = "measure"
  BY DEF Quasar!Measure
<1>2. /\ P!InHop("measure", qledger, qix, qhop, qwork, qin_amount, qbefore)
      /\ qix.data.hop_count \in 1 .. 3 /\ qhop \in 0 .. qix.data.hop_count - 1
      /\ QuasarAnswer(qledger, qix) = P!Atomic!HopsAnswer(qledger, qix)
  BY <1>1, QuasarInLoop
<1> DEFINE s == P!Atomic!After(qledger, qix, qhop)
           u == P!Atomic!RouteUser(qix)
<1>3. /\ s.err = "Ok" /\ qwork = P!Atomic!HopCpi(qix, s, qhop).bal /\ qin_amount = s.amount
      /\ P!Atomic!HopChecks(qix, qhop) = "Ok" /\ P!Atomic!HopCpi(qix, s, qhop).err = "Ok"
      /\ qbefore = s.bal[u] /\ qhop \in 0 .. 2
  BY <1>2 DEF P!InHop
<1>4. Quasar!user = u
  BY DEF Quasar!user, P!Atomic!RouteUser
<1>5. CASE P!Atomic!HopOverflows(qix, s, qwork)
  <2>1. Quasar!Abort("ArithmeticOverflow")
    BY <1>3, <1>4, <1>5 DEF Quasar!Measure, P!Atomic!HopOverflows
  <2>2. P!Atomic!After(qledger, qix, qhop + 1).err = "ArithmeticOverflow"
    BY <1>3, <1>5, P!HopOutcome, RouterFacts
  <2>3. P!Atomic!HopsAnswer(qledger, qix) = "ArithmeticOverflow"
    BY <1>2, <2>2, P!FailedHopAnswers, RouterFacts
  <2> QED
    BY <1>2, <2>1, <2>3, QuasarFails
<1>6. CASE ~P!Atomic!HopOverflows(qix, s, qwork)
  <2>1. /\ ~(qwork[u] + qin_amount > MaxU64) /\ ~(qwork[u] + qin_amount < qbefore)
    BY <1>3, <1>6 DEF P!Atomic!HopOverflows
  <2>2. /\ qpc' = "next" /\ qhop' = qhop + 1
        /\ qin_amount' = qwork[u] + qin_amount - qbefore
        /\ UNCHANGED <<qledger, qwork, qix, qremaining, qnext, qbefore, qresult>>
    BY <1>4, <2>1 DEF Quasar!Measure
  <2>3. P!Atomic!After(qledger, qix, qhop + 1) = P!Atomic!Stand("Ok", qwork, qin_amount')
    BY <1>3, <1>6, <2>2, P!HopOutcome, RouterFacts
  <2>4. QuasarInHop'
    BY <1>2, <2>2, <2>3 DEF QuasarInHop, P!InHop, P!Atomic!Stand
  <2>5. QuasarIterator'
    <3>1. qremaining = SubSeq(qix.accounts, 4 + 2 * qhop, Len(qix.accounts))
      BY <1>1 DEF QuasarRuns, JointInv, QuasarIterator
    <3>2. 2 + 2 * (qhop + 1) = 4 + 2 * qhop
      BY <1>3
    <3> QED
      BY <2>2, <3>1, <3>2 DEF QuasarIterator
  <2>6. qwork \in P!Ledgers /\ qin_amount \in P!U64 /\ qbefore \in P!U64
    BY DEF QuasarRuns, JointInv, QuasarTypes
  <2>7. u \in Accounts
    <3>1. Len(qix.accounts) >= 1
      BY <1>2 DEF P!InHop
    <3> QED
      BY <3>1 DEF QuasarRuns, P!InstructionType, P!Atomic!RouteUser
  <2>8. qin_amount' \in P!U64
    <3>1. qwork[u] \in P!U64
      BY <2>6, <2>7 DEF P!Ledgers
    <3> HIDE DEF u
    <3> QED
      BY <2>1, <2>2, <2>6, <3>1, RouterFacts DEF P!U64
  <2> QED
    BY <2>2, <2>4, <2>5, <2>6, <2>8, QuasarGoesOn
<1> QED
  BY <1>5, <1>6

LEMMA QuasarIsGated ==
  ASSUME QuasarRuns, Quasar!Gate
  PROVE  JointInv' /\ QuasarTells
<1>1. qpc = "next" /\ qhop = qix.data.hop_count
  BY DEF Quasar!Gate
<1>2. /\ P!InHop("next", qledger, qix, qhop, qwork, qin_amount, qbefore)
      /\ qix.data.hop_count \in 1 .. 3
      /\ QuasarAnswer(qledger, qix) = P!Atomic!HopsAnswer(qledger, qix)
  BY <1>1, QuasarInLoop
<1> DEFINE s == P!Atomic!After(qledger, qix, qix.data.hop_count)
<1>3. s.err = "Ok" /\ qwork = s.bal /\ qin_amount = s.amount
  BY <1>1, <1>2 DEF P!InHop
<1>4. qin_amount >= qix.data.min_out <=> ~(qin_amount < qix.data.min_out)
  <2>1. qin_amount \in P!U64 /\ qix.data.min_out \in P!U64
    BY DEF QuasarRuns, JointInv, QuasarTypes, P!InstructionType, P!RouteData
  <2> QED
    BY <2>1, RouterFacts DEF P!U64
<1>5. CASE qin_amount < qix.data.min_out
  <2>1. Quasar!Abort("Custom(1)")
    BY <1>4, <1>5 DEF Quasar!Gate
  <2>2. P!Atomic!HopsAnswer(qledger, qix) = "Custom(1)"
    BY <1>3, <1>5 DEF P!Atomic!HopsAnswer
  <2> QED
    BY <1>2, <2>1, <2>2, QuasarFails
<1>6. CASE ~(qin_amount < qix.data.min_out)
  <2>1. P!Atomic!HopsAnswer(qledger, qix) = "Ok"
    BY <1>3, <1>6 DEF P!Atomic!HopsAnswer
  <2>2. Quasar!Return("Ok") /\ qledger' = qwork /\ qwork' = qwork
    BY <1>4, <1>6 DEF Quasar!Gate
  <2>3. qledger' = P!Left(qledger, qix, "Ok")
    BY <1>3, <2>2 DEF P!Left
  <2> QED
    BY <1>2, <2>1, <2>2, <2>3, QuasarReturns
<1> QED
  BY <1>5, <1>6

-----------------------------------------------------------------------------
(***************************************************************************)
(* All steps.                                                              *)
(***************************************************************************)

LEMMA JointInit == Init => JointInv
<1> SUFFICES ASSUME Init PROVE JointInv
  OBVIOUS
<1>1. P!RouteInv
  BY SameInit, P!InitInv, RouterFacts DEF Init
<1>2. /\ ppc = "idle" /\ presult = "Ok" /\ pledger \in InitialLedgers
      /\ qpc = "idle" /\ qix = NoIx /\ qresult = "Ok" /\ qledger = pledger /\ qwork = qledger
      /\ qhop = 0 /\ qin_amount = 0 /\ qbefore = 0
  BY DEF Init, Pinocchio!Init, Quasar!Init
<1>3. 0 \in P!U64
  BY RouterFacts DEF P!U64
<1> QED
  BY <1>1, <1>2, <1>3, RouterFacts
     DEF JointInv, P!RouterInHop, QuasarControl, QuasarLocations, QuasarTypes, QuasarInHop,
         QuasarIterator, InStep

\* Both take the instruction in.
LEMMA BothSubmit ==
  ASSUME JointInv, NEW i \in Instructions, Pinocchio!Submit(i), Quasar!Submit(i)
  PROVE  /\ JointInv'
         /\ qpc = "idle" /\ qix' = i /\ qresult' = "Pending" /\ qledger' = qledger
<1>1. P!RouteInv'
  BY SameSubmit, RouteInvStep DEF JointInv, P!Next
<1>2. /\ ppc = "idle" /\ ppc' = "entry" /\ pix' = i /\ presult' = "Pending" /\ pledger' = pledger
  BY DEF Pinocchio!Submit
<1>3. /\ qpc = "idle" /\ qpc' = "dispatch" /\ qix' = i /\ qresult' = "Pending"
      /\ UNCHANGED <<qledger, qwork, qremaining, qnext, qhop, qin_amount, qbefore>>
  BY DEF Quasar!Submit, Quasar!locals
<1>4. i \in P!InstructionType /\ i # NoIx
  BY RouterFacts
<1>5. InStep' /\ P!RouterInHop'
  BY <1>2, <1>3 DEF JointInv, InStep, P!RouterInHop
<1>6. QuasarControl'
  BY <1>3, <1>4 DEF JointInv, QuasarControl, QuasarLocations
<1>7. QuasarTypes' /\ QuasarInHop' /\ QuasarIterator'
  BY <1>3 DEF JointInv, QuasarTypes, QuasarInHop, QuasarIterator
<1> QED
  BY <1>1, <1>3, <1>5, <1>6, <1>7 DEF JointInv

LEMMA PinocchioSteps ==
  ASSUME JointInv, RunPinocchio
  PROVE  JointInv'
<1>1. P!RouterStep /\ P!Next
  BY SameStep DEF RunPinocchio, P!Next
<1>2. P!RouteInv'
  BY <1>1, RouteInvStep DEF JointInv
<1>3. ppc # "idle"
  BY <1>1 DEF P!RouterStep, P!Enter, P!CheckHop, P!InvokeSwap, P!Measure, P!Gate
<1>5. P!RouterInHop' /\ P!RouterTells
  BY <1>1, P!RouterStepTells, RouterFacts DEF JointInv
<1>6. qpc = "dispatch" /\ qix = pix /\ qledger = pledger /\ UNCHANGED qvars
  BY <1>3 DEF RunPinocchio, JointInv, InStep
<1>7. QuasarControl' /\ QuasarTypes' /\ QuasarInHop' /\ QuasarIterator'
  BY <1>6 DEF JointInv, qvars, QuasarControl, QuasarTypes, QuasarInHop, QuasarIterator
<1>8. InStep'
  BY <1>5, <1>6 DEF P!RouterTells, qvars, InStep
<1> QED
  BY <1>2, <1>5, <1>7, <1>8 DEF JointInv

LEMMA QuasarSteps ==
  ASSUME JointInv, RunQuasar
  PROVE  JointInv' /\ QuasarTells /\ QuasarRuns
<1>1. Quasar!RouterStep /\ UNCHANGED pvars
  BY DEF RunQuasar
<1>2. ppc = "idle"
  BY DEF RunQuasar, JointInv, P!RouteInv, P!Control
<1>3. qpc # "idle"
  BY <1>1 DEF Quasar!RouterStep, Quasar!ExecuteRoute, Quasar!NextHopAccounts, Quasar!CheckHop,
              Quasar!Invoke, Quasar!Measure, Quasar!Gate
<1>4. QuasarRuns
  BY <1>1, <1>2, <1>3 DEF QuasarRuns, JointInv, QuasarControl
<1> QED
  BY <1>1, <1>4, QuasarDispatches, QuasarIterates, QuasarChecksHop, QuasarInvokes, QuasarMeasures,
     QuasarIsGated
     DEF Quasar!RouterStep

LEMMA JointStep ==
  ASSUME JointInv, [Next]_<<pvars, qvars>>
  PROVE  JointInv'
<1>1. CASE SubmitBoth
  BY <1>1, BothSubmit DEF SubmitBoth
<1>2. CASE RunPinocchio
  BY <1>2, PinocchioSteps
<1>3. CASE RunQuasar
  BY <1>3, QuasarSteps
<1>4. CASE UNCHANGED <<pvars, qvars>>
  <2>1. P!RouteInv'
    <3>1. UNCHANGED P!vars
      BY <1>4 DEF pvars, P!vars
    <3> QED
      BY <3>1, P!StutterInv, RouterFacts DEF JointInv
  <2> QED
    BY <1>4, <2>1
       DEF pvars, qvars, JointInv, P!RouterInHop, QuasarControl, QuasarTypes, QuasarInHop,
           QuasarIterator, InStep
<1> QED
  BY <1>1, <1>2, <1>3, <1>4 DEF Next

\* Each router is, at every step of a route, where the atomic route is after as
\* many hops, and the Quasar router's iterator and hop counter advance
\* together, so the answers and balances the two come to are the same.
THEOREM JointInvariant == Spec => []JointInv
BY JointInit, JointStep, PTL DEF Spec

-----------------------------------------------------------------------------
(***************************************************************************)
(* What follows.                                                           *)
(***************************************************************************)

\* Two accounts and what comes after them are the list from the first on.
LEMMA YieldedAndLeft ==
  ASSUME NEW S, NEW a \in Seq(S), NEW k \in Nat \ {0}, Len(a) >= k + 1
  PROVE  <<a[k], a[k + 1]>> \o SubSeq(a, k + 2, Len(a)) = SubSeq(a, k, Len(a))
OBVIOUS

\* In every state the iterator has yet to yield the accounts from the current
\* hop on, and once both routers have returned they have left the same
\* balances and have both accepted the route or both refused it: what
\* router-bench compares is the same work.
THEOREM Parity == Spec => []ParityInv
<1>1. JointInv => Quasar!TypeOK
  <2> SUFFICES ASSUME JointInv PROVE Quasar!TypeOK
    OBVIOUS
  <2>1. qledger \in Quasar!Ledgers /\ qwork \in Quasar!Ledgers
        /\ qin_amount \in Quasar!U64 /\ qbefore \in Quasar!U64
    BY DEF JointInv, QuasarTypes, P!Ledgers, P!U64, Quasar!Ledgers, Quasar!U64
  <2>2. qpc = "next" => qremaining = SubSeq(qix.accounts, 2 + 2 * qhop, Len(qix.accounts))
    BY DEF JointInv, QuasarIterator
  <2>3. ASSUME qpc \in {"check", "cpi", "measure"}
        PROVE  qnext \o qremaining = SubSeq(qix.accounts, 2 + 2 * qhop, Len(qix.accounts))
    <3> DEFINE k == 2 + 2 * qhop
    <3>1. /\ qnext = <<qix.accounts[2 + 2 * qhop], qix.accounts[3 + 2 * qhop]>>
          /\ qremaining = SubSeq(qix.accounts, 4 + 2 * qhop, Len(qix.accounts))
      BY <2>3 DEF JointInv, QuasarIterator, P!Atomic!RoutePool
    <3>2. /\ qix.accounts \in Seq(Accounts) /\ qix.data.hop_count \in Nat
          /\ qhop \in 0 .. qix.data.hop_count /\ Len(qix.accounts) >= 3 + 2 * qhop
      BY <2>3 DEF JointInv, QuasarControl, QuasarInHop, P!InHop, P!InstructionType, P!RouteData
    <3>3. k \in Nat \ {0} /\ k + 1 = 3 + 2 * qhop /\ k + 2 = 4 + 2 * qhop
      BY <3>2
    <3>4. /\ qnext = <<qix.accounts[k], qix.accounts[k + 1]>>
          /\ qremaining = SubSeq(qix.accounts, k + 2, Len(qix.accounts))
      BY <3>1, <3>3
    <3> HIDE DEF k
    <3>5. Len(qix.accounts) >= k + 1
      BY <3>2, <3>3
    <3>6. qnext \o qremaining = SubSeq(qix.accounts, k, Len(qix.accounts))
      BY <3>2, <3>3, <3>4, <3>5, YieldedAndLeft
    <3> QED
      BY <3>6 DEF k
  <2> QED
    BY <2>1, <2>2, <2>3 DEF Quasar!TypeOK
<1>2. JointInv => SameOutcome
  BY DEF JointInv, InStep, QuasarControl, P!RouteInv, P!Control, SameOutcome, BothReturned
<1> QED
  BY <1>1, <1>2, JointInvariant, PTL DEF ParityInv

\* When the instruction brings the accounts its hops need, the Quasar router,
\* which looks for them hop by hop, also gives the error the Pinocchio router
\* gave, which counted them at its entry.
THEOREM SameError == Spec => SameErrorWhenAccountsSuffice
<1>1. JointInv /\ [Next]_<<pvars, qvars>> =>
        [~BothReturned /\ BothReturned'
           /\ Len(qix.accounts) >= 1 + 2 * qix.data.hop_count
           => presult' = qresult']_<<pvars, qvars>>
  <2> SUFFICES ASSUME JointInv, Next, ~BothReturned, BothReturned',
                      Len(qix.accounts) >= 1 + 2 * qix.data.hop_count
               PROVE  presult' = qresult'
    OBVIOUS
  <2>1. CASE SubmitBoth
    BY <2>1, BothSubmit DEF SubmitBoth, BothReturned
  <2>2. CASE RunPinocchio
    <3>1. ppc # "idle"
      BY <2>2, SameStep
         DEF RunPinocchio, P!RouterStep, P!Enter, P!CheckHop, P!InvokeSwap, P!Measure, P!Gate
    <3>2. qresult = "Pending" /\ qresult' = qresult
      BY <2>2, <3>1 DEF RunPinocchio, qvars, JointInv, InStep, QuasarControl
    <3> QED
      BY <3>2 DEF BothReturned
  <2>3. CASE RunQuasar
    <3>1. JointInv' /\ QuasarTells /\ QuasarRuns
      BY <2>3, QuasarSteps
    <3>2. qpc' = "idle"
      BY <3>1 DEF BothReturned, JointInv, QuasarControl
    <3>3. qresult' = QuasarAnswer(qledger, qix)
      BY <3>1, <3>2 DEF QuasarTells
    <3>4. presult' = P!RouterAnswer(qledger, qix) /\ qix \in P!InstructionType
      BY <3>1 DEF QuasarRuns, JointInv, InStep, pvars
    <3> QED
      BY <3>3, <3>4, AnswersAgree DEF P!Atomic!Enough
  <2> QED
    BY <2>1, <2>2, <2>3 DEF Next
<1> QED
  BY <1>1, JointInvariant, PTL DEF Spec, SameErrorWhenAccountsSuffice

\* The Quasar router's atomic route is the Pinocchio router's.
LEMMA SameAtomicRoute ==
  ASSUME NEW l, NEW i, NEW n
  PROVE  /\ Quasar!Atomic!Admitted(i) <=> P!Atomic!Admitted(i)
         /\ Quasar!Atomic!HopsAnswer(l, i) = P!Atomic!HopsAnswer(l, i)
         /\ Quasar!Atomic!After(l, i, n) = P!Atomic!After(l, i, n)
<1>1. ASSUME NEW s, NEW h
      PROVE  Quasar!Atomic!HopCpi(i, s, h) = P!Atomic!HopCpi(i, s, h)
  <2>1. ASSUME NEW bal, NEW a, NEW b, NEW rate, NEW amount
        PROVE  Quasar!Atomic!Accept(AmmOwned, bal,
                 Quasar!Atomic!process_instruction_amm(bal, <<a, b>>, {a, b},
                   Quasar!Atomic!encode_swap_data(rate, amount)), a, b)
               = P!Atomic!Accept(AmmOwned, bal,
                 P!Atomic!process_instruction_amm(bal, <<a, b>>, {a, b},
                   P!Atomic!encode_swap_data(rate, amount)), a, b)
    BY DEF Quasar!Atomic!Accept, P!Atomic!Accept,
           Quasar!Atomic!SpendsForeign, P!Atomic!SpendsForeign,
           Quasar!Atomic!PairTotal, P!Atomic!PairTotal, Quasar!Atomic!Answer, P!Atomic!Answer,
           Quasar!Atomic!encode_swap_data, P!Atomic!encode_swap_data,
           Quasar!Atomic!SWAP_DATA_LEN, P!Atomic!SWAP_DATA_LEN,
           Quasar!Atomic!SWAP_DISCRIMINATOR, P!Atomic!SWAP_DISCRIMINATOR,
           Quasar!Atomic!process_instruction_amm, P!Atomic!process_instruction_amm,
           Quasar!Atomic!parse_swap_rejects, P!Atomic!parse_swap_rejects,
           Quasar!Atomic!process_swap, P!Atomic!process_swap,
           Quasar!Atomic!swap_out, P!Atomic!swap_out,
           Quasar!Atomic!account_error, P!Atomic!account_error,
           Quasar!Atomic!balance_error, P!Atomic!balance_error,
           Quasar!Atomic!WriteBalances, P!Atomic!WriteBalances
  <2> QED
    BY <2>1 DEF Quasar!Atomic!HopCpi, P!Atomic!HopCpi, Quasar!Atomic!RouteUser, P!Atomic!RouteUser,
                Quasar!Atomic!RoutePool, P!Atomic!RoutePool
<1>2. ASSUME NEW s, NEW h
      PROVE  Quasar!Atomic!OneHop(i, s, h) = P!Atomic!OneHop(i, s, h)
  BY <1>1 DEF Quasar!Atomic!OneHop, P!Atomic!OneHop, Quasar!Atomic!HopChecks, P!Atomic!HopChecks,
              Quasar!Atomic!HopOverflows, P!Atomic!HopOverflows, Quasar!Atomic!Stand, P!Atomic!Stand,
              Quasar!Atomic!RouteUser, P!Atomic!RouteUser, Quasar!Atomic!RoutePool, P!Atomic!RoutePool
<1>3. ASSUME NEW h
      PROVE  Quasar!Atomic!After(l, i, h) = P!Atomic!After(l, i, h)
  BY <1>2 DEF Quasar!Atomic!After, P!Atomic!After, Quasar!Atomic!AfterTwo, P!Atomic!AfterTwo,
              Quasar!Atomic!AfterOne, P!Atomic!AfterOne, Quasar!Atomic!Start, P!Atomic!Start,
              Quasar!Atomic!Stand, P!Atomic!Stand
<1>4. Quasar!Atomic!HopsAnswer(l, i) = P!Atomic!HopsAnswer(l, i)
  BY <1>3 DEF Quasar!Atomic!HopsAnswer, P!Atomic!HopsAnswer
<1>5. Quasar!Atomic!Admitted(i) <=> P!Atomic!Admitted(i)
  BY DEF Quasar!Atomic!Admitted, P!Atomic!Admitted, Quasar!Atomic!WellFormed, P!Atomic!WellFormed,
         Quasar!Atomic!Enough, P!Atomic!Enough
<1> QED
  BY <1>3, <1>4, <1>5

\* The Quasar router implements the atomic route, for all that it finds a missing
\* account only after earlier hops have run: an Ok means that all hops ran in
\* order, each with its own program and pool and on what the one before yielded,
\* and an admitted route fails only as one of its hops, or the gate, does.
THEOREM QuasarAtomic == Spec => QuasarIsAtomic
<1>1. Init => Quasar!Atomic!Init
  BY DEF Init, Quasar!Init, Quasar!Atomic!Init
<1>2. JointInv /\ [Next]_<<pvars, qvars>> => [Quasar!Atomic!Next]_(Quasar!Atomic!vars)
  <2> SUFFICES ASSUME JointInv, [Next]_<<pvars, qvars>>
               PROVE  [Quasar!Atomic!Next]_(Quasar!Atomic!vars)
    OBVIOUS
  <2>1. CASE SubmitBoth
    <3>1. PICK i \in Instructions : Pinocchio!Submit(i) /\ Quasar!Submit(i)
      BY <2>1 DEF SubmitBoth
    <3>2. qix = NoIx /\ qix' = i /\ qresult' = "Pending" /\ qledger' = qledger
      BY <3>1, BothSubmit DEF JointInv, QuasarControl
    <3> QED
      BY <3>2, RouterFacts DEF Quasar!Atomic!Next, Quasar!Atomic!Submit
  <2>2. CASE RunPinocchio
    BY <2>2 DEF RunPinocchio, qvars, Quasar!Atomic!vars
  <2>3. CASE RunQuasar
    <3>1. QuasarTells /\ QuasarRuns
      BY <2>3, QuasarSteps
    <3>2. CASE qpc' # "idle"
      BY <3>1, <3>2 DEF QuasarTells, Quasar!Atomic!vars
    <3>3. CASE qpc' = "idle"
      <4>1. /\ qresult' = QuasarAnswer(qledger, qix) /\ qresult' # "Pending"
            /\ qledger' = P!Left(qledger, qix, qresult') /\ qix' = NoIx
        BY <3>1, <3>3 DEF QuasarTells
      <4>2. qix # NoIx
        BY <3>1 DEF QuasarRuns, JointInv, QuasarControl
      <4>3. CASE qresult' = "Ok"
        <5>1. QuasarAnswer(qledger, qix) = "Ok"
          BY <4>1, <4>3
        <5>2. P!RouterAnswer(qledger, qix) = "Ok"
          BY <3>1, <5>1, AnswersAgree DEF QuasarRuns
        <5>3. P!Atomic!Admitted(qix) /\ P!Atomic!HopsAnswer(qledger, qix) = "Ok"
          BY <5>2 DEF P!RouterAnswer, P!Atomic!Admitted, P!Atomic!RouteUser
        <5>4. qledger' = P!Atomic!After(qledger, qix, qix.data.hop_count).bal
          BY <4>1, <4>3 DEF P!Left
        <5> QED
          BY <4>1, <4>2, <4>3, <5>3, <5>4, SameAtomicRoute
             DEF Quasar!Atomic!Next, Quasar!Atomic!Settle
      <4>4. CASE qresult' # "Ok"
        <5>1. qledger' = qledger
          BY <4>1, <4>4 DEF P!Left
        <5>2. P!Atomic!Admitted(qix) => QuasarAnswer(qledger, qix) = P!Atomic!HopsAnswer(qledger, qix)
          <6>1. P!Atomic!Admitted(qix) =>
                  P!RouterAnswer(qledger, qix) = P!Atomic!HopsAnswer(qledger, qix)
            BY DEF P!RouterAnswer, P!Atomic!Admitted, P!Atomic!RouteUser
          <6> QED
            BY <3>1, <6>1, AnswersAgree DEF QuasarRuns, P!Atomic!Admitted
        <5> QED
          BY <4>1, <4>2, <4>4, <5>1, <5>2, SameAtomicRoute
             DEF Quasar!Atomic!Next, Quasar!Atomic!Reject
      <4> QED
        BY <4>3, <4>4
    <3> QED
      BY <3>2, <3>3
  <2>4. CASE UNCHANGED <<pvars, qvars>>
    BY <2>4 DEF qvars, Quasar!Atomic!vars
  <2> QED
    BY <2>1, <2>2, <2>3, <2>4 DEF Next
<1> QED
  BY <1>1, <1>2, JointInvariant, PTL
     DEF Spec, QuasarIsAtomic, Quasar!ImplementsAtomicRoute, Quasar!Atomic!Spec
=============================================================================
