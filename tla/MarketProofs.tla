---------------------------- MODULE MarketProofs -----------------------------
(***************************************************************************)
(* Proofs about mock-amm's market and about the reference router-bench     *)
(* holds a route against, for every finite set of accounts, every u64, and *)
(* every set of routes and direct swaps.  A direct swap settles at the     *)
(* floor of its rate or not at all; with a realistic supply the router's   *)
(* measurement never wraps; a route that returns Ok leaves every account   *)
(* where the rates put it; and a fixture-shaped route that can be paid for *)
(* is never turned down.                                                   *)
(*                                                                         *)
(* Supply and reference are defined by recursion, the one over a set of    *)
(* accounts, the other over the hops, and so the first part is about sums  *)
(* over finite sets.  Its inductions are stated for a set, of naturals or  *)
(* of subsets: nothing here needs an operator as a parameter.              *)
(***************************************************************************)
EXTENDS Market, RouterProofs, FiniteSetTheorems

USE DEF U64

(***************************************************************************)
(* Sums over finite sets.                                                  *)
(***************************************************************************)

\* Induction over the naturals, for a set.
LEMMA NatSetInduction ==
  ASSUME NEW S, 0 \in S, \A n \in Nat : n \in S => n + 1 \in S
  PROVE  Nat \subseteq S
<1> DEFINE R == OpToRel(<, Nat)
           T == Nat \ S
<1>1. IsWellFoundedOn(R, Nat)
  BY NatLessThanWellFounded
<1>2. SUFFICES ASSUME T # {} PROVE FALSE
  OBVIOUS
<1>3. PICK x \in T : \A y \in T : ~(<<y, x>> \in R)
  <2> HIDE DEF R
  <2>1. T \subseteq Nat
    OBVIOUS
  <2> HIDE DEF T
  <2> QED BY <1>1, <1>2, <2>1, WFMin
<1>4. \A y \in T : ~(y < x)
  BY <1>3 DEF OpToRel
<1>5. x # 0 /\ x - 1 \in Nat /\ x - 1 < x /\ x = (x - 1) + 1
  OBVIOUS
<1> QED BY <1>4, <1>5

\* The element a fold takes next.
Chosen(s) == CHOOSE x \in s : TRUE

\* The equation of the fold behind MapThenSumSet.
Fold(f, it, S) ==
  [s \in SUBSET S |-> IF s = {} THEN 0 ELSE f[Chosen(s)] + it[s \ {Chosen(s)}]]

\* The sums of f over the subsets of S.
Partial(f, S) == CHOOSE it : it = Fold(f, it, S)

\* MapThenSumSet is the last of them.
LEMMA SumIsPartial ==
  ASSUME NEW f, NEW S
  PROVE  MapThenSumSet(LAMBDA a : f[a], S) = Partial(f, S)[S]
BY DEF MapThenSumSet, MapThenFoldSet, Partial, Fold, Chosen

\* A finite set's subsets are finite, and each has its choice.
LEMMA SubsetFacts ==
  ASSUME NEW S, IsFiniteSet(S), NEW s \in SUBSET S
  PROVE  /\ IsFiniteSet(s) /\ Cardinality(s) \in Nat
         /\ s # {} => Chosen(s) \in s
         /\ Cardinality(s) = 0 <=> s = {}
         /\ \A x \in s : s \ {x} \in SUBSET S /\ Cardinality(s \ {x}) = Cardinality(s) - 1
<1>1. IsFiniteSet(s) /\ Cardinality(s) \in Nat
  BY FS_Subset, FS_CardinalityType
<1>2. s # {} => Chosen(s) \in s
  BY DEF Chosen
<1>3. Cardinality(s) = 0 <=> s = {}
  BY <1>1, FS_EmptySet
<1>4. ASSUME NEW x \in s
      PROVE  Cardinality(s \ {x}) = Cardinality(s) - 1
  BY <1>1, FS_RemoveElement
<1> QED BY <1>1, <1>2, <1>3, <1>4

\* The fold's equation has a solution, built up by the size of the subsets.
LEMMA FoldExists ==
  ASSUME NEW f, NEW S, IsFiniteSet(S)
  PROVE  Partial(f, S) = Fold(f, Partial(f, S), S)
<1> DEFINE Step(it, s) == IF s = {} THEN 0 ELSE f[Chosen(s)] + it[s \ {Chosen(s)}]
           Small(m) == {s \in SUBSET S : Cardinality(s) <= m}
           Body(it, m) == [s \in Small(m) |-> Step(it, s)]
           D == {m \in Nat : \E it : it = Body(it, m)}
<1>1. 0 \in D
  <2> DEFINE g == [s \in Small(0) |-> 0]
  <2>1. \A s \in Small(0) : s = {}
    BY SubsetFacts
  <2>2. g = Body(g, 0)
    BY <2>1
  <2> QED BY <2>2
<1>2. ASSUME NEW m \in Nat, m \in D PROVE m + 1 \in D
  <2>1. PICK g : g = Body(g, m)
    BY <1>2
  <2> DEFINE h == [s \in Small(m + 1) |-> Step(g, s)]
  <2>2. \A s \in Small(m) : s \in Small(m + 1) /\ g[s] = Step(g, s) /\ h[s] = g[s]
    <3>1. ASSUME NEW s \in Small(m) PROVE s \in Small(m + 1)
      BY SubsetFacts
    <3>2. \A s \in Small(m) : g[s] = Step(g, s)
      <4> HIDE DEF Step, Small
      <4> QED BY <2>1
    <3>3. \A s \in Small(m + 1) : h[s] = Step(g, s)
      <4> HIDE DEF Step, Small
      <4> QED OBVIOUS
    <3> QED BY <3>1, <3>2, <3>3
  <2>3. ASSUME NEW s \in Small(m + 1), s # {}
        PROVE  s \ {Chosen(s)} \in Small(m)
    BY <2>3, SubsetFacts
  <2>4. ASSUME NEW s \in Small(m + 1)
        PROVE  h[s] = Step(h, s)
    <3>1. h[s] = Step(g, s)
      <4> HIDE DEF Step, Small
      <4> QED OBVIOUS
    <3> HIDE DEF h, Small
    <3> QED BY <2>2, <2>3, <3>1
  <2>5. h = Body(h, m + 1)
    <3>1. h = [s \in Small(m + 1) |-> h[s]]
      OBVIOUS
    <3> HIDE DEF h, Step, Small
    <3> QED BY <2>4, <3>1
  <2> HIDE DEF h, Body
  <2> QED BY <2>5
<1>3. \E it : it = Fold(f, it, S)
  <2>1. Nat \subseteq D
    <3>1. \A m \in Nat : m \in D => m + 1 \in D
      BY <1>2
    <3> HIDE DEF D
    <3> QED BY <1>1, <3>1, NatSetInduction
  <2>2. Cardinality(S) \in D
    <3> HIDE DEF D
    <3> QED BY <2>1, FS_CardinalityType
  <2>3. Small(Cardinality(S)) = SUBSET S
    BY FS_Subset
  <2>4. \A it : Body(it, Cardinality(S)) = Fold(f, it, S)
    <3> HIDE DEF Small
    <3> QED BY <2>3 DEF Fold
  <2> HIDE DEF Body
  <2> QED BY <2>2, <2>4
<1> QED BY <1>3 DEF Partial

\* One term is taken from the sum over s.
Takes(sum, f, s, x) == sum[s] = f[x] + sum[s \ {x}]

\* The sum over nothing, and the step of the fold.
LEMMA PartialEmpty ==
  ASSUME NEW f, NEW S, IsFiniteSet(S)
  PROVE  Partial(f, S)[{}] = 0
<1> DEFINE P == Partial(f, S)
<1>1. P = Fold(f, P, S)
  BY FoldExists
<1> HIDE DEF P
<1>2. P[{}] = 0
  BY <1>1 DEF Fold
<1> QED BY <1>2 DEF P

LEMMA PartialStep ==
  ASSUME NEW f, NEW S, IsFiniteSet(S), NEW s \in SUBSET S, s # {}
  PROVE  Takes(Partial(f, S), f, s, Chosen(s))
<1> DEFINE P == Partial(f, S)
<1>1. P = Fold(f, P, S)
  BY FoldExists
<1> HIDE DEF P
<1>2. P[s] = f[Chosen(s)] + P[s \ {Chosen(s)}]
  BY <1>1 DEF Fold
<1> QED BY <1>2 DEF P, Takes

\* Induction over the subsets of a finite set, for a set of them.
LEMMA SubsetInduction ==
  ASSUME NEW S, IsFiniteSet(S), NEW D, {} \in D,
         \A s \in SUBSET S : s # {} /\ (\A x \in s : s \ {x} \in D) => s \in D
  PROVE  SUBSET S \subseteq D
<1> DEFINE N == {n \in Nat : \A s \in SUBSET S : Cardinality(s) = n => s \in D}
<1>1. 0 \in N
  BY SubsetFacts
<1>2. ASSUME NEW n \in Nat, n \in N PROVE n + 1 \in N
  <2> SUFFICES ASSUME NEW s \in SUBSET S, Cardinality(s) = n + 1 PROVE s \in D
    OBVIOUS
  <2>1. s # {}
    BY SubsetFacts
  <2>2. ASSUME NEW x \in s PROVE s \ {x} \in SUBSET S /\ Cardinality(s \ {x}) = n
    BY SubsetFacts
  <2> QED BY <1>2, <2>1, <2>2
<1>3. ASSUME NEW s \in SUBSET S PROVE s \in D
  <2>1. Nat \subseteq N
    <3>1. \A n \in Nat : n \in N => n + 1 \in N
      BY <1>2
    <3> HIDE DEF N
    <3> QED BY <1>1, <3>1, NatSetInduction
  <2>2. Cardinality(s) \in N
    <3> HIDE DEF N
    <3> QED BY <2>1, SubsetFacts
  <2> QED BY <2>2
<1> QED BY <1>3

\* A sum of integers is an integer.
LEMMA PartialInt ==
  ASSUME NEW f, NEW S, IsFiniteSet(S), \A x \in S : f[x] \in Int
  PROVE  \A s \in SUBSET S : Partial(f, S)[s] \in Int
<1> DEFINE D == {s \in SUBSET S : Partial(f, S)[s] \in Int}
<1>1. {} \in D
  BY PartialEmpty
<1>2. ASSUME NEW s \in SUBSET S, s # {}, \A x \in s : s \ {x} \in D
      PROVE  s \in D
  <2>1. Chosen(s) \in s
    BY <1>2 DEF Chosen
  <2>2. Partial(f, S)[s \ {Chosen(s)}] \in Int /\ f[Chosen(s)] \in Int
    BY <1>2, <2>1
  <2>3. Partial(f, S)[s] = f[Chosen(s)] + Partial(f, S)[s \ {Chosen(s)}]
    <3>1. s # {}
      BY <1>2
    <3> QED BY <3>1, PartialStep DEF Takes
  <2> QED BY <2>2, <2>3
<1>3. SUBSET S \subseteq D
  <2> HIDE DEF D
  <2> QED BY <1>1, <1>2, SubsetInduction
<1> QED BY <1>3

\* Its terms may be taken in any order.
LEMMA PartialTakesAny ==
  ASSUME NEW f, NEW S, IsFiniteSet(S), \A x \in S : f[x] \in Int
  PROVE  \A s \in SUBSET S : \A x \in s : Takes(Partial(f, S), f, s, x)
<1> DEFINE P == Partial(f, S)
           D == {s \in SUBSET S : \A x \in s : P[s] = f[x] + P[s \ {x}]}
<1>1. {} \in D
  OBVIOUS
<1>2. ASSUME NEW s \in SUBSET S, s # {}, \A x \in s : s \ {x} \in D
      PROVE  s \in D
  <2> DEFINE y == Chosen(s)
  <2>1. y \in s
    BY <1>2 DEF Chosen
  <2>2. P[s] = f[y] + P[s \ {y}]
    BY <1>2, PartialStep DEF Takes
  <2> HIDE DEF y
  <2> SUFFICES ASSUME NEW x \in s, x # y PROVE P[s] = f[x] + P[s \ {x}]
    BY <2>2
  <2>3. P[s \ {y}] = f[x] + P[(s \ {y}) \ {x}]
    BY <1>2, <2>1
  <2>4. P[s \ {x}] = f[y] + P[(s \ {x}) \ {y}]
    BY <1>2, <2>1
  <2>5. (s \ {y}) \ {x} = (s \ {x}) \ {y}
    OBVIOUS
  <2>6. P[(s \ {y}) \ {x}] \in Int
    <3>1. (s \ {y}) \ {x} \in SUBSET S
      OBVIOUS
    <3> HIDE DEF P
    <3> QED BY <3>1, PartialInt DEF P
  <2>7. f[x] \in Int /\ f[y] \in Int
    BY <2>1
  <2> DEFINE r == (s \ {y}) \ {x}
  <2>8. P[s \ {y}] = f[x] + P[r] /\ P[s \ {x}] = f[y] + P[r] /\ P[r] \in Int
    BY <2>3, <2>4, <2>5, <2>6
  <2> HIDE DEF P, D, r
  <2> QED BY <2>2, <2>7, <2>8
<1>3. SUBSET S \subseteq D
  <2> HIDE DEF D
  <2> QED BY <1>1, <1>2, SubsetInduction
<1> QED BY <1>3 DEF Takes

\* The same for one set and one term, as it is cited.
LEMMA PartialTakes ==
  ASSUME NEW f, NEW S, IsFiniteSet(S), \A x \in S : f[x] \in Int,
         NEW s \in SUBSET S, NEW x \in s
  PROVE  Takes(Partial(f, S), f, s, x)
BY PartialTakesAny

\* Sums of equal terms are equal.
LEMMA PartialSame ==
  ASSUME NEW f, NEW g, NEW S, IsFiniteSet(S)
  PROVE  \A s \in SUBSET S : (\A x \in s : f[x] = g[x]) => Partial(f, S)[s] = Partial(g, S)[s]
<1>1. ASSUME NEW t \in SUBSET S, t # {}
      PROVE  Takes(Partial(f, S), f, t, Chosen(t))
  BY <1>1, PartialStep
<1>2. ASSUME NEW t \in SUBSET S, t # {}
      PROVE  Takes(Partial(g, S), g, t, Chosen(t))
  BY <1>2, PartialStep
<1> DEFINE D == {t \in SUBSET S : (\A x \in t : f[x] = g[x]) => Partial(f, S)[t] = Partial(g, S)[t]}
<1>3. {} \in D
  BY PartialEmpty
<1>4. ASSUME NEW t \in SUBSET S, t # {}, \A x \in t : t \ {x} \in D
      PROVE  t \in D
  <2> SUFFICES ASSUME \A x \in t : f[x] = g[x] PROVE Partial(f, S)[t] = Partial(g, S)[t]
    OBVIOUS
  <2> DEFINE y == Chosen(t)
  <2>1. y \in t
    BY <1>4 DEF Chosen
  <2>2. Partial(f, S)[t] = f[y] + Partial(f, S)[t \ {y}]
    BY <1>1, <1>4 DEF Takes
  <2>3. Partial(g, S)[t] = g[y] + Partial(g, S)[t \ {y}]
    BY <1>2, <1>4 DEF Takes
  <2> HIDE DEF y
  <2>4. Partial(f, S)[t \ {y}] = Partial(g, S)[t \ {y}]
    BY <1>4, <2>1
  <2> QED BY <2>1, <2>2, <2>3, <2>4
<1>5. SUBSET S \subseteq D
  <2> HIDE DEF D
  <2> QED BY <1>3, <1>4, SubsetInduction
<1> QED BY <1>5

\* A sum of naturals is a natural.
LEMMA PartialNat ==
  ASSUME NEW f, NEW S, IsFiniteSet(S), \A x \in S : f[x] \in Nat
  PROVE  \A s \in SUBSET S : Partial(f, S)[s] \in Nat
<1> DEFINE D == {s \in SUBSET S : Partial(f, S)[s] \in Nat}
<1>1. {} \in D
  BY PartialEmpty
<1>2. ASSUME NEW s \in SUBSET S, s # {}, \A x \in s : s \ {x} \in D
      PROVE  s \in D
  <2>1. Chosen(s) \in s
    BY <1>2 DEF Chosen
  <2>2. Partial(f, S)[s \ {Chosen(s)}] \in Nat /\ f[Chosen(s)] \in Nat
    BY <1>2, <2>1
  <2>3. Partial(f, S)[s] = f[Chosen(s)] + Partial(f, S)[s \ {Chosen(s)}]
    <3>1. s # {}
      BY <1>2
    <3> QED BY <3>1, PartialStep DEF Takes
  <2> QED BY <2>2, <2>3
<1>3. SUBSET S \subseteq D
  <2> HIDE DEF D
  <2> QED BY <1>1, <1>2, SubsetInduction
<1> QED BY <1>3

-----------------------------------------------------------------------------
(***************************************************************************)
(* The supply: what all accounts hold.                                     *)
(***************************************************************************)

\* All lamports of a ledger.
Supply(bal) == Partial(bal, Accounts)[Accounts]

\* It is what RealisticSupply bounds.
LEMMA RealisticMeans ==
  ASSUME NEW bal
  PROVE  RealisticSupply(bal) <=> 2 * Supply(bal) <= MaxU64
BY SumIsPartial DEF RealisticSupply, Supply

\* No account holds more than all, nor two accounts together.
LEMMA SupplyBounds ==
  ASSUME NEW bal \in Ledgers
  PROVE  /\ Supply(bal) \in Nat
         /\ \A a \in Accounts : bal[a] <= Supply(bal)
         /\ \A a, b \in Accounts : a # b => bal[a] + bal[b] <= Supply(bal)
<1> DEFINE P(s) == Partial(bal, Accounts)[s]
<1>1. \A a \in Accounts : bal[a] \in Nat
  BY MaxU64Assumption DEF Ledgers
<1>2. \A s \in SUBSET Accounts : P(s) \in Nat
  BY <1>1, OracleAssumption, PartialNat
<1>3. ASSUME NEW s \in SUBSET Accounts, NEW a \in s
      PROVE  P(s) = bal[a] + P(s \ {a})
  BY <1>1, OracleAssumption, PartialTakes DEF Takes
<1>4. ASSUME NEW a \in Accounts
      PROVE  bal[a] <= P(Accounts)
  <2>1. P(Accounts) = bal[a] + P(Accounts \ {a})
    BY <1>3
  <2>2. P(Accounts \ {a}) \in Nat
    BY <1>2
  <2> HIDE DEF P
  <2> QED BY <1>1, <2>1, <2>2
<1>5. ASSUME NEW a \in Accounts, NEW b \in Accounts, a # b
      PROVE  bal[a] + bal[b] <= P(Accounts)
  <2>1. P(Accounts) = bal[a] + P(Accounts \ {a})
    BY <1>3
  <2>2. P(Accounts \ {a}) = bal[b] + P((Accounts \ {a}) \ {b})
    BY <1>3, <1>5
  <2>3. P((Accounts \ {a}) \ {b}) \in Nat
    BY <1>2
  <2> HIDE DEF P
  <2> QED BY <1>1, <2>1, <2>2, <2>3
<1>6. P(Accounts) \in Nat
  BY <1>2
<1> QED BY <1>4, <1>5, <1>6 DEF Supply

\* Lamports moved between two accounts leave the supply as it is.
LEMMA SupplyKept ==
  ASSUME NEW pre \in Ledgers, NEW post \in Ledgers,
         NEW a \in Accounts, NEW b \in Accounts,
         PairTotal(post, a, b) = PairTotal(pre, a, b),
         \A c \in Accounts : c # a /\ c # b => post[c] = pre[c]
  PROVE  Supply(post) = Supply(pre)
<1>1. \A c \in Accounts : pre[c] \in Int /\ post[c] \in Int
  <2>1. U64 \subseteq Int
    BY MaxU64Assumption
  <2>2. pre \in [Accounts -> U64] /\ post \in [Accounts -> U64]
    BY DEF Ledgers
  <2> HIDE DEF U64
  <2> QED BY <2>1, <2>2
<1> DEFINE P(s) == Partial(pre, Accounts)[s]
           Q(s) == Partial(post, Accounts)[s]
           rest == (Accounts \ {a}) \ {b}
<1>2. ASSUME NEW s \in SUBSET Accounts, NEW c \in s
      PROVE  P(s) = pre[c] + P(s \ {c}) /\ Q(s) = post[c] + Q(s \ {c})
  BY <1>1, OracleAssumption, PartialTakes DEF Takes
<1>3. P(rest) = Q(rest) /\ P(rest) \in Int
  BY <1>1, OracleAssumption, PartialSame, PartialInt
<1>4. CASE a = b
  <2>1. rest = Accounts \ {a}
    BY <1>4
  <2>2. P(Accounts) = pre[a] + P(Accounts \ {a}) /\ Q(Accounts) = post[a] + Q(Accounts \ {a})
    BY <1>2
  <2>3. pre[a] = post[a]
    BY <1>4 DEF PairTotal
  <2> QED BY <1>3, <2>1, <2>2, <2>3 DEF Supply
<1>5. CASE a # b
  <2>1. P(Accounts) = pre[a] + P(Accounts \ {a}) /\ Q(Accounts) = post[a] + Q(Accounts \ {a})
    BY <1>2
  <2>2. P(Accounts \ {a}) = pre[b] + P(rest) /\ Q(Accounts \ {a}) = post[b] + Q(rest)
    BY <1>2, <1>5
  <2>3. post[a] + post[b] = pre[a] + pre[b]
    BY <1>5 DEF PairTotal
  <2>4. Supply(pre) = P(Accounts) /\ Supply(post) = Q(Accounts)
    BY DEF Supply
  <2>5. pre[a] \in Int /\ pre[b] \in Int /\ post[a] \in Int /\ post[b] \in Int
    BY <1>1
  <2> HIDE DEF P, Q, rest
  <2> QED BY <1>3, <2>1, <2>2, <2>3, <2>4, <2>5
<1> QED BY <1>4, <1>5

-----------------------------------------------------------------------------
(***************************************************************************)
(* Direct swaps.                                                           *)
(***************************************************************************)

\* The payout is the floor: no more than the rate says, and less than one short.
LEMMA Floor ==
  ASSUME NEW n \in Nat, NEW d \in Nat \ {0}
  PROVE  (n \div d) * d <= n /\ n < ((n \div d) + 1) * d
OBVIOUS

\* So the handler pays what the market expects.
LEMMA PayoutIsFloor ==
  ASSUME NEW data, data.rate \in Rates, data.rate.den # 0, data.amount \in U64
  PROVE  IsPayout(swap_out(data.amount, data.rate), data)
<1> DEFINE n == data.amount * data.rate.num
           d == data.rate.den
<1>1. n \in Nat /\ d \in Nat \ {0}
  BY MaxU64Assumption DEF Rates
<1>2. swap_out(data.amount, data.rate) = n \div d
  BY DEF swap_out
<1> HIDE DEF n, d
<1>3. (n \div d) * d <= n /\ n < ((n \div d) + 1) * d
  BY <1>1, Floor
<1> QED BY <1>2, <1>3 DEF IsPayout, n, d

\* What the handler answers to any SWAP instruction.
LEMMA DirectAnswer ==
  ASSUME NEW bal \in Ledgers, NEW s \in SwapType,
         NEW a, a = s.accounts[1], NEW b, b = s.accounts[2],
         NEW out, out = swap_out(s.data.amount, s.data.rate),
         NEW r, r = process_instruction_amm(bal, s.accounts, s.writable, s.data)
  PROVE  \/ r.err \in SwapErrors \cup {"NotEnoughAccountKeys"} /\ r.bal = bal
         \/ /\ r = Answer("Ok", WriteBalances(bal, a, b, s.data.amount, out))
            /\ Len(s.accounts) >= 2 /\ s.data.rate.den # 0
            /\ a \in Accounts /\ b \in Accounts /\ a \in AmmOwned
            /\ out \in U64
            /\ bal[a] + s.data.amount - out \in U64
            /\ bal[b] - s.data.amount + out \in U64
<1> DEFINE amount == s.data.amount
           rate == s.data.rate
<1>0. amount \in U64 /\ rate \in Rates /\ s.accounts \in Seq(Accounts)
  BY DEF SwapType
<1>1. CASE parse_swap_rejects(s.data)
  BY <1>1 DEF process_instruction_amm, Answer, VenueErrors, SwapErrors
<1>2. CASE ~parse_swap_rejects(s.data)
  <2>1. rate.den # 0
    BY <1>2 DEF parse_swap_rejects
  <2>2. out \in Nat
    BY <1>0, <2>1, PayoutIsNat
  <2>3. r = process_swap(bal, s.accounts, s.writable, rate, amount)
    BY <1>2 DEF process_instruction_amm
  <2> HIDE DEF amount, rate
  <2>4. CASE Len(s.accounts) < 2
    BY <2>3, <2>4 DEF process_swap, Answer
  <2>5. CASE ~(Len(s.accounts) < 2) /\ account_error(a, b, s.writable) # "Ok"
    BY <2>3, <2>5 DEF process_swap, account_error, Answer, VenueErrors, SwapErrors
  <2>6. CASE /\ ~(Len(s.accounts) < 2) /\ account_error(a, b, s.writable) = "Ok"
             /\ balance_error(bal, a, b, amount, out) # "Ok"
    BY <2>3, <2>6 DEF process_swap, balance_error, Answer, VenueErrors, SwapErrors, amount, rate
  <2>7. CASE /\ ~(Len(s.accounts) < 2) /\ account_error(a, b, s.writable) = "Ok"
             /\ balance_error(bal, a, b, amount, out) = "Ok"
    <3>1. r = Answer("Ok", WriteBalances(bal, a, b, amount, out))
      BY <2>3, <2>7 DEF process_swap, amount, rate
    <3>2. a \in AmmOwned
      BY <2>7 DEF account_error
    <3>3. Len(s.accounts) >= 2 /\ a \in Accounts /\ b \in Accounts
      <4>1. Len(s.accounts) \in Nat /\ \A k \in 1 .. Len(s.accounts) : s.accounts[k] \in Accounts
        BY <1>0
      <4>2. Len(s.accounts) >= 2 /\ 1 \in 1 .. Len(s.accounts) /\ 2 \in 1 .. Len(s.accounts)
        BY <2>7, <4>1
      <4> QED BY <4>1, <4>2
    <3>4. bal[a] \in U64 /\ bal[b] \in U64 /\ amount \in U64
      BY <1>0, <3>3 DEF Ledgers, amount
    <3>5. out <= MaxU64 /\ bal[b] >= amount /\ bal[a] + amount <= MaxU64
          /\ bal[a] + amount >= out /\ bal[b] - amount + out <= MaxU64
      <4>1. /\ ~(out > MaxU64) /\ ~(bal[b] < amount) /\ ~(bal[a] + amount > MaxU64)
            /\ ~(bal[a] + amount < out) /\ ~(bal[b] - amount + out > MaxU64)
        BY <2>7, Zenon DEF balance_error
      <4>2. bal[a] \in Nat /\ bal[b] \in Nat /\ amount \in Nat
        BY <3>4, MaxU64Assumption
      <4> QED BY <2>2, <4>1, <4>2, MaxU64Assumption
    <3>6. out \in U64 /\ bal[a] + amount - out \in U64 /\ bal[b] - amount + out \in U64
      BY <2>2, <3>4, <3>5, MaxU64Assumption
    <3> QED BY <2>1, <3>1, <3>2, <3>3, <3>6 DEF amount, rate
  <2> QED BY <2>4, <2>5, <2>6, <2>7
<1> QED BY <1>1, <1>2

\* A swap as the market sees it settle.
Settled(s, out) ==
  /\ Len(s.accounts) > 1 /\ s.data.rate.den # 0
  /\ out \in U64 /\ IsPayout(out, s.data)
  /\ s.accounts[1] = s.accounts[2] => out = s.data.amount
  /\ ledger' = IF s.accounts[1] = s.accounts[2] THEN ledger
               ELSE [ledger EXCEPT ![s.accounts[1]] = @ + s.data.amount - out,
                                   ![s.accounts[2]] = @ - s.data.amount + out]
  /\ result' = "Ok"

\* A direct swap answers with some error or settles, keeps every balance in u64
\* and between the accounts it names, and takes nothing from a foreign one.
LEMMA SwapSettles ==
  ASSUME RouteInv, NEW s \in Swaps, Swap(s)
  PROVE  /\ \/ ledger' = ledger /\ result' # "Ok"
            \/ \E out \in U64 : Settled(s, out)
         /\ ledger' \in Ledgers
         /\ result' \in Results \ {"Pending"}
<1> DEFINE a == s.accounts[1]
           b == s.accounts[2]
           amount == s.data.amount
           out == swap_out(amount, s.data.rate)
           r == process_instruction_amm(ledger, s.accounts, s.writable, s.data)
           bal == WriteBalances(ledger, a, b, amount, out)
           seen == Accept(AmmOwned, ledger, r, a, b)
<1>1. s \in SwapType /\ ledger \in Ledgers
  BY MarketAssumption DEF RouteInv, TypeOK
<1>2. amount \in U64 /\ s.data.rate \in Rates
  BY <1>1 DEF SwapType
<1>3. CASE r.err # "Ok"
  <2>1. r.err \in SwapErrors \cup {"NotEnoughAccountKeys"} /\ r.bal = ledger
    BY <1>1, <1>3, DirectAnswer DEF Answer
  <2>2. ledger' = ledger /\ result' = r.err /\ result' # "Ok"
    BY <1>3, <2>1 DEF Swap
  <2> QED BY <1>1, <2>1, <2>2 DEF SwapErrors, VenueErrors, Results
<1>4. CASE r.err = "Ok"
  <2>1. /\ r = Answer("Ok", bal)
        /\ Len(s.accounts) >= 2 /\ s.data.rate.den # 0
        /\ a \in Accounts /\ b \in Accounts
        /\ out \in U64
        /\ ledger[a] + amount - out \in U64
        /\ ledger[b] - amount + out \in U64
    <3>1. r.err \notin SwapErrors \cup {"NotEnoughAccountKeys"}
      BY <1>4 DEF SwapErrors, VenueErrors
    <3> HIDE DEF r, bal, out
    <3> QED BY <1>1, <3>1, DirectAnswer DEF r, bal, out
  <2>2. ledger' = seen.bal /\ result' = seen.err
    BY <1>4 DEF Swap
  <2>3. \/ seen.err \in VenueErrors /\ seen.bal = ledger
        \/ seen = Answer("Ok", bal) /\ PairTotal(bal, a, b) = PairTotal(ledger, a, b)
    <3> HIDE DEF r, bal, a, b
    <3> QED BY <2>1 DEF seen, Accept, Answer, VenueErrors
  <2>4. CASE seen.err \in VenueErrors /\ seen.bal = ledger
    BY <1>1, <2>2, <2>4 DEF VenueErrors, Results
  <2>5. CASE seen = Answer("Ok", bal) /\ PairTotal(bal, a, b) = PairTotal(ledger, a, b)
    <3>1. ledger' = bal /\ result' = "Ok"
      BY <2>2, <2>5 DEF Answer
    <3>2. ledger \in [Accounts -> U64] /\ ledger[a] \in Int /\ ledger[b] \in Int
      BY <1>1, <2>1, MaxU64Assumption DEF Ledgers
    <3>3. bal \in Ledgers
      BY <2>1, <3>2 DEF WriteBalances, Ledgers
    <3>4. IsPayout(out, s.data)
      BY <1>2, <2>1, PayoutIsFloor
    <3>5. CASE a = b
      <4>1. bal[a] = ledger[a]
        BY <2>5, <3>5 DEF PairTotal
      <4>2. bal = [ledger EXCEPT ![a] = bal[a]] /\ bal[a] = ledger[a] - amount + out
        BY <2>1, <3>2, <3>5 DEF WriteBalances
      <4>3. bal = ledger
        BY <2>1, <3>2, <4>1, <4>2
      <4>4. out = amount
        <5>1. ledger[a] = ledger[a] - amount + out
          BY <4>1, <4>2
        <5> HIDE DEF a, amount, out
        <5> QED BY <1>2, <2>1, <3>2, <5>1, MaxU64Assumption
      <4>5. Settled(s, out)
        BY <2>1, <3>1, <3>4, <3>5, <4>3, <4>4 DEF Settled
      <4> QED BY <2>1, <3>1, <3>3, <4>5 DEF Results
    <3>6. CASE a # b
      <4>1. bal = [ledger EXCEPT ![a] = @ + amount - out, ![b] = @ - amount + out]
        BY <2>1, <3>2, <3>6 DEF WriteBalances
      <4>2. Settled(s, out)
        BY <2>1, <3>1, <3>4, <3>6, <4>1 DEF Settled
      <4> QED BY <2>1, <3>1, <3>3, <4>2 DEF Results
    <3> QED BY <3>5, <3>6
  <2> QED BY <2>3, <2>4, <2>5
<1> QED BY <1>3, <1>4

\* Direct swaps leave the router's invariant alone: they come between routes.
LEMMA SwapInv ==
  ASSUME RouteInv, NEW s \in Swaps, Swap(s)
  PROVE  RouteInv'
<1>1. ledger' \in Ledgers /\ result' \in Results \ {"Pending"}
  BY SwapSettles
<1>2. pc = "idle" /\ work' = ledger' /\ UNCHANGED <<ix, pc, hop, in_amount, before>>
  BY DEF Swap
<1> QED
  BY <1>1, <1>2
     DEF RouteInv, TypeOK, Control, AmountForwarded, WorkConfined, Locations

\* Nor does any other step disturb it.
LEMMA MarketNextInv == RouteInv /\ [MarketNext]_vars => RouteInv'
BY SwapInv, NextIsAnyVenue, NextAnyVenueInv DEF MarketNext

\* The market keeps the router's invariant: whatever anybody swaps between two
\* routes, balances stay in u64 and the next route starts from what is committed.
THEOREM MarketInvariant == MarketSpec => []RouteInv
BY InitInv, MarketNextInv, PTL DEF MarketSpec

\* Types, in every state of the market.
THEOREM MarketTypes == MarketSpec => []TypeOK
BY MarketInvariant, PTL DEF RouteInv

\* A direct swap settles exactly, at the floor of the rate, or not at all.
THEOREM SwapsSettleExactly == MarketSpec => SettlesExactly
<1> DEFINE A == pc = "idle" /\ pc' = "idle" =>
       \/ ledger' = ledger /\ result' # "Ok"
       \/ \E s \in {t \in Swaps : Len(t.accounts) > 1 /\ t.data.rate.den # 0}, out \in U64 :
            LET pool_ == s.accounts[1]
                user_ == s.accounts[2]
            IN /\ ledger' = IF pool_ = user_ THEN ledger
                            ELSE [ledger EXCEPT ![pool_] = @ + s.data.amount - out,
                                                ![user_] = @ - s.data.amount + out]
               /\ pool_ = user_ => out = s.data.amount
               /\ IsPayout(out, s.data)
               /\ Swap(s) /\ result' = "Ok"
<1>1. RouteInv /\ [MarketNext]_vars => [A]_vars
  <2> SUFFICES ASSUME RouteInv, MarketNext, pc = "idle", pc' = "idle",
                      ~(ledger' = ledger /\ result' # "Ok")
               PROVE  A
    OBVIOUS
  <2>1. PICK s \in Swaps : Swap(s)
    BY DEF MarketNext, Next, RouterStep, Submit, Enter, CheckHop, InvokeSwap, Measure, Gate
  <2>2. PICK out \in U64 : Settled(s, out)
    BY <2>1, SwapSettles
  <2> QED BY <2>1, <2>2 DEF Settled
<1> QED BY <1>1, MarketInvariant, PTL DEF MarketSpec, SettlesExactly

-----------------------------------------------------------------------------
(***************************************************************************)
(* What a route does to the supply.                                        *)
(***************************************************************************)

\* A hop's swap that goes through: what it writes, and what it was good for.
LEMMA HopSwap ==
  ASSUME RouteInv, InvokeSwap, pc' = "measure",
         NEW out, out = swap_out(in_amount, hop_rate)
  PROVE  /\ pc = "cpi" /\ UNCHANGED <<ledger, ix, hop, in_amount, before, result>>
         /\ work' = WriteBalances(work, pool, user, in_amount, out) /\ work' \in Ledgers
         /\ user \in Accounts /\ pool \in Accounts
         /\ out \in U64 /\ in_amount <= work[user]
         /\ PairTotal(work', pool, user) = PairTotal(work, pool, user)
<1>1. pc = "cpi" /\ invoke_swap.err = "Ok"
  BY DEF InvokeSwap, Abort, Return
<1>2. work' = invoke_swap.bal /\ UNCHANGED <<ledger, ix, hop, in_amount, before, result>>
  BY <1>1 DEF InvokeSwap
<1>3. invoke_swap.err \notin VenueErrors
  BY <1>1 DEF VenueErrors
<1>4. /\ user \in Accounts /\ pool \in Accounts
      /\ invoke_swap = Answer("Ok", WriteBalances(work, pool, user, in_amount, out))
      /\ PairTotal(invoke_swap.bal, pool, user) = PairTotal(work, pool, user)
      /\ out \in U64 /\ in_amount <= work[user]
      /\ work[pool] + in_amount - out \in U64
      /\ work[user] - in_amount + out \in U64
  BY <1>1, <1>3, InvokeSwapAnswer
<1>5. work' = WriteBalances(work, pool, user, in_amount, out)
  BY <1>2, <1>4 DEF Answer
<1>6. work' \in Ledgers
  <2>1. work \in [Accounts -> U64]
    BY DEF RouteInv, TypeOK, Ledgers
  <2> QED BY <1>4, <1>5, <2>1 DEF WriteBalances, Ledgers
<1> QED BY <1>1, <1>2, <1>4, <1>5, <1>6

\* A running route makes and loses no lamports, and what it measures against is
\* a part of the supply: the hop's input was the user's, and so was not more.
SupplyInv ==
  /\ Supply(work) = Supply(ledger)
  /\ pc = "cpi" => before <= Supply(ledger)
  /\ pc = "measure" =>
       /\ before <= Supply(ledger) /\ in_amount <= before
       /\ before - in_amount <= work[user]

\* Every step keeps it: only a swap writes balances, within its pair.
LEMMA SupplyStep ==
  ASSUME RouteInv, SupplyInv, [MarketNext]_vars
  PROVE  SupplyInv'
<1>1. ASSUME NEW err, Abort(err) PROVE SupplyInv'
  BY <1>1 DEF Abort, Return, SupplyInv
<1>2. ASSUME NEW s \in Swaps, Swap(s) PROVE SupplyInv'
  BY <1>2 DEF Swap, SupplyInv
<1>3. ASSUME NEW i \in Instructions, Submit(i) PROVE SupplyInv'
  BY <1>3 DEF Submit, SupplyInv
<1>4. CASE Enter
  BY <1>1, <1>4 DEF Enter, SupplyInv
<1>5. CASE CheckHop
  <2>1. CASE hop_error # "Ok"
    BY <1>1, <1>5, <2>1 DEF CheckHop
  <2>2. CASE hop_error = "Ok"
    <3>1. /\ pc = "hop" /\ pc' = "cpi" /\ before' = work[user] /\ UNCHANGED <<ledger, work>>
      BY <1>5, <2>2 DEF CheckHop
    <3>2. user \in Accounts /\ work \in Ledgers
      BY <3>1, HopAccounts, RouterAssumption DEF RouteInv, TypeOK, Control
    <3>3. work[user] <= Supply(work)
      BY <3>2, SupplyBounds
    <3> QED BY <3>1, <3>3 DEF SupplyInv
  <2> QED BY <2>1, <2>2
<1>6. CASE InvokeSwap
  <2>1. CASE pc' # "measure"
    BY <1>1, <1>6, <2>1 DEF InvokeSwap
  <2>2. CASE pc' = "measure"
    <3> DEFINE out == swap_out(in_amount, hop_rate)
    <3>1. /\ pc = "cpi" /\ UNCHANGED <<ledger, ix, hop, in_amount, before, result>>
          /\ work' = WriteBalances(work, pool, user, in_amount, out) /\ work' \in Ledgers
          /\ user \in Accounts /\ pool \in Accounts
          /\ out \in U64 /\ in_amount <= work[user]
          /\ PairTotal(work', pool, user) = PairTotal(work, pool, user)
      BY <1>6, <2>2, HopSwap
    <3> HIDE DEF out
    <3>2. work \in [Accounts -> U64] /\ work \in Ledgers /\ in_amount \in U64 /\ before = work[user]
      BY <3>1 DEF RouteInv, TypeOK, AmountForwarded, Ledgers
    <3>3. \A c \in Accounts : c # pool /\ c # user => work'[c] = work[c]
      BY <3>1, <3>2 DEF WriteBalances
    <3>4. Supply(work') = Supply(work)
      BY <3>1, <3>2, <3>3, SupplyKept
    <3>5. work'[user] = work[user] - in_amount + out
      BY <3>1, <3>2 DEF WriteBalances
    <3>6. user' = user
      BY <3>1 DEF user
    <3>7. work[user] \in Nat /\ in_amount \in Nat /\ out \in Nat
      BY <3>1, <3>2, MaxU64Assumption
    <3>8. before - in_amount <= work'[user] /\ in_amount <= before
      BY <3>1, <3>2, <3>5, <3>7
    <3>9. Supply(work)' = Supply(work') /\ Supply(ledger)' = Supply(ledger)
      BY <3>1 DEF Supply
    <3> QED BY <2>2, <3>1, <3>4, <3>6, <3>8, <3>9 DEF SupplyInv
  <2> QED BY <2>1, <2>2
<1>7. CASE Measure
  BY <1>1, <1>7 DEF Measure, SupplyInv
<1>8. CASE Gate
  BY <1>1, <1>8 DEF Gate, Return, SupplyInv
<1>9. CASE UNCHANGED vars
  BY <1>9 DEF vars, SupplyInv, user
<1> QED
  BY <1>2, <1>3, <1>4, <1>5, <1>6, <1>7, <1>8, <1>9 DEF MarketNext, Next, RouterStep

\* The supply of lamports, committed and seen by a running route, is one.
LEMMA SupplyInvariant == MarketSpec => [](RouteInv /\ SupplyInv)
<1>1. Init => SupplyInv
  BY DEF Init, SupplyInv
<1> QED BY <1>1, SupplyStep, MarketInvariant, PTL DEF MarketSpec

\* With a realistic supply the checked arithmetic of the measurement never
\* fires: the user's balance and the hop's input are both parts of the supply.
LEMMA NoWrap ==
  ASSUME RouteInv, SupplyInv
  PROVE  MeasureNeverWraps
<1> SUFFICES ASSUME pc = "measure", RealisticSupply(ledger) PROVE ~measure_overflows
  BY DEF MeasureNeverWraps
<1>1. user \in Accounts /\ work \in Ledgers /\ ledger \in Ledgers
      /\ in_amount \in U64 /\ before \in U64
  BY HopAccounts, RouterAssumption DEF RouteInv, TypeOK, Control
<1>2. 2 * Supply(ledger) <= MaxU64
  BY RealisticMeans
<1>3. work[user] <= Supply(ledger) /\ Supply(ledger) \in Nat
  BY <1>1, SupplyBounds DEF SupplyInv
<1>4. before <= Supply(ledger) /\ in_amount <= before /\ before - in_amount <= work[user]
  BY DEF SupplyInv
<1>5. work[user] \in Nat /\ in_amount \in Nat /\ before \in Nat
  BY <1>1, MaxU64Assumption DEF Ledgers
<1> QED BY <1>2, <1>3, <1>4, <1>5, MaxU64Assumption DEF measure_overflows

\* The measurement never wraps, whatever route runs, with a realistic supply.
THEOREM MeasureNeverWrapsCorrect == MarketSpec => []MeasureNeverWraps
BY NoWrap, SupplyInvariant, PTL

-----------------------------------------------------------------------------
(***************************************************************************)
(* The reference: what every hop takes and gives.                          *)
(***************************************************************************)

\* The equation expected_hops is defined by.
Hops(d, it) ==
  [h \in 0 .. d.hop_count |->
     IF h = 0 THEN d.initial_amount ELSE swap_out(it[h - 1], d.rates[h])]

\* It has a solution, built up hop by hop.
LEMMA HopsExist ==
  ASSUME NEW d, d.hop_count \in Nat
  PROVE  expected_hops(d) = Hops(d, expected_hops(d))
<1> DEFINE Step(it, h) == IF h = 0 THEN d.initial_amount ELSE swap_out(it[h - 1], d.rates[h])
           Body(it, m) == [h \in 0 .. m |-> Step(it, h)]
           D == {m \in Nat : \E it : it = Body(it, m)}
<1>1. 0 \in D
  <2> DEFINE g == [h \in 0 .. 0 |-> d.initial_amount]
  <2>1. g = Body(g, 0)
    OBVIOUS
  <2> QED BY <2>1
<1>2. ASSUME NEW m \in Nat, m \in D PROVE m + 1 \in D
  <2>1. PICK g : g = Body(g, m)
    BY <1>2
  <2> DEFINE e == swap_out(g[m], d.rates[m + 1])
             it == [h \in 0 .. m + 1 |-> IF h = m + 1 THEN e ELSE g[h]]
  <2>2. \A h \in 0 .. m : g[h] = Step(g, h)
    <3> HIDE DEF Step
    <3> QED BY <2>1
  <2>3. it[m + 1] = e /\ \A h \in 0 .. m : it[h] = g[h]
    OBVIOUS
  <2>4. it = [h \in 0 .. m + 1 |-> it[h]]
    OBVIOUS
  <2> HIDE DEF it
  <2>5. ASSUME NEW h \in 0 .. m + 1 PROVE it[h] = Step(it, h)
    <3>1. CASE h = m + 1
      BY <2>3, <3>1
    <3>2. CASE h # m + 1
      <4>1. h \in 0 .. m /\ (h # 0 => h - 1 \in 0 .. m)
        BY <3>2
      <4>2. Step(it, h) = Step(g, h)
        BY <2>3, <4>1
      <4> HIDE DEF Step
      <4> QED BY <2>2, <2>3, <4>1, <4>2
    <3> QED BY <3>1, <3>2
  <2>6. it = Body(it, m + 1)
    <3> HIDE DEF Step
    <3> QED BY <2>4, <2>5
  <2> HIDE DEF Body
  <2> QED BY <2>6
<1>3. \E it : it = Body(it, d.hop_count)
  <2>1. Nat \subseteq D
    <3>1. \A m \in Nat : m \in D => m + 1 \in D
      BY <1>2
    <3> HIDE DEF D
    <3> QED BY <1>1, <3>1, NatSetInduction
  <2> HIDE DEF Body
  <2> QED BY <2>1
<1>4. expected_hops(d) = CHOOSE it : it = Hops(d, it)
  BY DEF expected_hops, Hops
<1>5. \E it : it = Hops(d, it)
  BY <1>3 DEF Hops
<1> QED BY <1>4, <1>5

\* The first amount is the initial one.
LEMMA HopsStart ==
  ASSUME NEW d, d.hop_count \in Nat
  PROVE  expected_hops(d)[0] = d.initial_amount
<1> DEFINE E == expected_hops(d)
<1>1. E = Hops(d, E)
  BY HopsExist
<1> HIDE DEF E
<1>2. E[0] = d.initial_amount
  BY <1>1 DEF Hops
<1> QED BY <1>2 DEF E

\* Every other amount is the payout of the one before.
LEMMA HopsNext ==
  ASSUME NEW d, d.hop_count \in Nat, NEW h \in Nat, h < d.hop_count
  PROVE  expected_hops(d)[h + 1] = swap_out(expected_hops(d)[h], d.rates[h + 1])
<1> DEFINE E == expected_hops(d)
<1>1. E = Hops(d, E)
  BY HopsExist
<1> HIDE DEF E
<1>2. h + 1 \in 0 .. d.hop_count /\ h + 1 # 0 /\ (h + 1) - 1 = h
  OBVIOUS
<1>3. E[h + 1] = swap_out(E[(h + 1) - 1], d.rates[h + 1])
  BY <1>1, <1>2 DEF Hops
<1> QED BY <1>2, <1>3 DEF E

\* What hop h has brought account a as its pool, once k hops are done.
Turn(i, a, h, k) ==
  IF h < k /\ i.accounts[3 + 2 * h] = a
    THEN expected_hops(i.data)[h] - expected_hops(i.data)[h + 1] ELSE 0

\* What the reference says a holds after k of the hops.
BalanceAfter(i, bal, a, k) ==
  bal[a] + (IF a = i.accounts[1] THEN expected_hops(i.data)[k] - expected_hops(i.data)[0] ELSE 0)
         + Turn(i, a, 0, k) + Turn(i, a, 1, k) + Turn(i, a, 2, k)

\* The hops that have been swapped: the one being measured counts.
done == IF pc = "measure" THEN hop + 1 ELSE hop

\* The route is where the reference is after as many hops.
AsExpected ==
  pc \in {"hop", "cpi", "measure"} =>
    LET E == expected_hops(ix.data) IN
    /\ \A h \in 0 .. done : E[h] \in U64
    /\ in_amount = E[hop]
    /\ pc = "measure" => work[user] = before - in_amount + E[hop + 1]
    /\ \A a \in Accounts : work[a] = BalanceAfter(ix, ledger, a, done)

\* One more hop: the user's and the pool's part of it.
LEMMA BalanceStep ==
  ASSUME NEW i, NEW bal, NEW a, bal[a] \in Int, NEW k \in 0 .. 2,
         \A h \in 0 .. k + 1 : expected_hops(i.data)[h] \in Int
  PROVE  /\ BalanceAfter(i, bal, a, k) \in Int
         /\ BalanceAfter(i, bal, a, k + 1) =
              BalanceAfter(i, bal, a, k)
                + (IF a = i.accounts[1]
                     THEN expected_hops(i.data)[k + 1] - expected_hops(i.data)[k] ELSE 0)
                + (IF a = i.accounts[3 + 2 * k]
                     THEN expected_hops(i.data)[k] - expected_hops(i.data)[k + 1] ELSE 0)
<1> DEFINE E == expected_hops(i.data)
           T(h, n) == Turn(i, a, h, n)
           B(n) == IF a = i.accounts[1] THEN E[n] - E[0] ELSE 0
           t == IF a = i.accounts[3 + 2 * k] THEN E[k] - E[k + 1] ELSE 0
<1>1. E[0] \in Int /\ E[k] \in Int /\ E[k + 1] \in Int
  BY Z3
<1>2. ASSUME NEW h \in 0 .. 2
      PROVE  T(h, k) \in Int
  BY <1>2 DEF Turn
<1>3. ASSUME NEW h \in 0 .. 2
      PROVE  T(h, k + 1) = IF h = k THEN t ELSE T(h, k)
  BY <1>3 DEF Turn
<1>4. T(k, k) = 0
  BY DEF Turn
<1>5. T(0, k + 1) + T(1, k + 1) + T(2, k + 1) = T(0, k) + T(1, k) + T(2, k) + t
      /\ T(0, k) + T(1, k) + T(2, k) \in Int /\ t \in Int
  <2>1. t \in Int
    BY <1>1
  <2> HIDE DEF T, t
  <2>2. CASE k = 0
    BY <1>2, <1>3, <1>4, <2>1, <2>2
  <2>3. CASE k = 1
    BY <1>2, <1>3, <1>4, <2>1, <2>3
  <2>4. CASE k = 2
    BY <1>2, <1>3, <1>4, <2>1, <2>4
  <2> QED BY <2>2, <2>3, <2>4
<1>6. /\ BalanceAfter(i, bal, a, k) = bal[a] + B(k) + (T(0, k) + T(1, k) + T(2, k))
      /\ BalanceAfter(i, bal, a, k + 1) =
           bal[a] + B(k + 1) + (T(0, k + 1) + T(1, k + 1) + T(2, k + 1))
  <2>1. \A h \in 0 .. 2 : T(h, k) \in Int /\ T(h, k + 1) \in Int
    <3>1. t \in Int
      BY <1>1
    <3> HIDE DEF T, t
    <3> QED BY <1>2, <1>3, <3>1
  <2>2. B(k) \in Int /\ B(k + 1) \in Int
    BY <1>1
  <2>3. /\ BalanceAfter(i, bal, a, k) = bal[a] + B(k) + T(0, k) + T(1, k) + T(2, k)
        /\ BalanceAfter(i, bal, a, k + 1) =
             bal[a] + B(k + 1) + T(0, k + 1) + T(1, k + 1) + T(2, k + 1)
    BY DEF BalanceAfter
  <2> HIDE DEF T, B
  <2> QED BY <2>1, <2>2, <2>3
<1>7. B(k + 1) = B(k) + (IF a = i.accounts[1] THEN E[k + 1] - E[k] ELSE 0) /\ B(k) \in Int
  BY <1>1
<1> DEFINE b == IF a = i.accounts[1] THEN E[k + 1] - E[k] ELSE 0
<1>8. b \in Int /\ B(k + 1) = B(k) + b
  BY <1>1, <1>7
<1> DEFINE X == BalanceAfter(i, bal, a, k)
           Y == BalanceAfter(i, bal, a, k + 1)
<1>9. X \in Int /\ Y = X + b + t
  <2> DEFINE u == T(0, k) + T(1, k) + T(2, k)
             w == T(0, k + 1) + T(1, k + 1) + T(2, k + 1)
             p == B(k)
             q == B(k + 1)
  <2>1. X = bal[a] + p + u /\ Y = bal[a] + q + w
    BY <1>6
  <2>2. w = u + t /\ u \in Int /\ t \in Int /\ q = p + b /\ p \in Int /\ b \in Int
    BY <1>5, <1>7, <1>8
  <2> HIDE DEF X, Y, b, t, u, w, p, q
  <2> QED BY <2>1, <2>2
<1> QED BY <1>9

\* Before the first hop nobody has gained or lost.
LEMMA BalanceStart ==
  ASSUME NEW i, NEW bal, NEW a, bal[a] \in Int, expected_hops(i.data)[0] \in Int
  PROVE  BalanceAfter(i, bal, a, 0) = bal[a]
BY DEF BalanceAfter, Turn

\* A swap moves the route on exactly as the reference does, also when the hop's
\* pool is the user (nothing moves) or serves several hops.
LEMMA SwapAsExpected ==
  ASSUME RouteInv, AsExpected, InvokeSwap, pc' = "measure"
  PROVE  AsExpected'
<1> DEFINE out == swap_out(in_amount, hop_rate)
           E == expected_hops(ix.data)
<1>1. /\ pc = "cpi" /\ UNCHANGED <<ledger, ix, hop, in_amount, before, result>>
      /\ work' = WriteBalances(work, pool, user, in_amount, out) /\ work' \in Ledgers
      /\ user \in Accounts /\ pool \in Accounts
      /\ out \in U64 /\ in_amount <= work[user]
      /\ PairTotal(work', pool, user) = PairTotal(work, pool, user)
  BY HopSwap
<1>2. /\ ix \in InstructionType /\ hop < ix.data.hop_count /\ ix.data.hop_count \in 1 .. 3
      /\ hop \in 0 .. 2 /\ in_amount \in U64 /\ before = work[user]
      /\ work \in [Accounts -> U64] /\ ledger \in [Accounts -> U64]
  <2>1. ix \in InstructionType
    BY <1>1 DEF RouteInv, TypeOK, Control
  <2>2. hop < ix.data.hop_count /\ ix.data.hop_count \in 1 .. 3 /\ hop \in 0 .. 3
    BY <1>1 DEF RouteInv, TypeOK, MAX_HOPS
  <2>3. in_amount \in U64 /\ work \in [Accounts -> U64] /\ ledger \in [Accounts -> U64]
    BY DEF RouteInv, TypeOK, Ledgers
  <2>4. before = work[user]
    BY <1>1 DEF RouteInv, AmountForwarded
  <2> QED BY <2>1, <2>2, <2>3, <2>4
<1>3. (\A h \in 0 .. hop : E[h] \in U64) /\ in_amount = E[hop]
      /\ \A a \in Accounts : work[a] = BalanceAfter(ix, ledger, a, hop)
  BY <1>1 DEF AsExpected, done
<1>4. E[hop + 1] = out
  BY <1>2, <1>3, HopsNext DEF hop_rate
<1>5. \A h \in 0 .. hop + 1 : E[h] \in U64
  <2> HIDE DEF E, out
  <2> SUFFICES ASSUME NEW h \in 0 .. hop + 1 PROVE E[h] \in U64
    OBVIOUS
  <2>1. CASE h = hop + 1
    BY <1>1, <1>4, <2>1
  <2>2. CASE h # hop + 1
    <3>1. h \in 0 .. hop
      BY <1>2, <2>2
    <3> QED BY <1>3, <3>1
  <2> QED BY <2>1, <2>2
<1>6. work'[user] = before - in_amount + E[hop + 1]
  BY <1>1, <1>2, <1>4 DEF WriteBalances
<1>7. ASSUME NEW a \in Accounts
      PROVE  work'[a] = BalanceAfter(ix, ledger, a, hop + 1)
  <2> DEFINE X == BalanceAfter(ix, ledger, a, hop)
             Y == BalanceAfter(ix, ledger, a, hop + 1)
             bought == IF a = user THEN E[hop + 1] - E[hop] ELSE 0
             sold == IF a = pool THEN E[hop] - E[hop + 1] ELSE 0
  <2> SUFFICES work'[a] = Y
    OBVIOUS
  <2>1. X \in Int /\ Y = X + bought + sold
    <3>1. \A h \in 0 .. hop + 1 : E[h] \in Int
      <4> HIDE DEF E
      <4> QED BY <1>5, MaxU64Assumption
    <3>2. ledger[a] \in Int
      BY <1>2, MaxU64Assumption
    <3> QED BY <1>2, <3>1, <3>2, BalanceStep DEF user, pool
  <2>2. work[a] = X /\ E[hop] = in_amount /\ E[hop + 1] = out
    BY <1>3, <1>4
  <2>3. in_amount \in Int /\ out \in Int /\ work[a] \in Int
    BY <1>1, <1>2, MaxU64Assumption
  <2>4. CASE pool = user
    <3>1. work'[user] = work[user] /\ work'[user] = work[user] - in_amount + out
      BY <1>1, <1>2, <2>4 DEF PairTotal, WriteBalances
    <3>2. work[user] \in Int
      BY <1>1, <1>2, MaxU64Assumption
    <3> HIDE DEF out, E, X, Y
    <3>3. out = in_amount
      BY <2>3, <3>1, <3>2
    <3>4. work'[a] = work[a]
      BY <1>1, <1>2, <2>4, <3>1 DEF WriteBalances
    <3> QED BY <2>1, <2>2, <2>3, <3>3, <3>4
  <2>5. CASE pool # user
    <3>1. work'[a] = IF a = pool THEN work[a] + in_amount - out
                     ELSE IF a = user THEN work[a] - in_amount + out ELSE work[a]
      BY <1>1, <1>2, <2>5 DEF WriteBalances
    <3> HIDE DEF out, E, X, Y
    <3> QED BY <2>1, <2>2, <2>3, <2>5, <3>1
  <2> QED BY <2>4, <2>5
<1>8. done' = hop + 1 /\ user' = user
  BY <1>1 DEF done, user
<1> QED
  BY <1>1, <1>3, <1>5, <1>6, <1>7, <1>8 DEF AsExpected

\* Every step keeps it.
LEMMA AsExpectedStep ==
  ASSUME RouteInv, AsExpected, [MarketNext]_vars
  PROVE  AsExpected'
<1>1. ASSUME NEW err, Abort(err) PROVE AsExpected'
  BY <1>1 DEF Abort, Return, AsExpected
<1>2. ASSUME NEW s \in Swaps, Swap(s) PROVE AsExpected'
  BY <1>2 DEF Swap, AsExpected
<1>3. ASSUME NEW i \in Instructions, Submit(i) PROVE AsExpected'
  BY <1>3 DEF Submit, AsExpected
<1>4. CASE Enter
  <2>1. CASE entry_error # "Ok"
    BY <1>1, <1>4, <2>1 DEF Enter
  <2>2. CASE entry_error = "Ok"
    <3>1. /\ pc = "entry" /\ pc' = "hop" /\ in_amount' = ix.data.initial_amount
          /\ UNCHANGED <<ledger, work, ix, hop>>
      BY <1>4, <2>2 DEF Enter
    <3>2. /\ ix \in InstructionType /\ hop = 0 /\ work = ledger /\ ledger \in Ledgers
      BY <3>1, RouterAssumption DEF RouteInv, TypeOK, Control
    <3>3. ix.data.hop_count \in Nat /\ ix.data.initial_amount \in U64
      BY <3>2 DEF InstructionType, RouteData
    <3>4. expected_hops(ix.data)[0] = ix.data.initial_amount
      BY <3>3, HopsStart
    <3>5. ASSUME NEW a \in Accounts PROVE work[a] = BalanceAfter(ix, ledger, a, 0)
      <4>1. ledger[a] \in Int /\ ix.data.initial_amount \in Int
        BY <3>2, <3>3, MaxU64Assumption DEF Ledgers
      <4> QED BY <3>2, <3>4, <4>1, BalanceStart
    <3>6. done' = 0 /\ hop' = 0
      BY <3>1, <3>2 DEF done
    <3>7. \A h \in 0 .. 0 : expected_hops(ix.data)[h] \in U64
      BY <3>3, <3>4
    <3> QED BY <3>1, <3>4, <3>5, <3>6, <3>7 DEF AsExpected
  <2> QED BY <2>1, <2>2
<1>5. CASE CheckHop
  <2>1. CASE hop_error # "Ok"
    BY <1>1, <1>5, <2>1 DEF CheckHop
  <2>2. CASE hop_error = "Ok"
    BY <1>5, <2>2 DEF CheckHop, AsExpected, done
  <2> QED BY <2>1, <2>2
<1>6. CASE InvokeSwap
  BY <1>1, <1>6, SwapAsExpected DEF InvokeSwap
<1>7. CASE Measure
  <2>1. CASE measure_overflows
    BY <1>1, <1>7, <2>1 DEF Measure
  <2>2. CASE ~measure_overflows
    <3>1. /\ pc = "measure" /\ pc' = "hop" /\ hop' = hop + 1
          /\ in_amount' = work[user] + in_amount - before
          /\ UNCHANGED <<ledger, work, ix>>
      BY <1>7, <2>2 DEF Measure
    <3> DEFINE E == expected_hops(ix.data)
    <3>2. /\ \A h \in 0 .. hop + 1 : E[h] \in U64
          /\ in_amount = E[hop] /\ work[user] = before - in_amount + E[hop + 1]
          /\ \A a \in Accounts : work[a] = BalanceAfter(ix, ledger, a, hop + 1)
      BY <3>1 DEF AsExpected, done
    <3>3. hop \in Nat /\ in_amount \in U64 /\ before \in U64
      BY DEF RouteInv, TypeOK, MAX_HOPS
    <3>4. E[hop + 1] \in Int /\ in_amount \in Int /\ before \in Int
      <4> HIDE DEF E
      <4> QED BY <3>2, <3>3, MaxU64Assumption
    <3>5. in_amount' = E[hop + 1]
      <4> HIDE DEF E
      <4> QED BY <3>1, <3>2, <3>4
    <3>6. done' = hop + 1
      BY <3>1 DEF done
    <3> QED BY <3>1, <3>2, <3>5, <3>6 DEF AsExpected
  <2> QED BY <2>1, <2>2
<1>8. CASE Gate
  BY <1>1, <1>8 DEF Gate, Return, AsExpected
<1>9. CASE UNCHANGED vars
  BY <1>9 DEF vars, AsExpected, done, user
<1> QED
  BY <1>2, <1>3, <1>4, <1>5, <1>6, <1>7, <1>8, <1>9 DEF MarketNext, Next, RouterStep

\* At every point a route is where the reference is.
LEMMA ExpectedInvariant == MarketSpec => [](RouteInv /\ SupplyInv /\ AsExpected)
<1>1. Init => AsExpected
  BY DEF Init, AsExpected
<1> QED BY <1>1, AsExpectedStep, SupplyInvariant, PTL DEF MarketSpec

-----------------------------------------------------------------------------
(***************************************************************************)
(* What the bench expects in the end is what the hops add up to.           *)
(***************************************************************************)

\* A fold's equation has one solution.
LEMMA FoldUnique ==
  ASSUME NEW f, NEW S, IsFiniteSet(S), NEW u, u = Fold(f, u, S), NEW w, w = Fold(f, w, S)
  PROVE  u[S] = w[S]
<1>1. u[{}] = 0 /\ w[{}] = 0
  BY DEF Fold
<1>2. ASSUME NEW s \in SUBSET S, s # {}
      PROVE  Takes(u, f, s, Chosen(s)) /\ Takes(w, f, s, Chosen(s))
  BY <1>2 DEF Fold, Takes
<1> DEFINE D == {s \in SUBSET S : u[s] = w[s]}
<1>3. {} \in D
  BY <1>1
<1>4. ASSUME NEW s \in SUBSET S, s # {}, \A x \in s : s \ {x} \in D
      PROVE  s \in D
  <2>1. Chosen(s) \in s
    BY <1>4 DEF Chosen
  <2> DEFINE y == Chosen(s)
  <2>2. u[s] = f[y] + u[s \ {y}] /\ w[s] = f[y] + w[s \ {y}]
    BY <1>2, <1>4 DEF Takes
  <2>3. u[s \ {y}] = w[s \ {y}]
    BY <1>4, <2>1
  <2> HIDE DEF y
  <2> QED BY <2>2, <2>3
<1>5. SUBSET S \subseteq D
  <2> HIDE DEF D
  <2> QED BY <1>3, <1>4, SubsetInduction
<1> QED BY <1>5

\* The fold of ExpectedBalance over the hops S.
HopFold(E, it, S) ==
  [s \in SUBSET S |->
     IF s = {} THEN 0 ELSE (E[Chosen(s)] - E[Chosen(s) + 1]) + it[s \ {Chosen(s)}]]

\* It is the sum of the hops' gains.
LEMMA HopSum ==
  ASSUME NEW E, NEW S, IsFiniteSet(S),
         NEW gain, \A h \in S : gain[h] = E[h] - E[h + 1]
  PROVE  MapThenSumSet(LAMBDA h : E[h] - E[h + 1], S) = Partial(gain, S)[S]
<1> DEFINE K == CHOOSE it : it = HopFold(E, it, S)
<1>1. MapThenSumSet(LAMBDA h : E[h] - E[h + 1], S) = K[S]
  BY DEF MapThenSumSet, MapThenFoldSet, HopFold, Chosen
<1>2. ASSUME NEW it PROVE HopFold(E, it, S) = Fold(gain, it, S)
  <2>1. \A s \in SUBSET S : s # {} => gain[Chosen(s)] = E[Chosen(s)] - E[Chosen(s) + 1]
    BY DEF Chosen
  <2> QED BY <2>1 DEF HopFold, Fold
<1>3. \E it : it = HopFold(E, it, S)
  BY <1>2, FoldExists
<1>4. K = HopFold(E, K, S)
  BY <1>3
<1> HIDE DEF K
<1>5. K = Fold(gain, K, S)
  BY <1>2, <1>4
<1>6. K[S] = Partial(gain, S)[S]
  BY <1>5, FoldExists, FoldUnique
<1> QED BY <1>1, <1>6

\* The hops of a route are finitely many.
LEMMA FewHops ==
  ASSUME NEW S, S \subseteq 0 .. 2
  PROVE  IsFiniteSet(S)
<1>1. S \in SUBSET Nat /\ 2 \in Nat /\ \A h \in S : h <= 2
  OBVIOUS
<1> QED BY <1>1, FS_BoundedSetOfNaturals

\* A sum over some of the hops 0, 1 and 2, written out.
LEMMA ThreeTerms ==
  ASSUME NEW S, S \subseteq 0 .. 2, NEW gain, \A h \in S : gain[h] \in Int
  PROVE  Partial(gain, S)[S] =
           (IF 0 \in S THEN gain[0] ELSE 0) + (IF 1 \in S THEN gain[1] ELSE 0)
             + (IF 2 \in S THEN gain[2] ELSE 0)
<1>1. IsFiniteSet(S)
  BY FewHops
<1> DEFINE P(s) == Partial(gain, S)[s]
           t(x) == IF x \in S THEN gain[x] ELSE 0
<1>2. \A s \in SUBSET S : P(s) \in Int
  BY <1>1, PartialInt
<1>3. ASSUME NEW s \in SUBSET S, NEW x, x \in S => x \in s
      PROVE  P(s) = t(x) + P(s \ {x})
  <2>1. CASE x \in s
    <3>1. Takes(Partial(gain, S), gain, s, x)
      BY <1>1, <2>1, PartialTakes
    <3>2. t(x) = gain[x]
      BY <2>1
    <3> QED BY <3>1, <3>2 DEF Takes
  <2>2. CASE x \notin s
    <3>1. s \ {x} = s /\ t(x) = 0 /\ P(s) \in Int
      BY <1>2, <1>3, <2>2
    <3>2. P(s \ {x}) = P(s)
      BY <3>1
    <3> DEFINE p == P(s)
    <3>3. p = 0 + p
      BY <3>1
    <3> QED BY <3>1, <3>2, <3>3
  <2> QED BY <2>1, <2>2
<1>4. P({}) = 0
  BY <1>1, PartialEmpty
<1>5. t(0) \in Int /\ t(1) \in Int /\ t(2) \in Int
  OBVIOUS
<1>6. P(S) = t(0) + P(S \ {0})
  BY <1>3
<1>7. P(S \ {0}) = t(1) + P((S \ {0}) \ {1})
  BY <1>3
<1>8. P((S \ {0}) \ {1}) = t(2) + P(((S \ {0}) \ {1}) \ {2})
  BY <1>3
<1>9. ((S \ {0}) \ {1}) \ {2} = {}
  OBVIOUS
<1>10. P(((S \ {0}) \ {1}) \ {2}) = 0
  BY <1>4, <1>9
<1> DEFINE t0 == t(0)
           t1 == t(1)
           t2 == t(2)
           p == P(S)
           p0 == P(S \ {0})
           p1 == P((S \ {0}) \ {1})
<1>11. p = t0 + p0 /\ p0 = t1 + p1 /\ p1 = t2 + 0
  BY <1>6, <1>7, <1>8, <1>10
<1>12. p = t0 + t1 + t2
  <2>1. t0 \in Int /\ t1 \in Int /\ t2 \in Int
    BY <1>5
  <2> HIDE DEF p, p0, p1, t0, t1, t2
  <2> QED BY <1>11, <2>1
<1> QED BY <1>12

\* ExpectedBalance is the balance after the last hop.
LEMMA ExpectedInTheEnd ==
  ASSUME NEW i, NEW n \in 1 .. 3, i.data.hop_count = n, NEW bal, NEW a, bal[a] \in Int,
         \A h \in 0 .. n : expected_hops(i.data)[h] \in Int
  PROVE  ExpectedBalance(i, bal, a) = BalanceAfter(i, bal, a, n)
<1> DEFINE E == expected_hops(i.data)
           S == {h \in 0 .. n - 1 : i.accounts[3 + 2 * h] = a}
           gain == [h \in 0 .. 2 |-> E[h] - E[h + 1]]
           b == IF a = i.accounts[1] THEN E[n] - E[0] ELSE 0
           sum == MapThenSumSet(LAMBDA h : E[h] - E[h + 1], S)
<1>1. ExpectedBalance(i, bal, a) = bal[a] + b + sum
  <2>1. {h \in DOMAIN Pools(i) : Pools(i)[h] = a} = S
    BY DEF Pools
  <2> QED BY <2>1 DEF ExpectedBalance
<1>2. S \subseteq 0 .. 2 /\ IsFiniteSet(S)
  <2>1. S \subseteq 0 .. 2
    OBVIOUS
  <2> HIDE DEF S
  <2> QED BY <2>1, FewHops
<1>3. \A h \in S : gain[h] = E[h] - E[h + 1]
  BY <1>2
<1>4. \A h \in S : gain[h] \in Int
  BY <1>3
<1>5. sum = Partial(gain, S)[S]
  <2> HIDE DEF E, S, gain
  <2> QED BY <1>2, <1>3, HopSum
<1>6. sum = (IF 0 \in S THEN gain[0] ELSE 0) + (IF 1 \in S THEN gain[1] ELSE 0)
              + (IF 2 \in S THEN gain[2] ELSE 0)
  <2> HIDE DEF E, S, gain, sum
  <2> QED BY <1>2, <1>4, <1>5, ThreeTerms
<1>7. ASSUME NEW h \in 0 .. 2
      PROVE  Turn(i, a, h, n) = (IF h \in S THEN gain[h] ELSE 0) /\ Turn(i, a, h, n) \in Int
  <2>1. h \in S <=> (h < n /\ i.accounts[3 + 2 * h] = a)
    OBVIOUS
  <2>2. gain[h] = E[h] - E[h + 1]
    OBVIOUS
  <2>3. h \in S => gain[h] \in Int
    BY <1>4
  <2> HIDE DEF E, S, gain
  <2>4. Turn(i, a, h, n) = IF h \in S THEN gain[h] ELSE 0
    BY <2>1, <2>2 DEF Turn, E
  <2> QED BY <2>3, <2>4
<1>8. b \in Int
  BY Z3
<1>9. BalanceAfter(i, bal, a, n) = bal[a] + b + Turn(i, a, 0, n) + Turn(i, a, 1, n) + Turn(i, a, 2, n)
  BY DEF BalanceAfter
<1>10. sum = Turn(i, a, 0, n) + Turn(i, a, 1, n) + Turn(i, a, 2, n)
  <2> HIDE DEF E, S, gain, sum
  <2> QED BY <1>6, <1>7
<1> HIDE DEF b, sum
<1> QED BY <1>1, <1>7, <1>8, <1>9, <1>10

\* A route that returns Ok leaves every account where the rates put it.
THEOREM OutcomeIsExpected == MarketSpec => MatchesExpectedHops
<1> DEFINE A == result = "Pending" /\ result' = "Ok" =>
                  \A a \in Accounts : ledger'[a] = ExpectedBalance(ix, ledger, a)
<1>1. RouteInv /\ AsExpected /\ [MarketNext]_vars => [A]_vars
  <2> SUFFICES ASSUME RouteInv, AsExpected, MarketNext, result = "Pending", result' = "Ok",
                      NEW a \in Accounts
               PROVE  ledger'[a] = ExpectedBalance(ix, ledger, a)
    OBVIOUS
  <2>1. pc = "hop" /\ hop = ix.data.hop_count /\ ledger' = work
    <3>1. pc # "idle"
      BY DEF RouteInv, Control
    <3>2. Enter \/ CheckHop \/ InvokeSwap \/ Measure \/ Gate
      BY <3>1 DEF MarketNext, Next, RouterStep, Submit, Swap
    <3>3. ~Enter /\ ~CheckHop /\ ~InvokeSwap /\ ~Measure
      BY DEF Enter, CheckHop, InvokeSwap, Measure, Abort, Return, entry_error, hop_error
    <3> QED BY <3>2, <3>3 DEF Gate, Abort, Return
  <2>2. ix.data.hop_count \in 1 .. 3 /\ ledger[a] \in Int
    BY <2>1, MaxU64Assumption DEF RouteInv, TypeOK, MAX_HOPS, Ledgers
  <2>3. \A h \in 0 .. ix.data.hop_count : expected_hops(ix.data)[h] \in Int
    <3>1. \A h \in 0 .. ix.data.hop_count : expected_hops(ix.data)[h] \in U64
      BY <2>1 DEF AsExpected, done
    <3> QED BY <3>1, MaxU64Assumption
  <2>4. work[a] = BalanceAfter(ix, ledger, a, ix.data.hop_count)
    BY <2>1 DEF AsExpected, done
  <2> QED BY <2>1, <2>2, <2>3, <2>4, ExpectedInTheEnd
<1> QED BY <1>1, ExpectedInvariant, PTL DEF MarketSpec, MatchesExpectedHops

-----------------------------------------------------------------------------
(***************************************************************************)
(* A route that can be paid for succeeds.                                  *)
(***************************************************************************)

\* In a route of the fixture's shape the user and the pools are all different.
LEMMA ShapeApart ==
  ASSUME NEW i \in InstructionType, FixtureShaped(i)
  PROVE  /\ i.data.hop_count \in 1 .. 3
         /\ i.accounts[1] \in AmmOwned /\ i.accounts[1] \in i.writable
         /\ \A h \in 0 .. i.data.hop_count - 1 :
              /\ i.accounts[3 + 2 * h] \in AmmOwned /\ i.accounts[3 + 2 * h] \in i.writable
              /\ i.accounts[3 + 2 * h] # i.accounts[1]
              /\ \A k \in 0 .. h - 1 : i.accounts[3 + 2 * k] # i.accounts[3 + 2 * h]
<1> DEFINE n == i.data.hop_count
           parts == {i.accounts[1]} \cup {Pools(i)[h] : h \in DOMAIN Pools(i)}
           f == [h \in 0 .. n |-> i.accounts[1 + 2 * h]]
<1>1. n \in 1 .. 3
  BY DEF FixtureShaped, parse_route_rejects, InstructionType, RouteData, MAX_HOPS
<1>2. parts \subseteq AmmOwned \cap i.writable /\ Cardinality(parts) = 1 + n
  BY DEF FixtureShaped
<1>3. \A h \in 0 .. n - 1 : Pools(i)[h] = i.accounts[3 + 2 * h] /\ h \in DOMAIN Pools(i)
  BY DEF Pools
<1>4. DOMAIN Pools(i) = 0 .. n - 1
  BY DEF Pools
<1> HIDE DEF n
<1>5. f[0] = i.accounts[1] /\ \A h \in 0 .. n - 1 : f[h + 1] = Pools(i)[h]
  <2>1. 0 \in 0 .. n /\ 1 + 2 * 0 = 1
    BY <1>1
  <2>2. f[0] = i.accounts[1]
    BY <2>1
  <2>3. ASSUME NEW h \in 0 .. n - 1 PROVE f[h + 1] = Pools(i)[h]
    <3>1. h + 1 \in 0 .. n /\ 1 + 2 * (h + 1) = 3 + 2 * h
      BY <1>1
    <3>2. f[h + 1] = i.accounts[1 + 2 * (h + 1)]
      BY <3>1
    <3> QED BY <1>3, <3>1, <3>2
  <2> QED BY <2>2, <2>3
<1>6. f \in Surjection(0 .. n, parts)
  <2> DEFINE g == f
  <2>1. DOMAIN f = 0 .. n /\ f = [h \in 0 .. n |-> f[h]]
    OBVIOUS
  <2>2. ASSUME NEW h \in 0 .. n PROVE f[h] \in parts
    <3>1. CASE h = 0
      BY <1>5, <3>1
    <3>2. CASE h # 0
      <4>1. h - 1 \in 0 .. n - 1 /\ (h - 1) + 1 = h
        BY <1>1, <3>2
      <4>2. f[h] = Pools(i)[h - 1]
        <5> HIDE DEF f
        <5> QED BY <1>5, <4>1
      <4> QED BY <1>4, <4>1, <4>2
    <3> QED BY <3>1, <3>2
  <2>3. ASSUME NEW p \in parts PROVE \E h \in 0 .. n : f[h] = p
    <3>1. CASE p = i.accounts[1]
      <4>1. 0 \in 0 .. n
        BY <1>1
      <4> HIDE DEF f
      <4> QED BY <1>5, <3>1, <4>1
    <3>2. CASE p # i.accounts[1]
      <4>1. PICK h \in 0 .. n - 1 : p = Pools(i)[h]
        BY <1>4, <3>2
      <4>2. h + 1 \in 0 .. n
        BY <1>1
      <4> HIDE DEF f
      <4> QED BY <1>5, <4>1, <4>2
    <3> QED BY <3>1, <3>2
  <2> HIDE DEF f, parts
  <2> QED BY <2>1, <2>2, <2>3 DEF Surjection
<1>7. f \in Injection(0 .. n, parts)
  <2>1. IsFiniteSet(0 .. n) /\ Cardinality(0 .. n) = n + 1
    <3>1. 0 \in Int /\ n \in Int /\ ~(0 > n) /\ n - 0 + 1 = n + 1
      BY <1>1
    <3>2. IsFiniteSet(0 .. n) /\ Cardinality(0 .. n) = IF 0 > n THEN 0 ELSE n - 0 + 1
      BY <3>1, FS_Interval, Zenon
    <3> QED BY <3>1, <3>2
  <2>2. Cardinality(parts) = Cardinality(0 .. n)
    BY <1>1, <1>2, <2>1
  <2> HIDE DEF f, parts
  <2> QED BY <1>6, <2>1, <2>2, FS_Surjection
<1>8. \A g, h \in 0 .. n : g # h => f[g] # f[h]
  <2> HIDE DEF f, parts
  <2> QED BY <1>7 DEF Injection, IsInjective
<1>9. ASSUME NEW h \in 0 .. n - 1
      PROVE  /\ i.accounts[3 + 2 * h] \in parts
             /\ i.accounts[3 + 2 * h] # i.accounts[1]
             /\ \A k \in 0 .. h - 1 : i.accounts[3 + 2 * k] # i.accounts[3 + 2 * h]
  <2>1. i.accounts[3 + 2 * h] = f[h + 1] /\ i.accounts[1] = f[0] /\ h + 1 \in 0 .. n /\ 0 \in 0 .. n
        /\ h + 1 # 0
    <3> HIDE DEF f
    <3> QED BY <1>1, <1>3, <1>5
  <2>2. i.accounts[3 + 2 * h] \in parts
    BY <1>3
  <2>3. ASSUME NEW k \in 0 .. h - 1 PROVE i.accounts[3 + 2 * k] # i.accounts[3 + 2 * h]
    <3>1. k \in 0 .. n - 1 /\ k + 1 \in 0 .. n /\ k + 1 # h + 1
      BY <1>1
    <3>2. i.accounts[3 + 2 * k] = f[k + 1]
      <4> HIDE DEF f
      <4> QED BY <1>3, <1>5, <3>1
    <3> HIDE DEF f
    <3> QED BY <1>8, <2>1, <3>1, <3>2
  <2> HIDE DEF f, parts
  <2> QED BY <1>8, <2>1, <2>2, <2>3
<1> QED BY <1>1, <1>2, <1>9 DEF n

\* A route's every swap is accepted if the route can be paid for: the user has
\* what the reference says, the pool still what it had at first.
LEMMA FundedSwap ==
  ASSUME RouteInv, SupplyInv, AsExpected, pc = "cpi",
         FixtureShaped(ix), RealisticSupply(ledger), Funded(ix, ledger)
  PROVE  invoke_swap.err = "Ok"
<1> DEFINE E == expected_hops(ix.data)
           n == ix.data.hop_count
           out == swap_out(in_amount, hop_rate)
           bal == WriteBalances(work, pool, user, in_amount, out)
           S == Supply(ledger)
<1>1. /\ ix \in InstructionType /\ hop < n /\ hop \in 0 .. 3 /\ n \in 1 .. 3
      /\ work \in Ledgers /\ ledger \in Ledgers /\ in_amount \in U64
      /\ user \in Accounts /\ pool \in Accounts
  <2>1. ix \in InstructionType
    BY DEF RouteInv, TypeOK, Control
  <2> QED BY <2>1, HopAccounts DEF RouteInv, TypeOK, MAX_HOPS
<1>2. /\ user \in AmmOwned /\ pool \in AmmOwned /\ pool # user
      /\ \A h \in 0 .. n - 1 : ix.accounts[3 + 2 * h] # user
      /\ \A h \in 0 .. hop - 1 : ix.accounts[3 + 2 * h] # pool
  <2>1. /\ user \in AmmOwned
        /\ \A h \in 0 .. n - 1 :
             /\ ix.accounts[3 + 2 * h] \in AmmOwned
             /\ ix.accounts[3 + 2 * h] # user
             /\ \A k \in 0 .. h - 1 : ix.accounts[3 + 2 * k] # ix.accounts[3 + 2 * h]
    <3>1. ix \in InstructionType /\ FixtureShaped(ix)
      BY <1>1
    <3> QED BY <3>1, ShapeApart DEF user
  <2>2. hop \in 0 .. n - 1 /\ pool = ix.accounts[3 + 2 * hop]
    BY <1>1 DEF pool
  <2> HIDE DEF n
  <2> QED BY <2>1, <2>2
<1>3. hop_rate \in Rates /\ hop_rate.den # 0
  <2>1. Len(ix.data.rates) = n /\ ix.data.rates \in Seq(Rates)
    BY <1>1 DEF RouteInv, TypeOK, InstructionType, RouteData
  <2>2. hop + 1 \in 1 .. n /\ DOMAIN ix.data.rates = 1 .. n
    BY <1>1, <2>1
  <2> QED BY <2>1, <2>2 DEF hop_rate, FixtureShaped
<1>4. /\ in_amount = E[hop] /\ E[hop] \in Int /\ E[0] \in Int
      /\ work[user] = BalanceAfter(ix, ledger, user, hop)
      /\ work[pool] = BalanceAfter(ix, ledger, pool, hop)
  <2>1. hop \in 0 .. hop /\ 0 \in 0 .. hop
    BY <1>1
  <2>2. E[hop] \in U64 /\ E[0] \in U64
    BY <2>1 DEF AsExpected, done
  <2>3. E[hop] \in Int /\ E[0] \in Int
    <3> HIDE DEF E
    <3> QED BY <2>2, MaxU64Assumption
  <2> QED BY <1>1, <2>3 DEF AsExpected, done
<1>5. E[hop + 1] = out /\ out \in Nat
  <2>1. E[hop + 1] = out
    BY <1>1, <1>4, HopsNext DEF hop_rate
  <2> QED BY <1>1, <1>3, <2>1, PayoutIsNat
<1>6. /\ ledger[user] >= E[0]
      /\ ledger[pool] + E[hop] >= E[hop + 1]
  <2>1. hop \in DOMAIN Pools(ix) /\ Pools(ix)[hop] = pool
    BY <1>1 DEF Pools, pool
  <2> QED BY <2>1 DEF Funded, user
<1>7. ledger[user] \in Nat /\ ledger[pool] \in Nat /\ work[user] \in Nat /\ work[pool] \in Nat
  BY <1>1, MaxU64Assumption DEF Ledgers
<1>8. work[user] = ledger[user] + E[hop] - E[0]
  <2>1. \A h \in 0 .. 2 : Turn(ix, user, h, hop) = 0
    BY <1>1, <1>2 DEF Turn
  <2>2. work[user] = ledger[user] + (E[hop] - E[0]) + 0 + 0 + 0
    BY <1>4, <2>1 DEF BalanceAfter, user
  <2> HIDE DEF E
  <2> QED BY <1>4, <1>7, <2>2
<1>9. work[pool] = ledger[pool]
  <2>1. \A h \in 0 .. 2 : Turn(ix, pool, h, hop) = 0
    BY <1>1, <1>2 DEF Turn
  <2>2. work[pool] = ledger[pool] + 0 + 0 + 0 + 0
    BY <1>2, <1>4, <2>1 DEF BalanceAfter, user
  <2> QED BY <1>7, <2>2
<1>10. /\ 2 * S <= MaxU64 /\ S \in Nat /\ work[user] <= S /\ work[pool] <= S
       /\ work[pool] + work[user] <= S
  <2>1. Supply(work) = S
    BY DEF SupplyInv
  <2>2. 2 * S <= MaxU64
    BY RealisticMeans
  <2> QED BY <1>1, <1>2, <2>1, <2>2, SupplyBounds
<1>11. /\ in_amount \in Nat /\ in_amount <= work[user]
       /\ work[pool] + in_amount >= out
  <2>1. in_amount \in Nat
    BY <1>1, MaxU64Assumption
  <2> HIDE DEF E, out
  <2> QED BY <1>4, <1>5, <1>6, <1>7, <1>8, <1>9, <2>1
<1>12. /\ ~(out > MaxU64) /\ ~(work[user] < in_amount) /\ ~(work[pool] + in_amount > MaxU64)
       /\ ~(work[pool] + in_amount < out) /\ ~(work[user] - in_amount + out > MaxU64)
  <2> HIDE DEF out, S
  <2> QED BY <1>5, <1>7, <1>10, <1>11, MaxU64Assumption
<1>13. balance_error(work, pool, user, in_amount, out) = "Ok"
  <2> HIDE DEF out
  <2> QED BY <1>12 DEF balance_error
<1>14. account_error(pool, user, {pool, user}) = "Ok"
  BY <1>2 DEF account_error
<1> DEFINE data == encode_swap_data(hop_rate, in_amount)
           r == process_instruction_amm(work, <<pool, user>>, {pool, user}, data)
<1>15. r = Answer("Ok", bal)
  <2>1. ~parse_swap_rejects(data) /\ data.rate = hop_rate /\ data.amount = in_amount
    BY <1>3 DEF parse_swap_rejects, encode_swap_data
  <2>2. r = process_swap(work, <<pool, user>>, {pool, user}, hop_rate, in_amount)
    BY <2>1 DEF process_instruction_amm
  <2>3. Len(<<pool, user>>) = 2 /\ <<pool, user>>[1] = pool /\ <<pool, user>>[2] = user
    OBVIOUS
  <2> HIDE DEF r
  <2> QED BY <1>13, <1>14, <2>2, <2>3 DEF process_swap
<1>16. invoke_swap = Accept(AmmOwned, work, Answer("Ok", bal), pool, user)
  BY <1>15 DEF invoke_swap
<1>17. ~SpendsForeign(AmmOwned, work, bal, {pool, user})
  BY <1>2 DEF SpendsForeign
<1>18. PairTotal(bal, pool, user) = PairTotal(work, pool, user)
  <2>1. out \in U64
    <3> HIDE DEF out
    <3> QED BY <1>5, <1>12, MaxU64Assumption
  <2> QED BY <1>1, <1>2, <2>1, SwapConserves
<1> HIDE DEF bal
<1> QED BY <1>16, <1>17, <1>18 DEF Accept, Answer

\* Nothing else turns such a route down.
LEMMA FundedStep ==
  ASSUME RouteInv, SupplyInv, AsExpected, MarketNext, result = "Pending", result' # "Pending",
         FixtureShaped(ix), RealisticSupply(ledger), Funded(ix, ledger)
  PROVE  result' = "Ok"
<1>1. pc # "idle" /\ ix \in InstructionType
  BY DEF RouteInv, TypeOK, Control
<1>2. CASE Enter
  <2>1. user \in ix.writable
    BY <1>1, ShapeApart DEF user
  <2>2. /\ ix.data.disc = EXECUTE_ROUTE_DISCRIMINATOR /\ ~parse_route_rejects(ix.data)
        /\ Len(ix.accounts) >= 1 + 2 * ix.data.hop_count
    BY DEF FixtureShaped
  <2>3. ix.data.hop_count \in 1 .. 3 /\ Len(ix.accounts) \in Nat
    BY <1>1, ShapeApart DEF InstructionType
  <2>4. ~(Len(ix.accounts) < 1 + 2 * ix.data.hop_count)
    BY <2>2, <2>3
  <2>5. entry_error = "Ok"
    BY <2>1, <2>2, <2>4 DEF entry_error
  <2> QED BY <1>2, <2>5 DEF Enter
<1>3. CASE CheckHop
  <2>1. pc = "hop" /\ hop < ix.data.hop_count /\ hop \in Nat
    BY <1>3 DEF CheckHop, RouteInv, TypeOK, MAX_HOPS
  <2>2. ix.data.hop_count \in 1 .. 3
    BY <1>1, ShapeApart
  <2>3. hop \in 0 .. ix.data.hop_count - 1
    BY <2>1, <2>2
  <2>4. amm_program = AmmId /\ pool \in ix.writable
    BY <1>1, <2>3, ShapeApart DEF FixtureShaped, amm_program, pool
  <2> QED BY <1>3, <2>4 DEF CheckHop, hop_error
<1>4. CASE InvokeSwap
  BY <1>4, FundedSwap DEF InvokeSwap
<1>5. CASE Measure
  <2>1. pc = "measure" /\ ~measure_overflows
    BY <1>5, NoWrap DEF Measure, MeasureNeverWraps
  <2> QED BY <1>5, <2>1 DEF Measure
<1>6. CASE Gate
  <2>1. pc = "hop" /\ hop = ix.data.hop_count
    BY <1>6 DEF Gate
  <2>2. in_amount = expected_hops(ix.data)[hop] /\ ix.data.min_out <= in_amount
    BY <2>1 DEF AsExpected, Funded
  <2>3. ~(in_amount < ix.data.min_out)
    <3>1. in_amount \in Int /\ ix.data.min_out \in Int
      BY <1>1, MaxU64Assumption DEF RouteInv, TypeOK, InstructionType, RouteData
    <3> QED BY <2>2, <3>1
  <2> QED BY <1>6, <2>3 DEF Gate, Return
<1> QED
  BY <1>1, <1>2, <1>3, <1>4, <1>5, <1>6 DEF MarketNext, Next, RouterStep, Submit, Swap

\* A fixture-shaped route that can be paid for is never turned down.
THEOREM FundedRoutesSucceed == MarketSpec => FundedRouteSucceeds
<1> DEFINE A == result = "Pending" /\ result' # "Pending" /\ FixtureShaped(ix)
                  /\ RealisticSupply(ledger) /\ Funded(ix, ledger) => result' = "Ok"
<1>1. RouteInv /\ SupplyInv /\ AsExpected /\ [MarketNext]_vars => [A]_vars
  BY FundedStep
<1> QED BY <1>1, ExpectedInvariant, PTL DEF MarketSpec, FundedRouteSucceeds

-----------------------------------------------------------------------------
\* A history without direct swaps is a history of the market.
LEMMA RoutesAreAMarket == Spec => MarketSpec
<1>1. [Next]_vars => [MarketNext]_vars
  BY DEF MarketNext
<1> QED BY <1>1, PTL DEF Spec, MarketSpec

\* So the router's own runs keep what the market keeps.
THEOREM RouterAgainstTheReference ==
  Spec => []MeasureNeverWraps /\ MatchesExpectedHops /\ FundedRouteSucceeds
BY RoutesAreAMarket, MeasureNeverWrapsCorrect, OutcomeIsExpected, FundedRoutesSucceed
=============================================================================
