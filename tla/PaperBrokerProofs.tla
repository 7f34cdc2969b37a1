-------------------------- MODULE PaperBrokerProofs --------------------------
(***************************************************************************)
(* Theorems about the paper broker, for every set of requests and quotes,  *)
(* every number of orders, and every slippage, commission and initial      *)
(* cash.                                                                   *)
(***************************************************************************)
EXTENDS PaperBroker, FiniteSetTheorems, TLAPS

-----------------------------------------------------------------------------
\* The inductive invariant.

\* An order id is blank exactly when it has not been given out.
IdsInOrder ==
  \A id \in OrderIds :
    IF id < nextId THEN request[id] \in Requests /\ status[id] # "UNUSED"
                   ELSE request[id] = None /\ status[id] = "UNUSED" /\ filled[id] = 0

\* A running process_pending only has orders ahead of it that still rest.
WorkRests == work \subseteq pending

IInv == TypeOK /\ CashNeverNegative /\ BookConsistent /\ IdsInOrder /\ WorkRests

-----------------------------------------------------------------------------
\* The arithmetic of the matching engine and of the commissions.

\* Products of naturals are natural.
LEMMA ProductIsNat == ASSUME NEW a \in Nat, NEW b \in Nat PROVE a * b \in Nat
  OBVIOUS

\* What a fill costs or brings is never negative: the commission is at most the price.
LEMMA MoneyIsNat ==
  ASSUME NEW price \in Nat, NEW n \in Nat
  PROVE  Cost(price, n) \in Nat /\ Proceeds(price, n) \in Nat
<1>1. price * n \in Nat
  BY ProductIsNat
<1>2. CommDen + CommNum \in Nat /\ CommDen - CommNum \in Nat
  BY CommissionAssumption
<1>3. (price * n) * (CommDen + CommNum) \in Nat /\ (price * n) * (CommDen - CommNum) \in Nat
  BY <1>1, <1>2, ProductIsNat
<1>. QED
  BY <1>3 DEF Cost, Proceeds

\* What rests is reserved in whole units of money too.
LEMMA ReserveIsNat ==
  ASSUME NEW r \in Requests, NEW n \in Nat
  PROVE  Reserve(r, n) \in Nat
<1>1. r.limit \in Nat /\ SlipDen \in Nat
  BY RequestsAssumption, SlippageAssumption DEF Request
<1>2. r.limit * SlipDen \in Nat
  BY <1>1, ProductIsNat
<1>. QED
  BY <1>2, MoneyIsNat DEF Reserve

LEMMA ReserveIsInt ==
  ASSUME NEW r \in Requests, NEW n \in Int
  PROVE  Reserve(r, n) \in Int
<1>1. r.limit * SlipDen \in Int /\ CommDen + CommNum \in Int
  BY RequestsAssumption, SlippageAssumption, CommissionAssumption DEF Request
<1>2. \A a, b \in Int : a * b \in Int
  OBVIOUS
<1>3. ((r.limit * SlipDen) * n) * (CommDen + CommNum) \in Int
  BY <1>1, <1>2
<1>. QED
  BY <1>3 DEF Reserve, Cost

\* An executable match is for a positive number of contracts, at most what the
\* order asks for, at a positive price.
LEMMA FillFacts ==
  ASSUME NEW r \in Requests, NEW q \in Quotes, CanFill(r, q)
  PROVE  /\ FillPrice(r, q) \in Nat
         /\ FillSize(r, q) \in Nat /\ FillSize(r, q) > 0
         /\ FillSize(r, q) <= r.qty /\ r.qty \in Nat
<1>1. /\ r.qty \in Int /\ r.side \in Side /\ q \in MarketQuote
      /\ q.bid \in Nat /\ q.ask \in Nat /\ q.bidSize \in Nat /\ q.askSize \in Nat
  BY RequestsAssumption, QuotesAssumption DEF Request, MarketQuote, CanFill, Executable
<1>2. Available(q) \in Nat /\ Available(q) > 0
  BY <1>1, SizeAssumption DEF Available
<1>3. FillSize(r, q) > 0 /\ FillPrice(r, q) > 0
  BY DEF CanFill
<1>4. FillSize(r, q) \in Nat /\ FillSize(r, q) <= r.qty
  BY <1>1, <1>2, <1>3, SizeAssumption DEF FillSize, Deliverable
<1>5. Touch(r.side, q) \in Nat
  BY <1>1 DEF Touch
<1>6. /\ Touch(r.side, q) * SlipDen \in Nat
      /\ Touch(r.side, q) * (SlipDen + SlipNum) \in Nat
      /\ Touch(r.side, q) * (SlipDen - SlipNum) \in Nat
  <2>1. SlipDen \in Nat /\ SlipDen + SlipNum \in Nat /\ SlipDen - SlipNum \in Nat
    BY SlippageAssumption
  <2>. QED
    BY <1>5, <2>1, ProductIsNat
<1>7. FillPrice(r, q) \in Nat
  BY <1>6 DEF FillPrice, Slipped
<1>. QED
  BY <1>1, <1>3, <1>4, <1>7

-----------------------------------------------------------------------------
\* Sums.  SumFunctionOnSet takes the elements in an order of its own choice;
\* the lemmas show that the order does not matter and what one element changes.
\* Where a fact holds of every finite set it is shown for a smallest set
\* without it, which the well-founded order of inclusion provides.
Some(s) == CHOOSE x \in s : TRUE

\* g sums f over every part of S.
Adds(f, S, g) ==
  g = [s \in SUBSET S |-> IF s = {} THEN 0 ELSE f[Some(s)] + g[s \ {Some(s)}]]
Sums(f, S) == CHOOSE g : Adds(f, S, g)

LEMMA SmallestSet ==
  ASSUME NEW S, IsFiniteSet(S), NEW T, T \subseteq SUBSET S, T # {}
  PROVE  \E s \in T : \A t \in T : t \subseteq s => t = s
<1>. DEFINE less == StrictSubsetOrdering(S)
<1>1. \A s, t \in T : t \subseteq s /\ t # s => <<t, s>> \in less
  BY DEF StrictSubsetOrdering
<1>2. IsWellFoundedOn(less, FiniteSubsetsOf(S))
  BY FS_StrictSubsetOrderingWellFounded, Zenon
<1>3. FiniteSubsetsOf(S) = SUBSET S
  BY FS_FiniteSubsetsOfFinite
<1>. HIDE DEF less
<1>4. \E s \in T : \A t \in T : ~(<<t, s>> \in less)
  BY <1>2, <1>3, WFMin
<1>. QED
  BY <1>1, <1>4

LEMMA SumIsSums ==
  ASSUME NEW f, NEW S
  PROVE  SumFunctionOnSet(f, S) = Sums(f, S)[S]
  BY DEF SumFunctionOnSet, FoldFunctionOnSet, MapThenFoldSet, Sums, Adds, Some

LEMMA SomeIsIn ==
  ASSUME NEW s, s # {}
  PROVE  Some(s) \in s
  BY DEF Some

\* Every sum over a set gives the same totals for its parts.
LEMMA AddsOnce ==
  ASSUME NEW f, NEW S, IsFiniteSet(S), NEW R \in SUBSET S,
         NEW g, Adds(f, S, g), NEW h, Adds(f, R, h)
  PROVE  \A s \in SUBSET R : g[s] = h[s]
<1>. DEFINE T == {s \in SUBSET R : g[s] # h[s]}
<1>. SUFFICES ASSUME T # {} PROVE FALSE
  OBVIOUS
<1>1. PICK s \in T : \A y \in T : y \subseteq s => y = s
  <2>1. T \subseteq SUBSET R /\ IsFiniteSet(R)
    BY FS_Subset
  <2>. HIDE DEF T
  <2>. QED
    BY <2>1, SmallestSet
<1>2. /\ g[s] = IF s = {} THEN 0 ELSE f[Some(s)] + g[s \ {Some(s)}]
      /\ h[s] = IF s = {} THEN 0 ELSE f[Some(s)] + h[s \ {Some(s)}]
  BY DEF Adds
<1>3. s # {} /\ Some(s) \in s
  BY <1>2, SomeIsIn
<1>4. s \ {Some(s)} \notin T
  BY <1>1, <1>3
<1>. QED
  BY <1>1, <1>2, <1>3, <1>4

\* There is such a sum.
LEMMA AddsExists ==
  ASSUME NEW f, NEW S, IsFiniteSet(S)
  PROVE  Adds(f, S, Sums(f, S))
<1>. DEFINE T == {s \in SUBSET S : ~ \E g : Adds(f, s, g)}
<1>0. \A s : (\E g : Adds(f, s, g)) => Adds(f, s, Sums(f, s))
  BY DEF Sums
<1>. SUFFICES ASSUME T # {} PROVE FALSE
  BY <1>0
<1>1. PICK s \in T : \A y \in T : y \subseteq s => y = s
  <2>1. T \subseteq SUBSET S
    OBVIOUS
  <2>. HIDE DEF T
  <2>. QED
    BY <2>1, SmallestSet
<1>2. \A u \in SUBSET s : u # s => Adds(f, u, Sums(f, u))
  BY <1>0, <1>1
<1>. DEFINE g == [t \in SUBSET s |->
                   IF t = {} THEN 0
                   ELSE f[Some(t)] + Sums(f, t \ {Some(t)})[t \ {Some(t)}]]
<1>3. ASSUME NEW t \in SUBSET s, t # {}
      PROVE  g[t \ {Some(t)}] = Sums(f, t \ {Some(t)})[t \ {Some(t)}]
  <2>. DEFINE u == t \ {Some(t)}
             v == u \ {Some(u)}
  <2>0. u \in SUBSET s /\ u # s /\ v \in SUBSET u
    BY <1>3, SomeIsIn
  <2>1. Adds(f, u, Sums(f, u))
    BY <1>2, <2>0
  <2>2. CASE u = {}
    <3>1. g[u] = 0
      BY <2>0, <2>2
    <3>2. Sums(f, u)[u] = 0
      BY <2>1, <2>2 DEF Adds
    <3>. QED
      BY <3>1, <3>2
  <2>3. CASE u # {}
    <3>0. v # s /\ v \in SUBSET s /\ IsFiniteSet(u)
      BY <2>0, <2>3, SomeIsIn, FS_Subset
    <3>1. Adds(f, v, Sums(f, v))
      BY <1>2, <3>0
    <3>2. Sums(f, u)[v] = Sums(f, v)[v]
      BY <2>0, <2>1, <3>0, <3>1, AddsOnce
    <3>3. Sums(f, u)[u] = f[Some(u)] + Sums(f, u)[v]
      BY <2>1, <2>3 DEF Adds
    <3>4. g[u] = f[Some(u)] + Sums(f, v)[v]
      BY <2>0, <2>3
    <3>. QED
      BY <3>2, <3>3, <3>4
  <2>. QED
    BY <2>2, <2>3
<1>4. Adds(f, s, g)
  BY <1>3 DEF Adds
<1>. QED
  BY <1>1, <1>4

\* Nothing adds up to nothing.
LEMMA SumEmpty ==
  ASSUME NEW f
  PROVE  SumFunctionOnSet(f, {}) = 0
<1>1. Adds(f, {}, Sums(f, {}))
  BY AddsExists, FS_EmptySet
<1>. QED
  BY <1>1, SumIsSums DEF Adds

\* The first element taken, and the rest.
LEMMA SumStep ==
  ASSUME NEW f, NEW S, IsFiniteSet(S), S # {}
  PROVE  SumFunctionOnSet(f, S) = f[Some(S)] + SumFunctionOnSet(f, S \ {Some(S)})
<1>. DEFINE R == S \ {Some(S)}
<1>1. IsFiniteSet(R) /\ R \in SUBSET S
  BY FS_Subset
<1>2. Adds(f, S, Sums(f, S)) /\ Adds(f, R, Sums(f, R))
  BY <1>1, AddsExists
<1>3. Sums(f, S)[R] = Sums(f, R)[R]
  <2>. HIDE DEF R
  <2>. QED
    BY <1>1, <1>2, AddsOnce
<1>4. Sums(f, S)[S] = f[Some(S)] + Sums(f, S)[R]
  BY <1>2 DEF Adds
<1>. QED
  BY <1>3, <1>4, SumIsSums

\* A sum of integers is an integer.
LEMMA SumIsInt ==
  ASSUME NEW f, NEW S, IsFiniteSet(S), \A i \in S : f[i] \in Int
  PROVE  SumFunctionOnSet(f, S) \in Int
<1>. DEFINE T == {s \in SUBSET S : SumFunctionOnSet(f, s) \notin Int}
<1>. SUFFICES ASSUME T # {} PROVE FALSE
  OBVIOUS
<1>1. PICK s \in T : \A y \in T : y \subseteq s => y = s
  <2>1. T \subseteq SUBSET S
    OBVIOUS
  <2>. HIDE DEF T
  <2>. QED
    BY <2>1, SmallestSet
<1>0. SumFunctionOnSet(f, s) \notin Int
  BY <1>1
<1>2. s # {}
  BY <1>0, SumEmpty
<1>3. Some(s) \in s /\ IsFiniteSet(s)
  BY <1>2, SomeIsIn, FS_Subset
<1>4. SumFunctionOnSet(f, s) = f[Some(s)] + SumFunctionOnSet(f, s \ {Some(s)})
  BY <1>2, <1>3, SumStep
<1>5. s \ {Some(s)} \notin T
  BY <1>1, <1>3
<1>6. SumFunctionOnSet(f, s \ {Some(s)}) \in Int /\ f[Some(s)] \in Int
  BY <1>3, <1>5
<1>. QED
  BY <1>4, <1>6

\* It does not matter which element is taken first.
LEMMA SumRemove ==
  ASSUME NEW f, NEW S, IsFiniteSet(S), \A i \in S : f[i] \in Int, NEW x \in S
  PROVE  SumFunctionOnSet(f, S) = f[x] + SumFunctionOnSet(f, S \ {x})
<1>. DEFINE T == {s \in SUBSET S :
                   \E y \in s : SumFunctionOnSet(f, s) # f[y] + SumFunctionOnSet(f, s \ {y})}
<1>. SUFFICES ASSUME T # {} PROVE FALSE
  OBVIOUS
<1>1. PICK s \in T : \A y \in T : y \subseteq s => y = s
  <2>1. T \subseteq SUBSET S
    OBVIOUS
  <2>. HIDE DEF T
  <2>. QED
    BY <2>1, SmallestSet
<1>2. PICK y \in s : SumFunctionOnSet(f, s) # f[y] + SumFunctionOnSet(f, s \ {y})
  BY <1>1
<1>. DEFINE z == Some(s)
<1>3. z \in s /\ IsFiniteSet(s) /\ s \in SUBSET S
  BY <1>2, SomeIsIn, FS_Subset
<1>4. SumFunctionOnSet(f, s) = f[z] + SumFunctionOnSet(f, s \ {z})
  BY <1>2, <1>3, SumStep
<1>. HIDE DEF z
<1>5. y # z
  BY <1>2, <1>4
<1>6. SumFunctionOnSet(f, s \ {z}) = f[y] + SumFunctionOnSet(f, (s \ {z}) \ {y})
  <2>1. s \ {z} \notin T /\ y \in s \ {z}
    BY <1>1, <1>2, <1>3, <1>5
  <2>. QED
    BY <1>3, <2>1
<1>7. SumFunctionOnSet(f, s \ {y}) = f[z] + SumFunctionOnSet(f, (s \ {y}) \ {z})
  <2>1. s \ {y} \notin T /\ z \in s \ {y}
    BY <1>1, <1>2, <1>3, <1>5
  <2>. QED
    BY <1>3, <2>1
<1>8. SumFunctionOnSet(f, (s \ {z}) \ {y}) = SumFunctionOnSet(f, (s \ {y}) \ {z})
  <2>. DEFINE u == (s \ {z}) \ {y}
             v == (s \ {y}) \ {z}
  <2>1. u = v
    OBVIOUS
  <2>. HIDE DEF u, v
  <2>2. SumFunctionOnSet(f, u) = SumFunctionOnSet(f, v)
    BY <2>1
  <2>. QED
    BY <2>2 DEF u, v
<1>9. /\ SumFunctionOnSet(f, (s \ {y}) \ {z}) \in Int
      /\ f[y] \in Int /\ f[z] \in Int
  <2>1. IsFiniteSet((s \ {y}) \ {z}) /\ (s \ {y}) \ {z} \subseteq S
    BY <1>3, FS_Subset
  <2>. QED
    BY <1>2, <1>3, <2>1, SumIsInt
<1>. HIDE DEF T
<1>. QED
  BY <1>2, <1>4, <1>6, <1>7, <1>8, <1>9

\* A sum depends only on what is summed.
LEMMA SumSame ==
  ASSUME NEW f, NEW g, NEW S, IsFiniteSet(S), \A i \in S : f[i] = g[i]
  PROVE  SumFunctionOnSet(f, S) = SumFunctionOnSet(g, S)
<1>. DEFINE T == {s \in SUBSET S : SumFunctionOnSet(f, s) # SumFunctionOnSet(g, s)}
<1>. SUFFICES ASSUME T # {} PROVE FALSE
  OBVIOUS
<1>1. PICK s \in T : \A y \in T : y \subseteq s => y = s
  <2>1. T \subseteq SUBSET S
    OBVIOUS
  <2>. HIDE DEF T
  <2>. QED
    BY <2>1, SmallestSet
<1>2. s # {}
  BY <1>1, SumEmpty
<1>3. Some(s) \in s /\ IsFiniteSet(s)
  BY <1>2, SomeIsIn, FS_Subset
<1>4. /\ SumFunctionOnSet(f, s) = f[Some(s)] + SumFunctionOnSet(f, s \ {Some(s)})
      /\ SumFunctionOnSet(g, s) = g[Some(s)] + SumFunctionOnSet(g, s \ {Some(s)})
  BY <1>2, <1>3, SumStep
<1>5. s \ {Some(s)} \notin T
  BY <1>1, <1>3
<1>. QED
  BY <1>1, <1>3, <1>4, <1>5

\* A sum of naturals is a natural.
LEMMA SumIsNat ==
  ASSUME NEW f, NEW S, IsFiniteSet(S), \A i \in S : f[i] \in Nat
  PROVE  SumFunctionOnSet(f, S) \in Nat
<1>. DEFINE T == {s \in SUBSET S : SumFunctionOnSet(f, s) \notin Nat}
<1>. SUFFICES ASSUME T # {} PROVE FALSE
  OBVIOUS
<1>1. PICK s \in T : \A y \in T : y \subseteq s => y = s
  <2>1. T \subseteq SUBSET S
    OBVIOUS
  <2>. HIDE DEF T
  <2>. QED
    BY <2>1, SmallestSet
<1>0. SumFunctionOnSet(f, s) \notin Nat
  BY <1>1
<1>2. s # {}
  BY <1>0, SumEmpty
<1>3. Some(s) \in s /\ IsFiniteSet(s)
  BY <1>2, SomeIsIn, FS_Subset
<1>4. SumFunctionOnSet(f, s) = f[Some(s)] + SumFunctionOnSet(f, s \ {Some(s)})
  BY <1>2, <1>3, SumStep
<1>5. s \ {Some(s)} \notin T
  BY <1>1, <1>3
<1>6. SumFunctionOnSet(f, s \ {Some(s)}) \in Nat /\ f[Some(s)] \in Nat
  BY <1>3, <1>5
<1>. QED
  BY <1>4, <1>6

\* What x contributes to the sum of f over I.
Term(f, I, x) == IF x \in I THEN f[x] ELSE 0

LEMMA SumWithout ==
  ASSUME NEW f, NEW S, IsFiniteSet(S), \A i \in S : f[i] \in Int, NEW x
  PROVE  /\ SumFunctionOnSet(f, S) = SumFunctionOnSet(f, S \ {x}) + Term(f, S, x)
         /\ SumFunctionOnSet(f, S \ {x}) \in Int /\ Term(f, S, x) \in Int
<1>. DEFINE K == S \ {x}
<1>1. IsFiniteSet(K) /\ \A i \in K : f[i] \in Int
  BY FS_Subset
<1>2. SumFunctionOnSet(f, K) \in Int /\ Term(f, S, x) \in Int
  BY <1>1, SumIsInt DEF Term
<1>3. CASE x \in S
  BY <1>2, <1>3, SumRemove DEF Term
<1>4. CASE x \notin S
  <2>1. K = S
    BY <1>4
  <2>. HIDE DEF K
  <2>2. SumFunctionOnSet(f, K) = SumFunctionOnSet(f, S) /\ Term(f, S, x) = 0
    BY <1>4, <2>1 DEF Term
  <2>3. SumFunctionOnSet(f, S) = SumFunctionOnSet(f, K) + Term(f, S, x)
    BY <1>2, <2>2
  <2>. QED
    BY <1>2, <2>3 DEF K
<1>. QED
  BY <1>3, <1>4

\* When only the element x changes, or joins or leaves the set, the sum changes
\* by what x contributes.
LEMMA SumChanges ==
  ASSUME NEW f, NEW I, NEW g, NEW J, IsFiniteSet(I), IsFiniteSet(J), NEW x,
         \A i \in I : f[i] \in Int, \A i \in J : g[i] \in Int,
         \A i : i # x => (i \in I <=> i \in J), \A i \in I \ {x} : f[i] = g[i]
  PROVE  /\ SumFunctionOnSet(f, I) \in Int /\ SumFunctionOnSet(g, J) \in Int
         /\ Term(f, I, x) \in Int /\ Term(g, J, x) \in Int
         /\ SumFunctionOnSet(g, J) = SumFunctionOnSet(f, I) - Term(f, I, x) + Term(g, J, x)
<1>. DEFINE K == I \ {x}
            L == J \ {x}
<1>1. K = L /\ IsFiniteSet(K) /\ \A i \in K : f[i] = g[i]
  BY FS_Subset
<1>2. /\ SumFunctionOnSet(f, I) = SumFunctionOnSet(f, K) + Term(f, I, x)
      /\ SumFunctionOnSet(f, K) \in Int /\ Term(f, I, x) \in Int
  BY SumWithout
<1>3. /\ SumFunctionOnSet(g, J) = SumFunctionOnSet(g, L) + Term(g, J, x)
      /\ SumFunctionOnSet(g, L) \in Int /\ Term(g, J, x) \in Int
  BY SumWithout
<1>. HIDE DEF K, L
<1>4. SumFunctionOnSet(f, K) = SumFunctionOnSet(g, L)
  <2>1. SumFunctionOnSet(f, K) = SumFunctionOnSet(g, K)
    BY <1>1, SumSame
  <2>. QED
    BY <1>1, <2>1
<1>. QED
  BY <1>2, <1>3, <1>4

-----------------------------------------------------------------------------
\* What _apply_fill may do to an order and to the book, seen from outside.
FillOutcome(id, r, n, left) ==
  \/ /\ status' = [status EXCEPT ![id] = "REJECTED"]
     /\ UNCHANGED <<filled, settled, pending>>
  \/ /\ status' = [status EXCEPT ![id] = left]
     /\ UNCHANGED <<filled, settled, pending>>
     /\ error' # "none"
  \/ /\ RecordFill(id, r, n)
     /\ \A j \in OrderIds \ {id} : settled'[j] = settled[j]

\* _apply_fill keeps every type and never takes the cash below zero.
LEMMA ApplyFillIsSafe ==
  ASSUME TypeOK, CashNeverNegative,
         NEW id \in OrderIds, NEW r \in Requests, NEW price \in Nat, NEW n \in Nat,
         NEW left \in Status, ApplyFill(id, r, price, n, left)
  PROVE  /\ status' \in [OrderIds -> Status]
         /\ filled' \in [OrderIds -> Nat]
         /\ settled' \in [OrderIds -> Nat]
         /\ pending' \subseteq OrderIds
         /\ cash' \in Int /\ cash' >= 0
         /\ positions' \in [Symbols -> Int]
         /\ error' \in Errors
         /\ FillOutcome(id, r, n, left)
<1>1. Cost(price, n) \in Nat /\ Proceeds(price, n) \in Nat
  BY MoneyIsNat
<1>2. r.symbol \in Symbols /\ r.side \in Side
  BY RequestsAssumption DEF Request
<1>3. CASE RefuseFill(id, r, price, n)
  BY <1>3 DEF RefuseFill, TypeOK, CashNeverNegative, Status, Errors, FillOutcome
<1>4. CASE AbortFill(id, r, price, n, left)
  BY <1>1, <1>4 DEF AbortFill, Affordable, TypeOK, CashNeverNegative, Errors, FillOutcome
<1>5. CASE CommitFill(id, r, price, n)
  <2>1. /\ status' \in [OrderIds -> Status]
        /\ filled' \in [OrderIds -> Nat]
        /\ pending' \subseteq OrderIds
    BY <1>5 DEF CommitFill, RecordFill, TypeOK, Status
  <2>2. /\ settled' \in [OrderIds -> Nat]
        /\ positions' \in [Symbols -> Int]
        /\ error' \in Errors
        /\ \A j \in OrderIds \ {id} : settled'[j] = settled[j]
    BY <1>1, <1>2, <1>5 DEF CommitFill, TypeOK, Errors
  <2>3. cash' \in Int /\ cash' >= 0
    BY <1>1, <1>5 DEF CommitFill, Affordable, TypeOK, CashNeverNegative
  <2>. QED
    BY <1>5, <2>1, <2>2, <2>3 DEF CommitFill, FillOutcome
<1>. QED
  BY <1>3, <1>4, <1>5 DEF ApplyFill

-----------------------------------------------------------------------------
\* The order of a fill: it rests and keeps its status when the fill is
\* abandoned, or it is the order being submitted.
FillsOrder(id, r, left) ==
  \/ /\ id \in pending /\ r = request[id] /\ left = status[id]
     /\ UNCHANGED <<request, nextId>>
  \/ /\ id = nextId /\ left = "VALIDATED"
     /\ request' = [request EXCEPT ![id] = r]
     /\ nextId' = nextId + 1

\* A resting order was submitted.
LEMMA RestingIsSubmitted ==
  ASSUME IInv, NEW id \in pending
  PROVE  /\ id \in OrderIds /\ id < nextId
         /\ request[id] \in Requests /\ request[id] # None
         /\ status[id] # "UNUSED"
<1>1. id \in OrderIds /\ status[id] # "UNUSED" /\ nextId \in Int
  BY DEF IInv, TypeOK, BookConsistent, RestingIsOpen
<1>2. request[id] \in Requests /\ id < nextId
  BY <1>1 DEF IInv, IdsInOrder
<1>. QED
  BY <1>1, <1>2, NoneAssumption, RequestsAssumption

\* A fill, refused, abandoned or recorded, leaves the orders and _pending in agreement.
LEMMA FillKeepsBook ==
  ASSUME IInv, NEW id \in OrderIds, NEW r \in Requests, NEW n \in Nat, n > 0,
         NEW left \in Status, FillsOrder(id, r, left),
         filled[id] + n <= r.qty, FillOutcome(id, r, n, left)
  PROVE  BookConsistent' /\ IdsInOrder'
<1>t. TypeOK /\ BookConsistent /\ IdsInOrder
  BY DEF IInv
<1>1. /\ r.qty \in Int /\ r # None /\ r \in Requests
      /\ request[id] # None => request[id] = r
      /\ status[id] \notin {"FILLED", "CANCELLED"}
      /\ left \in IF id \in pending THEN {"PENDING", "PARTIALLY_FILLED", "REJECTED"} ELSE {"VALIDATED"}
      /\ id < nextId'
      /\ \A j \in OrderIds \ {id} : j < nextId' <=> j < nextId
      /\ \A j \in OrderIds : request'[j] = IF j = id THEN r ELSE request[j]
  <2>1. r.qty \in Int /\ r # None
    BY RequestsAssumption, NoneAssumption DEF Request
  <2>2. CASE id \in pending /\ r = request[id] /\ left = status[id] /\ UNCHANGED <<request, nextId>>
    BY <1>t, <2>1, <2>2, RestingIsSubmitted DEF TypeOK, OrderIds, BookConsistent, RestingIsOpen
  <2>3. CASE id = nextId /\ left = "VALIDATED" /\ nextId' = nextId + 1 /\ request' = [request EXCEPT ![id] = r]
    BY <1>t, <2>1, <2>3 DEF TypeOK, OrderIds, IdsInOrder, BookConsistent, RestingIsOpen
  <2>. QED
    BY <2>1, <2>2, <2>3 DEF FillsOrder
<1>2. filled[id] \in Nat /\ filled[id] < r.qty
  BY <1>t, <1>1 DEF TypeOK
<1>3. ASSUME NEW st \in {"REJECTED", left},
             status' = [status EXCEPT ![id] = st], UNCHANGED <<filled, settled, pending>>
      PROVE  BookConsistent' /\ IdsInOrder'
  <2>0. /\ st \notin {"UNUSED", "FILLED"}
        /\ \A j \in OrderIds : status'[j] = IF j = id THEN st ELSE status[j]
    BY <1>t, <1>1, <1>3 DEF TypeOK
  <2>1. IdsInOrder'
    BY <1>t, <1>1, <1>3, <2>0 DEF IdsInOrder
  <2>2. RestingIsOpen'
    BY <1>t, <1>1, <1>3, <2>0 DEF TypeOK, BookConsistent, RestingIsOpen, Remaining
  <2>3. OpenIsResting'
    BY <1>t, <1>1, <1>3, <2>0 DEF BookConsistent, OpenIsResting
  <2>4. FilledIsComplete'
    BY <1>t, <1>1, <1>2, <1>3, <2>0 DEF BookConsistent, FilledIsComplete, Remaining
  <2>5. NeverOverfilled'
    BY <1>t, <1>1, <1>2, <1>3 DEF BookConsistent, NeverOverfilled
  <2>. QED
    BY <2>1, <2>2, <2>3, <2>4, <2>5 DEF BookConsistent
<1>4. CASE RecordFill(id, r, n)
  <2>0. /\ \A j \in OrderIds : filled'[j] = IF j = id THEN filled[id] + n ELSE filled[j]
        /\ \A j \in OrderIds \ {id} : status'[j] = status[j]
        /\ \A j \in OrderIds \ {id} : j \in pending' <=> j \in pending
        /\ \/ filled[id] + n = r.qty /\ status'[id] = "FILLED" /\ id \notin pending'
           \/ filled[id] + n < r.qty /\ status'[id] = "PARTIALLY_FILLED" /\ id \in pending'
        /\ pending' \subseteq OrderIds
    <3>1. CASE filled[id] + n >= r.qty
      BY <1>t, <1>1, <1>2, <1>4, <3>1 DEF TypeOK, RecordFill, Status
    <3>2. CASE ~(filled[id] + n >= r.qty)
      BY <1>t, <1>1, <1>2, <1>4, <3>2 DEF TypeOK, RecordFill, Status
    <3>. QED
      BY <3>1, <3>2
  <2>1. IdsInOrder'
    BY <1>t, <1>1, <2>0 DEF IdsInOrder
  <2>2. RestingIsOpen'
    <3>1. ASSUME NEW j \in pending', j # id
          PROVE  status'[j] \in {"PENDING", "PARTIALLY_FILLED", "REJECTED"} /\ Remaining(j)' > 0
      BY <1>t, <1>1, <2>0, <3>1 DEF BookConsistent, RestingIsOpen, Remaining
    <3>2. ASSUME id \in pending'
          PROVE  status'[id] = "PARTIALLY_FILLED" /\ Remaining(id)' > 0
      BY <1>1, <1>2, <2>0, <3>2 DEF Remaining
    <3>. QED
      BY <3>1, <3>2 DEF RestingIsOpen
  <2>3. OpenIsResting'
    BY <1>t, <1>1, <2>0 DEF BookConsistent, OpenIsResting
  <2>4. FilledIsComplete'
    <3>1. ASSUME NEW j \in OrderIds, j # id, request'[j] # None
          PROVE  status'[j] = "FILLED" <=> filled'[j] > 0 /\ Remaining(j)' <= 0
      BY <1>t, <1>1, <2>0, <3>1 DEF BookConsistent, FilledIsComplete, Remaining
    <3>2. status'[id] = "FILLED" <=> filled'[id] > 0 /\ Remaining(id)' <= 0
      BY <1>1, <1>2, <2>0 DEF Remaining
    <3>. QED
      BY <3>1, <3>2 DEF FilledIsComplete
  <2>5. NeverOverfilled'
    BY <1>t, <1>1, <1>2, <2>0 DEF BookConsistent, NeverOverfilled
  <2>. QED
    BY <2>1, <2>2, <2>3, <2>4, <2>5 DEF BookConsistent
<1>. QED
  BY <1>3, <1>4 DEF FillOutcome

-----------------------------------------------------------------------------
\* The steps, one lemma for each operation.

LEMMA InitKeepsIInv == Init => IInv
<1>. SUFFICES ASSUME Init PROVE IInv
  OBVIOUS
<1>1. TypeOK
  BY BoundAssumption, CashAssumption DEF Init, TypeOK, Status, Errors
<1>2. CashNeverNegative /\ WorkRests
  BY CashAssumption DEF Init, CashNeverNegative, WorkRests
<1>3. BookConsistent
  BY DEF Init, BookConsistent, RestingIsOpen, OpenIsResting, FilledIsComplete, NeverOverfilled
<1>4. IdsInOrder
  BY DEF Init, IdsInOrder, OrderIds
<1>. QED
  BY <1>1, <1>2, <1>3, <1>4 DEF IInv

\* The next order is blank and does not rest.
LEMMA NextIsBlank ==
  ASSUME IInv, nextId \in OrderIds
  PROVE  /\ request[nextId] = None /\ status[nextId] = "UNUSED" /\ filled[nextId] = 0
         /\ nextId \notin pending
<1>1. request[nextId] = None /\ status[nextId] = "UNUSED" /\ filled[nextId] = 0
  BY DEF IInv, IdsInOrder, TypeOK, OrderIds
<1>. QED
  BY <1>1 DEF IInv, BookConsistent, RestingIsOpen

LEMMA SubmitKeepsIInv ==
  ASSUME IInv, NEW r \in Requests, NEW qv \in Quotes, NEW qm \in Quotes, Submit(r, qv, qm)
  PROVE  IInv'
<1>t. TypeOK /\ CashNeverNegative /\ BookConsistent /\ IdsInOrder /\ WorkRests
  BY DEF IInv
<1>1. /\ nextId \in OrderIds /\ nextId' = nextId + 1
      /\ request' = [request EXCEPT ![nextId] = r]
      /\ work = {} /\ work' = {}
  BY DEF Submit, Admit
<1>2. /\ request' \in [OrderIds -> Requests \cup {None}]
      /\ nextId' \in 1..(MaxOrders + 1)
  BY <1>t, <1>1, BoundAssumption DEF TypeOK, OrderIds
<1>3. /\ r.qty \in Int /\ r # None
      /\ request[nextId] = None /\ status[nextId] = "UNUSED" /\ filled[nextId] = 0
      /\ nextId \notin pending
  BY <1>1, NextIsBlank, RequestsAssumption, NoneAssumption DEF Request
<1>4. CASE RejectOnSubmit
  <2>1. TypeOK' /\ CashNeverNegative' /\ WorkRests'
    BY <1>t, <1>1, <1>2, <1>4
       DEF RejectOnSubmit, accountVars, TypeOK, CashNeverNegative, WorkRests, Status, Errors
  <2>2. BookConsistent'
    BY <1>t, <1>1, <1>3, <1>4
       DEF RejectOnSubmit, TypeOK, BookConsistent, RestingIsOpen, OpenIsResting,
           FilledIsComplete, NeverOverfilled, Remaining
  <2>3. IdsInOrder'
    BY <1>t, <1>1, <1>4 DEF RejectOnSubmit, TypeOK, IdsInOrder, OrderIds
  <2>. QED
    BY <2>1, <2>2, <2>3 DEF IInv
<1>5. CASE Valid(r, qv) /\ RestOnSubmit(r)
  <2>1. Reserve(r, r.qty) \in Nat
    BY <1>3, <1>5, ReserveIsNat DEF Valid
  <2>2. TypeOK' /\ CashNeverNegative' /\ WorkRests'
    BY <1>t, <1>1, <1>2, <1>5, <2>1
       DEF RestOnSubmit, TypeOK, CashNeverNegative, WorkRests, Status, Errors
  <2>3. BookConsistent'
    BY <1>t, <1>1, <1>3, <1>5
       DEF Valid, RestOnSubmit, TypeOK, BookConsistent, RestingIsOpen, OpenIsResting,
           FilledIsComplete, NeverOverfilled, Remaining
  <2>4. IdsInOrder'
    BY <1>t, <1>1, <1>5 DEF RestOnSubmit, TypeOK, IdsInOrder, OrderIds
  <2>. QED
    BY <2>2, <2>3, <2>4 DEF IInv
<1>6. CASE /\ CanFill(r, qm)
           /\ ApplyFill(nextId, r, FillPrice(r, qm), FillSize(r, qm), "VALIDATED")
           /\ UNCHANGED reserved
  <2>1. /\ FillPrice(r, qm) \in Nat /\ FillSize(r, qm) \in Nat /\ FillSize(r, qm) > 0
        /\ filled[nextId] + FillSize(r, qm) <= r.qty
    BY <1>3, <1>6, FillFacts
  <2>2. TypeOK' /\ CashNeverNegative' /\ WorkRests'
        /\ FillOutcome(nextId, r, FillSize(r, qm), "VALIDATED")
    BY <1>t, <1>1, <1>2, <1>6, <2>1, ApplyFillIsSafe
       DEF TypeOK, CashNeverNegative, WorkRests, Status
  <2>3. BookConsistent' /\ IdsInOrder'
    BY <1>1, <2>1, <2>2, FillKeepsBook DEF FillsOrder, Status
  <2>. QED
    BY <2>2, <2>3 DEF IInv
<1>. QED
  BY <1>4, <1>5, <1>6 DEF Submit

LEMMA FillPendingKeepsIInv ==
  ASSUME IInv, NEW id \in work, NEW q \in Quotes, FillPending(id, q)
  PROVE  IInv'
<1>t. TypeOK /\ CashNeverNegative /\ WorkRests
  BY DEF IInv
<1>. DEFINE r == request[id]
            n == FillSizePending(id, q)
<1>1. /\ id \in pending /\ id \in OrderIds
      /\ r \in Requests /\ Remaining(id) > 0 /\ filled[id] \in Nat
      /\ r.qty \in Int /\ status[id] \in Status
  <2>1. id \in pending /\ id \in OrderIds /\ r \in Requests
    BY <1>t, RestingIsSubmitted DEF WorkRests
  <2>. QED
    BY <1>t, <2>1, RequestsAssumption DEF TypeOK, IInv, BookConsistent, RestingIsOpen, Request
<1>2. CanFill(r, q) /\ UNCHANGED <<request, nextId>>
  BY DEF FillPending
<1>3. FillPrice(r, q) \in Nat /\ FillSize(r, q) \in Nat /\ FillSize(r, q) > 0
  BY <1>1, <1>2, FillFacts
<1>4. n \in Nat /\ n > 0 /\ filled[id] + n <= r.qty
  BY <1>1, <1>3 DEF FillSizePending, Remaining
<1>5. reserved' \in Nat
  BY <1>t, <1>1, <1>4, ReserveIsNat DEF FillPending, Released, TypeOK
<1>6. ApplyFill(id, r, FillPrice(r, q), n, status[id])
  BY DEF FillPending
<1>7. /\ status' \in [OrderIds -> Status]
      /\ filled' \in [OrderIds -> Nat]
      /\ settled' \in [OrderIds -> Nat]
      /\ pending' \subseteq OrderIds
      /\ cash' \in Int /\ cash' >= 0
      /\ positions' \in [Symbols -> Int]
      /\ error' \in Errors
      /\ FillOutcome(id, r, n, status[id])
  <2>. HIDE DEF r, n
  <2>. QED
    BY <1>t, <1>1, <1>3, <1>4, <1>6, ApplyFillIsSafe
<1>8. BookConsistent' /\ IdsInOrder'
  <2>1. FillsOrder(id, r, status[id])
    BY <1>1, <1>2 DEF FillsOrder
  <2>. HIDE DEF r, n
  <2>. QED
    BY <1>1, <1>4, <1>7, <2>1, FillKeepsBook
<1>9. work' \subseteq pending'
  <2>1. work' \subseteq work \ {id}
    BY DEF FillPending
  <2>2. \A j \in pending : j # id => j \in pending'
    BY <1>7 DEF FillOutcome, RecordFill
  <2>. QED
    BY <1>t, <2>1, <2>2 DEF WorkRests
<1>10. TypeOK'
  BY <1>t, <1>2, <1>5, <1>7, <1>9 DEF TypeOK
<1>. QED
  BY <1>7, <1>8, <1>9, <1>10 DEF IInv, CashNeverNegative, WorkRests

LEMMA CancelKeepsIInv ==
  ASSUME IInv, NEW id \in OrderIds, Cancel(id)
  PROVE  IInv'
<1>t. TypeOK /\ CashNeverNegative /\ BookConsistent /\ IdsInOrder
  BY DEF IInv
<1>1. request[id] \in Requests /\ request[id] # None /\ request[id].qty \in Int
  <2>1. request[id] \in Requests
    BY <1>t DEF IdsInOrder, Cancel, Cancellable
  <2>. QED
    BY <2>1, RequestsAssumption, NoneAssumption DEF Request
<1>2. Remaining(id) \in Int
  BY <1>t, <1>1 DEF TypeOK, Remaining
<1>3. Reserve(request[id], Remaining(id)) \in Int
  BY <1>1, <1>2, ReserveIsInt
<1>4. TypeOK' /\ CashNeverNegative'
  BY <1>t, <1>3 DEF Cancel, Released, TypeOK, CashNeverNegative, Status, Errors
<1>5. WorkRests' /\ IdsInOrder'
  BY <1>t DEF Cancel, Cancellable, TypeOK, WorkRests, IdsInOrder
<1>6. BookConsistent'
  BY <1>t DEF Cancel, Cancellable, TypeOK, BookConsistent, RestingIsOpen, OpenIsResting,
     FilledIsComplete, NeverOverfilled, Remaining
<1>. QED
  BY <1>4, <1>5, <1>6 DEF IInv

LEMMA RefuseCancelKeepsIInv ==
  ASSUME IInv, NEW id \in OrderIds, RefuseCancel(id)
  PROVE  IInv'
  BY DEF IInv, RefuseCancel, orderVars, accountVars, TypeOK, CashNeverNegative, BookConsistent,
     RestingIsOpen, OpenIsResting, FilledIsComplete, NeverOverfilled, Remaining, IdsInOrder,
     WorkRests, Errors

LEMMA StartProcessingKeepsIInv ==
  ASSUME IInv, StartProcessing
  PROVE  IInv'
  BY DEF IInv, StartProcessing, orderVars, accountVars, TypeOK, CashNeverNegative, BookConsistent,
     RestingIsOpen, OpenIsResting, FilledIsComplete, NeverOverfilled, Remaining, IdsInOrder,
     WorkRests, Errors

LEMMA PassOverKeepsIInv ==
  ASSUME IInv, NEW id \in work, NEW q \in Quotes, PassOver(id, q)
  PROVE  IInv'
  BY DEF IInv, PassOver, orderVars, accountVars, TypeOK, CashNeverNegative, BookConsistent,
     RestingIsOpen, OpenIsResting, FilledIsComplete, NeverOverfilled, Remaining, IdsInOrder,
     WorkRests

LEMMA StutterKeepsIInv ==
  ASSUME IInv, UNCHANGED vars
  PROVE  IInv'
  BY DEF IInv, vars, orderVars, accountVars, TypeOK, CashNeverNegative, BookConsistent,
     RestingIsOpen, OpenIsResting, FilledIsComplete, NeverOverfilled, Remaining, IdsInOrder,
     WorkRests

LEMMA NextKeepsIInv == IInv /\ [Next]_vars => IInv'
<1>. SUFFICES ASSUME IInv, [Next]_vars PROVE IInv'
  OBVIOUS
<1>1. ASSUME NEW r \in Requests, NEW qv \in Quotes, NEW qm \in Quotes, Submit(r, qv, qm)
      PROVE  IInv'
  BY <1>1, SubmitKeepsIInv
<1>2. ASSUME NEW q \in Quotes, ProcessNext(q)
      PROVE  IInv'
  BY <1>2, PassOverKeepsIInv, FillPendingKeepsIInv DEF ProcessNext, Foremost
<1>3. ASSUME NEW id \in OrderIds, Cancel(id) \/ RefuseCancel(id)
      PROVE  IInv'
  BY <1>3, CancelKeepsIInv, RefuseCancelKeepsIInv
<1>. QED
  BY <1>1, <1>2, <1>3, StartProcessingKeepsIInv, StutterKeepsIInv DEF Next

-----------------------------------------------------------------------------
\* The inductive invariant holds in every reachable state.
THEOREM Invariance == Spec => []IInv
  BY InitKeepsIInv, NextKeepsIInv, PTL DEF Spec

\* Every variable keeps its type; in particular no release of a reserve, in
\* whatever order fills and cancellations come, makes _reserved negative.
THEOREM TypeCorrect == Spec => []TypeOK
<1>1. IInv => TypeOK
  BY DEF IInv
<1>. QED
  BY <1>1, Invariance, PTL

\* The account is never overdrawn.
THEOREM CashIsSafe == Spec => []CashNeverNegative
<1>1. IInv => CashNeverNegative
  BY DEF IInv
<1>. QED
  BY <1>1, Invariance, PTL

\* _pending and the orders always agree, and no order is executed for more
\* contracts than it asked for.
THEOREM BookIsConsistent == Spec => []BookConsistent
<1>1. IInv => BookConsistent
  BY DEF IInv
<1>. QED
  BY <1>1, Invariance, PTL

-----------------------------------------------------------------------------
\* What a step does to the orders.

\* A fill while process_pending runs, as seen by the orders.
LEMMA FillPendingOutcome ==
  ASSUME IInv, NEW id \in work, NEW q \in Quotes, FillPending(id, q)
  PROVE  /\ id \in pending /\ id \in OrderIds /\ request[id] \in Requests
         /\ filled[id] \in Nat /\ status[id] \in Status
         /\ FillSizePending(id, q) \in Nat /\ FillSizePending(id, q) > 0
         /\ filled[id] + FillSizePending(id, q) <= request[id].qty
         /\ request[id].qty \in Int
         /\ FillOutcome(id, request[id], FillSizePending(id, q), status[id])
         /\ UNCHANGED <<request, nextId>>
<1>t. TypeOK /\ CashNeverNegative /\ WorkRests
  BY DEF IInv
<1>1. id \in pending /\ id \in OrderIds /\ request[id] \in Requests
  BY <1>t, RestingIsSubmitted DEF WorkRests
<1>2. Remaining(id) > 0 /\ filled[id] \in Nat /\ request[id].qty \in Int /\ status[id] \in Status
  BY <1>t, <1>1, RequestsAssumption DEF TypeOK, IInv, BookConsistent, RestingIsOpen, Request
<1>3. /\ CanFill(request[id], q) /\ UNCHANGED <<request, nextId>>
      /\ ApplyFill(id, request[id], FillPrice(request[id], q), FillSizePending(id, q), status[id])
  BY DEF FillPending
<1>4. /\ FillPrice(request[id], q) \in Nat
      /\ FillSize(request[id], q) \in Nat /\ FillSize(request[id], q) > 0
  BY <1>1, <1>3, FillFacts
<1>5. /\ FillSizePending(id, q) \in Nat /\ FillSizePending(id, q) > 0
      /\ filled[id] + FillSizePending(id, q) <= request[id].qty
  BY <1>2, <1>4 DEF FillSizePending, Remaining
<1>6. FillOutcome(id, request[id], FillSizePending(id, q), status[id])
  BY <1>t, <1>1, <1>2, <1>3, <1>4, <1>5, ApplyFillIsSafe
<1>. QED
  BY <1>1, <1>2, <1>3, <1>5, <1>6

\* A submission, as seen by the orders.
LEMMA SubmitOutcome ==
  ASSUME IInv, NEW r \in Requests, NEW qv \in Quotes, NEW qm \in Quotes, Submit(r, qv, qm)
  PROVE  /\ nextId \in OrderIds /\ nextId \notin pending
         /\ status[nextId] = "UNUSED" /\ request[nextId] = None /\ filled[nextId] = 0
         /\ request' = [request EXCEPT ![nextId] = r]
         /\ \/ /\ status' = [status EXCEPT ![nextId] = "REJECTED"]
               /\ UNCHANGED <<filled, settled, pending>>
            \/ /\ r.qty > 0
               /\ status' = [status EXCEPT ![nextId] = "PENDING"]
               /\ pending' = pending \cup {nextId}
               /\ UNCHANGED <<filled, settled>>
            \/ \E n \in Nat :
                 n > 0 /\ n <= r.qty /\ FillOutcome(nextId, r, n, "VALIDATED")
<1>1. nextId \in OrderIds /\ request' = [request EXCEPT ![nextId] = r]
  BY DEF Submit, Admit
<1>2. /\ status[nextId] = "UNUSED" /\ request[nextId] = None /\ filled[nextId] = 0
      /\ nextId \notin pending
  BY <1>1, NextIsBlank
<1>3. CASE RejectOnSubmit
  BY <1>1, <1>2, <1>3 DEF RejectOnSubmit
<1>4. CASE Valid(r, qv) /\ RestOnSubmit(r)
  BY <1>1, <1>2, <1>4 DEF RestOnSubmit, Valid
<1>5. CASE /\ CanFill(r, qm)
           /\ ApplyFill(nextId, r, FillPrice(r, qm), FillSize(r, qm), "VALIDATED")
  <2>1. /\ FillPrice(r, qm) \in Nat /\ FillSize(r, qm) \in Nat /\ FillSize(r, qm) > 0
        /\ FillSize(r, qm) <= r.qty
    BY <1>5, FillFacts
  <2>2. FillOutcome(nextId, r, FillSize(r, qm), "VALIDATED")
    BY <1>1, <1>5, <2>1, ApplyFillIsSafe DEF IInv, Status
  <2>. QED
    BY <1>1, <1>2, <2>1, <2>2
<1>. QED
  BY <1>3, <1>4, <1>5 DEF Submit

\* No retry, fill or cancellation changes an order that is FILLED or CANCELLED.
THEOREM FinalOrdersAreFinal == Spec => FinalOrdersStay
<1>. DEFINE Stays(id) == /\ status'[id] = status[id]
                         /\ filled'[id] = filled[id]
                         /\ settled'[id] = settled[id]
                         /\ id \notin pending'
<1>1. ASSUME IInv, [Next]_vars, NEW id \in OrderIds, status[id] \in {"FILLED", "CANCELLED"}
      PROVE  Stays(id)
  <2>1. id \notin pending /\ TypeOK
    BY <1>1 DEF IInv, BookConsistent, RestingIsOpen
  <2>2. ASSUME NEW j \in OrderIds \ {id}, NEW r, NEW n, NEW left, FillOutcome(j, r, n, left)
        PROVE  Stays(id)
    BY <1>1, <2>1, <2>2 DEF FillOutcome, RecordFill, TypeOK
  <2>3. ASSUME NEW r \in Requests, NEW qv \in Quotes, NEW qm \in Quotes, Submit(r, qv, qm)
        PROVE  Stays(id)
    <3>1. id # nextId /\ nextId \in OrderIds
      BY <1>1, <2>3, SubmitOutcome
    <3>2. CASE \E n \in Nat : n > 0 /\ n <= r.qty /\ FillOutcome(nextId, r, n, "VALIDATED")
      BY <2>2, <3>1, <3>2
    <3>. QED
      BY <1>1, <2>1, <2>3, <3>1, <3>2, SubmitOutcome DEF TypeOK
  <2>4. ASSUME NEW q \in Quotes, ProcessNext(q)
        PROVE  Stays(id)
    <3>1. PICK j \in work : PassOver(j, q) \/ FillPending(j, q)
      BY <2>4 DEF ProcessNext, Foremost
    <3>2. CASE FillPending(j, q)
      <4>1. j # id /\ j \in OrderIds
        BY <1>1, <2>1, <3>2, FillPendingOutcome
      <4>. QED
        BY <1>1, <2>2, <3>2, <4>1, FillPendingOutcome
    <3>. QED
      BY <2>1, <3>1, <3>2 DEF PassOver, orderVars
  <2>5. ASSUME NEW j \in OrderIds, Cancel(j) \/ RefuseCancel(j)
        PROVE  Stays(id)
    BY <1>1, <2>1, <2>5 DEF Cancel, Cancellable, RefuseCancel, orderVars, TypeOK
  <2>6. CASE StartProcessing \/ UNCHANGED vars
    BY <2>1, <2>6 DEF StartProcessing, vars, orderVars
  <2>. QED
    BY <1>1, <2>3, <2>4, <2>5, <2>6 DEF Next
<1>2. IInv /\ [Next]_vars =>
        [\A id \in OrderIds : status[id] \in {"FILLED", "CANCELLED"} => Stays(id)]_vars
  BY <1>1
<1>. QED
  BY <1>2, Invariance, PTL DEF Spec, FinalOrdersStay

-----------------------------------------------------------------------------
\* The account: what is reserved, the positions and the cash against the sums
\* over the orders.

\* What those sums need besides: an id that was not given out has moved no
\* money, and an order that an exception left VALIDATED has contracts to go.
BlankIsUnsettled == \A id \in OrderIds : request[id] = None => settled[id] = 0
ValidatedIsOpen == \A id \in OrderIds : status[id] = "VALIDATED" => Remaining(id) > 0

AccountInv ==
  /\ BlankIsUnsettled /\ ValidatedIsOpen
  /\ NoOrphanReservation /\ PositionsMatchFills /\ NoMoneyCreated

LEMMA OrderIdsFinite ==
  /\ IsFiniteSet(OrderIds)
  /\ \A S : S \subseteq OrderIds => IsFiniteSet(S)
<1>1. IsFiniteSet(OrderIds)
  BY BoundAssumption, FS_Interval DEF OrderIds
<1>. QED
  BY <1>1, FS_Subset

\* A step concerns x alone: it leaves the other orders and their place in
\* _pending as they are.
OnlyOrder(x) ==
  \A j \in OrderIds \ {x} :
    /\ request'[j] = request[j] /\ filled'[j] = filled[j] /\ settled'[j] = settled[j]
    /\ j \in pending' <=> j \in pending

\* x is the order of r, submitted before or by this step.
OrderOf(x, r) ==
  /\ x \in OrderIds /\ OnlyOrder(x) /\ request'[x] = r
  /\ request[x] = r \/ (request[x] = None /\ filled[x] = 0 /\ settled[x] = 0)

LEMMA ExecutedChanges ==
  ASSUME TypeOK, TypeOK', NEW x, NEW r \in Requests, OrderOf(x, r), NEW side, NEW s
  PROVE  /\ Executed(side, s) \in Int /\ Executed(side, s)' \in Int
         /\ Executed(side, s)' = Executed(side, s)
              + IF r.side = side /\ r.symbol = s THEN filled'[x] - filled[x] ELSE 0
<1>i. PICK I : I = OrdersFor(side, s)
  OBVIOUS
<1>j. PICK J : J = OrdersFor(side, s)'
  OBVIOUS
<1>0. r # None /\ filled[x] \in Int /\ filled'[x] \in Int
  BY NoneAssumption, RequestsAssumption DEF OrderOf, TypeOK
<1>1. IsFiniteSet(I) /\ IsFiniteSet(J)
  BY <1>i, <1>j, OrderIdsFinite DEF OrdersFor, OrdersOf
<1>2. /\ \A i \in I : filled[i] \in Int
      /\ \A i \in J : filled'[i] \in Int
  BY <1>i, <1>j DEF OrdersFor, OrdersOf, TypeOK
<1>3. \A i : i # x => (i \in I <=> i \in J)
  BY <1>i, <1>j DEF OrderOf, OnlyOrder, OrdersFor, OrdersOf
<1>6. \A i \in I \ {x} : filled[i] = filled'[i]
  BY <1>i, <1>j DEF OrderOf, OnlyOrder, OrdersFor, OrdersOf
<1>4. /\ Term(filled', J, x) = IF r.side = side /\ r.symbol = s THEN filled'[x] ELSE 0
      /\ Term(filled, I, x) = IF r.side = side /\ r.symbol = s THEN filled[x] ELSE 0
  BY <1>0, <1>i, <1>j DEF OrderOf, OrdersFor, OrdersOf, Term
<1>7. SumFunctionOnSet(filled, I) \in Int /\ SumFunctionOnSet(filled', J) \in Int
  BY <1>1, <1>2, SumIsInt
<1>5. SumFunctionOnSet(filled', J)
        = SumFunctionOnSet(filled, I) - Term(filled, I, x) + Term(filled', J, x)
  BY <1>1, <1>2, <1>3, <1>6, SumChanges
<1>. QED
  BY <1>0, <1>4, <1>5, <1>7, <1>i, <1>j DEF Executed

LEMMA SettledChanges ==
  ASSUME TypeOK, TypeOK', NEW x, NEW r \in Requests, OrderOf(x, r), NEW side
  PROVE  /\ Settled(side) \in Int /\ Settled(side)' \in Int
         /\ Settled(side)' = Settled(side)
              + IF r.side = side THEN settled'[x] - settled[x] ELSE 0
<1>i. PICK I : I = OrdersOf(side)
  OBVIOUS
<1>j. PICK J : J = OrdersOf(side)'
  OBVIOUS
<1>0. r # None /\ settled[x] \in Int /\ settled'[x] \in Int
  BY NoneAssumption, RequestsAssumption DEF OrderOf, TypeOK
<1>1. IsFiniteSet(I) /\ IsFiniteSet(J)
  BY <1>i, <1>j, OrderIdsFinite DEF OrdersOf
<1>2. /\ \A i \in I : settled[i] \in Int
      /\ \A i \in J : settled'[i] \in Int
  BY <1>i, <1>j DEF OrdersOf, TypeOK
<1>3. \A i : i # x => (i \in I <=> i \in J)
  BY <1>i, <1>j DEF OrderOf, OnlyOrder, OrdersOf
<1>6. \A i \in I \ {x} : settled[i] = settled'[i]
  BY <1>i, <1>j DEF OrderOf, OnlyOrder, OrdersOf
<1>4. /\ Term(settled', J, x) = IF r.side = side THEN settled'[x] ELSE 0
      /\ Term(settled, I, x) = IF r.side = side THEN settled[x] ELSE 0
  BY <1>0, <1>i, <1>j DEF OrderOf, OrdersOf, Term
<1>7. SumFunctionOnSet(settled, I) \in Int /\ SumFunctionOnSet(settled', J) \in Int
  BY <1>1, <1>2, SumIsInt
<1>5. SumFunctionOnSet(settled', J)
        = SumFunctionOnSet(settled, I) - Term(settled, I, x) + Term(settled', J, x)
  BY <1>1, <1>2, <1>3, <1>6, SumChanges
<1>. QED
  BY <1>0, <1>4, <1>5, <1>7, <1>i, <1>j DEF Settled

\* What rests needs its reserve in whole units of money.
LEMMA NeededIsNat ==
  IInv =>
    /\ \A i \in pending : /\ ReserveNeeded[i] \in Nat
                          /\ ReserveNeeded[i] = Reserve(request[i], Remaining(i))
    /\ SumFunctionOnSet(ReserveNeeded, pending) \in Nat
<1>. SUFFICES ASSUME IInv
              PROVE  /\ \A i \in pending :
                          /\ ReserveNeeded[i] \in Nat
                          /\ ReserveNeeded[i] = Reserve(request[i], Remaining(i))
                     /\ SumFunctionOnSet(ReserveNeeded, pending) \in Nat
  OBVIOUS
<1>1. ASSUME NEW i \in pending
      PROVE  /\ ReserveNeeded[i] \in Nat
             /\ ReserveNeeded[i] = Reserve(request[i], Remaining(i))
  <2>1. i \in OrderIds /\ request[i] \in Requests /\ request[i] # None
    BY RestingIsSubmitted
  <2>2. Remaining(i) \in Nat
    BY <2>1, RequestsAssumption
       DEF IInv, TypeOK, BookConsistent, RestingIsOpen, Remaining, Request
  <2>. QED
    BY <2>1, <2>2, ReserveIsNat DEF ReserveNeeded
<1>2. IsFiniteSet(pending)
  BY OrderIdsFinite DEF IInv, TypeOK
<1>. QED
  BY <1>1, <1>2, SumIsNat

LEMMA NeededChanges ==
  ASSUME IInv, IInv', NEW x, OnlyOrder(x)
  PROVE  /\ SumFunctionOnSet(ReserveNeeded, pending) \in Nat
         /\ SumFunctionOnSet(ReserveNeeded, pending)' \in Nat
         /\ Term(ReserveNeeded, pending, x) \in Nat /\ Term(ReserveNeeded', pending', x) \in Nat
         /\ SumFunctionOnSet(ReserveNeeded, pending)'
              = SumFunctionOnSet(ReserveNeeded, pending)
                - Term(ReserveNeeded, pending, x) + Term(ReserveNeeded', pending', x)
<1>1. IsFiniteSet(pending) /\ IsFiniteSet(pending')
  BY OrderIdsFinite DEF IInv, TypeOK
<1>2. /\ \A i \in pending : ReserveNeeded[i] \in Nat
      /\ SumFunctionOnSet(ReserveNeeded, pending) \in Nat
  BY NeededIsNat
<1>3. /\ \A i \in pending' : ReserveNeeded'[i] \in Nat
      /\ SumFunctionOnSet(ReserveNeeded, pending)' \in Nat
  <2>1. (IInv =>
           /\ \A i \in pending : /\ ReserveNeeded[i] \in Nat
                                 /\ ReserveNeeded[i] = Reserve(request[i], Remaining(i))
           /\ SumFunctionOnSet(ReserveNeeded, pending) \in Nat)'
    BY NeededIsNat, PTL
  <2>. QED
    BY <2>1
<1>4. \A i : i # x => (i \in pending <=> i \in pending')
  BY DEF OnlyOrder, IInv, TypeOK
<1>5. \A i \in pending \ {x} : ReserveNeeded[i] = ReserveNeeded'[i]
  BY DEF OnlyOrder, IInv, TypeOK, ReserveNeeded, Remaining
<1>6. SumFunctionOnSet(ReserveNeeded', pending')
        = SumFunctionOnSet(ReserveNeeded, pending)
          - Term(ReserveNeeded, pending, x) + Term(ReserveNeeded', pending', x)
  BY <1>1, <1>2, <1>3, <1>4, <1>5, SumChanges
<1>7. Term(ReserveNeeded, pending, x) \in Nat /\ Term(ReserveNeeded', pending', x) \in Nat
  BY <1>2, <1>3 DEF Term
<1>. QED
  BY <1>2, <1>3, <1>6, <1>7

\* The reserve of a part of an order and of the rest add up to that of the whole.
LEMMA ReserveAdds ==
  ASSUME NEW r \in Requests, NEW m \in Nat, NEW n \in Nat
  PROVE  Reserve(r, m + n) = Reserve(r, m) + Reserve(r, n)
<1>. DEFINE p == r.limit * SlipDen
            c == CommDen + CommNum
<1>1. p \in Nat /\ c \in Nat
  BY ProductIsNat, RequestsAssumption, SlippageAssumption, CommissionAssumption DEF Request
<1>. HIDE DEF p, c
<1>2. p * (m + n) = p * m + p * n
  BY <1>1
<1>3. p * m \in Nat /\ p * n \in Nat
  BY <1>1, ProductIsNat
<1>4. \A a, b \in Nat : (a + b) * c = a * c + b * c
  BY <1>1
<1>5. (p * (m + n)) * c = (p * m) * c + (p * n) * c
  BY <1>2, <1>3, <1>4
<1>. QED
  BY <1>5 DEF Reserve, Cost, p, c

LEMMA NothingIsReserved ==
  ASSUME NEW r \in Requests
  PROVE  Reserve(r, 0) = 0
<1>1. \A n \in Nat : n = 0 => Reserve(r, n + n) = Reserve(r, n) + Reserve(r, n)
  BY ReserveAdds
<1>2. \A n \in Nat : n = 0 => Reserve(r, n) = Reserve(r, n) + Reserve(r, n)
  <2>. SUFFICES ASSUME NEW n \in Nat, n = 0
                PROVE  Reserve(r, n) = Reserve(r, n) + Reserve(r, n)
    OBVIOUS
  <2>1. n + n = n
    OBVIOUS
  <2>. QED
    BY <1>1, <2>1
<1>. QED
  BY <1>2, ReserveIsNat

\* A fill keeps the positions and the cash in agreement with the recorded
\* fills: both are changed by what the order records, or nothing is recorded
\* and the cash is at most what it was.
LEMMA FillKeepsAccount ==
  ASSUME IInv, TypeOK', PositionsMatchFills, NoMoneyCreated,
         NEW id \in OrderIds, NEW r \in Requests, NEW price \in Nat, NEW n \in Nat, NEW left,
         ApplyFill(id, r, price, n, left), OrderOf(id, r)
  PROVE  PositionsMatchFills' /\ NoMoneyCreated'
<1>t. TypeOK /\ TypeOK'
  BY DEF IInv
<1>1. Cost(price, n) \in Nat /\ Proceeds(price, n) \in Nat
  BY MoneyIsNat
<1>2. r.symbol \in Symbols /\ r.side \in {"BUY", "SELL"}
  BY RequestsAssumption DEF Request, Side
<1>3. /\ filled[id] \in Nat /\ settled[id] \in Nat /\ cash \in Int /\ InitialCash \in Int
      /\ \A s \in Symbols : positions[s] \in Int
  BY <1>t, CashAssumption DEF TypeOK
<1>4. ASSUME NEW side, NEW s
      PROVE  /\ Executed(side, s) \in Int /\ Executed(side, s)' \in Int
             /\ Executed(side, s)' = Executed(side, s)
                  + IF r.side = side /\ r.symbol = s THEN filled'[id] - filled[id] ELSE 0
  BY <1>t, ExecutedChanges
<1>5. ASSUME NEW side
      PROVE  /\ Settled(side) \in Int /\ Settled(side)' \in Int
             /\ Settled(side)' = Settled(side)
                  + IF r.side = side THEN settled'[id] - settled[id] ELSE 0
  BY <1>t, SettledChanges
<1>6. CASE UNCHANGED <<filled, settled, positions>> /\ cash' \in Int /\ cash' <= cash
  <2>1. PositionsMatchFills'
    <3>1. ASSUME NEW s \in Symbols
          PROVE  positions'[s] = Executed("BUY", s)' - Executed("SELL", s)'
      <4>1. Executed("BUY", s)' = Executed("BUY", s) /\ Executed("SELL", s)' = Executed("SELL", s)
        BY <1>3, <1>4, <1>6
      <4>. QED
        BY <1>6, <4>1 DEF PositionsMatchFills
    <3>. QED
      BY <3>1 DEF PositionsMatchFills
  <2>2. NoMoneyCreated'
    <3>1. Settled("BUY")' = Settled("BUY") /\ Settled("SELL")' = Settled("SELL")
      BY <1>3, <1>5, <1>6
    <3>. QED
      BY <1>3, <1>5, <1>6, <3>1 DEF NoMoneyCreated, SettledCash
  <2>. QED
    BY <2>1, <2>2
<1>7. CASE CommitFill(id, r, price, n)
  <2>1. filled'[id] = filled[id] + n
    BY <1>t, <1>7 DEF CommitFill, RecordFill, TypeOK
  <2>2. \A s \in Symbols :
          positions'[s] = positions[s]
            + IF r.symbol = s THEN IF r.side = "BUY" THEN n ELSE -n ELSE 0
    BY <1>t, <1>2, <1>3, <1>7 DEF CommitFill, TypeOK
  <2>3. \/ /\ r.side = "BUY" /\ cash' = cash - Cost(price, n)
           /\ settled'[id] = settled[id] + Cost(price, n)
        \/ /\ r.side = "SELL" /\ cash' = cash + Proceeds(price, n)
           /\ settled'[id] = settled[id] + Proceeds(price, n)
    BY <1>t, <1>7 DEF CommitFill, TypeOK
  <2>4. PositionsMatchFills'
    <3>1. ASSUME NEW s \in Symbols
          PROVE  positions'[s] = Executed("BUY", s)' - Executed("SELL", s)'
      <4>1. positions[s] = Executed("BUY", s) - Executed("SELL", s)
        BY DEF PositionsMatchFills
      <4>2. /\ Executed("BUY", s)' = Executed("BUY", s)
                 + IF r.side = "BUY" /\ r.symbol = s THEN n ELSE 0
            /\ Executed("SELL", s)' = Executed("SELL", s)
                 + IF r.side = "SELL" /\ r.symbol = s THEN n ELSE 0
        BY <1>3, <1>4, <2>1
      <4>3. Executed("BUY", s) \in Int /\ Executed("SELL", s) \in Int
        BY <1>4
      <4>4. positions'[s] = positions[s]
              + IF r.symbol = s THEN IF r.side = "BUY" THEN n ELSE -n ELSE 0
        BY <2>2
      <4>5. CASE r.side = "BUY"
        BY <4>1, <4>2, <4>3, <4>4, <4>5
      <4>6. CASE r.side = "SELL"
        BY <4>1, <4>2, <4>3, <4>4, <4>6
      <4>. QED
        BY <1>2, <4>5, <4>6
    <3>. QED
      BY <3>1 DEF PositionsMatchFills
  <2>5. NoMoneyCreated'
    <3>1. CASE r.side = "BUY"
      <4>1. Settled("BUY")' = Settled("BUY") + Cost(price, n) /\ Settled("SELL")' = Settled("SELL")
        BY <1>1, <1>3, <1>5, <2>3, <3>1
      <4>. QED
        BY <1>1, <1>3, <1>5, <2>3, <3>1, <4>1 DEF NoMoneyCreated, SettledCash
    <3>2. CASE r.side = "SELL"
      <4>1. Settled("SELL")' = Settled("SELL") + Proceeds(price, n) /\ Settled("BUY")' = Settled("BUY")
        BY <1>1, <1>3, <1>5, <2>3, <3>2
      <4>. QED
        BY <1>1, <1>3, <1>5, <2>3, <3>2, <4>1 DEF NoMoneyCreated, SettledCash
    <3>. QED
      BY <1>2, <3>1, <3>2
  <2>. QED
    BY <2>4, <2>5
<1>8. CASE RefuseFill(id, r, price, n) \/ AbortFill(id, r, price, n, left)
  <2>1. UNCHANGED <<filled, settled, positions>> /\ cash' \in Int /\ cash' <= cash
    BY <1>1, <1>3, <1>8 DEF RefuseFill, AbortFill
  <2>. QED
    BY <1>6, <2>1
<1>. QED
  BY <1>7, <1>8 DEF ApplyFill

\* A step that records and moves nothing.
LEMMA UnchangedAccount ==
  ASSUME UNCHANGED <<request, filled, settled, positions, cash>>,
         PositionsMatchFills, NoMoneyCreated
  PROVE  PositionsMatchFills' /\ NoMoneyCreated'
  BY DEF PositionsMatchFills, NoMoneyCreated, SettledCash, Executed, Settled, OrdersFor, OrdersOf

\* A fill changes its own order only.
LEMMA FillIsOfOneOrder ==
  ASSUME TypeOK, NEW id \in OrderIds, NEW r, NEW n, NEW left, FillOutcome(id, r, n, left),
         \A j \in OrderIds \ {id} : request'[j] = request[j]
  PROVE  OnlyOrder(id) /\ \A j \in OrderIds \ {id} : status'[j] = status[j]
<1>1. CASE RecordFill(id, r, n) /\ \A j \in OrderIds \ {id} : settled'[j] = settled[j]
  BY <1>1 DEF OnlyOrder, RecordFill, TypeOK
<1>2. CASE UNCHANGED <<filled, settled, pending>> /\ \E st : status' = [status EXCEPT ![id] = st]
  BY <1>2 DEF OnlyOrder, TypeOK
<1>. QED
  BY <1>1, <1>2 DEF FillOutcome

\* What a submission does to the order it creates and to the others.
LEMMA SubmitConcernsOneOrder ==
  ASSUME IInv, BlankIsUnsettled,
         NEW r \in Requests, NEW qv \in Quotes, NEW qm \in Quotes, Submit(r, qv, qm)
  PROVE  /\ OrderOf(nextId, r) /\ nextId \notin pending
         /\ filled[nextId] = 0 /\ r # None /\ r.qty \in Int
         /\ \A j \in OrderIds \ {nextId} : status'[j] = status[j]
<1>t. TypeOK
  BY DEF IInv
<1>1. /\ nextId \in OrderIds /\ nextId \notin pending
      /\ request[nextId] = None /\ filled[nextId] = 0
      /\ request' = [request EXCEPT ![nextId] = r]
      /\ r # None /\ r.qty \in Int
  BY SubmitOutcome, RequestsAssumption, NoneAssumption DEF Request
<1>2. settled[nextId] = 0
  BY <1>1 DEF BlankIsUnsettled
<1>3. request'[nextId] = r /\ \A j \in OrderIds \ {nextId} : request'[j] = request[j]
  BY <1>t, <1>1 DEF TypeOK
<1>4. OnlyOrder(nextId) /\ \A j \in OrderIds \ {nextId} : status'[j] = status[j]
  <2>1. CASE status' = [status EXCEPT ![nextId] = "REJECTED"] /\ UNCHANGED <<filled, settled, pending>>
    BY <1>t, <1>3, <2>1 DEF OnlyOrder, TypeOK
  <2>2. CASE /\ status' = [status EXCEPT ![nextId] = "PENDING"]
             /\ pending' = pending \cup {nextId} /\ UNCHANGED <<filled, settled>>
    BY <1>t, <1>3, <2>2 DEF OnlyOrder, TypeOK
  <2>3. CASE \E n \in Nat : n > 0 /\ n <= r.qty /\ FillOutcome(nextId, r, n, "VALIDATED")
    BY <1>t, <1>1, <1>3, <2>3, FillIsOfOneOrder
  <2>. QED
    BY <2>1, <2>2, <2>3, SubmitOutcome
<1>. QED
  BY <1>1, <1>2, <1>3, <1>4 DEF OrderOf

LEMMA FillConcernsOneOrder ==
  ASSUME IInv, NEW id \in work, NEW q \in Quotes, FillPending(id, q)
  PROVE  /\ OrderOf(id, request[id]) /\ id \in pending
         /\ \A j \in OrderIds \ {id} : status'[j] = status[j]
  BY FillPendingOutcome, FillIsOfOneOrder DEF IInv, OrderOf

\* A step that records no fill and moves no money.
LEMMA NothingRecorded ==
  ASSUME TypeOK, TypeOK', PositionsMatchFills, NoMoneyCreated,
         NEW x, NEW r \in Requests, OrderOf(x, r),
         UNCHANGED <<filled, settled, positions, cash>>
  PROVE  PositionsMatchFills' /\ NoMoneyCreated'
<1>1. /\ filled[x] \in Nat /\ settled[x] \in Nat /\ UNCHANGED <<filled, settled>>
  BY DEF TypeOK, OrderOf
<1>2. ASSUME NEW side, NEW s
      PROVE  Executed(side, s)' = Executed(side, s) /\ Settled(side)' = Settled(side)
  BY <1>1, ExecutedChanges, SettledChanges
<1>. QED
  BY <1>2 DEF PositionsMatchFills, NoMoneyCreated, SettledCash

\* An id stays blank until it is submitted.
LEMMA BlankStaysUnsettled ==
  ASSUME BlankIsUnsettled, NEW x, NEW r \in Requests, OrderOf(x, r)
  PROVE  BlankIsUnsettled'
  BY NoneAssumption, RequestsAssumption DEF BlankIsUnsettled, OrderOf, OnlyOrder

LEMMA OthersStayValidated ==
  ASSUME ValidatedIsOpen, NEW x \in OrderIds, OnlyOrder(x),
         \A j \in OrderIds \ {x} : status'[j] = status[j],
         status'[x] = "VALIDATED" => request'[x].qty - filled'[x] > 0
  PROVE  ValidatedIsOpen'
<1>. SUFFICES ASSUME NEW j \in OrderIds, status'[j] = "VALIDATED"
              PROVE  request'[j].qty - filled'[j] > 0
  BY DEF ValidatedIsOpen, Remaining
<1>1. CASE j = x
  BY <1>1
<1>2. CASE j # x
  BY <1>2 DEF ValidatedIsOpen, OnlyOrder, Remaining
<1>. QED
  BY <1>1, <1>2

\* A submission reserves what the order needs while it rests, or nothing.
LEMMA SubmitKeepsAccount ==
  ASSUME IInv, IInv', AccountInv,
         NEW r \in Requests, NEW qv \in Quotes, NEW qm \in Quotes, Submit(r, qv, qm)
  PROVE  AccountInv'
<1>t. TypeOK /\ TypeOK' /\ BlankIsUnsettled /\ ValidatedIsOpen /\ NoOrphanReservation
      /\ PositionsMatchFills /\ NoMoneyCreated
  BY DEF IInv, AccountInv
<1>x. PICK x : x = nextId
  OBVIOUS
<1>1. /\ OrderOf(x, r) /\ OnlyOrder(x) /\ x \in OrderIds /\ x \notin pending
      /\ filled[x] = 0 /\ r # None /\ r.qty \in Int /\ request'[x] = r
      /\ \A j \in OrderIds \ {x} : status'[j] = status[j]
  BY <1>t, <1>x, SubmitConcernsOneOrder DEF OrderOf
<1>2. BlankIsUnsettled'
  BY <1>t, <1>1, BlankStaysUnsettled
<1>3. /\ reserved \in Nat
      /\ SumFunctionOnSet(ReserveNeeded, pending) \in Nat
      /\ Term(ReserveNeeded', pending', x) \in Nat
      /\ SumFunctionOnSet(ReserveNeeded, pending)'
           = SumFunctionOnSet(ReserveNeeded, pending) + Term(ReserveNeeded', pending', x)
      /\ reserved <= SumFunctionOnSet(ReserveNeeded, pending)
  <2>1. Term(ReserveNeeded, pending, x) = 0
    BY <1>1 DEF Term
  <2>. QED
    BY <1>t, <1>1, <2>1, NeededChanges DEF NoOrphanReservation, TypeOK
<1>4. CASE RejectOnSubmit
  <2>1. status'[x] = "REJECTED" /\ UNCHANGED <<filled, settled, reserved, positions, cash>>
    BY <1>t, <1>x, <1>1, <1>4 DEF RejectOnSubmit, accountVars, TypeOK
  <2>2. ValidatedIsOpen'
    BY <1>t, <1>1, <2>1, OthersStayValidated
  <2>3. NoOrphanReservation'
    BY <1>3, <2>1 DEF NoOrphanReservation
  <2>4. PositionsMatchFills' /\ NoMoneyCreated'
    BY <1>t, <1>1, <2>1, NothingRecorded
  <2>. QED
    BY <1>2, <2>2, <2>3, <2>4 DEF AccountInv
<1>5. CASE Valid(r, qv) /\ RestOnSubmit(r)
  <2>1. /\ status'[x] = "PENDING" /\ x \in pending'
        /\ reserved' = reserved + Reserve(r, r.qty)
        /\ UNCHANGED <<filled, settled, positions, cash>>
    BY <1>t, <1>x, <1>1, <1>5 DEF RestOnSubmit, TypeOK
  <2>2. ValidatedIsOpen'
    BY <1>t, <1>1, <2>1, OthersStayValidated
  <2>3. Term(ReserveNeeded', pending', x) = Reserve(r, r.qty)
    <3>1. ReserveNeeded'[x] = Reserve(r, r.qty - filled'[x])
      BY <1>1 DEF ReserveNeeded, Remaining
    <3>2. r.qty - filled'[x] = r.qty
      BY <1>1, <2>1
    <3>. QED
      BY <2>1, <3>1, <3>2 DEF Term
  <2>4. NoOrphanReservation'
    BY <1>3, <2>1, <2>3 DEF NoOrphanReservation
  <2>5. PositionsMatchFills' /\ NoMoneyCreated'
    BY <1>t, <1>1, <2>1, NothingRecorded
  <2>. QED
    BY <1>2, <2>2, <2>4, <2>5 DEF AccountInv
<1>6. CASE /\ CanFill(r, qm)
           /\ ApplyFill(nextId, r, FillPrice(r, qm), FillSize(r, qm), "VALIDATED")
           /\ UNCHANGED reserved
  <2>1. /\ FillPrice(r, qm) \in Nat /\ FillSize(r, qm) \in Nat /\ FillSize(r, qm) > 0
        /\ FillSize(r, qm) <= r.qty
    BY <1>6, FillFacts
  <2>2. ApplyFill(x, r, FillPrice(r, qm), FillSize(r, qm), "VALIDATED")
    BY <1>x, <1>6
  <2>3. PositionsMatchFills' /\ NoMoneyCreated'
    BY <1>t, <1>1, <2>1, <2>2, FillKeepsAccount
  <2>4. NoOrphanReservation'
    BY <1>3, <1>6 DEF NoOrphanReservation
  <2>5. FillOutcome(x, r, FillSize(r, qm), "VALIDATED")
    BY <1>1, <2>1, <2>2, ApplyFillIsSafe DEF IInv, Status
  <2>6. ValidatedIsOpen'
    <3>1. status'[x] = "VALIDATED" => filled'[x] = filled[x]
      BY <1>t, <1>1, <2>5 DEF FillOutcome, RecordFill, TypeOK
    <3>2. status'[x] = "VALIDATED" => request'[x].qty - filled'[x] > 0
      BY <1>1, <2>1, <3>1
    <3>. QED
      BY <1>t, <1>1, <3>2, OthersStayValidated
  <2>. QED
    BY <1>2, <2>3, <2>4, <2>6 DEF AccountInv
<1>. QED
  BY <1>4, <1>5, <1>6 DEF Submit

\* A fill of a resting order releases the reserve of the contracts it executes;
\* a fill that is refused or abandoned releases too much, never too little.
LEMMA FillPendingKeepsAccount ==
  ASSUME IInv, IInv', AccountInv, NEW id \in work, NEW q \in Quotes, FillPending(id, q)
  PROVE  AccountInv'
<1>. DEFINE r == request[id]
            n == FillSizePending(id, q)
            price == FillPrice(request[id], q)
<1>t. TypeOK /\ TypeOK' /\ BlankIsUnsettled /\ ValidatedIsOpen /\ NoOrphanReservation
      /\ PositionsMatchFills /\ NoMoneyCreated
  BY DEF IInv, AccountInv
<1>1. /\ OrderOf(id, r) /\ OnlyOrder(id) /\ id \in pending /\ id \in OrderIds
      /\ r \in Requests /\ r # None /\ r.qty \in Int /\ request'[id] = r
      /\ filled[id] \in Nat /\ n \in Nat /\ n > 0 /\ filled[id] + n <= r.qty
      /\ FillOutcome(id, r, n, status[id])
      /\ \A j \in OrderIds \ {id} : status'[j] = status[j]
  BY FillConcernsOneOrder, FillPendingOutcome, RestingIsSubmitted DEF OrderOf
<1>2. /\ CanFill(r, q) /\ ApplyFill(id, r, price, n, status[id])
      /\ reserved' = Released(Reserve(r, n))
  BY DEF FillPending
<1>3. price \in Nat
  BY <1>1, <1>2, FillFacts
<1>4. BlankIsUnsettled'
  BY <1>t, <1>1, BlankStaysUnsettled
<1>5. ValidatedIsOpen'
  <2>1. status[id] # "VALIDATED"
    BY <1>1 DEF IInv, BookConsistent, RestingIsOpen
  <2>2. status'[id] # "VALIDATED"
    BY <1>t, <1>1, <2>1 DEF FillOutcome, RecordFill, TypeOK
  <2>. QED
    BY <1>t, <1>1, <2>2, OthersStayValidated
<1>6. PositionsMatchFills' /\ NoMoneyCreated'
  BY <1>t, <1>1, <1>2, <1>3, FillKeepsAccount
<1>7. NoOrphanReservation'
  <2>. DEFINE whole == Reserve(r, r.qty - filled[id])
              part == Reserve(r, n)
              rest == Reserve(r, (r.qty - filled[id]) - n)
  <2>1. /\ SumFunctionOnSet(ReserveNeeded, pending) \in Nat
        /\ SumFunctionOnSet(ReserveNeeded, pending)' \in Nat
        /\ Term(ReserveNeeded, pending, id) \in Nat /\ Term(ReserveNeeded', pending', id) \in Nat
        /\ SumFunctionOnSet(ReserveNeeded, pending)'
             = SumFunctionOnSet(ReserveNeeded, pending)
               - Term(ReserveNeeded, pending, id) + Term(ReserveNeeded', pending', id)
    BY <1>1, NeededChanges
  <2>2. /\ reserved \in Nat /\ reserved <= SumFunctionOnSet(ReserveNeeded, pending)
        /\ reserved' = IF part <= reserved THEN reserved - part ELSE 0
    BY <1>t, <1>2 DEF NoOrphanReservation, TypeOK, Released
  <2>3. /\ (r.qty - filled[id]) - n \in Nat /\ r.qty - filled[id] \in Nat
        /\ r.qty - filled[id] = ((r.qty - filled[id]) - n) + n
    BY <1>1
  <2>4. part \in Nat /\ rest \in Nat /\ whole = rest + part
    BY <1>1, <2>3, ReserveIsNat, ReserveAdds
  <2>5. Term(ReserveNeeded, pending, id) = whole
    BY <1>1 DEF Term, ReserveNeeded, Remaining
  <2>6. Term(ReserveNeeded', pending', id) \in {whole, rest}
    <3>1. ReserveNeeded'[id] = Reserve(r, r.qty - filled'[id])
      BY <1>1 DEF ReserveNeeded, Remaining
    <3>2. CASE UNCHANGED <<filled, settled, pending>>
      BY <1>1, <3>1, <3>2 DEF Term
    <3>3. CASE RecordFill(id, r, n)
      <4>1. filled'[id] = filled[id] + n
        BY <1>t, <1>1, <3>3 DEF RecordFill, TypeOK
      <4>2. CASE id \in pending'
        <5>1. r.qty - filled'[id] = (r.qty - filled[id]) - n
          BY <1>1, <4>1
        <5>. QED
          BY <3>1, <4>2, <5>1 DEF Term
      <4>3. CASE id \notin pending'
        <5>1. (r.qty - filled[id]) - n = 0
          BY <1>1, <3>3, <4>3 DEF RecordFill
        <5>2. rest = 0
          BY <1>1, <5>1, NothingIsReserved
        <5>. QED
          BY <4>3, <5>2 DEF Term
      <4>. QED
        BY <4>2, <4>3
    <3>. QED
      BY <1>1, <3>2, <3>3 DEF FillOutcome
  <2>. HIDE DEF whole, part, rest
  <2>. QED
    BY <2>1, <2>2, <2>4, <2>5, <2>6 DEF NoOrphanReservation
<1>. QED
  BY <1>4, <1>5, <1>6, <1>7 DEF AccountInv

\* A cancellation releases exactly what the order still held, or nothing when
\* it did not rest.
LEMMA CancelKeepsAccount ==
  ASSUME IInv, IInv', AccountInv, NEW id \in OrderIds, Cancel(id)
  PROVE  AccountInv'
<1>t. TypeOK /\ TypeOK' /\ BlankIsUnsettled /\ ValidatedIsOpen /\ NoOrphanReservation
      /\ PositionsMatchFills /\ NoMoneyCreated
  BY DEF IInv, AccountInv
<1>1. /\ status[id] \in Cancellable /\ status' = [status EXCEPT ![id] = "CANCELLED"]
      /\ pending' = pending \ {id}
      /\ reserved' = Released(Reserve(request[id], Remaining(id)))
      /\ UNCHANGED <<request, filled, settled, cash, positions>>
  BY DEF Cancel
<1>2. OnlyOrder(id) /\ status'[id] = "CANCELLED"
      /\ \A j \in OrderIds \ {id} : status'[j] = status[j]
  BY <1>t, <1>1 DEF OnlyOrder, TypeOK
<1>3. BlankIsUnsettled'
  BY <1>t, <1>1 DEF BlankIsUnsettled
<1>4. ValidatedIsOpen'
  BY <1>t, <1>2, OthersStayValidated
<1>5. PositionsMatchFills' /\ NoMoneyCreated'
  BY <1>t, <1>1, UnchangedAccount
<1>6. NoOrphanReservation'
  <2>. DEFINE held == Reserve(request[id], Remaining(id))
  <2>1. /\ SumFunctionOnSet(ReserveNeeded, pending) \in Nat
        /\ SumFunctionOnSet(ReserveNeeded, pending)' \in Nat
        /\ Term(ReserveNeeded, pending, id) \in Nat /\ Term(ReserveNeeded', pending', id) \in Nat
        /\ SumFunctionOnSet(ReserveNeeded, pending)'
             = SumFunctionOnSet(ReserveNeeded, pending)
               - Term(ReserveNeeded, pending, id) + Term(ReserveNeeded', pending', id)
    BY <1>2, NeededChanges
  <2>2. /\ reserved \in Nat /\ reserved <= SumFunctionOnSet(ReserveNeeded, pending)
        /\ reserved' = IF held <= reserved THEN reserved - held ELSE 0
    BY <1>t, <1>1 DEF NoOrphanReservation, TypeOK, Released
  <2>3. Term(ReserveNeeded', pending', id) = 0
    BY <1>1 DEF Term
  <2>4. CASE id \in pending
    <3>1. held \in Nat /\ Term(ReserveNeeded, pending, id) = held
      BY <2>4, NeededIsNat DEF Term
    <3>. HIDE DEF held
    <3>. QED
      BY <2>1, <2>2, <2>3, <3>1 DEF NoOrphanReservation
  <2>5. CASE id \notin pending
    <3>1. status[id] = "VALIDATED"
      BY <1>1, <2>5 DEF Cancellable, IInv, BookConsistent, OpenIsResting
    <3>2. request[id] \in Requests
      BY <3>1 DEF IInv, IdsInOrder
    <3>3. Remaining(id) \in Nat
      BY <1>t, <3>1, <3>2, RequestsAssumption DEF ValidatedIsOpen, TypeOK, Remaining, Request
    <3>4. held \in Nat /\ Term(ReserveNeeded, pending, id) = 0
      BY <2>5, <3>2, <3>3, ReserveIsNat DEF Term
    <3>. HIDE DEF held
    <3>. QED
      BY <2>1, <2>2, <2>3, <3>4 DEF NoOrphanReservation
  <2>. QED
    BY <2>4, <2>5
<1>. QED
  BY <1>3, <1>4, <1>5, <1>6 DEF AccountInv

\* A step that leaves the orders and the account alone.
LEMMA IdleKeepsAccount ==
  ASSUME AccountInv, UNCHANGED <<orderVars, accountVars>>
  PROVE  AccountInv'
<1>1. BlankIsUnsettled' /\ ValidatedIsOpen'
  BY DEF AccountInv, orderVars, BlankIsUnsettled, ValidatedIsOpen, Remaining
<1>2. ReserveNeeded' = ReserveNeeded
  BY DEF orderVars, ReserveNeeded, Remaining
<1>3. NoOrphanReservation'
  BY <1>2 DEF AccountInv, orderVars, accountVars, NoOrphanReservation
<1>4. PositionsMatchFills' /\ NoMoneyCreated'
  BY UnchangedAccount DEF AccountInv, orderVars, accountVars
<1>. QED
  BY <1>1, <1>3, <1>4 DEF AccountInv

LEMMA InitKeepsAccount == Init => AccountInv
<1>. SUFFICES ASSUME Init PROVE AccountInv
  OBVIOUS
<1>1. BlankIsUnsettled /\ ValidatedIsOpen
  BY DEF Init, BlankIsUnsettled, ValidatedIsOpen
<1>2. NoOrphanReservation
  BY SumEmpty DEF Init, NoOrphanReservation
<1>3. \A side, s : OrdersFor(side, s) = {} /\ OrdersOf(side) = {}
  BY DEF Init, OrdersFor, OrdersOf
<1>4. \A side, s : Executed(side, s) = 0 /\ Settled(side) = 0
  BY <1>3, SumEmpty DEF Executed, Settled
<1>5. PositionsMatchFills /\ NoMoneyCreated
  BY <1>4, CashAssumption DEF Init, PositionsMatchFills, NoMoneyCreated, SettledCash
<1>. QED
  BY <1>1, <1>2, <1>5 DEF AccountInv

LEMMA NextKeepsAccount == IInv /\ IInv' /\ AccountInv /\ [Next]_vars => AccountInv'
<1>. SUFFICES ASSUME IInv, IInv', AccountInv, [Next]_vars PROVE AccountInv'
  OBVIOUS
<1>1. ASSUME NEW r \in Requests, NEW qv \in Quotes, NEW qm \in Quotes, Submit(r, qv, qm)
      PROVE  AccountInv'
  BY <1>1, SubmitKeepsAccount
<1>2. ASSUME NEW q \in Quotes, ProcessNext(q)
      PROVE  AccountInv'
  <2>1. PICK id \in work : PassOver(id, q) \/ FillPending(id, q)
    BY <1>2 DEF ProcessNext, Foremost
  <2>2. CASE PassOver(id, q)
    BY <2>2, IdleKeepsAccount DEF PassOver
  <2>3. CASE FillPending(id, q)
    BY <2>3, FillPendingKeepsAccount
  <2>. QED
    BY <2>1, <2>2, <2>3
<1>3. ASSUME NEW id \in OrderIds, Cancel(id)
      PROVE  AccountInv'
  BY <1>3, CancelKeepsAccount
<1>4. ASSUME NEW id \in OrderIds, RefuseCancel(id)
      PROVE  AccountInv'
  BY <1>4, IdleKeepsAccount DEF RefuseCancel
<1>5. CASE StartProcessing \/ UNCHANGED vars
  BY <1>5, IdleKeepsAccount DEF StartProcessing, vars
<1>. QED
  BY <1>1, <1>2, <1>3, <1>4, <1>5 DEF Next

\* Reserve, positions and cash agree with the sums over the orders in every reachable state.
THEOREM AccountInvariance == Spec => []AccountInv
  BY InitKeepsAccount, NextKeepsAccount, Invariance, PTL DEF Spec

\* No cash stays reserved for an order that no longer rests, whatever fills,
\* refusals, exceptions and cancellations came before.
THEOREM ReservationIsBounded == Spec => []NoOrphanReservation
<1>1. AccountInv => NoOrphanReservation
  BY DEF AccountInv
<1>. QED
  BY <1>1, AccountInvariance, PTL

\* The positions are the net of the recorded fills.
THEOREM PositionsAreFills == Spec => []PositionsMatchFills
<1>1. AccountInv => PositionsMatchFills
  BY DEF AccountInv
<1>. QED
  BY <1>1, AccountInvariance, PTL

\* No step creates money.
THEOREM MoneyIsNotCreated == Spec => []NoMoneyCreated
<1>1. AccountInv => NoMoneyCreated
  BY DEF AccountInv
<1>. QED
  BY <1>1, AccountInvariance, PTL

-----------------------------------------------------------------------------
\* The refinement.

\* A quantity a request asks for, or a part of it, is one the abstract book knows.
LEMMA SizesAreContracts ==
  ASSUME NEW r \in Requests, NEW n, n = r.qty \/ n \in 0..r.qty
  PROVE  n \in UNION {{s.qty} \cup 0..s.qty : s \in Requests}
<1>1. n \in {r.qty} \cup 0..r.qty
  OBVIOUS
<1>. QED
  BY <1>1

\* A fill is, for the abstract book, an execution, a refusal, an order that was
\* validated and never placed, or nothing.
LEMMA FillIsAbstract ==
  ASSUME IInv, NEW id \in OrderIds, NEW r \in Requests, NEW n \in Nat, NEW left,
         n > 0, filled[id] + n <= r.qty, filled[id] \in Nat, r.qty \in Int,
         FillOutcome(id, r, n, left)
  PROVE  \/ /\ status' = [status EXCEPT ![id] = "REJECTED"]
            /\ UNCHANGED <<filled, pending>>
         \/ /\ status' = [status EXCEPT ![id] = left]
            /\ UNCHANGED <<filled, pending>>
         \/ \E m \in UNION {{s.qty} \cup 0..s.qty : s \in Requests} :
              Lifecycle!Execute(id, r.qty, m)
<1>. SUFFICES ASSUME RecordFill(id, r, n)
              PROVE  \E m \in UNION {{s.qty} \cup 0..s.qty : s \in Requests} :
                       Lifecycle!Execute(id, r.qty, m)
  BY DEF FillOutcome
<1>1. filled[id] + n \in 0..r.qty
  OBVIOUS
<1>2. filled[id] + n \in UNION {{s.qty} \cup 0..s.qty : s \in Requests}
  BY <1>1, SizesAreContracts
<1>3. Lifecycle!Execute(id, r.qty, filled[id] + n)
  BY <1>1 DEF RecordFill, Lifecycle!Execute
<1>. QED
  BY <1>2, <1>3

\* Every behaviour of the broker is a behaviour of the abstract book: each order
\* executes at most what it asked for, after its submission only while it rests,
\* and is left alone once it is filled or cancelled.
THEOREM Refinement == Spec => ImplementsLifecycle
<1>1. Init => Lifecycle!Init
  BY DEF Init, Lifecycle!Init, RequestedSize
<1>2. IInv /\ [Next]_vars => [Lifecycle!Next]_(Lifecycle!vars)
  <2>. SUFFICES ASSUME IInv, [Next]_vars
                PROVE  Lifecycle!Next \/ UNCHANGED Lifecycle!vars
    OBVIOUS
  <2>1. ASSUME NEW r \in Requests, NEW qv \in Quotes, NEW qm \in Quotes, Submit(r, qv, qm)
        PROVE  Lifecycle!Next
    <3>1. /\ nextId \in OrderIds /\ status[nextId] = "UNUSED" /\ filled[nextId] = 0
          /\ request' = [request EXCEPT ![nextId] = r] /\ r # None
          /\ r.qty \in Int /\ nextId \notin pending
      BY <2>1, SubmitOutcome, RequestsAssumption, NoneAssumption DEF Request
    <3>2. r.qty \in UNION {{s.qty} \cup 0..s.qty : s \in Requests}
      BY SizesAreContracts
    <3>3. RequestedSize' = [RequestedSize EXCEPT ![nextId] = r.qty]
      BY <3>1 DEF RequestedSize, IInv, TypeOK
    <3>4. Lifecycle!Place(nextId, r.qty)
      <4>1. CASE \E n \in Nat : n > 0 /\ n <= r.qty /\ FillOutcome(nextId, r, n, "VALIDATED")
        BY <3>1, <3>3, <4>1, FillIsAbstract DEF Lifecycle!Place
      <4>. QED
        BY <2>1, <3>1, <3>3, <4>1, SubmitOutcome DEF Lifecycle!Place
    <3>. QED
      BY <3>1, <3>2, <3>4 DEF Lifecycle!Next
  <2>2. ASSUME NEW q \in Quotes, ProcessNext(q)
        PROVE  Lifecycle!Next \/ UNCHANGED Lifecycle!vars
    <3>1. PICK id \in work : PassOver(id, q) \/ FillPending(id, q)
      BY <2>2 DEF ProcessNext, Foremost
    <3>2. CASE PassOver(id, q)
      BY <3>2 DEF PassOver, orderVars, RequestedSize, Lifecycle!vars
    <3>3. CASE FillPending(id, q)
      <4>1. /\ id \in pending /\ id \in OrderIds /\ request[id] \in Requests
            /\ filled[id] \in Nat /\ UNCHANGED request
            /\ FillSizePending(id, q) \in Nat /\ FillSizePending(id, q) > 0
            /\ filled[id] + FillSizePending(id, q) <= request[id].qty
            /\ request[id].qty \in Int
            /\ FillOutcome(id, request[id], FillSizePending(id, q), status[id])
        BY <3>1, <3>3, FillPendingOutcome
      <4>2. UNCHANGED RequestedSize /\ RequestedSize[id] = request[id].qty
        BY <4>1, RestingIsSubmitted DEF RequestedSize
      <4>3. \/ /\ status' = [status EXCEPT ![id] = "REJECTED"]
               /\ UNCHANGED <<filled, pending>>
            \/ /\ status' = [status EXCEPT ![id] = status[id]]
               /\ UNCHANGED <<filled, pending>>
            \/ \E m \in UNION {{s.qty} \cup 0..s.qty : s \in Requests} :
                 Lifecycle!Execute(id, request[id].qty, m)
        BY <4>1, FillIsAbstract
      <4>4. Lifecycle!Fill(id) \/ Lifecycle!Refuse(id) \/ UNCHANGED Lifecycle!vars
        BY <4>1, <4>2, <4>3
           DEF Lifecycle!Fill, Lifecycle!Refuse, Lifecycle!vars, IInv, TypeOK
      <4>. QED
        BY <4>1, <4>4 DEF Lifecycle!Next
    <3>. QED
      BY <3>1, <3>2, <3>3
  <2>3. ASSUME NEW id \in OrderIds, Cancel(id)
        PROVE  Lifecycle!Next
    <3>1. Lifecycle!Cancel(id)
      BY <2>3 DEF Cancel, Cancellable, Lifecycle!Cancel, Lifecycle!Cancellable, RequestedSize
    <3>. QED
      BY <3>1 DEF Lifecycle!Next
  <2>4. ASSUME NEW id \in OrderIds, RefuseCancel(id)
        PROVE  UNCHANGED Lifecycle!vars
    BY <2>4 DEF RefuseCancel, orderVars, RequestedSize, Lifecycle!vars
  <2>5. CASE StartProcessing \/ UNCHANGED vars
    BY <2>5 DEF StartProcessing, vars, orderVars, RequestedSize, Lifecycle!vars
  <2>. QED
    BY <2>1, <2>2, <2>3, <2>4, <2>5 DEF Next
<1>. QED
  BY <1>1, <1>2, Invariance, PTL DEF Spec, ImplementsLifecycle, Lifecycle!Spec

=============================================================================
