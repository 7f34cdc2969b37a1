---------------------------- MODULE ResearchProofs ----------------------------
(***************************************************************************)
(* Theorems about the backtest, the search for parameters and the stress   *)
(* test, for any data, contracts, periods, combinations and results.  Of   *)
(* MCResearch nothing is used but the names of the properties: the         *)
(* specifications are those of Backtest, Optimization and Stress.          *)
(***************************************************************************)
EXTENDS MCResearch, FiniteSetTheorems, TLAPS

-----------------------------------------------------------------------------
\* A set of days has a first and a last one.
LEMMA FirstOfNat ==
  ASSUME NEW T, T \subseteq Nat, T # {}
  PROVE  \E x \in T : \A y \in T : x =< y
<1>. DEFINE less == OpToRel(<, Nat)
<1>1. \A x, y \in T : y < x => <<y, x>> \in less
  BY DEF OpToRel
<1>2. IsWellFoundedOn(less, Nat)
  BY NatLessThanWellFounded, Zenon
<1>. HIDE DEF less
<1>3. PICK x \in T : \A y \in T : ~(<<y, x>> \in less)
  BY <1>2, WFMin
<1>4. \A y \in T : ~(y < x)
  BY <1>1, <1>3
<1>5. \A y \in T : x =< y
  BY <1>4
<1>. QED
  BY <1>5

LEMMA MinIsIn ==
  ASSUME NEW T, T \subseteq Nat, T # {}
  PROVE  Min(T) \in T /\ \A y \in T : Min(T) =< y
<1>1. \E x \in T : \A y \in T : x =< y
  BY FirstOfNat
<1>. QED
  BY <1>1 DEF Min

LEMMA MaxIsIn ==
  ASSUME NEW n \in Nat, NEW T, T \subseteq 0 .. n, T # {}
  PROVE  Max(T) \in T /\ \A y \in T : y =< Max(T)
<1>. DEFINE U == {k \in 0 .. n : n - k \in T}
<1>1. U \subseteq Nat /\ U # {}
  <2>1. PICK x : x \in T /\ x \in 0 .. n
    OBVIOUS
  <2>2. n - x \in 0 .. n /\ n - (n - x) = x
    BY <2>1
  <2>3. n - x \in U
    BY <2>1, <2>2
  <2>. QED
    BY <2>3
<1>2. PICK k \in U : \A j \in U : k =< j
  BY <1>1, FirstOfNat
<1>3. n - k \in T
  OBVIOUS
<1>4. ASSUME NEW y \in T
      PROVE  n - k >= y
  <2>1. y \in 0 .. n /\ n - y \in 0 .. n /\ n - (n - y) = y
    OBVIOUS
  <2>2. n - y \in U
    BY <2>1
  <2>3. k =< n - y
    BY <1>2, <2>2
  <2>. QED
    BY <2>1, <2>3
<1>5. \E x \in T : \A y \in T : x >= y
  BY <1>3, <1>4
<1>. QED
  BY <1>5 DEF Max

LEMMA MinOfTwo ==
  ASSUME NEW a \in Int, NEW b \in Int
  PROVE  Min({a, b}) = IF a =< b THEN a ELSE b
<1>1. PICK m \in {a, b} : m =< a /\ m =< b
  OBVIOUS
<1>2. \E x \in {a, b} : \A y \in {a, b} : x =< y
  BY <1>1
<1>3. Min({a, b}) \in {a, b} /\ Min({a, b}) =< a /\ Min({a, b}) =< b
  BY <1>2 DEF Min
<1>. QED
  BY <1>3

LEMMA MaxOfTwo ==
  ASSUME NEW a \in Int, NEW b \in Int
  PROVE  Max({a, b}) = IF a >= b THEN a ELSE b
<1>1. PICK m \in {a, b} : m >= a /\ m >= b
  OBVIOUS
<1>2. \E x \in {a, b} : \A y \in {a, b} : x >= y
  BY <1>1
<1>3. Max({a, b}) \in {a, b} /\ Max({a, b}) >= a /\ Max({a, b}) >= b
  BY <1>2 DEF Max
<1>. QED
  BY <1>3

LEMMA ReplaceKeeps ==
  ASSUME NEW A, NEW s \in Seq(A), NEW k \in 1 .. Len(s), NEW x \in A
  PROVE  ReplaceAt(s, k, x) \in Seq(A) /\ Len(ReplaceAt(s, k, x)) = Len(s)
  BY DEF ReplaceAt

LEMMA RemoveKeeps ==
  ASSUME NEW A, NEW s \in Seq(A), NEW k \in 1 .. Len(s)
  PROVE  /\ RemoveAt(s, k) \in Seq(A)
         /\ \A j \in 1 .. Len(RemoveAt(s, k)) : \E i \in 1 .. Len(s) : RemoveAt(s, k)[j] = s[i]
<1>. DEFINE before == SubSeq(s, 1, k - 1)
            after == SubSeq(s, k + 1, Len(s))
<1>1. /\ before \in Seq(A) /\ Len(before) = k - 1
      /\ \A j \in 1 .. k - 1 : before[j] = s[j]
  OBVIOUS
<1>2. /\ after \in Seq(A) /\ Len(after) = Len(s) - k
      /\ \A j \in 1 .. Len(s) - k : after[j] = s[j + k]
  OBVIOUS
<1>3. RemoveAt(s, k) = before \o after
  BY DEF RemoveAt
<1>. HIDE DEF before, after
<1>4. RemoveAt(s, k) \in Seq(A) /\ Len(RemoveAt(s, k)) = Len(s) - 1
  BY <1>1, <1>2, <1>3
<1>5. ASSUME NEW j \in 1 .. Len(s) - 1
      PROVE  \E i \in 1 .. Len(s) : RemoveAt(s, k)[j] = s[i]
  <2>1. CASE j < k
    BY <1>1, <1>2, <1>3, <2>1
  <2>2. CASE j >= k
    <3>1. (before \o after)[j] = after[j - (k - 1)]
      BY <1>1, <1>2, <2>2
    <3>2. after[j - (k - 1)] = s[j + 1]
      BY <1>2, <2>2
    <3>. QED
      BY <1>3, <3>1, <3>2
  <2>. QED
    BY <2>1, <2>2
<1>. QED
  BY <1>4, <1>5

-----------------------------------------------------------------------------
\* The backtest: nothing of a later day, and nothing before the day it runs on.

LEMMA ChainIsOfThePast ==
  ASSUME NEW u, NEW now \in Nat, NEW c \in DOMAIN Chain(u, now)
  PROVE  Chain(u, now)[c].from \in Days /\ Chain(u, now)[c].from =< now
<1>1. Snapshots(u, now) # {}
  BY DEF Chain
<1>2. LastDay \in Nat /\ Snapshots(u, now) \subseteq 0 .. LastDay
  BY DaysAssumption DEF Snapshots, Days
<1>3. Max(Snapshots(u, now)) \in Snapshots(u, now)
  BY <1>1, <1>2, MaxIsIn
<1>4. Chain(u, now)[c].from = Max(Snapshots(u, now))
  <2>. HIDE DEF Max, Snapshots
  <2>. QED
    BY <1>1 DEF Chain
<1>. QED
  BY <1>3, <1>4 DEF Snapshots

LEMMA TimeGoesOn ==
  ASSUME clock \in Nat, Advance
  PROVE  clock' \in Nat /\ clock < clock'
<1>1. Ahead # {} /\ Ahead \subseteq Nat
  BY DEF Advance, Ahead, Timeline, Days
<1>2. clock' \in Ahead
  BY <1>1, MinIsIn DEF Advance
<1>. QED
  BY <1>1, <1>2 DEF Ahead

\* What a trade leaves of the report.
LEMMA TradeIsOfToday ==
  ASSUME NEW order, NEW n, NEW q, Apply(order, n, q)
  PROVE  report'.last.day = clock /\ report'.last.from = q.from
  BY DEF Apply, Reported

LEMMA SubmitIsOfToday ==
  ASSUME NEW c, NEW side, NEW quantity, SubmitAtMarket(c, side, quantity)
  PROVE  \/ UNCHANGED account
         \/ /\ book[c] # NoQuote
            /\ report'.last.day = clock /\ report'.last.from = book[c].from
<1>. DEFINE order == NewOrder(c, side, quantity, MarketOrder)
            q == GetQuote(c)
<1>1. CASE Executes(order, q)
  <2>1. Apply(order, ExecutedSize(order, q), q)
    BY <1>1 DEF SubmitAtMarket
  <2>2. q # NoQuote
    BY <1>1 DEF Executes, Matches, Priced
  <2>. QED
    BY <2>1, <2>2, TradeIsOfToday DEF GetQuote
<1>2. CASE ~Executes(order, q)
  BY <1>2 DEF SubmitAtMarket
<1>. QED
  BY <1>1, <1>2
-----------------------------------------------------------------------------
\* The backtest.  What its variables hold.

BacktestType ==
  /\ data \in Histories
  /\ clock \in Nat
  /\ book \in [Contracts -> Quotes \cup {NoQuote}]
  /\ cash \in Int
  /\ positions \in [Contracts -> Nat]
  /\ pending \in Seq(Order)
  /\ aggression \in [Contracts -> 0..MaxAggression]
  /\ todo \subseteq Contracts
  /\ at \in Nat /\ at >= 1
  /\ report \in Report
  /\ \A c \in Contracts : positions[c] # 0 \/ c \in todo => book[c] # NoQuote

LEMMA ChainType ==
  ASSUME data \in Histories, NEW u, NEW now \in Nat, NEW c \in DOMAIN Chain(u, now)
  PROVE  /\ Chain(u, now)[c].from \in 1 .. now
         /\ u \in ToSet(Universe) => Chain(u, now)[c] \in Quotes
<1>1. Snapshots(u, now) # {}
  BY DEF Chain
<1>2. LastDay \in Nat /\ Snapshots(u, now) \subseteq 0 .. LastDay
  BY DaysAssumption DEF Snapshots, Days
<1>. DEFINE from == Max(Snapshots(u, now))
            listed == data[from][u]
<1>3. from \in Snapshots(u, now)
  BY <1>1, <1>2, MaxIsIn
<1>4. from \in 1 .. LastDay /\ from \in Nat /\ from =< now /\ listed # NoChain
  BY <1>2, <1>3 DEF Snapshots, Days
<1>. HIDE DEF from
<1>5. /\ c \in DOMAIN listed
      /\ Chain(u, now)[c] = [bid |-> listed[c].bid, ask |-> listed[c].ask,
                             size |-> listed[c].size, from |-> from]
  BY <1>1 DEF Chain, from
<1>6. u \in ToSet(Universe) => /\ listed[c].bid \in Prices \cup {NoPrice}
                               /\ listed[c].ask \in Prices \cup {NoPrice}
                               /\ listed[c].size \in Nat
  BY <1>4, <1>5, HistoryAssumption
<1>. QED
  BY <1>4, <1>5, <1>6 DEF Quotes

LEMMA QuotedType ==
  ASSUME data \in Histories, NEW c \in Contracts, NEW now \in Nat, Listed(c, now) # {}
  PROVE  LET q == Quoted(c, Max(Listed(c, now))) IN q \in Quotes /\ q.from =< now
<1>1. LastDay \in Nat /\ Listed(c, now) \subseteq 0 .. LastDay
  BY DaysAssumption DEF Listed, Snapshots, Days
<1>. DEFINE from == Max(Listed(c, now))
            listed == data[from][Underlying[c]]
<1>2. from \in Listed(c, now)
  BY <1>1, MaxIsIn
<1>3. /\ from \in 1 .. LastDay /\ from \in Nat /\ from =< now
      /\ listed # NoChain /\ c \in DOMAIN listed
  BY <1>1, <1>2 DEF Listed, Snapshots, Days
<1>. HIDE DEF from
<1>4. /\ listed[c].bid \in Prices \cup {NoPrice}
      /\ listed[c].ask \in Prices \cup {NoPrice}
      /\ listed[c].size \in Nat
  BY <1>3, HistoryAssumption, ContractAssumption
<1>5. Quoted(c, from) = [bid |-> listed[c].bid, ask |-> listed[c].ask,
                         size |-> listed[c].size, from |-> from]
  BY DEF Quoted
<1>. QED
  BY <1>3, <1>4, <1>5 DEF Quotes, from

LEMMA RefreshedType ==
  ASSUME data \in Histories, book \in [Contracts -> Quotes \cup {NoQuote}], NEW now \in Nat
  PROVE  /\ Refreshed(now) \in [Contracts -> Quotes \cup {NoQuote}]
         /\ \A c \in Contracts :
              \/ Refreshed(now)[c] = book[c]
              \/ Refreshed(now)[c] \in Quotes /\ Refreshed(now)[c].from =< now
<1>1. ASSUME NEW c \in Contracts
      PROVE  \/ Refreshed(now)[c] = book[c]
             \/ Refreshed(now)[c] \in Quotes /\ Refreshed(now)[c].from =< now
  <2>1. Underlying[c] \in ToSet(Universe)
    BY ContractAssumption
  <2>2. CASE c \in DOMAIN Chain(Underlying[c], now)
    BY <2>1, <2>2, ChainType DEF Refreshed
  <2>3. CASE c \notin DOMAIN Chain(Underlying[c], now) /\ preloaded /\ Listed(c, now) # {}
    <3>1. Refreshed(now)[c] = Quoted(c, Max(Listed(c, now)))
      BY <2>3 DEF Refreshed
    <3>. QED
      BY <2>3, <3>1, QuotedType
  <2>4. CASE c \notin DOMAIN Chain(Underlying[c], now) /\ ~(preloaded /\ Listed(c, now) # {})
    BY <2>4 DEF Refreshed
  <2>. QED
    BY <2>2, <2>3, <2>4
<1>. QED
  BY <1>1 DEF Refreshed

\* A quote that can be traded at.
LEMMA MatchedQuote ==
  ASSUME NEW q \in Quotes \cup {NoQuote}, NEW side, NEW quantity, NEW limit, Matches(side, quantity, limit, q)
  PROVE  /\ q # NoQuote /\ q.bid \in Prices /\ q.ask \in Prices /\ q.size \in Nat /\ q.from \in Nat
         /\ allowPartial \/ quantity =< q.size
  BY DEF Matches, Priced, Quotes

\* What an order executes.
LEMMA ExecutedType ==
  ASSUME NEW order \in Order, NEW q \in Quotes \cup {NoQuote}, Executes(order, q)
  PROVE  /\ FillSize(order.quantity, q) \in Nat
         /\ ExecutedSize(order, q) \in 0 .. order.left
         /\ Fee(order, q) \in Nat
         /\ Less(order, ExecutedSize(order, q)) \in Order
<1>1. /\ q.bid \in Nat /\ q.ask \in Nat /\ q.size \in Nat
      /\ order.quantity \in Nat /\ order.left \in Nat
  BY MatchedQuote DEF Executes, Prices, Order
<1>2. FillSize(order.quantity, q) \in Nat
  BY <1>1, MinOfTwo DEF FillSize
<1>3. ExecutedSize(order, q) \in 0 .. order.left
  BY <1>1, <1>2, MinOfTwo DEF ExecutedSize
<1>4. Fee(order, q) \in Nat
  <2>. DEFINE notional == Price(order.side, q) * FillSize(order.quantity, q)
  <2>1. Price(order.side, q) \in Nat
    BY <1>1 DEF Price
  <2>2. notional \in Nat
    BY <1>2, <2>1
  <2>. HIDE DEF notional
  <2>3. notional * CommissionPct \in Nat
    BY <2>2, MoneyAssumption
  <2>4. Commission(notional) \in Nat
    BY <2>3 DEF Commission
  <2>. QED
    BY <2>4 DEF Fee, notional
<1>5. order.left - ExecutedSize(order, q) \in Nat
  BY <1>1, <1>3
<1>6. Less(order, ExecutedSize(order, q)) \in Order
  BY <1>5 DEF Less, Order
<1>. QED
  BY <1>2, <1>3, <1>4, <1>6

\* A trade: what changes, and of which day it is.
LEMMA TradeType ==
  ASSUME BacktestType, NEW order \in Order, Executes(order, book[order.contract]),
         Apply(order, ExecutedSize(order, book[order.contract]), book[order.contract])
  PROVE  /\ cash' \in Int
         /\ positions' \in [Contracts -> Nat]
         /\ report' \in Report
         /\ report'.last.day = clock /\ report'.last.from = book[order.contract].from
         /\ \A d \in Contracts : positions'[d] # 0 => book[d] # NoQuote
<1>. DEFINE q == book[order.contract]
            n == ExecutedSize(order, q)
            fee == Fee(order, q)
            c == order.contract
<1>1. c \in Contracts /\ q \in Quotes \cup {NoQuote} /\ order.left \in Nat
  BY DEF BacktestType, Order
<1>2. n \in Nat /\ fee \in Nat
  BY <1>1, ExecutedType
<1>3. q.bid \in Nat /\ q.ask \in Nat /\ q.from \in Nat
  BY <1>1, MatchedQuote DEF Executes, Prices
<1>4. q.bid * n \in Nat /\ q.ask * n \in Nat
  BY <1>2, <1>3
<1>5. Apply(order, n, q)
  OBVIOUS
<1>. HIDE DEF q, n, fee
<1>6. cash' \in Int
  BY <1>2, <1>4, <1>5 DEF Apply, BacktestType, fee
<1>7. positions' \in [Contracts -> Nat]
  <2>1. positions[c] \in Nat /\ positions[c] - n \in Int /\ positions[c] + n \in Nat
    BY <1>1, <1>2 DEF BacktestType
  <2>2. LeftOver(positions[c], n) \in Nat
    BY <2>1, MaxOfTwo DEF LeftOver
  <2>3. \/ positions' = [positions EXCEPT ![c] = positions[c] + n]
        \/ positions' = [positions EXCEPT ![c] = LeftOver(positions[c], n)]
    BY <1>5 DEF Apply
  <2>. QED
    BY <1>1, <2>1, <2>2, <2>3 DEF BacktestType
<1>8. report' = Reported(order, n, q)
  BY <1>5 DEF Apply
<1>9. Reported(order, n, q) \in Report
  <2>1. /\ report.bought \in [Contracts -> Nat] /\ report.sold \in [Contracts -> Nat]
        /\ report.spent \in Nat /\ report.received \in Nat /\ report.fees \in Nat
    BY DEF BacktestType, Report
  <2>2. [report.bought EXCEPT ![c] = @ + (IF order.side = "BUY" THEN n ELSE 0)]
          \in [Contracts -> Nat]
    BY <1>1, <1>2, <2>1
  <2>3. [report.sold EXCEPT ![c] = @ + (IF order.side = "SELL" THEN n ELSE 0)]
          \in [Contracts -> Nat]
    BY <1>1, <1>2, <2>1
  <2>4. /\ report.spent + (IF order.side = "BUY" THEN q.ask * n ELSE 0) \in Nat
        /\ report.received + (IF order.side = "SELL" THEN q.bid * n ELSE 0) \in Nat
        /\ report.fees + Fee(order, q) \in Nat
    BY <1>2, <1>4, <2>1 DEF fee
  <2>5. clock \in Nat
    BY DEF BacktestType
  <2>. QED
    BY <1>3, <2>2, <2>3, <2>4, <2>5 DEF Reported, Report
<1>10. report'.last.day = clock /\ report'.last.from = q.from
  BY <1>8 DEF Reported
<1>11. ASSUME NEW d \in Contracts, positions'[d] # 0
       PROVE  book[d] # NoQuote
  <2>1. CASE d = c
    BY <2>1 DEF Executes, Matches, Priced
  <2>2. CASE d # c
    BY <1>5, <1>11, <2>2 DEF Apply, BacktestType
  <2>. QED
    BY <2>1, <2>2
<1>. QED
  BY <1>6, <1>7, <1>8, <1>9, <1>10, <1>11 DEF q

LEMMA SubmitType ==
  ASSUME BacktestType, NEW c \in Contracts, NEW side \in {"BUY", "SELL"}, NEW quantity \in Nat,
         SubmitAtMarket(c, side, quantity)
  PROVE  /\ cash' \in Int
         /\ positions' \in [Contracts -> Nat]
         /\ pending' \in Seq(Order)
         /\ report' \in Report
         /\ \A d \in Contracts : positions'[d] # 0 => book[d] # NoQuote
         /\ \/ UNCHANGED report
            \/ /\ book[c] # NoQuote
               /\ report'.last.day = clock /\ report'.last.from = book[c].from
<1>. DEFINE order == NewOrder(c, side, quantity, MarketOrder)
            q == book[c]
            n == ExecutedSize(order, q)
<1>1. order \in Order /\ order.contract = c /\ q \in Quotes \cup {NoQuote} /\ pending \in Seq(Order)
  BY DEF NewOrder, Order, MarketOrder, BacktestType
<1>2. CASE Executes(order, q)
  <2>1. /\ Apply(order, n, q)
        /\ pending' = IF n = quantity THEN pending ELSE Append(pending, Less(order, n))
    BY <1>2 DEF SubmitAtMarket, GetQuote
  <2>2. Less(order, n) \in Order
    BY <1>1, <1>2, ExecutedType
  <2>3. q # NoQuote
    BY <1>2 DEF Executes, Matches, Priced
  <2>. HIDE DEF order, n
  <2>4. pending' \in Seq(Order)
    <3>1. PICK rest \in Order : rest = Less(order, n)
      BY <2>2
    <3>2. pending' = pending \/ pending' = Append(pending, rest)
      BY <2>1, <3>1
    <3>3. Append(pending, rest) \in Seq(Order)
      BY <1>1
    <3>4. pending \in Seq(Order)
      BY <1>1
    <3>. QED
      BY <3>2, <3>3, <3>4
  <2>5. Executes(order, book[order.contract])
        /\ Apply(order, ExecutedSize(order, book[order.contract]), book[order.contract])
    BY <1>1, <1>2, <2>1 DEF n
  <2>. QED
    BY <1>1, <2>3, <2>4, <2>5, TradeType
<1>3. CASE ~Executes(order, q)
  <2>1. UNCHANGED account
    BY <1>3 DEF SubmitAtMarket, GetQuote
  <2>. QED
    BY <2>1 DEF account, BacktestType
<1>. QED
  BY <1>2, <1>3

LEMMA FillRestingType ==
  ASSUME BacktestType, FillResting
  PROVE  /\ BacktestType'
         /\ \E c \in Contracts :
              /\ book[c] # NoQuote
              /\ report'.last.day = clock /\ report'.last.from = book[c].from
<1>. DEFINE order == pending[at]
            q == book[order.contract]
            n == ExecutedSize(order, q)
<1>1. /\ at \in 1 .. Len(pending) /\ order \in Order /\ pending \in Seq(Order)
      /\ order.contract \in Contracts /\ q \in Quotes \cup {NoQuote}
  <2>1. at \in 1 .. Len(pending) /\ pending \in Seq(Order) /\ book \in [Contracts -> Quotes \cup {NoQuote}]
    BY DEF FillResting, Retrying, BacktestType
  <2>2. order \in Order
    BY <2>1
  <2>. QED
    BY <2>1, <2>2 DEF Order
<1>2. /\ Executes(order, q) /\ Apply(order, n, q)
      /\ \/ n = order.left /\ pending' = RemoveAt(pending, at) /\ at' = at
         \/ pending' = ReplaceAt(pending, at, Less(order, n)) /\ at' = at + 1
      /\ UNCHANGED <<data, clock, book, aggression, todo>>
  BY DEF FillResting, GetQuote, setup
<1>3. Less(order, n) \in Order
  BY <1>1, <1>2, ExecutedType
<1>4. q # NoQuote
  BY <1>2 DEF Executes, Matches, Priced
<1>5. /\ cash' \in Int /\ positions' \in [Contracts -> Nat] /\ report' \in Report
      /\ report'.last.day = clock /\ report'.last.from = q.from
      /\ \A d \in Contracts : positions'[d] # 0 => book[d] # NoQuote
  BY <1>1, <1>2, TradeType
<1>. HIDE DEF order, n
<1>6. pending' \in Seq(Order)
  <2>1. PICK rest \in Order : rest = Less(order, n)
    BY <1>3
  <2>2. ReplaceAt(pending, at, rest) \in Seq(Order)
    BY <1>1, ReplaceKeeps
  <2>3. RemoveAt(pending, at) \in Seq(Order)
    BY <1>1, RemoveKeeps
  <2>4. pending' = RemoveAt(pending, at) \/ pending' = ReplaceAt(pending, at, rest)
    BY <1>2, <2>1
  <2>. QED
    BY <2>2, <2>3, <2>4
<1>7. BacktestType'
  BY <1>2, <1>5, <1>6 DEF BacktestType
<1>. QED
  BY <1>1, <1>4, <1>5, <1>7

TradeToday ==
  \E c \in Contracts :
    /\ book[c] # NoQuote
    /\ report'.last.day = clock /\ report'.last.from = book[c].from

LEMMA AdvanceType ==
  ASSUME BacktestType, Advance
  PROVE  /\ BacktestType' /\ UNCHANGED report
         /\ clock =< clock'
         /\ \A c \in Contracts :
              book'[c] = book[c] \/ (book'[c] # NoQuote /\ book'[c].from =< clock')
<1>1. Ahead # {} /\ Ahead \subseteq Nat
  BY DEF Advance, Ahead, Timeline, Days
<1>2. clock' \in Ahead /\ clock' \in Nat /\ clock =< clock'
  <2>1. clock' \in Ahead
    BY <1>1, MinIsIn DEF Advance
  <2>. QED
    BY <1>1, <2>1 DEF Ahead, BacktestType
<1>3. PICK now \in Nat : now = clock'
  BY <1>2
<1>4. book' = Refreshed(now)
  BY <1>3 DEF Advance
<1>5. /\ book' \in [Contracts -> Quotes \cup {NoQuote}]
      /\ \A c \in Contracts :
           book'[c] = book[c] \/ (book'[c] # NoQuote /\ book'[c].from =< now)
  BY <1>4, RefreshedType, QuoteAssumption DEF BacktestType
<1>6. UNCHANGED <<data, account, aggression, todo>> /\ at' = 1
  BY DEF Advance, setup
<1>. QED
  BY <1>2, <1>3, <1>5, <1>6 DEF BacktestType, account

LEMMA SellType ==
  ASSUME BacktestType, NEW c \in todo, todo' = todo \ {c},
         SubmitAtMarket(c, "SELL", positions[c]),
         UNCHANGED <<data, clock, book, aggression, at>>
  PROVE  BacktestType' /\ (UNCHANGED report \/ TradeToday)
<1>1. c \in Contracts /\ positions[c] \in Nat
  BY DEF BacktestType
<1>2. /\ cash' \in Int /\ positions' \in [Contracts -> Nat]
      /\ pending' \in Seq(Order) /\ report' \in Report
      /\ \A d \in Contracts : positions'[d] # 0 => book[d] # NoQuote
      /\ \/ UNCHANGED report
         \/ /\ book[c] # NoQuote
            /\ report'.last.day = clock /\ report'.last.from = book[c].from
  BY <1>1, SubmitType
<1>. QED
  BY <1>1, <1>2 DEF BacktestType, TradeToday

LEMMA CloseAtLimitType ==
  ASSUME BacktestType, NEW c \in Contracts, CloseAtLimit(c)
  PROVE  BacktestType' /\ UNCHANGED report
<1>. DEFINE q == book[c]
            limit == (q.bid * (Step - aggression[c])) \div Step
            order == NewOrder(c, "SELL", positions[c], limit)
<1>1. /\ q.bid # NoPrice /\ pending' = Append(pending, order)
      /\ aggression' = [aggression EXCEPT ![c] = Min({aggression[c] + 1, MaxAggression})]
      /\ todo' = todo \ {c}
      /\ UNCHANGED <<data, clock, book, at, cash, positions, report>>
  BY DEF CloseAtLimit, Closing, GetQuote, setup
<1>2. c \in todo /\ q \in Quotes \cup {NoQuote} /\ q # NoQuote /\ positions[c] \in Nat
  BY DEF CloseAtLimit, Closing, BacktestType
<1>3. q.bid \in Nat
  BY <1>1, <1>2 DEF Quotes, Prices
<1>4. aggression[c] \in 0 .. MaxAggression
  BY DEF BacktestType
<1>5. limit \in Nat
  <2>1. PICK k \in Nat : k = Step - aggression[c]
    BY <1>4 DEF Step, MaxAggression
  <2>2. q.bid * k \in Nat
    BY <1>3
  <2>. QED
    BY <2>1, <2>2 DEF Step
<1>6. Min({aggression[c] + 1, MaxAggression}) \in 0 .. MaxAggression
  BY <1>4, MinOfTwo DEF MaxAggression
<1>7. order \in Order
  BY <1>2, <1>5 DEF NewOrder, Order
<1>. HIDE DEF order
<1>8. pending' \in Seq(Order)
  BY <1>1, <1>7 DEF BacktestType
<1>9. aggression' \in [Contracts -> 0 .. MaxAggression]
  BY <1>1, <1>6 DEF BacktestType
<1>. QED
  BY <1>1, <1>8, <1>9 DEF BacktestType

\* Nothing but the clock, a trade and a resting order leaves more than the
\* todo and the place in the day different.
LEMMA RestType ==
  ASSUME BacktestType, UNCHANGED <<data, clock, book, account, aggression>>,
         todo' \subseteq {c \in Contracts : book[c] # NoQuote}, at' \in Nat, at' >= 1
  PROVE  BacktestType' /\ UNCHANGED report
  BY DEF BacktestType, account

LEMMA NextTurnType ==
  ASSUME BacktestType, NextTurn, UNCHANGED <<clock, book>>,
         positions' \in [Contracts -> Nat],
         \A d \in Contracts : positions'[d] # 0 => book[d] # NoQuote
  PROVE  todo' \subseteq {c \in Contracts : book[c] # NoQuote}
  BY DEF NextTurn, NeedExit, Held

LEMMA EnterType ==
  ASSUME BacktestType, NEW c \in Contracts, NEW quantity \in 1 .. MaxQuantity, Enter(c, quantity)
  PROVE  BacktestType' /\ (UNCHANGED report \/ TradeToday)
<1>1. NextTurn /\ UNCHANGED <<data, clock, book, aggression, at>>
  BY DEF Enter, setup
<1>2. /\ cash' \in Int /\ positions' \in [Contracts -> Nat]
      /\ pending' \in Seq(Order) /\ report' \in Report
      /\ \A d \in Contracts : positions'[d] # 0 => book[d] # NoQuote
      /\ UNCHANGED report \/ TradeToday
  <2>1. CASE UNCHANGED account
    BY <2>1 DEF account, BacktestType
  <2>2. CASE SubmitAtMarket(c, "BUY", quantity)
    <3>1. quantity \in Nat
      OBVIOUS
    <3>. QED
      BY <2>2, <3>1, SubmitType DEF TradeToday
  <2>. QED
    BY <2>1, <2>2 DEF Enter
<1>3. todo' \subseteq {d \in Contracts : book[d] # NoQuote}
  BY <1>1, <1>2, NextTurnType
<1>. QED
  BY <1>1, <1>2, <1>3 DEF BacktestType

\* Every step keeps the types; one that is not of the clock trades at the
\* quotes in the book, on the day of the clock, or not at all.
LEMMA BacktestStep ==
  ASSUME BacktestType, [Next]_vars
  PROVE  /\ BacktestType'
         /\ Advance \/ UNCHANGED <<clock, book>>
         /\ UNCHANGED report \/ TradeToday
<1>1. CASE Advance
  BY <1>1, AdvanceType
<1>2. CASE PassOver
  <2>1. UNCHANGED <<data, clock, book, account, aggression, todo>> /\ at' = at + 1
    BY <1>2 DEF PassOver, setup
  <2>. QED
    BY <2>1, RestType DEF BacktestType
<1>3. CASE FillResting
  BY <1>3, FillRestingType DEF FillResting, TradeToday
<1>4. CASE Abort \/ AfterExits \/ Done \/ UNCHANGED vars
  <2>1. UNCHANGED <<data, clock, book, account, aggression, todo, at>>
    BY <1>4 DEF Abort, AfterExits, Done, vars, setup, progress
  <2>. QED
    BY <2>1, RestType DEF BacktestType
<1>5. CASE AfterRetries \/ Finish \/ AfterClosing
  <2>1. UNCHANGED <<data, clock, book, account, aggression, at>>
    BY <1>5 DEF AfterRetries, Finish, AfterClosing, setup
  <2>2. todo' \subseteq {c \in Contracts : book[c] # NoQuote}
    BY <1>5 DEF AfterRetries, Finish, AfterClosing, NeedExit, HeldIn, Held, BacktestType
  <2>. QED
    BY <2>1, <2>2, RestType DEF BacktestType
<1>6. CASE NoEntry
  <2>1. UNCHANGED <<data, clock, book, account, aggression, at>> /\ NextTurn
    BY <1>6 DEF NoEntry, setup
  <2>2. todo' \subseteq {c \in Contracts : book[c] # NoQuote}
    BY <2>1, NextTurnType DEF BacktestType, account
  <2>. QED
    BY <2>1, <2>2, RestType DEF BacktestType
<1>7. ASSUME NEW c \in Contracts, CloseWithoutBid(c)
      PROVE  /\ BacktestType' /\ UNCHANGED <<clock, book, report>>
  <2>1. UNCHANGED <<data, clock, book, account, aggression, at>> /\ todo' = todo \ {c}
    BY <1>7 DEF CloseWithoutBid, Closing, setup
  <2>. QED
    BY <2>1, RestType DEF BacktestType
<1>8. ASSUME NEW c \in Contracts, CloseAtMarket(c) \/ Exit(c) \/ FinalSell(c)
      PROVE  /\ BacktestType' /\ UNCHANGED <<clock, book>>
             /\ UNCHANGED report \/ TradeToday
  <2>1. /\ c \in todo /\ todo' = todo \ {c} /\ SubmitAtMarket(c, "SELL", positions[c])
        /\ UNCHANGED <<data, clock, book, aggression, at>>
    BY <1>8 DEF CloseAtMarket, Closing, Exit, FinalSell, setup
  <2>. QED
    BY <2>1, SellType
<1>9. ASSUME NEW c \in Contracts, CloseAtLimit(c)
      PROVE  /\ BacktestType' /\ UNCHANGED <<clock, book, report>>
  BY <1>9, CloseAtLimitType DEF CloseAtLimit, Closing
<1>10. ASSUME NEW c \in Contracts, NEW quantity \in 1 .. MaxQuantity, Enter(c, quantity)
       PROVE  /\ BacktestType' /\ UNCHANGED <<clock, book>>
              /\ UNCHANGED report \/ TradeToday
  BY <1>10, EnterType DEF Enter
<1>. QED
  BY <1>1, <1>2, <1>3, <1>4, <1>5, <1>6, <1>7, <1>8, <1>9, <1>10
     DEF Next, PassOver, FillResting, Abort, AfterExits, Done, AfterRetries, Finish,
         AfterClosing, NoEntry, vars

LEMMA BacktestStarts == Init => BacktestType
<1>. SUFFICES ASSUME Init PROVE BacktestType
  OBVIOUS
<1>1. pending \in Seq(Order)
  BY DEF Init
<1>2. report \in Report
  BY DEF Init, Report, NoTrade
<1>3. aggression \in [Contracts -> 0..MaxAggression]
  BY DEF Init, MaxAggression
<1>. QED
  BY <1>1, <1>2, <1>3, MoneyAssumption DEF Init, BacktestType

\* The backtest shows and trades nothing of a later day: neither the quotes in
\* the book nor the one a trade executed at are younger than the clock
\* (data/provider.py), whatever the data, the contracts and the strategy.
THEOREM NothingIsSeenAhead == Spec => []NoLookAhead
<1>. DEFINE Inv == BacktestType /\ NoLookAhead
<1>1. Init => Inv
  BY BacktestStarts DEF Init, NoLookAhead, NoTrade
<1>2. Inv /\ [Next]_vars => Inv'
  <2>. SUFFICES ASSUME Inv, [Next]_vars PROVE Inv'
    OBVIOUS
  <2>1. /\ BacktestType' /\ (UNCHANGED report \/ TradeToday)
        /\ clock =< clock' /\ clock \in Nat /\ clock' \in Nat
        /\ \A c \in Contracts :
             book'[c] = book[c] \/ (book'[c] # NoQuote /\ book'[c].from =< clock')
    BY BacktestStep, AdvanceType DEF BacktestType
  <2>2. ASSUME NEW c \in Contracts, book'[c] # NoQuote
        PROVE  book'[c].from =< clock'
    <3>1. CASE book'[c] = book[c]
      <4>1. book[c].from \in Nat /\ book[c].from =< clock
        BY <2>2, <3>1, DaysAssumption DEF BacktestType, Quotes, NoLookAhead
      <4>. QED
        BY <2>1, <3>1, <4>1
    <3>. QED
      BY <2>1, <3>1
  <2>3. report'.last.from =< report'.last.day
    BY <2>1 DEF TradeToday, NoLookAhead
  <2>. QED
    BY <2>1, <2>2, <2>3 DEF NoLookAhead
<1>. QED
  BY <1>1, <1>2, PTL DEF Spec

-----------------------------------------------------------------------------
\* Until the clock has reached the day the backtest runs on, nothing is bought,
\* and so there is nothing to sell.
NothingYet ==
  /\ \A c \in Contracts : positions[c] = 0
  /\ pending = <<>> /\ todo = {}
  /\ report.last = NoTrade

PastInv ==
  /\ clock < Today => NothingYet
  /\ PastIsNotTraded

LEMMA EntersOnlyToday ==
  ASSUME BacktestType, NEW c \in Contracts, NEW quantity, Enter(c, quantity)
  PROVE  clock >= Today
<1>1. /\ c \in DOMAIN Chain(Universe[turn], clock)
      /\ Chain(Universe[turn], clock)[c].from >= Today
  BY DEF Enter, Operable, FreshByTheWallClock
<1>2. Chain(Universe[turn], clock)[c].from \in 1 .. clock
  BY <1>1, ChainType DEF BacktestType
<1>. QED
  BY <1>1, <1>2, DaysAssumption DEF BacktestType

\* With nothing held and nothing pending, a step trades nothing but an entry.
LEMMA NothingStays ==
  ASSUME BacktestType, NothingYet, [Next]_vars, clock < Today
  PROVE  NothingYet'
<1>1. Held = {} /\ NeedExit = {} /\ \A u : HeldIn(u) = {}
  BY DEF NothingYet, NeedExit, HeldIn, Held
<1>2. ASSUME UNCHANGED account, NextTurn \/ UNCHANGED todo \/ todo' = {} \/ todo' \subseteq todo
      PROVE  NothingYet'
  <2>1. todo' = {}
    BY <1>1, <1>2 DEF NextTurn, NeedExit, Held, NothingYet, account
  <2>. QED
    BY <1>2, <2>1 DEF NothingYet, account
<1>3. CASE \/ Advance \/ PassOver \/ Abort \/ AfterExits \/ Done \/ UNCHANGED vars
           \/ AfterRetries \/ Finish \/ AfterClosing \/ NoEntry
  <2>1. /\ UNCHANGED account
        /\ NextTurn \/ UNCHANGED todo \/ todo' = {}
    BY <1>1, <1>3 DEF Advance, PassOver, Abort, AfterExits, Done, vars, progress, AfterRetries,
                      Finish, AfterClosing, NoEntry
  <2>. QED
    BY <1>2, <2>1
<1>4. CASE FillResting
  BY <1>4 DEF FillResting, Retrying, NothingYet, BacktestType
<1>5. ASSUME NEW c \in Contracts,
             CloseWithoutBid(c) \/ CloseAtMarket(c) \/ CloseAtLimit(c) \/ Exit(c) \/ FinalSell(c)
      PROVE  FALSE
  BY <1>5 DEF CloseWithoutBid, CloseAtMarket, CloseAtLimit, Closing, Exit, FinalSell, NothingYet
<1>6. ASSUME NEW c \in Contracts, NEW quantity \in 1 .. MaxQuantity, Enter(c, quantity)
      PROVE  FALSE
  BY <1>6, EntersOnlyToday, DaysAssumption DEF BacktestType
<1>. QED
  BY <1>3, <1>4, <1>5, <1>6 DEF Next

\* The strategy takes the age of a quote by the clock on the wall: however long
\* the period, no trade is dated before the day the backtest runs on.
THEOREM NoTradeInThePast == Spec => []PastIsNotTraded
<1>. DEFINE Inv == BacktestType /\ PastInv
<1>1. Init => Inv
  BY BacktestStarts DEF Init, PastInv, NothingYet, PastIsNotTraded
<1>2. Inv /\ [Next]_vars => Inv'
  <2>. SUFFICES ASSUME Inv, [Next]_vars PROVE Inv'
    OBVIOUS
  <2>1. /\ BacktestType' /\ (UNCHANGED report \/ TradeToday)
        /\ clock =< clock' /\ clock \in Nat /\ clock' \in Nat /\ Today \in Int
    BY BacktestStep, AdvanceType, DaysAssumption DEF BacktestType
  <2>2. CASE clock < Today
    <3>1. NothingYet'
      BY <2>2, NothingStays DEF PastInv
    <3>. QED
      BY <2>1, <3>1 DEF PastInv, PastIsNotTraded, NothingYet
  <2>3. CASE clock >= Today
    <3>1. ~(clock' < Today)
      BY <2>1, <2>3
    <3>2. PastIsNotTraded'
      BY <2>1, <2>3 DEF PastInv, PastIsNotTraded, TradeToday
    <3>. QED
      BY <2>1, <3>1, <3>2 DEF PastInv
  <2>. QED
    BY <2>1, <2>2, <2>3
<1>. QED
  BY <1>1, <1>2, PTL DEF Spec, PastInv

-----------------------------------------------------------------------------
\* Without partial fills, what rests is sells, each of a whole position: no
\* contract is bought again once it is in recent.
WholeSells ==
  /\ \A k \in DOMAIN pending :
       /\ pending[k].side = "SELL" /\ pending[k].left = pending[k].quantity
       /\ pending[k].contract \in recent
       /\ positions[pending[k].contract] \in {0, pending[k].quantity}
  /\ \A c \in Contracts : positions[c] # 0 \/ c \in todo => c \in recent

Balanced ==
  /\ \A c \in Contracts : report.bought[c] = report.sold[c] + positions[c]
  /\ cash = InitialCash - report.spent + report.received - report.fees
  /\ (report.spent + report.received) * CommissionPct = 100 * report.fees

ReportInv == ~allowPartial => WholeSells /\ Balanced

LEMMA Times ==
  ASSUME NEW a \in Int, NEW b \in Int, NEW c \in Int, NEW d \in Int, a * b = 100 * d
  PROVE  (a * c) * b = 100 * (d * c)
<1>1. (a * c) * b = c * (a * b)
  OBVIOUS
<1>2. c * (100 * d) = 100 * (d * c)
  OBVIOUS
<1>. QED
  BY <1>1, <1>2

LEMMA CommissionIsWhole ==
  ASSUME NEW p \in Prices, NEW n \in Nat
  PROVE  100 * Commission(p * n) = (p * n) * CommissionPct
<1>1. p \in Nat /\ CommissionPct \in Nat /\ (p * CommissionPct) % 100 = 0
  BY MoneyAssumption DEF Prices
<1>2. PICK m \in Nat : p * CommissionPct = 100 * m
  <2>1. PICK x \in Nat : x = p * CommissionPct
    BY <1>1
  <2>2. x = 100 * (x \div 100) /\ x \div 100 \in Nat
    BY <1>1, <2>1
  <2>. QED
    BY <2>1, <2>2
<1>3. (p * n) * CommissionPct = 100 * (m * n)
  BY <1>1, <1>2, Times
<1>4. PICK y \in Nat : y = m * n
  OBVIOUS
<1>5. Commission(p * n) = y
  BY <1>3, <1>4 DEF Commission
<1>. QED
  BY <1>3, <1>4, <1>5

\* Without partial fills an order executes whole, and its fee is exact.
LEMMA ExecutesWhole ==
  ASSUME ~allowPartial, NEW order \in Order, order.left = order.quantity,
         NEW q \in Quotes \cup {NoQuote}, Executes(order, q)
  PROVE  /\ ExecutedSize(order, q) = order.quantity
         /\ Fee(order, q) \in Nat
         /\ 100 * Fee(order, q) = (Price(order.side, q) * order.quantity) * CommissionPct
<1>1. /\ q.bid \in Prices /\ q.ask \in Prices /\ q.size \in Nat
      /\ order.quantity \in Nat /\ order.quantity =< q.size
  BY MatchedQuote DEF Executes, Order
<1>2. FillSize(order.quantity, q) = order.quantity
  BY <1>1, MinOfTwo DEF FillSize
<1>3. ExecutedSize(order, q) = order.quantity
  BY <1>1, <1>2, MinOfTwo DEF ExecutedSize
<1>4. Price(order.side, q) \in Prices
  BY <1>1 DEF Price
<1>5. Fee(order, q) = Commission(Price(order.side, q) * order.quantity)
  BY <1>2 DEF Fee
<1>. QED
  BY <1>1, <1>3, <1>4, <1>5, CommissionIsWhole, ExecutedType

\* What a whole trade of a price and a fee does to the cash and the report.
LEMMA TradeKeepsBalance ==
  ASSUME BacktestType, Balanced, ~allowPartial,
         NEW order \in Order, order.left = order.quantity,
         NEW q \in Quotes, Executes(order, q), Apply(order, order.quantity, q),
         order.side = "SELL" => positions[order.contract] = order.quantity
  PROVE  /\ Balanced'
         /\ positions' = [positions EXCEPT ![order.contract] =
                            IF order.side = "BUY" THEN positions[order.contract] + order.quantity
                            ELSE 0]
<1>. DEFINE c == order.contract
            n == order.quantity
            fee == Fee(order, q)
<1>1. /\ c \in Contracts /\ n \in Nat /\ order.side \in {"BUY", "SELL"}
      /\ q.ask \in Nat /\ q.bid \in Nat /\ positions[c] \in Nat
  BY MatchedQuote DEF Executes, Prices, Order, BacktestType
<1>2. fee \in Nat /\ 100 * fee = (Price(order.side, q) * n) * CommissionPct
  BY ExecutesWhole
<1>3. /\ report.bought \in [Contracts -> Nat] /\ report.sold \in [Contracts -> Nat]
      /\ report.spent \in Nat /\ report.received \in Nat /\ report.fees \in Nat
      /\ cash \in Int /\ positions \in [Contracts -> Nat] /\ CommissionPct \in Nat
      /\ InitialCash \in Nat
  BY MoneyAssumption DEF BacktestType, Report
<1>. HIDE DEF fee
<1>4. report' = Reported(order, n, q)
  BY DEF Apply
<1>5. CASE order.side = "BUY"
  <2>1. PICK v \in Nat : v = q.ask * n
    BY <1>1
  <2>2. /\ cash' = cash - v - fee
        /\ positions' = [positions EXCEPT ![c] = positions[c] + n]
    BY <1>5, <2>1 DEF Apply, fee
  <2>3. /\ report'.bought = [report.bought EXCEPT ![c] = report.bought[c] + n]
        /\ report'.sold = [report.sold EXCEPT ![c] = report.sold[c] + 0]
        /\ report'.spent = report.spent + v /\ report'.received = report.received + 0
        /\ report'.fees = report.fees + fee
    BY <1>4, <1>5, <2>1 DEF Reported, fee
  <2>4. \A d \in Contracts : report'.bought[d] = report'.sold[d] + positions'[d]
    BY <1>1, <1>3, <2>2, <2>3 DEF Balanced
  <2>5. (report'.spent + report'.received) * CommissionPct = 100 * report'.fees
    <3>1. 100 * fee = v * CommissionPct
      BY <1>2, <1>5, <2>1 DEF Price
    <3>2. ((report.spent + v) + report.received) * CommissionPct =
            (report.spent + report.received) * CommissionPct + v * CommissionPct
      BY <1>3
    <3>. QED
      BY <1>2, <1>3, <2>3, <3>1, <3>2 DEF Balanced
  <2>6. cash' = InitialCash - report'.spent + report'.received - report'.fees
    BY <1>2, <1>3, <2>2, <2>3 DEF Balanced
  <2>. QED
    BY <1>5, <2>2, <2>4, <2>5, <2>6 DEF Balanced
<1>6. CASE order.side = "SELL"
  <2>1. PICK v \in Nat : v = q.bid * n
    BY <1>1
  <2>2. positions[c] = n /\ LeftOver(positions[c], n) = 0
    BY <1>1, <1>6, MaxOfTwo DEF LeftOver
  <2>3. /\ cash' = cash + v - fee
        /\ positions' = [positions EXCEPT ![c] = 0]
    BY <1>6, <2>1, <2>2 DEF Apply, fee
  <2>4. /\ report'.bought = [report.bought EXCEPT ![c] = report.bought[c] + 0]
        /\ report'.sold = [report.sold EXCEPT ![c] = report.sold[c] + n]
        /\ report'.spent = report.spent + 0 /\ report'.received = report.received + v
        /\ report'.fees = report.fees + fee
    BY <1>4, <1>6, <2>1 DEF Reported, fee
  <2>5. \A d \in Contracts : report'.bought[d] = report'.sold[d] + positions'[d]
    BY <1>1, <1>3, <2>2, <2>3, <2>4 DEF Balanced
  <2>6. (report'.spent + report'.received) * CommissionPct = 100 * report'.fees
    <3>1. 100 * fee = v * CommissionPct
      BY <1>2, <1>6, <2>1 DEF Price
    <3>2. (report.spent + (report.received + v)) * CommissionPct =
            (report.spent + report.received) * CommissionPct + v * CommissionPct
      BY <1>3
    <3>. QED
      BY <1>2, <1>3, <2>4, <3>1, <3>2 DEF Balanced
  <2>7. cash' = InitialCash - report'.spent + report'.received - report'.fees
    BY <1>2, <1>3, <2>3, <2>4 DEF Balanced
  <2>. QED
    BY <1>6, <2>3, <2>5, <2>6, <2>7 DEF Balanced
<1>. QED
  BY <1>1, <1>5, <1>6

LEMMA PendingType ==
  ASSUME BacktestType
  PROVE  /\ DOMAIN pending = 1 .. Len(pending)
         /\ \A k \in 1 .. Len(pending) :
              pending[k] \in Order /\ pending[k].contract \in Contracts
<1>1. pending \in Seq(Order)
  BY DEF BacktestType
<1>2. DOMAIN pending = 1 .. Len(pending) /\ \A k \in 1 .. Len(pending) : pending[k] \in Order
  BY <1>1
<1>. QED
  BY <1>2 DEF Order

LEMMA SubmitWhole ==
  ASSUME BacktestType, Balanced, ~allowPartial,
         NEW c \in Contracts, NEW side \in {"BUY", "SELL"}, NEW quantity \in Nat,
         SubmitAtMarket(c, side, quantity), side = "SELL" => positions[c] = quantity
  PROVE  /\ Balanced' /\ UNCHANGED pending
         /\ \/ UNCHANGED positions
            \/ positions' = [positions EXCEPT ![c] =
                               IF side = "BUY" THEN positions[c] + quantity ELSE 0]
<1>. DEFINE order == NewOrder(c, side, quantity, MarketOrder)
            q == book[c]
            n == ExecutedSize(order, q)
<1>1. /\ order \in Order /\ order.contract = c /\ order.side = side
      /\ order.quantity = quantity /\ order.left = quantity
      /\ q \in Quotes \cup {NoQuote}
  BY DEF NewOrder, Order, MarketOrder, BacktestType
<1>2. CASE Executes(order, q)
  <2>1. /\ Apply(order, n, q)
        /\ pending' = IF n = quantity THEN pending ELSE Append(pending, Less(order, n))
    BY <1>2 DEF SubmitAtMarket, GetQuote
  <2>2. q \in Quotes
    BY <1>1, <1>2, MatchedQuote DEF Executes
  <2>. HIDE DEF order
  <2>3. n = quantity
    BY <1>1, <1>2, ExecutesWhole
  <2>. HIDE DEF n
  <2>4. Apply(order, order.quantity, q) /\ UNCHANGED pending
    BY <1>1, <2>1, <2>3
  <2>. HIDE DEF q
  <2>5. /\ Balanced'
        /\ positions' = [positions EXCEPT ![order.contract] =
                           IF order.side = "BUY" THEN positions[order.contract] + order.quantity
                           ELSE 0]
    BY <1>1, <1>2, <2>2, <2>4, TradeKeepsBalance
  <2>. QED
    BY <1>1, <2>4, <2>5
<1>3. CASE ~Executes(order, q)
  <2>1. UNCHANGED account
    BY <1>3 DEF SubmitAtMarket, GetQuote
  <2>. QED
    BY <2>1 DEF account, Balanced
<1>. QED
  BY <1>2, <1>3

LEMMA SellKeepsReport ==
  ASSUME BacktestType, ReportInv, ~allowPartial, NEW c \in todo, todo' = todo \ {c},
         SubmitAtMarket(c, "SELL", positions[c]), UNCHANGED recent
  PROVE  WholeSells' /\ Balanced'
<1>1. c \in Contracts /\ positions[c] \in Nat /\ positions \in [Contracts -> Nat]
  BY DEF BacktestType
<1>2. /\ Balanced' /\ UNCHANGED pending
      /\ UNCHANGED positions \/ positions' = [positions EXCEPT ![c] = 0]
  BY <1>1, SubmitWhole DEF ReportInv
<1>3. \A d \in Contracts : positions'[d] \in {0, positions[d]}
  BY <1>1, <1>2
<1>4. WholeSells'
  <2>1. \A k \in DOMAIN pending : positions'[pending[k].contract] \in {0, pending[k].quantity}
    BY <1>3, PendingType DEF ReportInv, WholeSells
  <2>. QED
    BY <1>2, <1>3, <2>1 DEF ReportInv, WholeSells
<1>. QED
  BY <1>2, <1>4

LEMMA FillRestingKeepsReport ==
  ASSUME BacktestType, ReportInv, ~allowPartial, FillResting
  PROVE  WholeSells' /\ Balanced'
<1>1. /\ at \in 1 .. Len(pending) /\ pending \in Seq(Order)
      /\ book \in [Contracts -> Quotes \cup {NoQuote}] /\ positions \in [Contracts -> Nat]
      /\ todo \subseteq Contracts
  BY DEF FillResting, Retrying, BacktestType
<1>2. PICK order \in Order : order = pending[at]
  BY <1>1
<1>3. /\ order.side = "SELL" /\ order.left = order.quantity /\ order.contract \in Contracts
      /\ positions[order.contract] \in {0, order.quantity}
  <2>1. at \in DOMAIN pending /\ order.contract \in Contracts
    BY <1>1, <1>2 DEF Order
  <2>2. WholeSells
    BY DEF ReportInv
  <2>. QED
    BY <1>2, <2>1, <2>2 DEF WholeSells
<1>4. PICK q \in Quotes \cup {NoQuote} : q = book[order.contract]
  BY <1>1, <1>3
<1>5. /\ Executes(order, q) /\ ~RaisesKeyError(order)
      /\ Apply(order, ExecutedSize(order, q), q)
      /\ ExecutedSize(order, q) = order.left => pending' = RemoveAt(pending, at)
      /\ UNCHANGED <<recent, todo>>
  BY <1>2, <1>4 DEF FillResting, GetQuote
<1>6. q \in Quotes
  BY <1>5, MatchedQuote DEF Executes
<1>7. positions[order.contract] = order.quantity
  BY <1>3, <1>5 DEF RaisesKeyError
<1>8. ExecutedSize(order, q) = order.quantity
  BY <1>3, <1>5, ExecutesWhole
<1>9. pending' = RemoveAt(pending, at) /\ Apply(order, order.quantity, q)
  BY <1>3, <1>5, <1>8
<1>10. Balanced' /\ positions' = [positions EXCEPT ![order.contract] = 0]
  BY <1>3, <1>5, <1>6, <1>7, <1>9, TradeKeepsBalance DEF ReportInv
<1>11. /\ pending' \in Seq(Order)
       /\ \A j \in 1 .. Len(pending') : \E i \in 1 .. Len(pending) : pending'[j] = pending[i]
  <2>1. PICK rest : rest = RemoveAt(pending, at)
    OBVIOUS
  <2>2. /\ rest \in Seq(Order)
        /\ \A j \in 1 .. Len(rest) : \E i \in 1 .. Len(pending) : rest[j] = pending[i]
    BY <1>1, <2>1, RemoveKeeps
  <2>. QED
    BY <1>9, <2>1, <2>2
<1>12. WholeSells'
  <2>1. ASSUME NEW j \in DOMAIN pending'
        PROVE  /\ pending'[j].side = "SELL" /\ pending'[j].left = pending'[j].quantity
               /\ pending'[j].contract \in recent
               /\ positions'[pending'[j].contract] \in {0, pending'[j].quantity}
    <3>1. PICK i \in 1 .. Len(pending) : pending'[j] = pending[i]
      BY <1>11
    <3>2. /\ pending[i].side = "SELL" /\ pending[i].left = pending[i].quantity
          /\ pending[i].contract \in recent /\ pending[i].contract \in Contracts
          /\ positions[pending[i].contract] \in {0, pending[i].quantity}
      BY PendingType DEF ReportInv, WholeSells
    <3>. QED
      BY <1>1, <1>3, <1>10, <3>1, <3>2
  <2>2. \A c \in Contracts : positions'[c] # 0 \/ c \in todo => c \in recent
    BY <1>1, <1>3, <1>10 DEF ReportInv, WholeSells
  <2>. QED
    BY <1>5, <2>1, <2>2 DEF WholeSells
<1>. QED
  BY <1>10, <1>12

LEMMA CloseAtLimitKeepsReport ==
  ASSUME BacktestType, ReportInv, ~allowPartial, NEW c \in Contracts, CloseAtLimit(c)
  PROVE  WholeSells' /\ Balanced'
<1>1. PICK order : order = NewOrder(c, "SELL", positions[c],
                              (GetQuote(c).bid * (Step - aggression[c])) \div Step)
  OBVIOUS
<1>2. /\ c \in todo /\ pending' = Append(pending, order) /\ todo' = todo \ {c}
      /\ UNCHANGED <<cash, positions, report, recent>>
  BY <1>1 DEF CloseAtLimit, Closing
<1>3. /\ order.contract = c /\ order.side = "SELL"
      /\ order.quantity = positions[c] /\ order.left = positions[c]
  BY <1>1 DEF NewOrder
<1>4. /\ pending \in Seq(Order) /\ Len(pending') = Len(pending) + 1
      /\ DOMAIN pending' = 1 .. Len(pending) + 1
      /\ \A j \in 1 .. Len(pending) : pending'[j] = pending[j]
      /\ pending'[Len(pending) + 1] = order
  <2>1. pending \in Seq(Order)
    BY DEF BacktestType
  <2>. QED
    BY <1>2, <2>1
<1>5. c \in recent
  BY <1>2 DEF ReportInv, WholeSells
<1>6. WholeSells'
  <2>1. ASSUME NEW j \in DOMAIN pending'
        PROVE  /\ pending'[j].side = "SELL" /\ pending'[j].left = pending'[j].quantity
               /\ pending'[j].contract \in recent
               /\ positions[pending'[j].contract] \in {0, pending'[j].quantity}
    <3>1. CASE j \in DOMAIN pending
      BY <1>4, <3>1 DEF ReportInv, WholeSells
    <3>2. CASE j \notin DOMAIN pending
      <4>1. pending'[j] = order
        BY <1>4, <3>2
      <4>. QED
        BY <1>3, <1>5, <4>1
    <3>. QED
      BY <3>1, <3>2
  <2>. QED
    BY <1>2, <2>1 DEF WholeSells, ReportInv
<1>. QED
  BY <1>2, <1>6 DEF Balanced, ReportInv

LEMMA NextTurnSells ==
  ASSUME NextTurn, \A c \in Contracts : positions'[c] # 0 => c \in recent'
  PROVE  \A c \in todo' : c \in recent'
  BY DEF NextTurn, NeedExit, Held

LEMMA EnterKeepsReport ==
  ASSUME BacktestType, ReportInv, ~allowPartial,
         NEW c \in Contracts, NEW quantity \in 1 .. MaxQuantity, Enter(c, quantity)
  PROVE  WholeSells' /\ Balanced'
<1>1. /\ c \notin recent /\ recent' = recent \cup {c} /\ NextTurn
      /\ positions \in [Contracts -> Nat] /\ positions[c] = 0 /\ quantity \in Nat
      /\ WholeSells /\ Balanced /\ pending \in Seq(Order)
  BY DEF Enter, BacktestType, ReportInv, WholeSells
<1>2. /\ Balanced' /\ UNCHANGED pending
      /\ \/ UNCHANGED positions
         \/ positions' = [positions EXCEPT ![c] = positions[c] + quantity]
  <2>1. CASE UNCHANGED account
    BY <1>1, <2>1 DEF account, Balanced
  <2>2. CASE SubmitAtMarket(c, "BUY", quantity)
    BY <1>1, <2>2, SubmitWhole
  <2>. QED
    BY <2>1, <2>2 DEF Enter
<1>3. \A d \in Contracts \ {c} : positions'[d] = positions[d]
  BY <1>1, <1>2
<1>4. \A d \in Contracts : positions'[d] # 0 => d \in recent'
  BY <1>1, <1>3 DEF WholeSells
<1>5. \A d \in todo' : d \in recent'
  BY <1>1, <1>4, NextTurnSells
<1>6. \A k \in DOMAIN pending : pending[k].contract \in Contracts \ {c}
  BY <1>1, PendingType DEF WholeSells
<1>7. WholeSells'
  BY <1>1, <1>2, <1>3, <1>4, <1>5, <1>6 DEF WholeSells
<1>. QED
  BY <1>2, <1>7

\* A step that trades nothing.
LEMMA QuietKeepsReport ==
  ASSUME ReportInv, ~allowPartial, UNCHANGED <<account, recent>>,
         \A c \in todo' : c \in todo \/ positions[c] # 0, todo' \subseteq Contracts
  PROVE  WholeSells' /\ Balanced'
  BY DEF ReportInv, WholeSells, Balanced, account

LEMMA StepKeepsReport ==
  ASSUME BacktestType, ReportInv, [Next]_vars
  PROVE  ReportInv'
<1>0. UNCHANGED allowPartial
  BY DEF Next, Advance, PassOver, FillResting, Abort, AfterRetries, CloseWithoutBid,
         CloseAtMarket, CloseAtLimit, Closing, AfterClosing, Exit, AfterExits, NoEntry,
         Enter, Finish, FinalSell, Done, vars, setup
<1>. SUFFICES ASSUME ~allowPartial PROVE WholeSells' /\ Balanced'
  BY <1>0 DEF ReportInv
<1>t. todo \subseteq Contracts /\ todo' \subseteq Contracts
  BY BacktestStep DEF BacktestType
<1>1. CASE \/ Advance \/ PassOver \/ Abort \/ AfterExits \/ Done \/ UNCHANGED vars
           \/ AfterRetries \/ Finish \/ AfterClosing
  <2>1. UNCHANGED <<account, recent>> /\ \A c \in todo' : c \in todo \/ positions[c] # 0
    BY <1>1 DEF Advance, PassOver, Abort, AfterExits, Done, vars, progress, AfterRetries,
                Finish, AfterClosing, NeedExit, HeldIn, Held
  <2>. QED
    BY <1>t, <2>1, QuietKeepsReport
<1>2. CASE NoEntry
  <2>1. UNCHANGED <<account, recent>> /\ \A c \in todo' : positions[c] # 0
    BY <1>2 DEF NoEntry, NextTurn, NeedExit, Held, account
  <2>. QED
    BY <1>t, <2>1, QuietKeepsReport
<1>3. CASE FillResting
  BY <1>3, FillRestingKeepsReport
<1>4. ASSUME NEW c \in Contracts, CloseWithoutBid(c)
      PROVE  WholeSells' /\ Balanced'
  <2>1. UNCHANGED <<account, recent>> /\ todo' \subseteq todo
    BY <1>4 DEF CloseWithoutBid, Closing
  <2>. QED
    BY <1>t, <2>1, QuietKeepsReport
<1>5. ASSUME NEW c \in Contracts, CloseAtMarket(c) \/ Exit(c) \/ FinalSell(c)
      PROVE  WholeSells' /\ Balanced'
  <2>1. /\ c \in todo /\ todo' = todo \ {c} /\ SubmitAtMarket(c, "SELL", positions[c])
        /\ UNCHANGED recent
    BY <1>5 DEF CloseAtMarket, Closing, Exit, FinalSell
  <2>. QED
    BY <2>1, SellKeepsReport
<1>6. ASSUME NEW c \in Contracts, CloseAtLimit(c)
      PROVE  WholeSells' /\ Balanced'
  BY <1>6, CloseAtLimitKeepsReport
<1>7. ASSUME NEW c \in Contracts, NEW quantity \in 1 .. MaxQuantity, Enter(c, quantity)
      PROVE  WholeSells' /\ Balanced'
  BY <1>7, EnterKeepsReport
<1>. QED
  BY <1>1, <1>2, <1>3, <1>4, <1>5, <1>6, <1>7 DEF Next

\* Without partial fills the report of a backtest is right, however many sells
\* of one position rest and in whatever order the days execute them: what was
\* bought is what was sold and is held, and the cash is what the trades and a
\* commission on each of them leave.
THEOREM TheReportIsRight == Spec => []ReportIsRight
<1>1. Init => BacktestType /\ ReportInv
  BY BacktestStarts, MoneyAssumption DEF Init, ReportInv, WholeSells, Balanced
<1>2. BacktestType /\ ReportInv /\ [Next]_vars => (BacktestType /\ ReportInv)'
  BY BacktestStep, StepKeepsReport
<1>3. BacktestType /\ ReportInv => ReportIsRight
  <2>. SUFFICES ASSUME BacktestType, ReportInv, ~allowPartial
                PROVE  cash = InitialCash - report.spent + report.received
                                - Commission(report.spent + report.received)
    BY DEF ReportIsRight, ReportInv, Balanced
  <2>1. /\ report.spent \in Nat /\ report.received \in Nat /\ report.fees \in Nat
        /\ (report.spent + report.received) * CommissionPct = 100 * report.fees
    BY DEF BacktestType, Report, ReportInv, Balanced
  <2>2. Commission(report.spent + report.received) = report.fees
    BY <2>1 DEF Commission
  <2>. QED
    BY <2>2 DEF ReportInv, Balanced
<1>. QED
  BY <1>1, <1>2, <1>3, PTL DEF Spec

-----------------------------------------------------------------------------
\* The search for parameters.

\* The operators of the library are the same by both names.
LEMMA SameOperators ==
  ASSUME NEW T
  PROVE  /\ O!Max(T) = Max(T) /\ O!Min(T) = Min(T)
         /\ O!Cardinality(T) = Cardinality(T)
         /\ O!ToSet(T) = ToSet(T)
<1>1. O!Max(T) = Max(T) /\ O!Min(T) = Min(T)
  BY DEF O!Max, O!Min, Max, Min
<1>2. O!Cardinality(T) = Cardinality(T)
  BY DEF O!Cardinality, Cardinality
<1>3. O!ToSet(T) = ToSet(T)
  BY DEF O!ToSet, ToSet
<1>. QED
  BY <1>1, <1>2, <1>3

IsSeq(s) == s \in Seq(ToSet(s))

LEMMA AppendFacts ==
  ASSUME NEW s, IsSeq(s), NEW x
  PROVE  /\ IsSeq(Append(s, x)) /\ Len(Append(s, x)) = Len(s) + 1
         /\ DOMAIN Append(s, x) = 1 .. Len(s) + 1 /\ DOMAIN s = 1 .. Len(s) /\ Len(s) \in Nat
         /\ \A i \in 1 .. Len(s) : Append(s, x)[i] = s[i]
         /\ Append(s, x)[Len(s) + 1] = x
         /\ ToSet(Append(s, x)) = ToSet(s) \cup {x}
<1>. DEFINE T == ToSet(s) \cup {x}
<1>1. s \in Seq(T)
  BY DEF IsSeq
<1>. HIDE DEF T
<1>2. x \in T
  BY DEF T
<1>3. /\ Append(s, x) \in Seq(T) /\ Len(Append(s, x)) = Len(s) + 1
      /\ DOMAIN Append(s, x) = 1 .. Len(s) + 1 /\ DOMAIN s = 1 .. Len(s) /\ Len(s) \in Nat
      /\ \A i \in 1 .. Len(s) : Append(s, x)[i] = s[i]
      /\ Append(s, x)[Len(s) + 1] = x
  BY <1>1, <1>2
<1>4. ToSet(Append(s, x)) = T
  <2>1. ASSUME NEW y \in ToSet(Append(s, x))
        PROVE  y \in T
    <3>1. PICK i \in 1 .. Len(s) + 1 : y = Append(s, x)[i]
      BY <1>3, <2>1 DEF ToSet
    <3>. QED
      BY <1>3, <3>1
  <2>2. ASSUME NEW y \in T
        PROVE  y \in ToSet(Append(s, x))
    <3>1. CASE y = x
      <4>1. Len(s) + 1 \in DOMAIN Append(s, x)
        BY <1>3
      <4>. QED
        BY <1>3, <3>1, <4>1 DEF ToSet
    <3>2. CASE y \in ToSet(s)
      <4>1. PICK i \in 1 .. Len(s) : y = s[i]
        BY <1>3, <3>2 DEF ToSet
      <4>2. i \in DOMAIN Append(s, x)
        BY <1>3
      <4>. QED
        BY <1>3, <4>1, <4>2 DEF ToSet
    <3>. QED
      BY <2>2, <3>1, <3>2 DEF T
  <2>. QED
    BY <2>1, <2>2
<1>. QED
  BY <1>3, <1>4 DEF IsSeq, T

LEMMA ObjectiveType ==
  ASSUME NEW p, NEW train \in Results, NEW val \in Results
  PROVE  O!Objective(p, train, val) \in Int
<1>1. \A r \in Results : r.merit \in Int /\ r.drawdown \in Int
  BY O!SearchAssumption DEF O!SearchAssumption
<1>2. ASSUME NEW r \in Results
      PROVE  O!ScoreResult(r, O!MinTrades) \in Int
  <2>1. O!Max({0, r.drawdown - 25}) \in Int
    <3>1. r.drawdown - 25 \in Int
      BY <1>1
    <3>. QED
      BY <3>1, MaxOfTwo, SameOperators
  <2>2. r.merit \in Int /\ r.drawdown \in Int
    BY <1>1
  <2>. QED
    BY <2>1, <2>2 DEF O!ScoreResult
<1>3. PICK t \in Int, v \in Int : /\ t = O!ScoreResult(train, O!MinTrades)
                                  /\ v = O!ScoreResult(val, O!MinTrades)
  BY <1>2
<1>4. \A a, b \in Int : O!Distance(a, b) \in Nat /\ (a # b => O!Distance(a, b) > 0)
  <2>. SUFFICES ASSUME NEW a \in Int, NEW b \in Int
                PROVE  O!Distance(a, b) \in Nat /\ (a # b => O!Distance(a, b) > 0)
    OBVIOUS
  <2>1. a - b \in Int /\ b - a \in Int
    OBVIOUS
  <2>2. O!Max({a - b, b - a}) = IF a - b >= b - a THEN a - b ELSE b - a
    BY <2>1, MaxOfTwo, SameOperators
  <2>. QED
    BY <2>2 DEF O!Distance
<1>5. O!Consistency(t, v) \in Int
  <2>1. CASE t = 0 /\ v = 0
    BY <2>1 DEF O!Consistency
  <2>2. CASE ~(t = 0 /\ v = 0)
    <3>0. /\ O!Distance(t, v) \in Nat /\ O!Distance(t, 0) \in Nat /\ O!Distance(v, 0) \in Nat
          /\ O!Distance(t, 0) > 0 \/ O!Distance(v, 0) > 0
      BY <1>4, <2>2
    <3>1. PICK d \in Nat, m \in Nat : /\ d = 1000 * O!Distance(t, v)
                                      /\ m = O!Distance(t, 0) + O!Distance(v, 0) /\ m > 0
      BY <3>0
    <3>2. d \div m \in Int
      BY <3>1
    <3>. QED
      BY <2>2, <3>1, <3>2 DEF O!Consistency
  <2>. QED
    BY <2>1, <2>2
<1>. QED
  BY <1>3, <1>5 DEF O!Objective

LEMMA FirstNumbers ==
  ASSUME NEW k \in Nat
  PROVE  IsFiniteSet(1 .. k) /\ Cardinality(1 .. k) = k
<1>1. IsFiniteSet(1 .. k) /\ Cardinality(1 .. k) = IF 1 > k THEN 0 ELSE k - 1 + 1
  BY FS_Interval
<1>. QED
  BY <1>1

\* Ranks are places: with objectives that are numbers, every place is taken.
LEMMA PlacesAreTaken ==
  ASSUME IsSeq(candidates), \A i \in DOMAIN candidates : candidates[i].objective \in Int,
         NEW n \in 1 .. Len(candidates)
  PROVE  \E i \in DOMAIN candidates : O!Rank(i) = n
<1>. DEFINE N == Len(candidates)
            v(i) == candidates[i].objective
            Before(j, i) == v(j) > v(i) \/ (v(j) = v(i) /\ j < i)
            Better(i) == {j \in 1 .. N : Before(j, i)}
            f == [i \in 1 .. N |-> 1 + Cardinality(Better(i))]
<1>1. N \in Nat /\ DOMAIN candidates = 1 .. N /\ \A i \in 1 .. N : v(i) \in Int
  BY DEF IsSeq
<1>2. \A i \in 1 .. N : O!Rank(i) = f[i]
  BY <1>1, SameOperators DEF O!Rank
<1>3. IsFiniteSet(1 .. N) /\ Cardinality(1 .. N) = N
  <2>1. PICK k \in Nat : k = N
    BY <1>1
  <2>2. IsFiniteSet(1 .. k) /\ Cardinality(1 .. k) = k
    BY FirstNumbers
  <2>. QED
    BY <2>1, <2>2
<1>. HIDE DEF N, v
<1>4. ASSUME NEW i \in 1 .. N
      PROVE  /\ IsFiniteSet(Better(i)) /\ Cardinality(Better(i)) \in Nat
             /\ i \notin Better(i) /\ Cardinality(Better(i)) =< N - 1
  <2>1. Better(i) \subseteq (1 .. N) \ {i} /\ i \notin Better(i)
    BY <1>1
  <2>2. IsFiniteSet((1 .. N) \ {i}) /\ Cardinality((1 .. N) \ {i}) = N - 1
    BY <1>3, FS_RemoveElement
  <2>. QED
    BY <2>1, <2>2, FS_Subset, FS_CardinalityType
<1>5. ASSUME NEW i \in 1 .. N, NEW k \in 1 .. N, Before(i, k)
      PROVE  Cardinality(Better(i)) < Cardinality(Better(k))
  <2>1. Better(i) \cup {i} \subseteq Better(k)
    BY <1>1, <1>5
  <2>2. /\ IsFiniteSet(Better(i) \cup {i})
        /\ Cardinality(Better(i) \cup {i}) = Cardinality(Better(i)) + 1
    BY <1>4, FS_AddElement
  <2>3. Cardinality(Better(i) \cup {i}) =< Cardinality(Better(k))
    <3>1. IsFiniteSet(Better(k))
      BY <1>4
    <3>. QED
      BY <2>1, <3>1, FS_Subset
  <2>4. Cardinality(Better(i)) \in Nat /\ Cardinality(Better(k)) \in Nat
    BY <1>4
  <2>. HIDE DEF Better
  <2>. QED
    BY <2>2, <2>3, <2>4
<1>. HIDE DEF Better
<1>6. f \in [1 .. N -> 1 .. N]
  <2>1. \A i \in 1 .. N : 1 + Cardinality(Better(i)) \in 1 .. N
    BY <1>1, <1>4, SMTT(60)
  <2>. QED
    BY <2>1
<1>7. ASSUME NEW i \in 1 .. N, NEW k \in 1 .. N, i # k
      PROVE  f[i] # f[k]
  <2>1. Before(i, k) \/ Before(k, i)
    BY <1>1, <1>7
  <2>. QED
    BY <1>4, <1>5, <2>1
<1>. HIDE DEF f
<1>8. f \in Injection(1 .. N, 1 .. N)
  BY <1>6, <1>7 DEF Injection, IsInjective
<1>9. f \in Surjection(1 .. N, 1 .. N)
  BY <1>3, <1>8, FS_Injection
<1>10. n \in 1 .. N
  BY DEF N
<1>11. PICK i \in 1 .. N : f[i] = n
  BY <1>9, <1>10 DEF Surjection
<1>. QED
  BY <1>1, <1>2, <1>11

\* A grid chooses on two ranges of days and tests the best in turn; a walk-forward
\* chooses on the days before the ones it tests on.
GridInv ==
  /\ \A i \in DOMAIN candidates : candidates[i].objective \in Int
  /\ tested = 0 \/ (Len(candidates) = Len(search.combos) /\ tested < O!Top)
  /\ candidates = <<>> \/ seen = {O!Run(O!Split.train), O!Run(O!Split.val)}
  /\ seen \subseteq {O!Run(O!Split.train), O!Run(O!Split.val)}

\* The last of the days the first n windows were trained on.
LastTrained(n) == (n - 1) * O!StepDays + O!TrainDays

WalkInv ==
  /\ \A i \in DOMAIN candidates :
       /\ candidates[i].days = O!Days(LastTrained(i) + 1, LastTrained(i) + O!TestDays)
       /\ \A r \in candidates[i].seen : r.last \in Int /\ r.last =< LastTrained(i)
  /\ \A r \in seen : r.last \in Int /\ r.last =< LastTrained(Len(candidates))

SearchInv ==
  /\ IsSeq(store) /\ IsSeq(candidates) /\ tested \in Nat
  /\ search # Nothing => search.days \in Nat /\ search.combos \in Samples
  /\ O!Searching("grid") => GridInv
  /\ O!Searching("walk") => WalkInv
  /\ O!TestDaysAreUnseen /\ O!BestAreTested


LEMMA SampleType ==
  ASSUME NEW s \in Samples
  PROVE  Len(s) \in Nat /\ Len(s) > 0
<1>1. s \in Seq(Params) /\ s # <<>>
  BY O!SearchAssumption DEF O!SearchAssumption
<1>. QED
  BY <1>1

LEMMA EmptyIsSeq == IsSeq(<<>>) /\ DOMAIN <<>> = {} /\ Len(<<>>) = 0
  BY DEF IsSeq

LEMMA StartKeepsSearch ==
  ASSUME SearchInv, O!StartGrid \/ O!StartWalkForward
  PROVE  SearchInv'
<1>1. PICK kind \in {"grid", "walk"}, days \in Periods, combos \in Samples, holdOut \in BOOLEAN :
        \E fallback : O!Start(kind, days, combos, holdOut, fallback)
  BY DEF O!StartGrid, O!StartWalkForward
<1>2. /\ search'.kind = kind /\ search'.days = days /\ search'.combos = combos
      /\ candidates' = <<>> /\ tested' = 0 /\ seen' = {} /\ store' = store
  BY <1>1 DEF O!Start
<1>3. days \in Nat
  BY O!SearchAssumption DEF O!SearchAssumption
<1>4. IsSeq(store)' /\ IsSeq(candidates)' /\ tested' \in Nat
  BY <1>2, EmptyIsSeq DEF SearchInv, IsSeq
<1>5. GridInv' /\ WalkInv'
  BY <1>2, EmptyIsSeq DEF GridInv, WalkInv
<1>6. O!TestDaysAreUnseen' /\ O!BestAreTested'
  BY <1>2 DEF SearchInv, O!TestDaysAreUnseen, O!BestAreTested
<1>. QED
  BY <1>2, <1>3, <1>4, <1>5, <1>6 DEF SearchInv

LEMMA EvaluateKeepsSearch ==
  ASSUME SearchInv, O!EvaluateCandidate
  PROVE  SearchInv'
<1>. DEFINE p == search.combos[Len(candidates) + 1]
<1>1. PICK train \in Results, val \in Results :
        candidates' = Append(candidates,
          [params |-> p, objective |-> O!Objective(p, train, val), val |-> val])
  BY DEF O!EvaluateCandidate
<1>2. PICK c : c = [params |-> p, objective |-> O!Objective(p, train, val), val |-> val]
  OBVIOUS
<1>3. c.objective \in Int
  BY <1>2, ObjectiveType
<1>4. /\ O!Searching("grid") /\ Len(candidates) < Len(search.combos)
      /\ seen' = seen \cup {O!Run(O!Split.train), O!Run(O!Split.val)}
      /\ UNCHANGED <<search, tested, store>>
  BY DEF O!EvaluateCandidate
<1>5. /\ GridInv /\ IsSeq(candidates) /\ IsSeq(store) /\ search.days \in Nat
      /\ search.combos \in Samples /\ Len(search.combos) \in Nat
  BY <1>4, SampleType DEF SearchInv, O!Searching
<1>6. PICK s : s = Append(candidates, c)
  OBVIOUS
<1>7. /\ IsSeq(s) /\ DOMAIN s = 1 .. Len(candidates) + 1 /\ DOMAIN candidates = 1 .. Len(candidates)
      /\ Len(candidates) \in Nat
      /\ \A i \in 1 .. Len(candidates) : s[i] = candidates[i]
      /\ s[Len(candidates) + 1] = c
  BY <1>5, <1>6, AppendFacts
<1>8. candidates' = s
  BY <1>1, <1>2, <1>6
<1>9. tested = 0
  BY <1>4, <1>5, <1>7 DEF GridInv
<1>10. O!Searching("grid")' /\ ~O!Searching("walk")' /\ O!Split' = O!Split
  BY <1>4 DEF O!Searching, O!Split
<1>11. GridInv'
  <2>1. \A i \in DOMAIN candidates' : candidates'[i].objective \in Int
    BY <1>3, <1>5, <1>7, <1>8 DEF GridInv
  <2>2. seen' = {O!Run(O!Split.train), O!Run(O!Split.val)}
    BY <1>4, <1>5 DEF GridInv
  <2>. QED
    BY <1>4, <1>9, <1>10, <2>1, <2>2 DEF GridInv
<1>12. O!TestDaysAreUnseen' /\ O!BestAreTested'
  BY <1>4, <1>9 DEF SearchInv, O!TestDaysAreUnseen, O!BestAreTested
<1>. QED
  BY <1>4, <1>5, <1>7, <1>8, <1>9, <1>10, <1>11, <1>12 DEF SearchInv, IsSeq

\* What an experiment adds to the store.
Unseen(e) ==
  \A i \in DOMAIN e.tests :
    /\ (\A r \in e.tests[i].seen : r.last < e.tests[i].days.first) <=> e.days >= O!ShortestSplit
    /\ \A j \in 1..(i - 1) : e.tests[j].days.last < e.tests[i].days.first

LEMMA StoreKeeps ==
  ASSUME SearchInv, NEW e, Unseen(e), store' = Append(store, e)
  PROVE  /\ IsSeq(store)' /\ O!TestDaysAreUnseen'
         /\ Len(store') = Len(store) + 1 /\ store'[Len(store')] = e
<1>1. IsSeq(store) /\ \A x \in ToSet(store) : Unseen(x)
  BY SameOperators DEF SearchInv, O!TestDaysAreUnseen, Unseen
<1>2. PICK s : s = Append(store, e)
  OBVIOUS
<1>3. /\ IsSeq(s) /\ Len(s) = Len(store) + 1 /\ s[Len(store) + 1] = e
      /\ ToSet(s) = ToSet(store) \cup {e}
  BY <1>1, <1>2, AppendFacts
<1>4. \A x \in ToSet(s) : Unseen(x)
  BY <1>1, <1>3
<1>5. store' = s
  BY <1>2
<1>. QED
  BY <1>3, <1>4, <1>5, SameOperators DEF O!TestDaysAreUnseen, Unseen, IsSeq

\* The days held out come after those the candidates ran on, also where Run
\* extends a short range.
LEMMA SplitIsApart ==
  ASSUME NEW days \in Nat, days >= O!ShortestSplit
  PROVE  /\ O!Run(O!SplitDates(days).train).last < O!Run(O!SplitDates(days).test).first
         /\ O!Run(O!SplitDates(days).val).last < O!Run(O!SplitDates(days).test).first
<1>1. PICK t1 \in Nat, t2 \in Nat : t1 = (days * 6) \div 10 /\ t2 = (days * 8) \div 10
  OBVIOUS
<1>2. t1 > 0 /\ t2 > t1 + 1
  BY <1>1 DEF O!ShortestSplit
<1>. QED
  BY <1>1, <1>2 DEF O!Run, O!SplitDates, O!Days

\* Of a shorter period, Run extends the training or the validation days into the days held
\* out.
LEMMA ShortSplitIsSeen ==
  ASSUME NEW days \in Nat, ~(days >= O!ShortestSplit)
  PROVE  \E r \in {O!Run(O!SplitDates(days).train), O!Run(O!SplitDates(days).val)} :
           ~(r.last < O!Run(O!SplitDates(days).test).first)
<1>1. PICK t1 \in Nat, t2 \in Nat : t1 = (days * 6) \div 10 /\ t2 = (days * 8) \div 10
  OBVIOUS
<1>2. /\ O!Run(O!SplitDates(days).train).last = IF t1 =< 0 THEN 5 ELSE t1
      /\ O!Run(O!SplitDates(days).val).last = IF t2 =< t1 + 1 THEN t1 + 6 ELSE t2
      /\ O!Run(O!SplitDates(days).test).first = t2 + 1
  BY <1>1 DEF O!Run, O!SplitDates, O!Days
<1>3. t2 =< t1 + 1 /\ t2 >= t1
  BY <1>1 DEF O!ShortestSplit
<1>4. ~(O!Run(O!SplitDates(days).val).last < O!Run(O!SplitDates(days).test).first)
  BY <1>2, <1>3
<1>. QED
  BY <1>4

LEMMA TopType ==
  ASSUME IsSeq(candidates)
  PROVE  O!Top = IF 3 =< Len(candidates) THEN 3 ELSE Len(candidates)
<1>1. Len(candidates) \in Nat
  BY DEF IsSeq
<1>2. O!Top = Min({3, Len(candidates)})
  BY SameOperators DEF O!Top, O!Best
<1>. QED
  BY <1>1, <1>2, MinOfTwo

\* The candidate at place n has n - 1 before it.
LEMMA RankedIsInPlace ==
  ASSUME IsSeq(candidates), \A i \in DOMAIN candidates : candidates[i].objective \in Int,
         NEW n \in 1 .. Len(candidates)
  PROVE  /\ O!Ranked(n) \in DOMAIN candidates
         /\ Cardinality({i \in DOMAIN candidates :
              candidates[i].objective > candidates[O!Ranked(n)].objective}) < n
<1>. DEFINE i == O!Ranked(n)
            better == {j \in DOMAIN candidates :
                         \/ candidates[j].objective > candidates[i].objective
                         \/ candidates[j].objective = candidates[i].objective /\ j < i}
            higher == {j \in DOMAIN candidates : candidates[j].objective > candidates[i].objective}
<1>1. i \in DOMAIN candidates /\ O!Rank(i) = n
  BY PlacesAreTaken DEF O!Ranked
<1>2. n = 1 + Cardinality(better)
  BY <1>1, SameOperators DEF O!Rank
<1>3. IsFiniteSet(DOMAIN candidates)
  <2>1. DOMAIN candidates = 1 .. Len(candidates) /\ Len(candidates) \in Nat
    BY DEF IsSeq
  <2>2. PICK k \in Nat : k = Len(candidates)
    BY <2>1
  <2>3. IsFiniteSet(1 .. k)
    BY FirstNumbers
  <2>. QED
    BY <2>1, <2>2, <2>3
<1>4. higher \subseteq better /\ better \subseteq DOMAIN candidates
  OBVIOUS
<1>. HIDE DEF i, better, higher
<1>5. /\ IsFiniteSet(better) /\ Cardinality(higher) =< Cardinality(better)
      /\ Cardinality(better) \in Nat /\ Cardinality(higher) \in Nat
  BY <1>3, <1>4, FS_Subset, FS_CardinalityType
<1>6. Cardinality(higher) < n
  BY <1>2, <1>5
<1>. QED
  BY <1>1, <1>6 DEF i, higher

LEMMA TestBestKeepsSearch ==
  ASSUME SearchInv, O!TestBest
  PROVE  SearchInv'
<1>1. /\ O!Searching("grid") /\ Len(candidates) = Len(search.combos)
      /\ search.holdOut => ~O!IsContaminated(O!Split)
      /\ tested' = tested + 1
      /\ search' = IF tested' = O!Top THEN Nothing ELSE search
      /\ UNCHANGED <<candidates, seen>>
  BY DEF O!TestBest
<1>2. /\ GridInv /\ IsSeq(candidates) /\ IsSeq(store) /\ search.days \in Nat /\ tested \in Nat
      /\ search.combos \in Samples
  BY <1>1 DEF SearchInv, O!Searching
<1>3. /\ Len(candidates) \in Nat /\ Len(candidates) > 0
      /\ O!Top = IF 3 =< Len(candidates) THEN 3 ELSE Len(candidates)
  BY <1>1, <1>2, SampleType, TopType
<1>4. tested < O!Top /\ tested + 1 \in 1 .. Len(candidates)
  BY <1>2, <1>3 DEF GridInv
<1>. DEFINE c == candidates[O!Ranked(tested + 1)]
            tests == IF search.holdOut
                     THEN <<[seen |-> seen, days |-> O!Run(O!Split.test)]>> ELSE <<>>
<1>5. Cardinality({i \in DOMAIN candidates : candidates[i].objective > c.objective}) < tested + 1
  BY <1>2, <1>4, RankedIsInPlace DEF GridInv
<1>6. PICK again \in Results :
        store' = Append(store, O!ExperimentRecord(c.params, c.objective, c.val.trades,
                                                  O!QuickRobustness(again), tests))
  BY DEF O!TestBest
<1>7. PICK e : e = O!ExperimentRecord(c.params, c.objective, c.val.trades,
                                      O!QuickRobustness(again), tests)
  OBVIOUS
<1>8. e.days = search.days /\ e.tests = tests /\ e.objective = c.objective
  BY <1>7 DEF O!ExperimentRecord
<1>9. Unseen(e)
  <2>. SUFFICES ASSUME NEW i \in DOMAIN tests
                PROVE  /\ (\A r \in tests[i].seen : r.last < tests[i].days.first)
                            <=> search.days >= O!ShortestSplit
                       /\ \A j \in 1..(i - 1) : tests[j].days.last < tests[i].days.first
    BY <1>8 DEF Unseen
  <2>1. /\ i = 1 /\ tests[i].seen = seen
        /\ tests[i].days = O!Run(O!SplitDates(search.days).test)
    BY DEF O!Split
  <2>2. seen = {O!Run(O!SplitDates(search.days).train), O!Run(O!SplitDates(search.days).val)}
    BY <1>2, <1>3, EmptyIsSeq DEF GridInv, O!Split
  <2>3. search.days >= O!ShortestSplit =>
          /\ O!Run(O!SplitDates(search.days).train).last < O!Run(O!SplitDates(search.days).test).first
          /\ O!Run(O!SplitDates(search.days).val).last < O!Run(O!SplitDates(search.days).test).first
    BY <1>2, SplitIsApart
  <2>4. ~(search.days >= O!ShortestSplit) =>
          \E r \in seen : ~(r.last < O!Run(O!SplitDates(search.days).test).first)
    BY <1>2, <2>2, ShortSplitIsSeen
  <2>. HIDE DEF tests
  <2>. QED
    BY <2>1, <2>2, <2>3, <2>4
<1>10. /\ IsSeq(store)' /\ O!TestDaysAreUnseen'
       /\ store'[Len(store')] = e
  <2>1. store' = Append(store, e)
    BY <1>6, <1>7
  <2>. QED
    BY <1>9, <2>1, StoreKeeps
<1>11. O!BestAreTested'
  <2>1. Cardinality({i \in DOMAIN candidates :
          candidates[i].objective > store'[Len(store')].objective}) < tested + 1
    BY <1>5, <1>8, <1>10
  <2>. QED
    BY <1>1, <2>1, SameOperators DEF O!BestAreTested
<1>12. O!Searching("grid")' => GridInv'
  <2>. SUFFICES ASSUME O!Searching("grid")' PROVE GridInv'
    OBVIOUS
  <2>1. search' = search /\ tested + 1 # O!Top
    BY <1>1 DEF O!Searching
  <2>2. O!Split' = O!Split /\ O!Top' = O!Top
    BY <1>1, <2>1 DEF O!Split, O!Top
  <2>3. tested' < O!Top
    BY <1>1, <1>2, <1>3, <1>4, <2>1
  <2>. QED
    BY <1>1, <1>2, <2>1, <2>2, <2>3 DEF GridInv
<1>13. ~O!Searching("walk")'
  BY <1>1 DEF O!Searching
<1>14. search' # Nothing => search'.days \in Nat /\ search'.combos \in Samples
  BY <1>1, <1>2
<1>. QED
  BY <1>1, <1>2, <1>10, <1>11, <1>12, <1>13, <1>14 DEF SearchInv, IsSeq

\* The days of a window: those it is tested on follow those it is trained on,
\* and Run extends neither.
LEMMA WindowDays ==
  ASSUME NEW days \in Nat, NEW k \in Nat, k + 1 =< Len(O!Windows(days))
  PROVE  /\ O!Run(O!Windows(days)[k + 1].train).last = LastTrained(k + 1)
         /\ O!Run(O!Windows(days)[k + 1].test) =
              O!Days(LastTrained(k + 1) + 1, LastTrained(k + 1) + O!TestDays)
<1>1. PICK n \in Nat : n = IF days < O!TrainDays + O!TestDays THEN 0
                           ELSE (days - O!TrainDays - O!TestDays) \div O!StepDays + 1
  BY DEF O!TrainDays, O!TestDays, O!StepDays
<1>2. O!Windows(days) = [ i \in 1 .. n |->
        [ train |-> O!Days((i - 1) * O!StepDays, (i - 1) * O!StepDays + O!TrainDays),
          test |-> O!Days((i - 1) * O!StepDays + O!TrainDays + 1,
                          (i - 1) * O!StepDays + O!TrainDays + O!TestDays) ] ]
  BY <1>1 DEF O!Windows
<1>3. Len(O!Windows(days)) = n
  BY <1>2
<1>4. k + 1 \in 1 .. n
  BY <1>3
<1>5. O!Windows(days)[k + 1] =
        [ train |-> O!Days(k * O!StepDays, k * O!StepDays + O!TrainDays),
          test |-> O!Days(k * O!StepDays + O!TrainDays + 1,
                          k * O!StepDays + O!TrainDays + O!TestDays) ]
  BY <1>2, <1>4
<1>. QED
  BY <1>5 DEF O!Run, O!Days, LastTrained, O!TrainDays, O!TestDays, O!StepDays

LEMMA AdvanceKeepsSearch ==
  ASSUME SearchInv, O!AdvanceWindow
  PROVE  SearchInv'
<1>. DEFINE n == Len(candidates)
            w == O!Windows(search.days)[n + 1]
<1>1. /\ O!Searching("walk") /\ n < Len(O!Windows(search.days))
      /\ seen' = seen \cup {O!Run(w.train)}
      /\ UNCHANGED <<search, tested, store>>
  BY DEF O!AdvanceWindow
<1>2. /\ WalkInv /\ IsSeq(candidates) /\ IsSeq(store) /\ search.days \in Nat
      /\ search.combos \in Samples /\ n \in Nat
  BY <1>1 DEF SearchInv, O!Searching, IsSeq
<1>3. PICK c : /\ candidates' = Append(candidates, c)
               /\ c.days = O!Run(w.test) /\ c.seen = seen'
  <2>1. \E p, score, trades :
          candidates' = Append(candidates,
            [ params |-> p, score |-> score, trades |-> trades, days |-> O!Run(w.test),
              seen |-> seen' ])
    BY DEF O!AdvanceWindow
  <2>. HIDE DEF w
  <2>. QED
    BY <2>1
<1>4. PICK s : s = Append(candidates, c)
  OBVIOUS
<1>5. /\ IsSeq(s) /\ Len(s) = n + 1 /\ DOMAIN s = 1 .. n + 1 /\ DOMAIN candidates = 1 .. n
      /\ \A i \in 1 .. n : s[i] = candidates[i]
      /\ s[n + 1] = c
  BY <1>2, <1>4, AppendFacts
<1>6. candidates' = s
  BY <1>3, <1>4
<1>7. n + 1 =< Len(O!Windows(search.days))
  <2>1. Len(O!Windows(search.days)) \in Nat
    BY <1>2 DEF O!Windows, O!TrainDays, O!TestDays, O!StepDays
  <2>. QED
    BY <1>1, <1>2, <2>1
<1>8. /\ O!Run(w.train).last = LastTrained(n + 1)
      /\ c.days = O!Days(LastTrained(n + 1) + 1, LastTrained(n + 1) + O!TestDays)
  BY <1>2, <1>3, <1>7, WindowDays
<1>. HIDE DEF n, w
<1>9. LastTrained(n + 1) \in Int /\ LastTrained(n) =< LastTrained(n + 1) /\ LastTrained(n) \in Int
  BY <1>2 DEF LastTrained, O!StepDays, O!TrainDays
<1>10. \A r \in seen' : r.last \in Int /\ r.last =< LastTrained(n + 1)
  BY <1>1, <1>2, <1>8, <1>9 DEF WalkInv, n
<1>11. ASSUME NEW i \in DOMAIN candidates'
       PROVE  /\ candidates'[i].days = O!Days(LastTrained(i) + 1, LastTrained(i) + O!TestDays)
              /\ \A r \in candidates'[i].seen : r.last \in Int /\ r.last =< LastTrained(i)
  <2>1. CASE i \in 1 .. n
    BY <1>2, <1>5, <1>6, <2>1 DEF WalkInv
  <2>2. CASE i = n + 1
    BY <1>3, <1>5, <1>6, <1>8, <1>10, <2>2
  <2>3. i \in 1 .. n \/ i = n + 1
    BY <1>2, <1>5, <1>6
  <2>. QED
    BY <2>1, <2>2, <2>3
<1>12. WalkInv'
  BY <1>5, <1>6, <1>10, <1>11 DEF WalkInv, LastTrained
<1>13. ~O!Searching("grid")'
  BY <1>1 DEF O!Searching
<1>14. O!TestDaysAreUnseen' /\ O!BestAreTested'
  BY <1>1, <1>13 DEF SearchInv, O!TestDaysAreUnseen, O!BestAreTested
<1>. QED
  BY <1>1, <1>2, <1>5, <1>6, <1>12, <1>13, <1>14 DEF SearchInv, IsSeq

LEMMA RecordKeepsSearch ==
  ASSUME SearchInv, O!RecordWalkForward
  PROVE  SearchInv'
<1>1. /\ O!Searching("walk") /\ search' = Nothing
      /\ UNCHANGED <<candidates, tested, seen>>
  BY DEF O!RecordWalkForward
<1>2. WalkInv /\ IsSeq(candidates) /\ tested \in Nat
  BY <1>1 DEF SearchInv
<1>3. PICK e : /\ store' = Append(store, e) /\ e.days = search.days
               /\ e.tests = [i \in DOMAIN candidates |->
                               [seen |-> candidates[i].seen, days |-> candidates[i].days]]
  <2>. DEFINE tests == [i \in DOMAIN candidates |->
                          [seen |-> candidates[i].seen, days |-> candidates[i].days]]
  <2>1. \E p, objective, trades, robustness :
          store' = Append(store,
            O!ExperimentRecord(p, objective, trades, robustness, tests))
    BY DEF O!RecordWalkForward
  <2>. HIDE DEF tests
  <2>2. \A p, objective, trades, robustness :
          /\ O!ExperimentRecord(p, objective, trades, robustness, tests).tests = tests
          /\ O!ExperimentRecord(p, objective, trades, robustness, tests).days = search.days
    BY DEF O!ExperimentRecord
  <2>3. PICK p, objective, trades, robustness :
          store' = Append(store,
            O!ExperimentRecord(p, objective, trades, robustness, tests))
    BY <2>1
  <2>4. PICK e : e = O!ExperimentRecord(p, objective, trades, robustness, tests)
    OBVIOUS
  <2>5. store' = Append(store, e) /\ e.tests = tests /\ e.days = search.days
    BY <2>2, <2>3, <2>4
  <2>. QED
    BY <2>5 DEF tests
<1>4. Unseen(e)
  <2>. SUFFICES ASSUME NEW i \in DOMAIN candidates
                PROVE  /\ (\A r \in candidates[i].seen : r.last < candidates[i].days.first)
                            <=> search.days >= O!ShortestSplit
                       /\ \A j \in 1..(i - 1) : candidates[j].days.last < candidates[i].days.first
    BY <1>2, <1>3 DEF Unseen, IsSeq
  <2>1. DOMAIN candidates = 1 .. Len(candidates) /\ Len(candidates) \in Nat
    BY <1>2 DEF IsSeq
  <2>0. \A k \in DOMAIN candidates : /\ candidates[k].days.first = LastTrained(k) + 1
                                     /\ candidates[k].days.last = LastTrained(k) + O!TestDays
    <3>1. \A k \in DOMAIN candidates :
            candidates[k].days = O!Days(LastTrained(k) + 1, LastTrained(k) + O!TestDays)
      BY <1>2 DEF WalkInv
    <3>2. \A a, b : O!Days(a, b).first = a /\ O!Days(a, b).last = b
      BY DEF O!Days
    <3>. QED
      BY <3>1, <3>2
  <2>2. LastTrained(i) \in Int /\ candidates[i].days.first = LastTrained(i) + 1
    BY <2>0, <2>1 DEF LastTrained, O!StepDays, O!TrainDays
  <2>3. ASSUME NEW r \in candidates[i].seen
        PROVE  r.last < candidates[i].days.first
    <3>1. r.last \in Int /\ r.last =< LastTrained(i)
      BY <1>2 DEF WalkInv
    <3>. QED
      BY <2>2, <3>1
  <2>4. ASSUME NEW j \in 1..(i - 1)
        PROVE  candidates[j].days.last < candidates[i].days.first
    <3>1. candidates[j].days.last = LastTrained(j) + O!TestDays
      BY <2>0, <2>1
    <3>2. LastTrained(j) + O!TestDays < LastTrained(i) + 1
      BY <2>1 DEF LastTrained, O!StepDays, O!TrainDays, O!TestDays
    <3>. QED
      BY <2>2, <3>1, <3>2
  <2>5. search.days >= O!ShortestSplit
    <3>1. /\ Len(candidates) = Len(O!Windows(search.days)) /\ search.days \in Nat
          /\ Len(candidates) > 0
      BY <1>1, <2>1 DEF O!RecordWalkForward, SearchInv, O!Searching
    <3>2. search.days < O!TrainDays + O!TestDays => O!Windows(search.days) = <<>>
      BY <3>1 DEF O!Windows
    <3>. QED
      BY <3>1, <3>2, EmptyIsSeq DEF O!TrainDays, O!TestDays, O!ShortestSplit
  <2>. QED
    BY <2>3, <2>4, <2>5
<1>5. IsSeq(store)' /\ O!TestDaysAreUnseen'
  BY <1>3, <1>4, StoreKeeps
<1>6. ~O!Searching("grid")' /\ ~O!Searching("walk")'
  BY <1>1 DEF O!Searching
<1>7. O!BestAreTested'
  BY <1>6 DEF O!BestAreTested
<1>. QED
  BY <1>1, <1>2, <1>5, <1>6, <1>7 DEF SearchInv, IsSeq

\* A test is made with the best candidates, and on days none of the choices were made on
\* if the period has 8 days or more and only then, whatever the samples, the results and
\* the periods are and wherever a search stops (run_grid, WalkForwardOptimizer).
THEOREM TestsAreHonest == O!Spec => []TestIsHonest
<1>1. O!Init => SearchInv
  <2>. SUFFICES ASSUME O!Init PROVE SearchInv
    OBVIOUS
  <2>1. /\ search = Nothing /\ candidates = <<>> /\ tested = 0 /\ store = <<>>
    BY DEF O!Init
  <2>2. O!TestDaysAreUnseen
    BY <2>1, SameOperators DEF O!TestDaysAreUnseen, ToSet
  <2>. QED
    BY <2>1, <2>2, EmptyIsSeq DEF SearchInv, O!Searching, O!BestAreTested
<1>2. SearchInv /\ [O!Next]_(O!vars) => SearchInv'
  <2>. SUFFICES ASSUME SearchInv, [O!Next]_(O!vars) PROVE SearchInv'
    OBVIOUS
  <2>1. CASE O!Raise
    <3>1. search' = Nothing /\ UNCHANGED <<candidates, tested, seen, store>>
      BY <2>1 DEF O!Raise
    <3>2. ~O!Searching("grid")' /\ ~O!Searching("walk")'
      BY <3>1 DEF O!Searching
    <3>. QED
      BY <3>1, <3>2 DEF SearchInv, IsSeq, O!TestDaysAreUnseen, O!BestAreTested
  <2>2. CASE UNCHANGED O!vars
    <3>1. UNCHANGED <<search, candidates, tested, seen, store>>
      BY <2>2 DEF O!vars
    <3>. QED
      BY <3>1 DEF SearchInv, IsSeq, O!TestDaysAreUnseen, O!BestAreTested, O!Searching, GridInv,
                  WalkInv, O!Top, O!Split
  <2>. QED
    BY <2>1, <2>2, StartKeepsSearch, EvaluateKeepsSearch, TestBestKeepsSearch,
       AdvanceKeepsSearch, RecordKeepsSearch DEF O!Next
<1>3. SearchInv => TestIsHonest
  BY DEF SearchInv, TestIsHonest, O!TestIsHonest
<1>. QED
  BY <1>1, <1>2, <1>3, PTL DEF O!Spec

-----------------------------------------------------------------------------
\* The stress test.

\* What the simulated defences cover never fails.
LEMMA DefencesCover ==
  ASSUME NEW t
  PROVE  S!Failures(S!Defended(t)) \subseteq S!Undefended
<1>1. PICK s : s = S!Defended(t)
  OBVIOUS
<1>2. s.hazards = t.hazards
  BY <1>1 DEF S!Defended
<1>3. /\ S!In(t, S!Unreliable \cup S!Repeated \cup S!Losing \cup {"noBid", "noAsk"}) =>
           "circuit_breaker" \in s.guards
      /\ S!In(t, S!Repeated) => "idempotency_guard" \in s.guards
      /\ S!In(t, {"uncertain_orders"}) => "suppress_resubmit" \in s.guards
  BY <1>1 DEF S!Defended
<1>4. /\ S!In(t, S!Unreliable) =>
           "badDataTraded" \notin s.harms /\ "expiredTokenUsed" \notin s.harms
      /\ S!In(t, S!Hazards \ {"uncertain_orders", "cannot_close", "overexposed"}) =>
           "new_orders_placed" \notin s.harms
  BY <1>1 DEF S!Defended
<1>5. /\ "duplicate_workers" \in t.hazards => "idempotency_guard" \in s.guards
      /\ "uncertain_orders" \in t.hazards => "suppress_resubmit" \in s.guards
      /\ "deltaExcess" \in t.hazards => "circuit_breaker" \in s.guards
      /\ S!In(t, {"simultaneous_losses", "lossStreak"}) => "circuit_breaker" \in s.guards
      /\ "halted" \in t.hazards => "new_orders_placed" \notin s.harms
      /\ S!In(t, {"data_corrupt", "data_frozen"}) => "badDataTraded" \notin s.harms
      /\ "token_expired" \in t.hazards => "expiredTokenUsed" \notin s.harms
  BY <1>3, <1>4 DEF S!In, S!Unreliable, S!Repeated, S!Losing, S!Hazards
<1>6. ASSUME NEW f \in S!Failures(s), f \notin S!Undefended
      PROVE  FALSE
  <2>. USE <1>6 DEF S!Failures, S!Undefended
  <2>1. f # "workers"
    BY <1>2, <1>5
  <2>2. f # "tradedOnBadData"
    BY <1>2, <1>5 DEF S!In
  <2>3. f # "tradedWhileHalted"
    BY <1>2, <1>5
  <2>4. f # "resubmission"
    BY <1>2, <1>5
  <2>5. f # "expiredToken"
    BY <1>2, <1>5
  <2>6. f # "series"
    BY <1>2, <1>5 DEF S!In
  <2>7. f # "delta"
    BY <1>2, <1>5
  <2>. QED
    BY <2>1, <2>2, <2>3, <2>4, <2>5, <2>6, <2>7
<1>. QED
  BY <1>1, <1>6

LEMMA CannotCloseFails ==
  "pf_cant_close" \in S!CriticalScenarios /\ "unclosable" \in S!RunOne("pf_cant_close")
<1>1. /\ "pf_cant_close" \in DOMAIN S!Raises
      /\ S!Raises["pf_cant_close"] = "cannot_close"
  BY DEF S!Raises
<1>2. PICK s : s = S!Defended(S!Shocked(subject, "pf_cant_close"))
  OBVIOUS
<1>3. "cannot_close" \in s.hazards
  BY <1>1, <1>2 DEF S!Defended, S!Shocked
<1>4. "unclosable" \in S!Failures(s)
  BY <1>3 DEF S!Failures
<1>. QED
  BY <1>1, <1>2, <1>4 DEF S!CriticalScenarios, S!RunOne

\* The verdict of a stress test of all the scenarios.
THEOREM TheVerdictIsForegone == S!Spec => []VerdictIsForegone
<1>1. S!Init => VerdictIsForegone
  BY DEF S!Init, VerdictIsForegone, S!VerdictIsForegone
<1>2. VerdictIsForegone /\ [S!Next]_(S!vars) => VerdictIsForegone'
  <2>. SUFFICES ASSUME VerdictIsForegone, [S!Next]_(S!vars) PROVE VerdictIsForegone'
    OBVIOUS
  <2>1. CASE S!RunAll
    <3>1. \A id \in S!CriticalScenarios : verdict'[id] = S!RunOne(id)
      BY <2>1 DEF S!RunAll
    <3>2. \A id \in S!CriticalScenarios : S!RunOne(id) \subseteq S!Undefended
      BY DefencesCover DEF S!RunOne
    <3>3. (S!BlocksLive)'
      BY <3>1, CannotCloseFails DEF S!BlocksLive, S!FailedCritical
    <3>4. UNION {verdict'[id] : id \in S!CriticalScenarios} \subseteq S!Undefended
      BY <3>1, <3>2
    <3>. QED
      BY <3>3, <3>4 DEF VerdictIsForegone, S!VerdictIsForegone
  <2>2. CASE UNCHANGED S!vars
    BY <2>2 DEF S!vars, VerdictIsForegone, S!VerdictIsForegone, S!BlocksLive, S!FailedCritical
  <2>. QED
    BY <2>1, <2>2 DEF S!Next
<1>. QED
  BY <1>1, <1>2, PTL DEF S!Spec
=============================================================================
