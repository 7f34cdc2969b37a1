-------------------------- MODULE TradingCycleProofs --------------------------
(***************************************************************************)
(* Theorems about the trading cycle, for any contracts and expirations,    *)
(* any limits and any number of resting orders.                            *)
(***************************************************************************)
EXTENDS TradingCycle, TLAPS

-----------------------------------------------------------------------------
\* Types.  What process_pending still has ahead of it rests in the book: that
\* is why FillResting finds an order.
RetriesRest == retries \subseteq Pending

TypesInv == TypeOK /\ RetriesRest

\* A quote fills at least one contract and at most what the order wants.
LEMMA FillsFacts ==
  ASSUME NEW wanted \in Nat \ {0}, NEW n \in Fills(wanted)
  PROVE  n \in Nat \ {0} /\ n <= wanted
  BY MarketAssumption DEF Fills

\* A trade keeps the types of the account.
LEMMA TradeTypes ==
  ASSUME TypeOK, NEW s \in Symbols, NEW side, NEW n \in Nat, NEW wanted,
         Trade(s, side, n, wanted)
  PROVE  /\ positions' \in [Symbols -> Int] /\ trades' \in 0..MaxDailyTrades
         /\ split' \subseteq Symbols
<1>1. positions' \in [Symbols -> Int]
  BY DEF TypeOK, Trade
<1>2. trades' \in 0..MaxDailyTrades
  BY LimitsAssumption DEF TypeOK, Trade
<1>3. split' \subseteq Symbols
  BY DEF TypeOK, Trade
<1>. QED
  BY <1>1, <1>2, <1>3

\* An order is added to the book in a slot that was free, and no order leaves it.
LEMMA RestTypes ==
  ASSUME TypeOK, NEW s \in Symbols, NEW side \in {"BUY", "SELL"}, NEW left \in Nat \ {0},
         Rest(s, side, left)
  PROVE  resting' \in [Slots -> Order \cup {NoOrder}] /\ Pending \subseteq Pending'
<1>. DEFINE order == [symbol |-> s, side |-> side, left |-> left]
<1>1. order \in Order
  BY DEF Order
<1>. HIDE DEF order
<1>2. PICK k \in Slots \ Pending : resting' = [resting EXCEPT ![k] = order]
  BY DEF Rest, order
<1>3. resting' \in [Slots -> Order \cup {NoOrder}]
  BY <1>1, <1>2 DEF TypeOK
<1>4. \A j \in Pending : resting'[j] = resting[j]
  BY <1>2 DEF TypeOK, Pending
<1>. QED
  BY <1>3, <1>4 DEF Pending

\* A market order that matches, as a whole or in part.
LEMMA ExecuteTypes ==
  ASSUME TypeOK, NEW s \in Symbols, NEW side \in {"BUY", "SELL"}, NEW wanted \in Nat \ {0},
         Execute(s, side, wanted)
  PROVE  /\ positions' \in [Symbols -> Int] /\ trades' \in 0..MaxDailyTrades
         /\ split' \subseteq Symbols
         /\ resting' \in [Slots -> Order \cup {NoOrder}] /\ Pending \subseteq Pending'
<1>1. PICK n \in Fills(wanted) :
        /\ Trade(s, side, n, wanted)
        /\ \/ n = wanted /\ UNCHANGED resting
           \/ n < wanted /\ Rest(s, side, wanted - n)
  BY DEF Execute
<1>2. n \in Nat \ {0} /\ n <= wanted
  BY FillsFacts
<1>3. /\ positions' \in [Symbols -> Int] /\ trades' \in 0..MaxDailyTrades
      /\ split' \subseteq Symbols
  BY <1>1, <1>2, TradeTypes
<1>4. CASE UNCHANGED resting
  BY <1>3, <1>4 DEF TypeOK, Pending
<1>5. CASE n < wanted /\ Rest(s, side, wanted - n)
  <2>1. wanted - n \in Nat \ {0}
    BY <1>2, <1>5
  <2>. QED
    BY <1>3, <1>5, <2>1, RestTypes
<1>. QED
  BY <1>1, <1>4, <1>5

\* One step of process_pending fills the order in slot k and no other.
LEMMA FillRestingFacts ==
  ASSUME TypesInv, NEW k \in Slots, FillResting(k)
  PROVE  /\ k \in Pending /\ resting[k] \in Order
         /\ \E n \in Fills(resting[k].left) :
              /\ n \in Nat \ {0}
              /\ Trade(resting[k].symbol, resting[k].side, n, resting[k].left)
              /\ resting[k].side = "SELL" => positions[resting[k].symbol] # 0
              /\ resting' = [resting EXCEPT ![k] = Remainder(resting[k], n)]
              /\ Remainder(resting[k], n) \in Order \cup {NoOrder}
<1>1. k \in Pending /\ resting[k] \in Order
  BY DEF TypesInv, TypeOK, RetriesRest, FillResting, Pending
<1>. DEFINE order == resting[k]
<1>2. order \in Order
  BY <1>1
<1>3. PICK n \in Fills(order.left) :
        /\ order.side = "SELL" => positions[order.symbol] # 0
        /\ Trade(order.symbol, order.side, n, order.left)
        /\ resting' = [resting EXCEPT ![k] = Remainder(order, n)]
  BY DEF FillResting
<1>. HIDE DEF order
<1>4. order.left \in Nat \ {0}
  BY <1>2 DEF Order
<1>5. n \in Nat \ {0} /\ n <= order.left
  BY <1>4, FillsFacts
<1>6. Remainder(order, n) \in Order \cup {NoOrder}
  BY <1>2, <1>4, <1>5 DEF Order, Remainder
<1>. QED
  BY <1>1, <1>3, <1>5, <1>6 DEF order

\* The types hold initially.
LEMMA TypesInitially == Init => TypesInv
<1>. SUFFICES ASSUME Init PROVE TypesInv
  OBVIOUS
<1>1. day \in 0..MaxDay /\ trades \in 0..MaxDailyTrades
  BY LimitsAssumption, BoundAssumption DEF Init
<1>2. /\ positions \in [Symbols -> Int]
      /\ resting \in [Slots -> Order \cup {NoOrder}]
  BY DEF Init
<1>. QED
  BY <1>1, <1>2 DEF Init, TypesInv, TypeOK, RetriesRest, Phases

\* TypeOK, and what the retries have ahead of them, hold in every reachable state.
THEOREM Types == Spec => []TypesInv
<1>1. Init => TypesInv
  BY TypesInitially
<1>2. TypesInv /\ [Next]_vars => TypesInv'
  <2>. SUFFICES ASSUME TypesInv, [Next]_vars PROVE TypesInv'
    OBVIOUS
  <2>. USE DEF TypesInv
  <2>1. CASE StartCycle
    BY <2>1 DEF StartCycle, TypeOK, RetriesRest, Pending, Phases, account
  <2>2. ASSUME NEW k \in Slots, PassOver(k) PROVE TypesInv'
    BY <2>2 DEF PassOver, TypeOK, RetriesRest, Pending, account
  <2>3. ASSUME NEW k \in Slots, FillResting(k) PROVE TypesInv'
    <3>1. PICK n \in Fills(resting[k].left) :
            /\ n \in Nat \ {0}
            /\ Trade(resting[k].symbol, resting[k].side, n, resting[k].left)
            /\ resting' = [resting EXCEPT ![k] = Remainder(resting[k], n)]
            /\ Remainder(resting[k], n) \in Order \cup {NoOrder}
      BY <2>3, FillRestingFacts
    <3>2. resting[k].symbol \in Symbols
      BY <2>3, FillRestingFacts DEF Order
    <3>3. /\ positions' \in [Symbols -> Int] /\ trades' \in 0..MaxDailyTrades
          /\ split' \subseteq Symbols
      BY <3>1, <3>2, TradeTypes
    <3>4. resting' \in [Slots -> Order \cup {NoOrder}]
      BY <3>1 DEF TypeOK
    <3>5. retries' \subseteq Slots /\ retries' \subseteq Pending'
      BY <2>3, <3>1 DEF FillResting, TypeOK, RetriesRest, Pending
    <3>. QED
      BY <2>3, <3>3, <3>4, <3>5 DEF FillResting, TypeOK, RetriesRest
  <2>4. ASSUME NEW k \in Slots, AbortOnResting(k) PROVE TypesInv'
    BY <2>4 DEF AbortOnResting, TypeOK, RetriesRest, Pending, Phases, account
  <2>5. CASE AfterRetries
    BY <2>5 DEF AfterRetries, TypeOK, RetriesRest, Pending, Phases, account, Expiring, Held
  <2>6. ASSUME NEW s \in Symbols, CloseAtMarket(s) PROVE TypesInv'
    <3>1. positions[s] \in Nat \ {0} /\ Execute(s, "SELL", positions[s])
      BY <2>6 DEF CloseAtMarket, TypeOK
    <3>2. /\ positions' \in [Symbols -> Int] /\ trades' \in 0..MaxDailyTrades
          /\ split' \subseteq Symbols
          /\ resting' \in [Slots -> Order \cup {NoOrder}] /\ Pending \subseteq Pending'
      BY <3>1, ExecuteTypes
    <3>. QED
      BY <2>6, <3>2 DEF CloseAtMarket, Closing, TypeOK, RetriesRest
  <2>7. ASSUME NEW s \in Symbols, CloseAtLimit(s) PROVE TypesInv'
    <3>1. positions[s] \in Nat \ {0} /\ Rest(s, "SELL", positions[s])
      BY <2>7 DEF CloseAtLimit, TypeOK
    <3>2. resting' \in [Slots -> Order \cup {NoOrder}] /\ Pending \subseteq Pending'
      BY <3>1, RestTypes
    <3>. QED
      BY <2>7, <3>2 DEF CloseAtLimit, Closing, TypeOK, RetriesRest
  <2>8. ASSUME NEW s \in Symbols, CloseFails(s) PROVE TypesInv'
    BY <2>8 DEF CloseFails, Closing, TypeOK, RetriesRest, Pending, account
  <2>9. CASE AfterClosing
    BY <2>9 DEF AfterClosing, TypeOK, RetriesRest, Pending, Phases, account, Held
  <2>10. ASSUME NEW s \in Symbols, Exit(s) PROVE TypesInv'
    <3>1. CASE UNCHANGED account
      BY <2>10, <3>1 DEF Exit, TypeOK, RetriesRest, Pending, account
    <3>2. CASE positions[s] > 0 /\ Execute(s, "SELL", positions[s])
      <4>1. positions[s] \in Nat \ {0}
        BY <3>2 DEF TypeOK
      <4>2. /\ positions' \in [Symbols -> Int] /\ trades' \in 0..MaxDailyTrades
            /\ split' \subseteq Symbols
            /\ resting' \in [Slots -> Order \cup {NoOrder}] /\ Pending \subseteq Pending'
        BY <3>2, <4>1, ExecuteTypes
      <4>. QED
        BY <2>10, <4>2 DEF Exit, TypeOK, RetriesRest
    <3>. QED
      BY <2>10, <3>1, <3>2 DEF Exit
  <2>11. CASE AfterExits
    BY <2>11 DEF AfterExits, TypeOK, RetriesRest, Pending, Phases, account
  <2>12. CASE NoEntry
    BY <2>12 DEF NoEntry, TypeOK, RetriesRest, Pending, Phases, account
  <2>13. ASSUME NEW s \in Symbols, NEW quantity \in 1..MaxQuantity, Enter(s, quantity)
         PROVE TypesInv'
    <3>1. CASE UNCHANGED account
      BY <2>13, <3>1 DEF Enter, TypeOK, RetriesRest, Pending, Phases, account
    <3>2. CASE Execute(s, "BUY", quantity)
      <4>1. quantity \in Nat \ {0}
        BY BoundAssumption
      <4>2. /\ positions' \in [Symbols -> Int] /\ trades' \in 0..MaxDailyTrades
            /\ split' \subseteq Symbols
            /\ resting' \in [Slots -> Order \cup {NoOrder}] /\ Pending \subseteq Pending'
        BY <3>2, <4>1, ExecuteTypes
      <4>. QED
        BY <2>13, <4>2 DEF Enter, TypeOK, RetriesRest, Phases
    <3>. QED
      BY <2>13, <3>1, <3>2 DEF Enter
  <2>14. ASSUME NEW s \in Symbols, NEW quantity \in 1..(MaxQuantity * MaxDailyTrades),
                ClosePosition(s, quantity)
         PROVE TypesInv'
    <3>1. quantity \in Nat \ {0}
      <4>1. MaxQuantity * MaxDailyTrades \in Nat
        BY BoundAssumption, LimitsAssumption
      <4>. QED
        BY <4>1
    <3>2. /\ positions' \in [Symbols -> Int] /\ trades' \in 0..MaxDailyTrades
          /\ split' \subseteq Symbols
          /\ resting' \in [Slots -> Order \cup {NoOrder}] /\ Pending \subseteq Pending'
      BY <2>14, <3>1, ExecuteTypes DEF ClosePosition
    <3>. QED
      BY <2>14, <3>2 DEF ClosePosition, TypeOK, RetriesRest, progress
  <2>15. CASE EmergencyStop
    BY <2>15 DEF EmergencyStop, TypeOK, RetriesRest, Pending, account, progress
  <2>16. CASE TimePasses
    BY <2>16, BoundAssumption DEF TimePasses, TypeOK, RetriesRest, Pending, account, progress
  <2>17. CASE UNCHANGED vars
    BY <2>17 DEF vars, TypeOK, RetriesRest, Pending, account, progress
  <2>. HIDE DEF TypesInv
  <2>. QED
    BY <2>1, <2>2, <2>3, <2>4, <2>5, <2>6, <2>7, <2>8, <2>9, <2>10, <2>11, <2>12, <2>13,
       <2>14, <2>15, <2>16, <2>17 DEF Next, Cycle, User
<1>. QED
  BY <1>1, <1>2, PTL DEF Spec

\* Every variable keeps its type, whatever the market fills and the user closes.
THEOREM TypeCorrect == Spec => []TypeOK
<1>1. TypesInv => TypeOK
  BY DEF TypesInv
<1>. QED
  BY <1>1, Types, PTL

-----------------------------------------------------------------------------
(***************************************************************************)
(* Short positions only where an order was filled, or a position sold, in  *)
(* part.  Elsewhere a sell at the market takes the whole position.  A sell *)
(* that rests is for the whole position too, and stays so: the contract is *)
(* too close to its expiration to be bought (DaysAssumption), so the       *)
(* position can only be sold, and after that the resting sell raises       *)
(* instead of executing.                                                   *)
(***************************************************************************)

\* The closer only gets to positions that expire soon, and days do not pass
\* while it works.
ClosingExpires ==
  phase = "close" => \A s \in todo : DaysToExpiration(s) <= ForceExitDays

ShortsInv == TypesInv /\ ShortsNeedASplit /\ RestingIsForcedExit /\ ClosingExpires

\* What a trade leaves alone, and that it is for the whole of the order and of
\* the position unless it splits the contract.
LEMMA TradeFacts ==
  ASSUME TypeOK, NEW s \in Symbols, NEW side \in {"BUY", "SELL"}, NEW n \in Nat \ {0},
         NEW wanted \in Nat \ {0}, n <= wanted, Trade(s, side, n, wanted)
  PROVE  /\ \A c \in Symbols : c # s => positions'[c] = positions[c]
         /\ side = "BUY" => positions'[s] = positions[s] + n
         /\ side = "SELL" => positions'[s] = positions[s] - n
         /\ split \subseteq split' /\ split' \subseteq split \cup {s}
         /\ s \notin split' => n = wanted /\ (side = "SELL" => n >= positions[s])
<1>1. /\ \A c \in Symbols : c # s => positions'[c] = positions[c]
      /\ side = "BUY" => positions'[s] = positions[s] + n
      /\ side = "SELL" => positions'[s] = positions[s] - n
  BY DEF TypeOK, Trade
<1>2. split \subseteq split' /\ split' \subseteq split \cup {s}
  BY DEF Trade
<1>3. ASSUME s \notin split' PROVE n = wanted /\ (side = "SELL" => n >= positions[s])
  <2>1. ~(n < wanted) /\ ~(side = "SELL" /\ n < positions[s])
    BY <1>3 DEF Trade
  <2>2. positions[s] \in Int
    BY DEF TypeOK
  <2>. QED
    BY <2>1, <2>2
<1>. QED
  BY <1>1, <1>2, <1>3

\* The book after an order was added: the new one is the only one that differs.
LEMMA RestFacts ==
  ASSUME TypeOK, NEW s, NEW side, NEW left, Rest(s, side, left), NEW k \in Pending'
  PROVE  \/ k \in Pending /\ resting'[k] = resting[k]
         \/ k \notin Pending /\ resting'[k] = [symbol |-> s, side |-> side, left |-> left]
  BY DEF Rest, Pending, TypeOK

\* A market order that matches: n contracts are traded, and what rests is as
\* before but for the rest of this order.
LEMMA ExecuteFacts ==
  ASSUME TypeOK, NEW s \in Symbols, NEW side \in {"BUY", "SELL"}, NEW wanted \in Nat \ {0},
         Execute(s, side, wanted)
  PROVE  /\ \E n \in Nat \ {0} : n <= wanted /\ Trade(s, side, n, wanted)
         /\ \A k \in Pending' :
              \/ k \in Pending /\ resting'[k] = resting[k]
              \/ k \notin Pending /\ s \in split' /\ resting'[k].symbol = s /\ resting'[k].side = side
<1>1. PICK n \in Fills(wanted) :
        /\ Trade(s, side, n, wanted)
        /\ \/ n = wanted /\ UNCHANGED resting
           \/ n < wanted /\ Rest(s, side, wanted - n)
  BY DEF Execute
<1>2. n \in Nat \ {0} /\ n <= wanted
  BY FillsFacts
<1>3. ASSUME NEW k \in Pending'
      PROVE  \/ k \in Pending /\ resting'[k] = resting[k]
             \/ k \notin Pending /\ s \in split' /\ resting'[k].symbol = s /\ resting'[k].side = side
  <2>1. CASE UNCHANGED resting
    BY <1>3, <2>1 DEF Pending
  <2>2. CASE n < wanted /\ Rest(s, side, wanted - n)
    <3>1. s \in split'
      BY <1>1, <2>2 DEF Trade
    <3>2. \/ k \in Pending /\ resting'[k] = resting[k]
          \/ k \notin Pending /\ resting'[k] = [symbol |-> s, side |-> side, left |-> wanted - n]
      BY <1>3, <2>2, RestFacts
    <3>. QED
      BY <3>1, <3>2
  <2>. QED
    BY <1>1, <2>1, <2>2
<1>. QED
  BY <1>1, <1>2, <1>3

\* A step that touches neither account nor day keeps both.
LEMMA AccountUntouched ==
  ASSUME ShortsNeedASplit, RestingIsForcedExit, UNCHANGED <<day, account>>
  PROVE  ShortsNeedASplit' /\ RestingIsForcedExit'
  BY DEF ShortsNeedASplit, RestingIsForcedExit, IsForcedExit, Pending, DaysToExpiration, account

\* Selling at the market what the position covers.
LEMMA SellingIsSafe ==
  ASSUME TypeOK, ShortsNeedASplit, RestingIsForcedExit, NEW s \in Symbols,
         NEW wanted \in Nat \ {0}, wanted <= positions[s],
         Execute(s, "SELL", wanted), UNCHANGED day
  PROVE  ShortsNeedASplit' /\ RestingIsForcedExit'
<1>1. PICK n \in Nat \ {0} : n <= wanted /\ Trade(s, "SELL", n, wanted)
  BY ExecuteFacts
<1>2. /\ \A c \in Symbols : c # s => positions'[c] = positions[c]
      /\ positions'[s] = positions[s] - n
      /\ split \subseteq split' /\ split' \subseteq split \cup {s}
      /\ s \notin split' => n >= positions[s]
  BY <1>1, TradeFacts
<1>3. positions[s] \in Int
  BY DEF TypeOK
<1>4. positions'[s] >= 0 /\ positions'[s] \in Int
  BY <1>1, <1>2, <1>3
<1>5. ShortsNeedASplit'
  BY <1>2, <1>4 DEF ShortsNeedASplit
<1>6. ASSUME NEW k \in Pending', resting'[k].symbol \notin split'
      PROVE  IsForcedExit(resting[k])'
  <2>1. /\ k \in Pending /\ resting'[k] = resting[k]
    BY <1>6, ExecuteFacts
  <2>2. resting[k].symbol \in Symbols /\ resting[k].symbol \notin split
    BY <1>2, <1>6, <2>1 DEF TypeOK, Pending, Order
  <2>3. IsForcedExit(resting[k])
    BY <2>1, <2>2 DEF RestingIsForcedExit
  <2>4. positions'[resting[k].symbol] \in {0, positions[resting[k].symbol]}
    <3>1. CASE resting[k].symbol = s
      <4>1. n >= positions[s]
        BY <1>2, <1>6, <2>1, <3>1
      <4>2. positions[s] - n = 0
        BY <1>1, <1>3, <4>1
      <4>. QED
        BY <1>2, <3>1, <4>2
    <3>2. CASE resting[k].symbol # s
      BY <1>2, <2>2, <3>2
    <3>. QED
      BY <3>1, <3>2
  <2>. QED
    BY <2>1, <2>3, <2>4 DEF IsForcedExit, DaysToExpiration
<1>. QED
  BY <1>5, <1>6 DEF RestingIsForcedExit

\* The resting sell of a position that is there closes it, and leaves the book.
LEMMA FillRestingIsSafe ==
  ASSUME ShortsInv, NEW k \in Slots, FillResting(k)
  PROVE  ShortsNeedASplit' /\ RestingIsForcedExit'
<1>. DEFINE order == resting[k]
            s == order.symbol
<1>1. k \in Pending /\ order \in Order
  BY FillRestingFacts DEF ShortsInv
<1>2. PICK n \in Fills(order.left) :
        /\ n \in Nat \ {0}
        /\ Trade(s, order.side, n, order.left)
        /\ order.side = "SELL" => positions[s] # 0
        /\ resting' = [resting EXCEPT ![k] = Remainder(order, n)]
  BY FillRestingFacts DEF ShortsInv
<1>3. s \in Symbols /\ order.side \in {"BUY", "SELL"} /\ order.left \in Nat \ {0}
  BY <1>1 DEF Order
<1>4. n <= order.left
  BY <1>3, FillsFacts
<1>5. TypeOK /\ ShortsNeedASplit /\ RestingIsForcedExit /\ order = resting[k] /\ s = order.symbol
  BY DEF ShortsInv, TypesInv
<1>. HIDE DEF order, s
<1>6. /\ \A c \in Symbols : c # s => positions'[c] = positions[c]
      /\ order.side = "BUY" => positions'[s] = positions[s] + n
      /\ order.side = "SELL" => positions'[s] = positions[s] - n
      /\ split \subseteq split' /\ split' \subseteq split \cup {s}
      /\ s \notin split' => n = order.left /\ (order.side = "SELL" => n >= positions[s])
  BY <1>2, <1>3, <1>4, <1>5, TradeFacts
<1>7. positions[s] \in Int
  BY <1>3, <1>5 DEF TypeOK
\* Outside split the order is a forced exit of the whole position.
<1>8. ASSUME s \notin split'
      PROVE  positions'[s] = 0 /\ resting' = [resting EXCEPT ![k] = NoOrder]
  <2>1. s \notin split
    BY <1>6, <1>8
  <2>2. order.side = "SELL" /\ positions[s] \in {0, order.left}
    BY <1>1, <1>5, <2>1 DEF RestingIsForcedExit, IsForcedExit
  <2>3. n = order.left /\ positions[s] = n
    BY <1>2, <1>6, <1>8, <2>2
  <2>4. positions'[s] = 0
    <3>1. positions[s] - n = 0
      BY <1>7, <2>3
    <3>. QED
      BY <1>6, <2>2, <3>1
  <2>. QED
    BY <1>2, <2>3, <2>4 DEF Remainder
<1>9. ShortsNeedASplit'
  <2>. SUFFICES ASSUME NEW c \in Symbols, positions'[c] < 0 PROVE c \in split'
    BY DEF ShortsNeedASplit
  <2>1. CASE c = s
    BY <1>8, <2>1
  <2>2. CASE c # s
    BY <1>5, <1>6, <2>2 DEF ShortsNeedASplit
  <2>. QED
    BY <2>1, <2>2
<1>10. ASSUME NEW j \in Pending', resting'[j].symbol \notin split'
       PROVE  IsForcedExit(resting[j])'
  <2>1. j \in Pending /\ resting'[j] = resting[j]
    <3>1. CASE j = k
      <4>1. resting'[j] = Remainder(order, n) /\ resting'[j] # NoOrder
        BY <1>2, <1>5, <1>10, <3>1 DEF Pending, TypeOK
      <4>2. resting'[j].symbol = s
        BY <4>1 DEF Remainder, s
      <4>. QED
        BY <1>5, <1>8, <1>10, <3>1, <4>1, <4>2 DEF TypeOK
    <3>2. CASE j # k
      BY <1>2, <1>5, <1>10, <3>2 DEF Pending, TypeOK
    <3>. QED
      BY <3>1, <3>2
  <2>2. resting[j].symbol \in Symbols /\ resting[j].symbol \notin split
    BY <1>5, <1>6, <1>10, <2>1 DEF TypeOK, Pending, Order
  <2>3. IsForcedExit(resting[j])
    BY <1>5, <2>1, <2>2 DEF RestingIsForcedExit
  <2>4. positions'[resting[j].symbol] \in {0, positions[resting[j].symbol]}
    <3>1. CASE resting[j].symbol = s
      BY <1>8, <1>10, <2>1, <3>1
    <3>2. CASE resting[j].symbol # s
      BY <1>6, <2>2, <3>2
    <3>. QED
      BY <3>1, <3>2
  <2>5. day' = day
    BY DEF FillResting
  <2>. QED
    BY <2>1, <2>3, <2>4, <2>5 DEF IsForcedExit, DaysToExpiration
<1>. QED
  BY <1>9, <1>10 DEF RestingIsForcedExit

\* The closer's limit order is for the whole position, of a contract that
\* expires too soon to be bought again.
LEMMA LimitIsForcedExit ==
  ASSUME ShortsInv, NEW s \in Symbols, CloseAtLimit(s)
  PROVE  ShortsNeedASplit' /\ RestingIsForcedExit'
<1>1. TypeOK /\ ShortsNeedASplit /\ RestingIsForcedExit
  BY DEF ShortsInv, TypesInv
<1>2. UNCHANGED <<day, positions, split>> /\ phase = "close" /\ s \in todo
  BY DEF CloseAtLimit, Closing
<1>3. DaysToExpiration(s) < MinDaysToExpiration
  <2>1. DaysToExpiration(s) <= ForceExitDays
    BY <1>2 DEF ShortsInv, ClosingExpires
  <2>2. DaysToExpiration(s) \in Int
    BY <1>1, ExpirationAssumption DEF DaysToExpiration, TypeOK
  <2>. QED
    BY <2>1, <2>2, DaysAssumption
<1>4. ShortsNeedASplit'
  BY <1>1, <1>2 DEF ShortsNeedASplit
<1>5. ASSUME NEW k \in Pending', resting'[k].symbol \notin split'
      PROVE  IsForcedExit(resting[k])'
  <2>1. Rest(s, "SELL", positions[s])
    BY DEF CloseAtLimit
  <2>2. \/ k \in Pending /\ resting'[k] = resting[k]
        \/ resting'[k] = [symbol |-> s, side |-> "SELL", left |-> positions[s]]
    BY <1>1, <1>5, <2>1, RestFacts
  <2>3. CASE k \in Pending /\ resting'[k] = resting[k]
    BY <1>1, <1>2, <1>5, <2>3 DEF RestingIsForcedExit, IsForcedExit, DaysToExpiration
  <2>4. CASE resting'[k] = [symbol |-> s, side |-> "SELL", left |-> positions[s]]
    <3>1. resting'[k].symbol = s /\ resting'[k].side = "SELL" /\ resting'[k].left = positions[s]
      BY <2>4
    <3>. QED
      BY <1>2, <1>3, <3>1 DEF IsForcedExit, DaysToExpiration
  <2>. QED
    BY <2>2, <2>3, <2>4
<1>. QED
  BY <1>4, <1>5 DEF RestingIsForcedExit

\* What may be bought has no forced exit resting.
LEMMA EnteringIsSafe ==
  ASSUME ShortsInv, NEW s \in Symbols, NEW quantity \in Nat \ {0},
         MayBuy(s), Execute(s, "BUY", quantity), UNCHANGED day
  PROVE  ShortsNeedASplit' /\ RestingIsForcedExit'
<1>1. TypeOK /\ ShortsNeedASplit /\ RestingIsForcedExit
  BY DEF ShortsInv, TypesInv
<1>2. PICK n \in Nat \ {0} : n <= quantity /\ Trade(s, "BUY", n, quantity)
  BY <1>1, ExecuteFacts
<1>3. /\ \A c \in Symbols : c # s => positions'[c] = positions[c]
      /\ positions'[s] = positions[s] + n
      /\ split \subseteq split' /\ split' \subseteq split \cup {s}
  BY <1>1, <1>2, TradeFacts
<1>4. ShortsNeedASplit'
  <2>. SUFFICES ASSUME NEW c \in Symbols, positions'[c] < 0 PROVE c \in split'
    BY DEF ShortsNeedASplit
  <2>1. positions[c] \in Int /\ positions[c] < 0
    BY <1>1, <1>3 DEF TypeOK
  <2>. QED
    BY <1>1, <1>3, <2>1 DEF ShortsNeedASplit
<1>5. ~(DaysToExpiration(s) < MinDaysToExpiration)
  <2>1. DaysToExpiration(s) \in Int
    BY <1>1, ExpirationAssumption DEF DaysToExpiration, TypeOK
  <2>. QED
    BY <2>1, DaysAssumption DEF MayBuy
<1>6. ASSUME NEW k \in Pending', resting'[k].symbol \notin split'
      PROVE  IsForcedExit(resting[k])'
  <2>1. k \in Pending /\ resting'[k] = resting[k]
    BY <1>1, <1>6, ExecuteFacts
  <2>2. resting[k].symbol \in Symbols /\ resting[k].symbol \notin split
    BY <1>1, <1>3, <1>6, <2>1 DEF TypeOK, Pending, Order
  <2>3. IsForcedExit(resting[k])
    BY <1>1, <2>1, <2>2 DEF RestingIsForcedExit
  <2>4. resting[k].symbol # s
    BY <1>5, <2>3 DEF IsForcedExit
  <2>. QED
    BY <1>3, <2>1, <2>2, <2>3, <2>4 DEF IsForcedExit, DaysToExpiration
<1>. QED
  BY <1>4, <1>6 DEF RestingIsForcedExit

\* Days pass, and what rests gets closer to its expiration.
LEMMA TimeIsSafe ==
  ASSUME ShortsInv, TimePasses
  PROVE  ShortsNeedASplit' /\ RestingIsForcedExit'
<1>1. ShortsNeedASplit'
  BY DEF ShortsInv, ShortsNeedASplit, TimePasses, account
<1>2. ASSUME NEW k \in Pending', resting'[k].symbol \notin split'
      PROVE  IsForcedExit(resting[k])'
  <2>1. k \in Pending /\ resting' = resting /\ positions' = positions /\ split' = split
    BY <1>2 DEF TimePasses, account, Pending
  <2>2. Expiration[resting[k].symbol] \in Int
    BY <2>1, ExpirationAssumption DEF ShortsInv, TypesInv, TypeOK, Pending, Order
  <2>3. day \in Int /\ day' \in Int /\ day <= day'
    BY DEF ShortsInv, TypesInv, TypeOK, TimePasses
  <2>4. Expiration[resting[k].symbol] - day < MinDaysToExpiration
    BY <1>2, <2>1 DEF ShortsInv, RestingIsForcedExit, IsForcedExit, DaysToExpiration
  <2>5. Expiration[resting[k].symbol] - day' < MinDaysToExpiration
    BY <2>2, <2>3, <2>4, DaysAssumption
  <2>. QED
    BY <1>2, <2>1, <2>5 DEF ShortsInv, RestingIsForcedExit, IsForcedExit, DaysToExpiration
<1>. QED
  BY <1>1, <1>2 DEF RestingIsForcedExit

\* The inductive invariant, whatever is filled in part and closed in part.
THEOREM Safety == Spec => []ShortsInv
<1>1. Init => ShortsInv
  <2>. SUFFICES ASSUME Init PROVE ShortsInv
    OBVIOUS
  <2>1. TypesInv
    BY TypesInitially
  <2>2. ShortsNeedASplit
    BY DEF Init, ShortsNeedASplit
  <2>3. Pending = {} /\ phase # "close"
    BY DEF Init, Pending
  <2>. QED
    BY <2>1, <2>2, <2>3 DEF ShortsInv, RestingIsForcedExit, ClosingExpires
<1>2. ShortsInv /\ TypesInv' /\ [Next]_vars => ShortsInv'
  <2>. SUFFICES ASSUME ShortsInv, TypesInv', [Next]_vars
                PROVE  ShortsNeedASplit' /\ RestingIsForcedExit' /\ ClosingExpires'
    BY DEF ShortsInv
  <2>0. TypeOK /\ ShortsNeedASplit /\ RestingIsForcedExit /\ ClosingExpires
    BY DEF ShortsInv, TypesInv
  <2>1. CASE StartCycle
    BY <2>0, <2>1, AccountUntouched DEF StartCycle, ClosingExpires
  <2>2. ASSUME NEW k \in Slots, PassOver(k)
        PROVE  ShortsNeedASplit' /\ RestingIsForcedExit' /\ ClosingExpires'
    BY <2>0, <2>2, AccountUntouched DEF PassOver, ClosingExpires
  <2>3. ASSUME NEW k \in Slots, FillResting(k)
        PROVE  ShortsNeedASplit' /\ RestingIsForcedExit' /\ ClosingExpires'
    BY <2>3, FillRestingIsSafe DEF FillResting, ClosingExpires
  <2>4. ASSUME NEW k \in Slots, AbortOnResting(k)
        PROVE  ShortsNeedASplit' /\ RestingIsForcedExit' /\ ClosingExpires'
    BY <2>0, <2>4, AccountUntouched DEF AbortOnResting, ClosingExpires
  <2>5. CASE AfterRetries
    BY <2>0, <2>5, AccountUntouched
       DEF AfterRetries, ClosingExpires, Expiring, DaysToExpiration
  <2>6. ASSUME NEW s \in Symbols, CloseAtMarket(s)
        PROVE  ShortsNeedASplit' /\ RestingIsForcedExit' /\ ClosingExpires'
    <3>1. positions[s] \in Nat \ {0} /\ Execute(s, "SELL", positions[s])
      BY <2>0, <2>6 DEF CloseAtMarket, TypeOK
    <3>2. positions[s] <= positions[s] /\ UNCHANGED day
      BY <2>0, <2>6, <3>1 DEF CloseAtMarket, Closing
    <3>. QED
      BY <2>0, <2>6, <3>1, <3>2, SellingIsSafe
         DEF CloseAtMarket, Closing, ClosingExpires, DaysToExpiration
  <2>7. ASSUME NEW s \in Symbols, CloseAtLimit(s)
        PROVE  ShortsNeedASplit' /\ RestingIsForcedExit' /\ ClosingExpires'
    BY <2>0, <2>7, LimitIsForcedExit DEF CloseAtLimit, Closing, ClosingExpires, DaysToExpiration
  <2>8. ASSUME NEW s \in Symbols, CloseFails(s)
        PROVE  ShortsNeedASplit' /\ RestingIsForcedExit' /\ ClosingExpires'
    BY <2>0, <2>8, AccountUntouched DEF CloseFails, Closing, ClosingExpires, DaysToExpiration
  <2>9. CASE AfterClosing
    BY <2>0, <2>9, AccountUntouched DEF AfterClosing, ClosingExpires
  <2>10. ASSUME NEW s \in Symbols, Exit(s)
         PROVE  ShortsNeedASplit' /\ RestingIsForcedExit' /\ ClosingExpires'
    <3>1. phase' # "close" /\ day' = day
      BY <2>10 DEF Exit
    <3>2. CASE UNCHANGED account
      BY <2>0, <3>1, <3>2, AccountUntouched DEF ClosingExpires
    <3>3. CASE positions[s] > 0 /\ Execute(s, "SELL", positions[s])
      <4>1. positions[s] \in Nat \ {0} /\ positions[s] <= positions[s]
        BY <2>0, <3>3 DEF TypeOK
      <4>. QED
        BY <2>0, <3>1, <3>3, <4>1, SellingIsSafe DEF ClosingExpires
    <3>. QED
      BY <2>10, <3>2, <3>3 DEF Exit
  <2>11. CASE AfterExits
    BY <2>0, <2>11, AccountUntouched DEF AfterExits, ClosingExpires
  <2>12. CASE NoEntry
    BY <2>0, <2>12, AccountUntouched DEF NoEntry, ClosingExpires
  <2>13. ASSUME NEW s \in Symbols, NEW quantity \in 1..MaxQuantity, Enter(s, quantity)
         PROVE  ShortsNeedASplit' /\ RestingIsForcedExit' /\ ClosingExpires'
    <3>1. quantity \in Nat \ {0} /\ phase' = "idle" /\ MayBuy(s) /\ day' = day
      BY <2>13, BoundAssumption DEF Enter
    <3>2. CASE UNCHANGED account
      BY <2>0, <3>1, <3>2, AccountUntouched DEF ClosingExpires
    <3>3. CASE Execute(s, "BUY", quantity)
      BY <3>1, <3>3, EnteringIsSafe DEF ClosingExpires
    <3>. QED
      BY <2>13, <3>2, <3>3 DEF Enter
  <2>14. ASSUME NEW s \in Symbols, NEW quantity \in 1..(MaxQuantity * MaxDailyTrades),
                ClosePosition(s, quantity)
         PROVE  ShortsNeedASplit' /\ RestingIsForcedExit' /\ ClosingExpires'
    <3>1. quantity <= positions[s] /\ Execute(s, "SELL", quantity) /\ UNCHANGED day
      BY <2>14 DEF ClosePosition
    <3>2. quantity \in Nat \ {0}
      <4>1. MaxQuantity * MaxDailyTrades \in Nat
        BY BoundAssumption, LimitsAssumption
      <4>. QED
        BY <4>1
    <3>. QED
      BY <2>0, <2>14, <3>1, <3>2, SellingIsSafe DEF ClosePosition, progress, ClosingExpires
  <2>15. CASE EmergencyStop
    BY <2>0, <2>15, AccountUntouched DEF EmergencyStop, progress, ClosingExpires
  <2>16. CASE TimePasses
    BY <2>16, TimeIsSafe DEF TimePasses, progress, ClosingExpires
  <2>17. CASE UNCHANGED vars
    BY <2>0, <2>17, AccountUntouched DEF vars, progress, ClosingExpires, DaysToExpiration
  <2>. QED
    BY <2>1, <2>2, <2>3, <2>4, <2>5, <2>6, <2>7, <2>8, <2>9, <2>10, <2>11, <2>12, <2>13,
       <2>14, <2>15, <2>16, <2>17 DEF Next, Cycle, User
<1>. QED
  BY <1>1, <1>2, Types, PTL DEF Spec

\* No position is ever sold twice, whatever the expirations, the limits and the
\* number of sells under way, but of a contract that was traded in part.
THEOREM NoPositionIsOversold == Spec => []ShortsNeedASplit
<1>1. ShortsInv => ShortsNeedASplit
  BY DEF ShortsInv
<1>. QED
  BY <1>1, Safety, PTL

\* What rests is a forced exit, for the whole of a position or of none, but of a
\* contract that was traded in part.
THEOREM OnlyForcedExitsRest == Spec => []RestingIsForcedExit
<1>1. ShortsInv => RestingIsForcedExit
  BY DEF ShortsInv
<1>. QED
  BY <1>1, Safety, PTL

-----------------------------------------------------------------------------
\* The emergency stop.  It comes between two cycles, and a cycle under it ends
\* before the exits: the only order to buy it meets is one that rests.
EmergencyPhases == emergency => phase \in {"idle", "retry", "close"}

\* Selling at the market adds no order to buy, and positions only shrink.
LEMMA SellingOnlyUnwinds ==
  ASSUME TypeOK, NEW s \in Symbols, NEW wanted \in Nat \ {0}, Execute(s, "SELL", wanted)
  PROVE  OnlyUnwinds
<1>1. PICK n \in Nat \ {0} : n <= wanted /\ Trade(s, "SELL", n, wanted)
  BY ExecuteFacts
<1>2. /\ \A c \in Symbols : c # s => positions'[c] = positions[c]
      /\ positions'[s] = positions[s] - n
  BY <1>1, TradeFacts
<1>3. ASSUME NEW c \in Symbols
      PROVE  ~(positions'[c] > positions[c])
  <2>1. positions[c] \in Int
    BY DEF TypeOK
  <2>. QED
    BY <1>2, <2>1
<1>4. ASSUME NEW c \in Symbols, NEW k \in Slots
      PROVE  StillToBuy(c, k)' <= StillToBuy(c, k)
  <2>1. k \in Pending' => \/ k \in Pending /\ resting'[k] = resting[k]
                          \/ k \notin Pending /\ resting'[k].side = "SELL"
    BY ExecuteFacts
  <2>2. StillToBuy(c, k) \in Nat
    BY DEF StillToBuy, TypeOK, Pending, Order
  <2>. QED
    BY <2>1, <2>2 DEF StillToBuy
<1>. QED
  BY <1>3, <1>4 DEF OnlyUnwinds

\* An order of the closer that rests wants to buy nothing.
LEMMA LimitOnlyUnwinds ==
  ASSUME TypeOK, NEW s \in Symbols, CloseAtLimit(s)
  PROVE  OnlyUnwinds
<1>1. Rest(s, "SELL", positions[s]) /\ UNCHANGED positions
  BY DEF CloseAtLimit
<1>2. ASSUME NEW c \in Symbols, NEW k \in Slots
      PROVE  StillToBuy(c, k)' <= StillToBuy(c, k)
  <2>1. k \in Pending' => \/ k \in Pending /\ resting'[k] = resting[k]
                          \/ k \notin Pending /\ resting'[k].side = "SELL"
    <3>. SUFFICES ASSUME k \in Pending', ~(k \in Pending /\ resting'[k] = resting[k])
                  PROVE  k \notin Pending /\ resting'[k].side = "SELL"
      OBVIOUS
    <3>1. /\ k \notin Pending
          /\ resting'[k] = [symbol |-> s, side |-> "SELL", left |-> positions[s]]
      BY <1>1, RestFacts
    <3>. QED
      BY <3>1
  <2>2. StillToBuy(c, k) \in Nat
    BY DEF StillToBuy, TypeOK, Pending, Order
  <2>. QED
    BY <2>1, <2>2 DEF StillToBuy
<1>3. \A c \in Symbols : ~(positions'[c] > positions[c])
  BY <1>1 DEF TypeOK
<1>. QED
  BY <1>2, <1>3 DEF OnlyUnwinds

\* Of a resting buy the position gains what the order no longer wants.
LEMMA FillRestingOnlyUnwinds ==
  ASSUME TypesInv, NEW k \in Slots, FillResting(k)
  PROVE  OnlyUnwinds
<1>. DEFINE order == resting[k]
            s == order.symbol
<1>1. k \in Pending /\ order \in Order
  BY FillRestingFacts
<1>2. PICK n \in Fills(order.left) :
        /\ n \in Nat \ {0}
        /\ Trade(s, order.side, n, order.left)
        /\ resting' = [resting EXCEPT ![k] = Remainder(order, n)]
        /\ Remainder(order, n) \in Order \cup {NoOrder}
  BY FillRestingFacts
<1>3. s \in Symbols /\ order.side \in {"BUY", "SELL"} /\ order.left \in Nat \ {0}
  BY <1>1 DEF Order
<1>4. n <= order.left
  BY <1>3, FillsFacts
<1>5. TypeOK /\ order = resting[k] /\ s = order.symbol
  BY DEF TypesInv
<1>. HIDE DEF order, s
<1>6. /\ \A c \in Symbols : c # s => positions'[c] = positions[c]
      /\ order.side = "BUY" => positions'[s] = positions[s] + n
      /\ order.side = "SELL" => positions'[s] = positions[s] - n
  BY <1>2, <1>3, <1>4, <1>5, TradeFacts
<1>7. \A c \in Symbols : positions[c] \in Int
  BY <1>5 DEF TypeOK
<1>8. ASSUME NEW j \in Slots, j # k, NEW c \in Symbols
      PROVE  StillToBuy(c, j)' = StillToBuy(c, j) /\ StillToBuy(c, j) \in Nat
  <2>1. resting'[j] = resting[j]
    BY <1>2, <1>5, <1>8 DEF TypeOK
  <2>. QED
    BY <1>5, <2>1 DEF StillToBuy, TypeOK, Pending, Order
<1>9. resting'[k] = IF n = order.left THEN NoOrder
                    ELSE [symbol |-> s, side |-> order.side, left |-> order.left - n]
  BY <1>2, <1>5 DEF TypeOK, Remainder
<1>10. ASSUME NEW c \in Symbols
       PROVE  StillToBuy(c, k) - StillToBuy(c, k)' =
                IF c = s /\ order.side = "BUY" THEN n ELSE 0
  <2>1. StillToBuy(c, k) = IF c = s /\ order.side = "BUY" THEN order.left ELSE 0
    BY <1>1, <1>5 DEF StillToBuy
  <2>2. CASE n = order.left
    <3>1. StillToBuy(c, k)' = 0
      BY <1>9, <2>2 DEF StillToBuy, Pending
    <3>. QED
      BY <1>3, <2>1, <2>2, <3>1
  <2>3. CASE n # order.left
    <3>1. resting'[k] = [symbol |-> s, side |-> order.side, left |-> order.left - n]
      BY <1>9, <2>3
    <3>2. k \in Pending'
      <4>1. order.left - n \in Nat \ {0}
        BY <1>2, <1>3, <1>4, <2>3
      <4>2. resting'[k] \in Order
        BY <1>3, <3>1, <4>1 DEF Order
      <4>. QED
        BY <4>2, NoOrderAssumption DEF Pending
    <3>3. StillToBuy(c, k)' = IF c = s /\ order.side = "BUY" THEN order.left - n ELSE 0
      BY <3>1, <3>2 DEF StillToBuy
    <3>. QED
      BY <1>2, <1>3, <2>1, <3>3
  <2>. QED
    BY <2>2, <2>3
<1>11. ASSUME NEW c \in Symbols
       PROVE  StillToBuy(c, k)' <= StillToBuy(c, k)
  <2>1. StillToBuy(c, k) \in Nat /\ StillToBuy(c, k)' \in Int
    <3>1. StillToBuy(c, k) \in Nat
      BY <1>5 DEF StillToBuy, TypeOK, Pending, Order
    <3>2. StillToBuy(c, k)' \in Int
      <4>1. resting'[k] \in Order \cup {NoOrder}
        BY <1>2, <1>5 DEF TypeOK
      <4>. QED
        BY <4>1 DEF StillToBuy, Pending, Order
    <3>. QED
      BY <3>1, <3>2
  <2>. QED
    BY <1>2, <1>10, <2>1
<1>12. ASSUME NEW c \in Symbols, positions'[c] > positions[c]
       PROVE  \E j \in Slots : positions'[c] - positions[c] = StillToBuy(c, j) - StillToBuy(c, j)'
  <2>1. c = s /\ order.side = "BUY"
    BY <1>2, <1>3, <1>6, <1>7, <1>12
  <2>2. positions'[c] - positions[c] = n
    BY <1>2, <1>6, <1>7, <2>1
  <2>. QED
    BY <1>10, <2>1, <2>2
<1>13. ASSUME NEW c \in Symbols, NEW j \in Slots
       PROVE  StillToBuy(c, j)' <= StillToBuy(c, j)
  BY <1>8, <1>11
<1>. QED
  BY <1>12, <1>13 DEF OnlyUnwinds

\* A step that leaves the account alone unwinds nothing and buys nothing.
LEMMA AccountOnlyUnwinds ==
  ASSUME TypeOK, UNCHANGED account
  PROVE  OnlyUnwinds
<1>1. \A c \in Symbols, k \in Slots :
        StillToBuy(c, k)' = StillToBuy(c, k) /\ StillToBuy(c, k) \in Nat
  BY DEF StillToBuy, Pending, account, TypeOK, Order
<1>2. \A c \in Symbols : ~(positions'[c] > positions[c])
  BY DEF account, TypeOK
<1>. QED
  BY <1>1, <1>2 DEF OnlyUnwinds

\* No cycle gets to the exits or the entry under an emergency stop.
THEOREM EmergencyEndsTheCycle == Spec => []EmergencyPhases
<1>1. Init => EmergencyPhases
  BY DEF Init, EmergencyPhases
<1>2. EmergencyPhases /\ [Next]_vars => EmergencyPhases'
  <2>. SUFFICES ASSUME EmergencyPhases, [Next]_vars PROVE EmergencyPhases'
    OBVIOUS
  <2>. USE DEF EmergencyPhases
  <2>1. CASE Cycle
    BY <2>1 DEF Cycle, StartCycle, PassOver, FillResting, AbortOnResting, AfterRetries,
                Closing, CloseAtMarket, CloseAtLimit, CloseFails, AfterClosing, Exit, AfterExits,
                NoEntry, Enter
  <2>2. CASE User
    BY <2>2 DEF User, ClosePosition, EmergencyStop, progress
  <2>3. CASE TimePasses
    BY <2>3 DEF TimePasses, progress
  <2>4. CASE UNCHANGED vars
    BY <2>4 DEF vars, progress
  <2>. QED
    BY <2>1, <2>2, <2>3, <2>4 DEF Next
<1>. QED
  BY <1>1, <1>2, PTL DEF Spec

\* Under an emergency stop nothing is bought beyond what already rested.
THEOREM EmergencyUnwinds == Spec => EmergencyOnlyUnwinds
<1>1. TypesInv /\ EmergencyPhases /\ [Next]_vars => [emergency => OnlyUnwinds]_vars
  <2>. SUFFICES ASSUME TypesInv, EmergencyPhases, Next, emergency PROVE OnlyUnwinds
    OBVIOUS
  <2>1. TypeOK /\ phase \in {"idle", "retry", "close"}
    BY DEF TypesInv, EmergencyPhases
  <2>2. CASE UNCHANGED account
    BY <2>1, <2>2, AccountOnlyUnwinds
  <2>3. ASSUME NEW k \in Slots, FillResting(k) PROVE OnlyUnwinds
    BY <2>3, FillRestingOnlyUnwinds
  <2>4. ASSUME NEW s \in Symbols, CloseAtMarket(s) PROVE OnlyUnwinds
    <3>1. positions[s] \in Nat \ {0} /\ Execute(s, "SELL", positions[s])
      BY <2>1, <2>4 DEF CloseAtMarket, TypeOK
    <3>. QED
      BY <2>1, <3>1, SellingOnlyUnwinds
  <2>5. ASSUME NEW s \in Symbols, CloseAtLimit(s) PROVE OnlyUnwinds
    BY <2>1, <2>5, LimitOnlyUnwinds
  <2>6. ASSUME NEW s \in Symbols, NEW quantity \in 1..(MaxQuantity * MaxDailyTrades),
               ClosePosition(s, quantity)
        PROVE  OnlyUnwinds
    <3>1. MaxQuantity * MaxDailyTrades \in Nat
      BY BoundAssumption, LimitsAssumption
    <3>2. quantity \in Nat \ {0}
      BY <3>1
    <3>. QED
      BY <2>1, <2>6, <3>2, SellingOnlyUnwinds DEF ClosePosition
  \* What is left of Next leaves the account alone, or is beyond the phases of an
  \* emergency.
  <2>. QED
    BY <2>1, <2>2, <2>3, <2>4, <2>5, <2>6
       DEF Next, Cycle, User, StartCycle, PassOver, AbortOnResting, AfterRetries, Closing, CloseFails,
           AfterClosing, Exit, AfterExits, NoEntry, Enter, EmergencyStop, TimePasses
<1>2. Spec => []TypesInv /\ []EmergencyPhases
  BY Types, EmergencyEndsTheCycle
<1>. QED
  BY <1>1, <1>2, PTL DEF Spec, EmergencyOnlyUnwinds
=============================================================================
