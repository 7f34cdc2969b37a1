----------------------------- MODULE TradingCycle -----------------------------
(***************************************************************************)
(* What one cycle of the autonomous service does to the account            *)
(* (orchestrator.py, _cycle): the resting orders are tried again           *)
(* (broker.py, process_pending), positions near their expiration are sold  *)
(* (expiration.py), and unless an emergency stop is on the executor        *)
(* (executor.py) sells what the strategy wants to leave and buys what it   *)
(* wants to enter (basic.py), each order past the risk manager             *)
(* (default.py).  Between two cycles the user closes positions.            *)
(*                                                                         *)
(* A cycle never suspends.  Its parts are steps of their own because each  *)
(* asks for fresh quotes and an exception leaves the rest undone.          *)
(*                                                                         *)
(* Prices and money are left out: whether an order matches, what the       *)
(* strategy wants and what the limits on money allow is chosen freely.     *)
(* The circuit breaker is left out too: the loop resets it at the head of  *)
(* each cycle, and within a cycle nothing is bought after it has tripped.  *)
(* Orchestrator models both switches and the loop, PaperBroker the money.  *)
(***************************************************************************)
EXTENDS Integers, FiniteSets

CONSTANTS
  Symbols,              \* the option contracts
  Expiration,           \* contract -> its expiration_date, counted in days
  MinDaysToExpiration,  \* the gate refuses to buy closer to expiration
  ForceExitDays,        \* the closer sells from then on
  MaxOpenPositions,
  MaxDailyTrades,
  AllowPartial,         \* quotes may offer fewer contracts than an order wants
  PartialCloses,        \* the user may close a part of a position
  NoOrder,
  MaxQuantity,          \* bound: the contracts of an entry
  MaxResting,           \* bound: how many orders rest at a time
  MaxDay                \* bound: how many days pass

ASSUME ExpirationAssumption == Expiration \in [Symbols -> Int]
\* The defaults are 5 days for the gate and 3 for the closer.
ASSUME DaysAssumption ==
  MinDaysToExpiration \in Int /\ ForceExitDays \in Int /\ ForceExitDays < MinDaysToExpiration
ASSUME LimitsAssumption == MaxOpenPositions \in Nat /\ MaxDailyTrades \in Nat
ASSUME MarketAssumption == AllowPartial \in BOOLEAN /\ PartialCloses \in BOOLEAN
ASSUME BoundAssumption == MaxQuantity \in Nat /\ MaxResting \in Nat /\ MaxDay \in Nat

VARIABLES
  day,
  positions,  \* symbol -> contracts held; 0: no position
  resting,    \* slot -> the order of _pending in it, or NoOrder
  trades,     \* _trades_today, counted up to MaxDailyTrades; it is never reset
  recent,     \* _recent_symbols: bought less than an hour ago
  split,      \* history: the contracts of which an order was filled, or a position
              \* sold, in part
  emergency,  \* emergency.active
  phase,      \* the part of the cycle that runs, or "idle"
  retries,    \* the resting orders process_pending has not reached
  todo        \* the positions the closer or the exits have not reached

account == <<positions, resting, trades, split>>
progress == <<phase, retries, todo>>
vars == <<day, account, recent, emergency, progress>>

Slots == 1..MaxResting
Phases == {"idle", "retry", "close", "exit", "entry"}
Order == [symbol : Symbols, side : {"BUY", "SELL"}, left : Nat \ {0}]
ASSUME NoOrderAssumption == NoOrder \notin Order

Init ==
  /\ day = 0
  /\ positions = [s \in Symbols |-> 0]
  /\ resting = [k \in Slots |-> NoOrder]
  /\ trades = 0 /\ split = {} /\ recent = {} /\ emergency = FALSE
  /\ phase = "idle" /\ retries = {} /\ todo = {}

DaysToExpiration(s) == Expiration[s] - day
Held == {s \in Symbols : positions[s] # 0}
Pending == {k \in Slots : resting[k] # NoOrder}

\* positions_needing_exit
ExpiringAtEntryLimit == {s \in Held : DaysToExpiration(s) <= MinDaysToExpiration}
Expiring == {s \in Held : DaysToExpiration(s) <= ForceExitDays}

-----------------------------------------------------------------------------
\* The broker.  A quote fills the whole order, or a part of it.
Fills(wanted) == IF AllowPartial THEN 1..wanted ELSE {wanted}

\* n contracts of an order that wants some more or none.
Trade(s, side, n, wanted) ==
  /\ positions' = [positions EXCEPT ![s] = IF side = "BUY" THEN @ + n ELSE @ - n]
  /\ trades' = IF trades < MaxDailyTrades THEN trades + 1 ELSE trades
  /\ split' = IF n < wanted \/ (side = "SELL" /\ n < positions[s])
               THEN split \cup {s} ELSE split

Rest(s, side, left) ==
  \E k \in Slots \ Pending :
    /\ \A j \in Slots \ Pending : k <= j
    /\ resting' = [resting EXCEPT ![k] = [symbol |-> s, side |-> side, left |-> left]]

\* A market order that matches; what is left of it rests.
Execute(s, side, wanted) ==
  \E n \in Fills(wanted) :
    /\ Trade(s, side, n, wanted)
    /\ \/ n = wanted /\ UNCHANGED resting
       \/ n < wanted /\ Rest(s, side, wanted - n)

\* A buy that closes a short position exactly divides by zero.
DividesByZero(s, side, n) == side = "BUY" /\ positions[s] # 0 /\ positions[s] + n = 0

-----------------------------------------------------------------------------
\* process_pending, one resting order at a time.
StartCycle ==
  /\ phase = "idle"
  /\ phase' = "retry" /\ retries' = Pending
  /\ UNCHANGED <<day, account, recent, emergency, todo>>

\* No match, or a buy the cash does not cover any more: the order stays.
PassOver(k) ==
  /\ phase = "retry" /\ k \in retries
  /\ retries' = retries \ {k}
  /\ UNCHANGED <<day, account, recent, emergency, phase, todo>>

\* What stays in the book of an order of which n contracts were filled.
Remainder(order, n) ==
  IF n = order.left THEN NoOrder
  ELSE [symbol |-> order.symbol, side |-> order.side, left |-> order.left - n]

\* Nothing looks at the position again before a resting sell executes, except
\* that there must be one.
FillResting(k) ==
  /\ phase = "retry" /\ k \in retries
  /\ LET order == resting[k]
     IN \E n \in Fills(order.left) :
          /\ order.side = "SELL" => positions[order.symbol] # 0
          /\ ~DividesByZero(order.symbol, order.side, n)
          /\ Trade(order.symbol, order.side, n, order.left)
          /\ resting' = [resting EXCEPT ![k] = Remainder(order, n)]
  /\ retries' = retries \ {k}
  /\ UNCHANGED <<day, recent, emergency, phase, todo>>

\* KeyError for a sell without a position, or the division by zero.
MayRaise(order) ==
  \/ order.side = "SELL" /\ positions[order.symbol] = 0
  \/ \E n \in Fills(order.left) : DividesByZero(order.symbol, order.side, n)

\* The cycle ends.
AbortOnResting(k) ==
  /\ phase = "retry" /\ k \in retries
  /\ MayRaise(resting[k])
  /\ phase' = "idle" /\ retries' = {}
  /\ UNCHANGED <<day, account, recent, emergency, todo>>

AfterRetriesUnlessEmergency ==
  /\ phase = "retry" /\ retries = {}
  /\ phase' = IF emergency THEN "idle" ELSE "close"
  /\ todo' = IF emergency THEN {} ELSE Expiring
  /\ UNCHANGED <<day, account, recent, emergency, retries>>
AfterRetries ==
  /\ phase = "retry" /\ retries = {}
  /\ phase' = "close" /\ todo' = Expiring
  /\ UNCHANGED <<day, account, recent, emergency, retries>>

-----------------------------------------------------------------------------
\* close_near_expiration: a market order for the position, and a limit order
\* below the bid if that was rejected.
Closing(s) ==
  /\ phase = "close" /\ s \in todo
  /\ todo' = todo \ {s}
  /\ UNCHANGED <<day, recent, emergency, phase, retries>>

\* The broker refuses a quantity that is not positive.
CloseAtMarket(s) ==
  /\ Closing(s)
  /\ positions[s] > 0
  /\ Execute(s, "SELL", positions[s])

\* The limit order may find a better quote; if not it rests.
CloseAtLimit(s) ==
  /\ Closing(s)
  /\ positions[s] > 0
  /\ Rest(s, "SELL", positions[s])
  /\ UNCHANGED <<positions, trades, split>>

\* Without a bid, or with both orders refused, there is only an alert.
CloseFails(s) ==
  /\ Closing(s)
  /\ UNCHANGED account

AfterClosingInEmergency ==
  /\ phase = "close" /\ todo = {}
  /\ \/ phase' = "idle" /\ UNCHANGED todo
     \/ phase' = "exit" /\ todo' \in SUBSET Held
  /\ UNCHANGED <<day, account, recent, emergency, retries>>
\* Exits follow if no emergency stop is on and the underlying is found.  The
\* strategy chooses among the positions in it.
AfterClosing ==
  /\ phase = "close" /\ todo = {}
  /\ \/ /\ phase' = "idle"
        /\ UNCHANGED todo
     \/ /\ ~emergency
        /\ phase' = "exit" /\ todo' \in SUBSET Held
  /\ UNCHANGED <<day, account, recent, emergency, retries>>

-----------------------------------------------------------------------------
\* evaluate_exits and _execute_decision: the risk manager approves a sell that
\* the position covers; a market order that does not match is rejected.
Exit(s) ==
  /\ phase = "exit" /\ s \in todo
  /\ todo' = todo \ {s}
  /\ \/ UNCHANGED account
     \/ positions[s] > 0 /\ Execute(s, "SELL", positions[s])
  /\ UNCHANGED <<day, recent, emergency, phase, retries>>

AfterExits ==
  /\ phase = "exit" /\ todo = {}
  /\ phase' = "entry"
  /\ UNCHANGED <<day, account, recent, emergency, retries, todo>>

\* What both the strategy and the risk manager demand of an entry, beyond what
\* is chosen freely.
MayBuyAnyExpiration(s) ==
  /\ s \notin recent
  /\ trades < MaxDailyTrades
  /\ Cardinality(Held) < MaxOpenPositions
MayBuy(s) ==
  /\ s \notin recent
  /\ trades < MaxDailyTrades
  /\ DaysToExpiration(s) >= MinDaysToExpiration
  /\ Cardinality(Held) < MaxOpenPositions

NoEntry ==
  /\ phase = "entry"
  /\ phase' = "idle"
  /\ UNCHANGED <<day, account, recent, emergency, retries, todo>>

\* The strategy remembers the contract when it decides.  The executor may still
\* be refused by the risk manager or the broker, with another quote.
Enter(s, quantity) ==
  /\ phase = "entry"
  /\ MayBuy(s)
  /\ recent' = recent \cup {s}
  /\ \/ UNCHANGED account
     \/ ~DividesByZero(s, "BUY", quantity) /\ Execute(s, "BUY", quantity)
  /\ phase' = "idle"
  /\ UNCHANGED <<day, emergency, retries, todo>>

-----------------------------------------------------------------------------
\* Between two cycles: close_position and close_all_positions, which ask no
\* risk manager, the emergency stop and time.
ClosePosition(s, quantity) ==
  /\ phase = "idle"
  /\ quantity <= positions[s]
  /\ PartialCloses \/ quantity = positions[s]
  /\ Execute(s, "SELL", quantity)
  /\ UNCHANGED <<day, recent, emergency, progress>>

EmergencyStop ==
  /\ phase = "idle"
  /\ emergency' = ~emergency
  /\ UNCHANGED <<day, account, recent, progress>>

\* An hour, or the night.
TimePasses ==
  /\ phase = "idle"
  /\ recent' = {}
  /\ day' \in {day, day + 1} /\ day' <= MaxDay
  /\ UNCHANGED <<account, emergency, progress>>

Cycle ==
  \/ StartCycle
  \/ \E k \in Slots : PassOver(k) \/ FillResting(k) \/ AbortOnResting(k)
  \/ AfterRetries
  \/ \E s \in Symbols : CloseAtMarket(s) \/ CloseAtLimit(s) \/ CloseFails(s)
  \/ AfterClosing
  \/ \E s \in Symbols : Exit(s)
  \/ AfterExits
  \/ NoEntry
  \/ \E s \in Symbols, quantity \in 1..MaxQuantity : Enter(s, quantity)

User ==
  \/ \E s \in Symbols, quantity \in 1..(MaxQuantity * MaxDailyTrades) : ClosePosition(s, quantity)
  \/ EmergencyStop

Next == Cycle \/ User \/ TimePasses

Spec == Init /\ [][Next]_vars

\* The loop keeps running, and the market does not refuse the closer for ever.
Fairness ==
  /\ WF_vars(Cycle)
  /\ \A s \in Symbols : SF_vars(CloseAtMarket(s))
FairSpec == Spec /\ Fairness

-----------------------------------------------------------------------------
TypeOK ==
  /\ day \in 0..MaxDay
  /\ positions \in [Symbols -> Int]
  /\ resting \in [Slots -> Order \cup {NoOrder}]
  /\ trades \in 0..MaxDailyTrades
  /\ split \subseteq Symbols
  /\ recent \subseteq Symbols
  /\ emergency \in BOOLEAN
  /\ phase \in Phases
  /\ retries \subseteq Slots /\ todo \subseteq Symbols

\* "Sin shorts: compras de opciones y ventas de posiciones largas unicamente"
\* (docs/ARCHITECTURE.md).
NoShorts == \A s \in Symbols : positions[s] >= 0

\* What the code keeps of that.  Several sells of one position may be under way,
\* a forced exit that rests and a later one at the market, and yet no position
\* is sold twice, as long as every order for the contract was filled whole and
\* the user closed whole positions: process_pending does not look at the
\* position again before it executes what is left of a sell.
ShortsNeedASplit == \A s \in Symbols : positions[s] < 0 => s \in split

IsForcedExit(order) ==
  /\ order.side = "SELL"
  /\ DaysToExpiration(order.symbol) < MinDaysToExpiration
  /\ positions[order.symbol] \in {0, order.left}

\* Why: what rests is a forced exit, of a contract too close to its expiration
\* to be bought again, and for the whole of a position that is still there or
\* is gone (expiration.py against the DTE check of validate_order).  Only the
\* rest of an order filled in part is anything else.
RestingIsForcedExit ==
  \A k \in Pending : resting[k].symbol \notin split => IsForcedExit(resting[k])

\* What the resting order in slot k still wants to buy of s.
StillToBuy(s, k) ==
  IF k \in Pending /\ resting[k].symbol = s /\ resting[k].side = "BUY"
  THEN resting[k].left ELSE 0

\* No order to buy is added or wants more than before, and a position grows only
\* by what one of them wants less.
OnlyUnwinds ==
  \A s \in Symbols :
    /\ \A k \in Slots : StillToBuy(s, k)' <= StillToBuy(s, k)
    /\ positions'[s] > positions[s] =>
         \E k \in Slots : positions'[s] - positions[s] = StillToBuy(s, k) - StillToBuy(s, k)'

\* In an emergency stop the account only unwinds.  Resting buys are tried again
\* (process_pending runs first in both branches of _cycle) and may still open a
\* position, but not beyond what was ordered before the stop.
EmergencyOnlyUnwinds == [][emergency => OnlyUnwinds]_vars

\* An order rests at which process_pending may raise: the sell of a position that
\* is gone, or a buy of just what was sold short.
Poisoned == \E k \in Pending : MayRaise(resting[k])

\* A position near its expiration is sold, also while an emergency stop is on,
\* as long as no order rests at which every cycle raises before the closer runs.
ExpiringIsSold ==
  \A s \in Symbols :
    s \in Expiring /\ positions[s] > 0 ~> positions[s] <= 0 \/ Poisoned
=============================================================================
