------------------------------- MODULE Backtest -------------------------------
(***************************************************************************)
(* A backtest: the engine (backtesting/engine/core.py) moves a clock over  *)
(* the business days of a data set, shows the broker and the strategy the  *)
(* data of no later day (data/provider.py), lets resting orders execute    *)
(* (execution/broker.py, execution/simulator.py), closes positions near    *)
(* their expiration (paper_broker/expiration.py), and asks the strategy    *)
(* for exits and entries, underlying by underlying.  At the end it sells   *)
(* what is left.                                                           *)
(*                                                                         *)
(* The data are chosen at the start, the days to come included, so that    *)
(* looking ahead is something the model could do.  Of the strategy         *)
(* (strategy_engine/basic.py) there is what keeps it from trading: the age *)
(* of a quote, the days to expiration and its memory of recent buys; which *)
(* positions it leaves and what the limits on money refuse is chosen       *)
(* freely.  Both read the wall clock, not the simulated one.               *)
(*                                                                         *)
(* slippage_bps is 0, which BacktestConfig allows.                         *)
(***************************************************************************)
EXTENDS Integers, Sequences, FiniteSetsExt, SequencesExt

CONSTANTS
  Universe,         \* the underlyings, in the order of config.universe
  Contracts,
  Underlying,       \* contract -> its underlying
  Expiration,       \* contract -> its expiration_date
  LastDay,          \* config.end_date; days are counted from start_date, 1
  Closed,           \* weekends and holidays
  Today,            \* the day the backtest runs on, on the same scale
  Histories,        \* the data sets considered: day -> underlying -> chain
  NoChain,          \* no snapshot of a chain on a day
  NoQuote,
  NoPrice,
  MinDaysToExpiration,
  ForceExitDays,
  InitialCash,
  CommissionPct,    \* commission_rate
  MaxQuantity       \* bound: contracts of an entry

MaxAggression == 5  \* max_aggression_steps
Step == 50          \* 1 / aggression_step_pct

ASSUME DaysAssumption == LastDay \in Nat /\ Closed \subseteq 1..LastDay /\ Today \in Int
ASSUME ContractAssumption ==
  Underlying \in [Contracts -> ToSet(Universe)] /\ Expiration \in [Contracts -> Int]
ASSUME MoneyAssumption == InitialCash \in Nat /\ CommissionPct \in Nat

\* The unit of money is so small that the commission of every price is a whole number.
Prices == {p \in Nat : (p * CommissionPct) % 100 = 0}
Quotes ==
  [bid : Prices \cup {NoPrice}, ask : Prices \cup {NoPrice}, size : Nat, from : 1..LastDay]

ASSUME QuoteAssumption == NoQuote \notin Quotes
ASSUME HistoryAssumption ==
  \A h \in Histories, d \in 1..LastDay, u \in ToSet(Universe) :
    h[d][u] # NoChain =>
      \A c \in DOMAIN h[d][u] :
        /\ {h[d][u][c].bid, h[d][u][c].ask} \ {NoPrice} \subseteq Prices
        /\ h[d][u][c].size \in Nat

VARIABLES
  allowPartial,  \* config.allow_partial
  preloaded,     \* the quotes of every snapshot are loaded before the run, as runner.py does
  data,          \* the bars and chains loaded before the run
  clock,         \* clock.now; 0 before the first step
  book,          \* contract -> the quote get_quote returns
  cash,
  positions,     \* contract -> quantity; 0: no position
  pending,       \* _pending, with what is left of each order
  aggression,    \* contract -> failed attempts of the closer
  recent,        \* _recent_symbols: a run ends before their hour is over
  phase,
  turn,          \* the underlying whose step is under way, as an index
  at,            \* the order process_pending has come to, as an index
  todo,          \* positions the closer, the exits or the end have still to sell
  report         \* the trades so far, added up

account == <<cash, positions, pending, report>>
setup == <<allowPartial, preloaded, data>>
progress == <<phase, turn, at, todo>>
vars == <<setup, clock, book, account, aggression, recent, progress>>

Days == 1..LastDay
Phases == {"idle", "retry", "close", "exit", "entry", "end", "done", "aborted"}
NoTrade == [day |-> 0, from |-> 0]
Report == [bought : [Contracts -> Nat], sold : [Contracts -> Nat],
           spent : Nat, received : Nat, fees : Nat,
           last : [day : Nat, from : Nat]]
Order == [contract : Contracts, side : {"BUY", "SELL"}, quantity : Nat, left : Nat, limit : Nat]
MarketOrder == 0

Init ==
  /\ allowPartial \in BOOLEAN /\ preloaded \in BOOLEAN
  /\ data \in Histories
  /\ clock = 0
  /\ book = [c \in Contracts |-> NoQuote]
  /\ cash = InitialCash
  /\ positions = [c \in Contracts |-> 0]
  /\ pending = <<>>
  /\ aggression = [c \in Contracts |-> 0]
  /\ recent = {}
  /\ phase = "idle" /\ turn = 1 /\ at = 1 /\ todo = {}
  /\ report = [bought |-> [c \in Contracts |-> 0], sold |-> [c \in Contracts |-> 0],
               spent |-> 0, received |-> 0, fees |-> 0, last |-> NoTrade]

Held == {c \in Contracts : positions[c] # 0}
HeldIn(u) == {c \in Held : Underlying[c] = u}

-----------------------------------------------------------------------------
\* The clock and the provider.
Timeline == Days \ Closed
Ahead == {d \in Timeline : d > clock}

\* _asof: the day of the last snapshot up to the clock.
SnapshotsAnyDay(u, now) == {d \in Days : data[d][u] # NoChain}
Snapshots(u, now) == {d \in Days : d <= now /\ data[d][u] # NoChain}

\* get_option_chain: expired contracts are left out; no contract is older than
\* the snapshot it comes from.
Chain(u, now) ==
  IF Snapshots(u, now) = {} THEN <<>>
  ELSE LET from == Max(Snapshots(u, now))
           listed == data[from][u]
       IN [c \in {x \in DOMAIN listed : Expiration[x] >= now} |->
             [bid |-> listed[c].bid, ask |-> listed[c].ask, size |-> listed[c].size,
              from |-> from]]

\* Of the quotes loaded before the run, days to come included, _asof gives the last of a
\* contract that is not of a later day, also where the chain leaves it out as expired.
Listed(c, now) ==
  {d \in Snapshots(Underlying[c], now) : c \in DOMAIN data[d][Underlying[c]]}

Quoted(c, from) ==
  LET q == data[from][Underlying[c]][c]
  IN [bid |-> q.bid, ask |-> q.ask, size |-> q.size, from |-> from]

\* Every quote of the chain goes into the book as if it were of today.
Refreshed(now) ==
  [c \in Contracts |->
     LET chain == Chain(Underlying[c], now)
     IN IF c \in DOMAIN chain THEN chain[c]
        ELSE IF preloaded /\ Listed(c, now) # {} THEN Quoted(c, Max(Listed(c, now)))
        ELSE book[c]]

-----------------------------------------------------------------------------
\* get_quote: of one contract, what the quotes loaded and refreshed give at the clock.
GetQuote(c) == book[c]

\* ExecutionSimulator.execute, for an order with `quantity` contracts in all.
Priced(q) == /\ q # NoQuote
             /\ q.bid # NoPrice /\ q.ask # NoPrice
             /\ q.ask > 0 /\ q.bid <= q.ask

Price(side, q) == IF side = "BUY" THEN q.ask ELSE q.bid

Matches(side, quantity, limit, q) ==
  /\ Priced(q)
  /\ allowPartial \/ quantity <= q.size
  /\ Price(side, q) > 0
  /\ q.bid >= limit

FillSize(quantity, q) == Min({quantity, q.size})
Commission(notional) == (notional * CommissionPct) \div 100

-----------------------------------------------------------------------------
\* HistoricalBroker._apply, of n contracts.  The commission is that of the fill
\* of the whole order, also where less of it is left.
Fee(order, q) == Commission(Price(order.side, q) * FillSize(order.quantity, q))
Affordable(order, n, q) == q.ask * n + Fee(order, q) <= cash

\* What the book lets an order execute; a buy the cash does not cover stays.
ExecutedSize(order, q) == Min({FillSize(order.quantity, q), order.left})
Executes(order, q) ==
  /\ Matches(order.side, order.quantity, order.limit, q)
  /\ order.side = "BUY" => Affordable(order, ExecutedSize(order, q), q)

Reported(order, n, q) ==
  [bought |-> [report.bought EXCEPT ![order.contract] =
                 @ + (IF order.side = "BUY" THEN n ELSE 0)],
   sold |-> [report.sold EXCEPT ![order.contract] =
                 @ + (IF order.side = "SELL" THEN n ELSE 0)],
   spent |-> report.spent + (IF order.side = "BUY" THEN q.ask * n ELSE 0),
   received |-> report.received + (IF order.side = "SELL" THEN q.bid * n ELSE 0),
   fees |-> report.fees + Fee(order, q),
   last |-> [day |-> clock, from |-> q.from]]

\* A sell beyond the position deletes it and is credited in full.
LeftOver(held, n) == Max({held - n, 0})

Apply(order, n, q) ==
  LET c == order.contract
  IN /\ \/ /\ order.side = "BUY"
           /\ cash' = cash - q.ask * n - Fee(order, q)
           /\ positions' = [positions EXCEPT ![c] = @ + n]
        \/ /\ order.side = "SELL"
           /\ cash' = cash + q.bid * n - Fee(order, q)
           /\ positions' = [positions EXCEPT ![c] = LeftOver(@, n)]
     /\ report' = Reported(order, n, q)

\* An order as submitted: what does not fill of one that fills rests; one that
\* does not fill is rejected, unless it has a limit.  A buy the cash does not
\* cover is rejected.
NewOrder(c, side, quantity, limit) ==
  [contract |-> c, side |-> side, quantity |-> quantity, left |-> quantity, limit |-> limit]

Less(order, n) ==
  [contract |-> order.contract, side |-> order.side, quantity |-> order.quantity,
   left |-> order.left - n, limit |-> order.limit]

SubmitAtMarket(c, side, quantity) ==
  LET order == NewOrder(c, side, quantity, MarketOrder)
      q == GetQuote(c)
  IN IF Executes(order, q)
     THEN LET n == ExecutedSize(order, q)
          IN /\ Apply(order, n, q)
             /\ pending' = IF n = quantity THEN pending ELSE Append(pending, Less(order, n))
     ELSE UNCHANGED account

-----------------------------------------------------------------------------
\* A step of the clock.  Nothing is left of a day when the next one begins.
Advance ==
  /\ phase = "idle" /\ Ahead # {}
  /\ clock' = Min(Ahead)
  /\ book' = Refreshed(clock')
  /\ phase' = "retry" /\ at' = 1
  /\ UNCHANGED <<setup, account, aggression, recent, turn, todo>>

\* process_pending, one order at a time.
Retrying == phase = "retry" /\ at <= Len(pending)

PassOver ==
  /\ Retrying
  /\ LET order == pending[at]
     IN ~Executes(order, GetQuote(order.contract))
  /\ at' = at + 1
  /\ UNCHANGED <<setup, clock, book, account, aggression, recent, phase, turn, todo>>

\* KeyError: there is no position to sell.
NeverRaises(order) == FALSE
RaisesKeyError(order) == order.side = "SELL" /\ positions[order.contract] = 0

FillResting ==
  /\ Retrying
  /\ LET order == pending[at]
         q == GetQuote(order.contract)
         n == ExecutedSize(order, q)
     IN /\ Executes(order, q)
        /\ ~RaisesKeyError(order)
        /\ Apply(order, n, q)
        /\ IF n = order.left
           THEN pending' = RemoveAt(pending, at) /\ at' = at
           ELSE pending' = ReplaceAt(pending, at, Less(order, n)) /\ at' = at + 1
  /\ UNCHANGED <<setup, clock, book, aggression, recent, phase, turn, todo>>

Abort ==
  /\ Retrying
  /\ LET order == pending[at]
     IN /\ Executes(order, GetQuote(order.contract))
        /\ RaisesKeyError(order)
  /\ phase' = "aborted"
  /\ UNCHANGED <<setup, clock, book, account, aggression, recent, turn, at, todo>>

\* The runner's step for the first underlying begins with the closer, which
\* looks at the positions in every underlying.
NeedExit == {c \in Held : Expiration[c] - clock <= ForceExitDays}

AfterRetries ==
  /\ phase = "retry" /\ at > Len(pending)
  /\ phase' = "close" /\ turn' = 1 /\ todo' = NeedExit
  /\ UNCHANGED <<setup, clock, book, account, aggression, recent, at>>

-----------------------------------------------------------------------------
\* ExpirationCloser._attempt_close.
Closing(c) ==
  /\ phase = "close" /\ c \in todo
  /\ todo' = todo \ {c}
  /\ UNCHANGED <<setup, clock, book, recent, phase, turn, at>>

CloseWithoutBid(c) ==
  /\ Closing(c)
  /\ GetQuote(c).bid = NoPrice
  /\ UNCHANGED <<account, aggression>>

CloseAtMarket(c) ==
  /\ Closing(c)
  /\ GetQuote(c).bid # NoPrice
  /\ Matches("SELL", positions[c], MarketOrder, GetQuote(c))
  /\ SubmitAtMarket(c, "SELL", positions[c])
  /\ UNCHANGED aggression

\* What keeps the market order from filling keeps the limit order from filling.
CloseAtLimit(c) ==
  /\ Closing(c)
  /\ GetQuote(c).bid # NoPrice
  /\ ~Matches("SELL", positions[c], MarketOrder, GetQuote(c))
  /\ pending' = Append(pending,
                  NewOrder(c, "SELL", positions[c], (GetQuote(c).bid * (Step - aggression[c])) \div Step))
  /\ aggression' = [aggression EXCEPT ![c] = Min({@ + 1, MaxAggression})]
  /\ UNCHANGED <<cash, positions, report>>

\* evaluate_exits: the strategy looks at the positions in the underlying.
AfterClosing ==
  /\ phase = "close" /\ todo = {}
  /\ phase' = "exit" /\ todo' \in SUBSET HeldIn(Universe[turn])
  /\ UNCHANGED <<setup, clock, book, account, aggression, recent, turn, at>>

\* _exec of a sell: the position covers it, and a quote that is only old or has
\* no price does not keep the risk manager from approving it.
Exit(c) ==
  /\ phase = "exit" /\ c \in todo
  /\ todo' = todo \ {c}
  /\ SubmitAtMarket(c, "SELL", positions[c])
  /\ UNCHANGED <<setup, clock, book, aggression, recent, phase, turn, at>>

AfterExits ==
  /\ phase = "exit" /\ todo = {}
  /\ phase' = "entry"
  /\ UNCHANGED <<setup, clock, book, account, aggression, recent, turn, at, todo>>

-----------------------------------------------------------------------------
\* assess_operability, with the timestamp and the days to expiration the
\* contract had in its snapshot: by the wall clock it is as old as Today says.
FreshByTheWallClock(q) == q.from >= Today
FreshByTheSimulatedClock(q) == q.from = clock
OperableByTheSimulatedClock(c, q) ==
  /\ Priced(q)
  /\ Expiration[c] - q.from >= MinDaysToExpiration
  /\ FreshByTheSimulatedClock(q)
Operable(c, q) ==
  /\ Priced(q)
  /\ Expiration[c] - q.from >= MinDaysToExpiration
  /\ FreshByTheWallClock(q)

\* The underlyings take their turns; after the last the day is recorded.
NextTurn ==
  IF turn < Len(Universe)
  THEN phase' = "close" /\ turn' = turn + 1 /\ todo' = NeedExit'
  ELSE phase' = "idle" /\ turn' = 1 /\ todo' = {}

NoEntry ==
  /\ phase = "entry"
  /\ UNCHANGED <<setup, clock, book, account, aggression, recent, at>>
  /\ NextTurn

\* The strategy remembers the contract when it decides; the risk manager sees
\* another portfolio and may refuse.
Enter(c, quantity) ==
  /\ phase = "entry"
  /\ LET chain == Chain(Universe[turn], clock)
     IN c \in DOMAIN chain /\ Operable(c, chain[c])
  /\ c \notin recent
  /\ recent' = recent \cup {c}
  /\ \/ UNCHANGED account
     \/ SubmitAtMarket(c, "BUY", quantity)
  /\ UNCHANGED <<setup, clock, book, aggression, at>>
  /\ NextTurn

-----------------------------------------------------------------------------
\* After the last day every position is sold at the market, if it can be.
Finish ==
  /\ phase = "idle" /\ Ahead = {}
  /\ phase' = "end" /\ todo' = Held
  /\ UNCHANGED <<setup, clock, book, account, aggression, recent, turn, at>>

FinalSell(c) ==
  /\ phase = "end" /\ c \in todo
  /\ todo' = todo \ {c}
  /\ SubmitAtMarket(c, "SELL", positions[c])
  /\ UNCHANGED <<setup, clock, book, aggression, recent, phase, turn, at>>

Done ==
  /\ phase = "end" /\ todo = {}
  /\ phase' = "done"
  /\ UNCHANGED <<setup, clock, book, account, aggression, recent, turn, at, todo>>

Next ==
  \/ Advance
  \/ PassOver \/ FillResting \/ Abort \/ AfterRetries
  \/ \E c \in Contracts : CloseWithoutBid(c) \/ CloseAtMarket(c) \/ CloseAtLimit(c)
  \/ AfterClosing
  \/ \E c \in Contracts : Exit(c)
  \/ AfterExits
  \/ NoEntry
  \/ \E c \in Contracts, quantity \in 1..MaxQuantity : Enter(c, quantity)
  \/ Finish
  \/ \E c \in Contracts : FinalSell(c)
  \/ Done

Spec == Init /\ [][Next]_vars

-----------------------------------------------------------------------------
\* Every variable is of its type: cash and positions are never negative.
TypeOK ==
  /\ allowPartial \in BOOLEAN /\ preloaded \in BOOLEAN
  /\ clock \in {0} \cup Timeline
  /\ \A c \in Contracts : book[c] = NoQuote \/ book[c].from \in Days
  /\ cash \in Nat
  /\ positions \in [Contracts -> Nat]
  /\ pending \in Seq(Order)
  /\ aggression \in [Contracts -> 0..MaxAggression]
  /\ recent \subseteq Contracts
  /\ phase \in Phases
  /\ turn \in DOMAIN Universe /\ at \in 1..(Len(pending) + 1) /\ todo \subseteq Contracts
  /\ report \in Report

\* "El reloj historico solo entrega datos con timestamp <= now"
\* (docs/BACKTESTING.md): neither the quotes in the book nor the one a trade
\* executed at come from a later day, although the later days are loaded.
NoLookAhead ==
  /\ report.last.from <= report.last.day
  /\ \A c \in Contracts : book[c] # NoQuote => book[c].from <= clock

\* Without partial fills the report is right: the contracts bought are those
\* sold and those held, and the cash is what the trades and a commission on
\* each of them leave.  Several sells of one position may rest; the first that
\* executes takes it whole and the others raise (_apply).  With partial fills a
\* resting sell may execute for more than is held, and is credited for all.
ReportIsRight ==
  ~allowPartial =>
    /\ \A c \in Contracts : report.bought[c] = report.sold[c] + positions[c]
    /\ cash = InitialCash - report.spent + report.received
                - Commission(report.spent + report.received)

\* Nothing is traded on a past day: the strategy takes the age of a quote by
\* the wall clock (option_chain/quality.py), so that it finds nothing operable
\* until the simulated clock has reached the day the backtest runs on.
PastIsNotTraded == report.last # NoTrade => report.last.day >= Today
=============================================================================
