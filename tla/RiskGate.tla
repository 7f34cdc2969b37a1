------------------------------- MODULE RiskGate -------------------------------
(***************************************************************************)
(* The risk manager (risk_manager/default.py): what it says of an order to *)
(* buy or to sell, how many contracts it suggests, and its circuit         *)
(* breaker, which its own refusals can trip and only a confirmation by     *)
(* hand resets.                                                            *)
(*                                                                         *)
(* Prices and money are whole numbers.  Of the hour and of the losses of   *)
(* the account there is whether they let it buy.                           *)
(* Authorized underlyings are left out: the strategies ask for no others.  *)
(***************************************************************************)
EXTENDS Integers, FiniteSetsExt

CONSTANTS
  NoPrice, NoQuote,
  MaxQuoteAge,         \* max_quote_age_seconds
  MaxSpread,           \* maximum_bid_ask_spread_percentage, in hundredths
  MinVolume, MinDays, MaxDays,
  DailyTradeLimit, MaxOpenPositions, MaxPerUnderlying,
  MinReserve,          \* minimum_cash_reserve
  MaxTotalPremium,
  PositionPct,         \* maximum_position_percentage
  CapitalAtRisk,       \* maximum_capital_at_risk
  LossPerTrade,        \* maximum_loss_per_trade
  RejectionsToTrip,    \* 10
  ErrorsToTrip         \* 5

ASSUME LimitsAssumption ==
  /\ {MaxQuoteAge, MaxSpread, MinVolume, MinDays, MaxDays} \subseteq Nat
  /\ {DailyTradeLimit, MaxOpenPositions, MaxPerUnderlying} \subseteq Nat
  /\ {MinReserve, MaxTotalPremium, PositionPct, CapitalAtRisk, LossPerTrade} \subseteq Nat
  /\ {RejectionsToTrip, ErrorsToTrip} \subseteq Nat \ {0}

\* Outside trading hours, at the weekly loss, after a number of losses in a row or soon
\* after a loss it does not buy; at the daily loss or the drawdown the breaker trips too.
Sessions == {"open", "closed", "tripping"}

\* The breaker: emergency_stop of the settings, its own switch, and what it counts.
Gates == [stop : BOOLEAN, breaker : BOOLEAN,
          rejections : 0..RejectionsToTrip, errors : 0..ErrorsToTrip]

InitGate(stop) == [stop |-> stop, breaker |-> stop, rejections |-> 0, errors |-> 0]
Blocked(g) == g.stop \/ g.breaker
Reset == InitGate(FALSE)

\* record_rejection and record_api_error; the counts stop at the number that trips.
AfterRejection(g) ==
  LET n == Min({g.rejections + 1, RejectionsToTrip})
  IN [g EXCEPT !.rejections = n, !.breaker = @ \/ n = RejectionsToTrip]
AfterError(g) ==
  LET n == Min({g.errors + 1, ErrorsToTrip})
  IN [g EXCEPT !.errors = n, !.breaker = @ \/ n = ErrorsToTrip]

-----------------------------------------------------------------------------
\* A quote is [bid, ask, size, volume, age]; size 0: the book shows no sizes.
Spread(q) == ((q.ask - q.bid) * 10000) \div q.ask

Quality(q) ==
  IF q.bid = NoPrice \/ q.ask = NoPrice THEN "MISSING"
  ELSE IF q.ask <= 0 \/ q.bid > q.ask THEN "INVALID"
  ELSE IF q.age > MaxQuoteAge THEN "STALE" ELSE "VALID"

\* A fee of 0.1 percent, in thousandths: the manager's estimate.
WithFee(amount) == 1001 * amount

\* size_position for the price asked, which is not 0.
SuggestedQuantity(n, q, p) ==
  Min({ (p.equity * PositionPct) \div (100 * q.ask),
        LossPerTrade \div q.ask,
        Max({0, MaxTotalPremium - p.premium}) \div q.ask,
        (1000 * Max({0, p.cash - MinReserve})) \div (1002 * q.ask),
        IF q.size = 0 THEN 50 ELSE q.size,
        n })

BreaksLimitOnMoney(n, q, p) ==
  LET premium == q.ask * n
  IN \/ WithFee(premium) > 1000 * p.cash
     \/ 1000 * p.cash - WithFee(premium) < 1000 * MinReserve
     \/ p.premium + premium > MaxTotalPremium
     \/ 100 * premium > p.equity * PositionPct
     \/ premium > CapitalAtRisk

BreaksLimitOnTrades(p, underlying) ==
  \/ p.session # "open"
  \/ p.trades >= DailyTradeLimit
  \/ p.open >= MaxOpenPositions
  \/ p.ofUnderlying[underlying] >= MaxPerUnderlying

\* A purchase of n contracts, days from expiration, is refused.
RefusesPurchase(g, n, underlying, days, q, p) ==
  \/ Blocked(g)
  \/ days < MinDays \/ days > MaxDays
  \/ BreaksLimitOnTrades(p, underlying)
  \/ IF q = NoQuote THEN TRUE
     ELSE IF Quality(q) # "VALID" THEN TRUE
     ELSE Spread(q) > MaxSpread \/ q.volume < MinVolume \/ BreaksLimitOnMoney(n, q, p)

\* What the examination of a purchase leaves of the breaker.
AfterExamining(g, n, underlying, days, q, p) ==
  LET stale == IF q = NoQuote THEN FALSE ELSE Quality(q) = "STALE"
      tripped == [g EXCEPT !.breaker = @ \/ stale \/ p.session = "tripping"]
  IN IF RefusesPurchase(g, n, underlying, days, q, p) THEN AfterRejection(tripped) ELSE tripped

\* A sale needs a position that covers it; blocked or not, and whatever was lost.
RefusesSale(n, covered, q) ==
  \/ n > covered
  \/ IF q = NoQuote THEN TRUE ELSE Quality(q) = "INVALID"
=============================================================================
