-------------------------------- MODULE Exits ---------------------------------
(***************************************************************************)
(* When the basic strategy leaves a position (evaluate_exits of            *)
(* strategy_engine/basic.py).  It is asked about every position in every   *)
(* cycle and remembers the highest price of each between the calls, or     *)
(* means to.                                                               *)
(*                                                                         *)
(* A decision is executed by the executor, which may be refused            *)
(* (TradingCycle), so that a position decided on may be there in the next  *)
(* cycle.  A quantity decides nothing here; percentages are rounded to the *)
(* advantage of the comparison, which is made on products.                 *)
(***************************************************************************)
EXTENDS Integers, FiniteSetsExt

CONSTANTS
  Contracts,
  Prices,           \* prices considered, above 0
  NoPrice, NoPosition,
  TakeProfit,       \* take_profit_pct
  StopLoss,         \* stop_loss_pct
  TrailingStop,     \* trailing_stop_pct
  MaxHolding,       \* max_holding_days
  LastHeldDay,      \* the last day before force_exit_days_before_expiration
  LastDay           \* bound: the days a behaviour lasts

\* What MCStrategy assumes of them, and the theorems.
PricesAssumption == Prices \subseteq Nat \ {0} /\ NoPrice \notin Prices
PercentagesAssumption ==
  TakeProfit \in Nat /\ StopLoss \in Nat /\ TrailingStop \in Nat \ {0}
ExitDaysAssumption == MaxHolding \in Nat /\ LastHeldDay \in Nat /\ LastDay \in Nat

VARIABLES
  holding,      \* contract -> [average, current, opened], or NoPosition
  highWater,    \* contract -> _high_water, or NoPrice
  today,
  decided       \* contract -> the reasons of the last evaluation to leave it

vars == <<holding, highWater, today, decided>>

Held == {c \in Contracts : holding[c] # NoPosition}

Init ==
  /\ holding = [c \in Contracts |-> NoPosition]
  /\ highWater = [c \in Contracts |-> NoPrice]
  /\ today = 0
  /\ decided = [c \in Contracts |-> {}]

\* The bid of a quote, or its last price (or half the ask, for a bid of 0), or the price the
\* position was marked at.
Mark(position, bid, last) ==
  IF bid # NoPrice THEN bid ELSE IF last # NoPrice THEN last ELSE position.current

\* A symbol that is not there yet has its mark for highest price, which is not above itself.
HighWaterFromTheStart(c, mark) ==
  IF highWater[c] = NoPrice THEN mark ELSE Max({highWater[c], mark})
HighWater(c, mark) ==
  IF highWater[c] = NoPrice THEN NoPrice ELSE Max({highWater[c], mark})

\* "thin": less volume than min_volume; "against": the trend is; "lost": the daily loss.
Reasons(c, mark, thin, against, lost) ==
  LET position == holding[c]
      gain == 100 * (mark - position.average)
      highest == IF HighWater(c, mark) = NoPrice THEN mark ELSE HighWater(c, mark)
      holds(reason) ==
        CASE reason = "take_profit" -> gain >= TakeProfit * position.average
          [] reason = "stop_loss" -> gain <= -StopLoss * position.average
          [] reason = "trailing_stop" ->
               100 * (highest - mark) >= TrailingStop * highest /\ gain > 0
          [] reason = "max_holding_time" -> today - position.opened >= MaxHolding
          [] reason = "near_expiration" -> today > LastHeldDay
          [] reason = "liquidity_lost" -> thin
          [] reason = "trend_reversal" -> against
          [] OTHER -> lost
  IN {r \in {"take_profit", "stop_loss", "trailing_stop", "max_holding_time",
             "near_expiration", "liquidity_lost", "trend_reversal", "daily_loss_limit"} : holds(r)}

-----------------------------------------------------------------------------
\* A purchase opens a position or adds to one, at an average of the two prices.
Buy(c) ==
  /\ \E price \in Prices :
       holding' = [holding EXCEPT ![c] =
         IF @ = NoPosition THEN [average |-> price, current |-> price, opened |-> today]
         ELSE [average |-> (@.average + price) \div 2, current |-> price, opened |-> @.opened]]
  /\ UNCHANGED <<highWater, today, decided>>

\* evaluate_exits, of one position; the loop over them keeps nothing between two.
EvaluateExit(c) ==
  /\ c \in Held
  /\ \E bid, last \in Prices \cup {NoPrice}, thin, against, lost \in BOOLEAN :
       LET mark == Mark(holding[c], bid, last)
           reasons == Reasons(c, mark, thin, against, lost)
       IN /\ decided' = [decided EXCEPT ![c] = reasons]
          /\ highWater' = [highWater EXCEPT ![c] =
                             IF reasons # {} THEN NoPrice ELSE HighWater(c, mark)]
  /\ UNCHANGED <<holding, today>>

\* The decision is executed.
Leave(c) ==
  /\ c \in Held /\ decided[c] # {}
  /\ holding' = [holding EXCEPT ![c] = NoPosition]
  /\ decided' = [decided EXCEPT ![c] = {}]
  /\ UNCHANGED <<highWater, today>>

\* The broker marks the positions.
MarkPosition(c) ==
  /\ c \in Held
  /\ \E price \in Prices :
       holding' = [holding EXCEPT ![c] =
         [average |-> @.average, current |-> price, opened |-> @.opened]]
  /\ UNCHANGED <<highWater, today, decided>>

DayPasses ==
  /\ today < LastDay
  /\ today' = today + 1
  /\ UNCHANGED <<holding, highWater, decided>>

Next ==
  \/ \E c \in Contracts : Buy(c) \/ EvaluateExit(c) \/ Leave(c) \/ MarkPosition(c)
  \/ DayPasses

Spec == Init /\ [][Next]_vars

-----------------------------------------------------------------------------
\* Whatever a price reached before, and however often the position was evaluated on the
\* way, a fall from it is never a reason to leave: the trailing stop does not work, for
\* the highest price is only remembered of a symbol for which one is remembered.
TrailingStopNeverFires ==
  \A c \in Contracts : "trailing_stop" \notin decided[c]
=============================================================================
