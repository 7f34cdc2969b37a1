---------------------------- MODULE MatchingEngine ----------------------------
(***************************************************************************)
(* The simulated matching engine of the paper broker                       *)
(* (modules/paper_broker/matching.py): which orders execute against a      *)
(* quote, at which price and for how many contracts.                       *)
(*                                                                         *)
(* Prices are whole ticks.  A fill price is counted in 1/SlipDen of a      *)
(* tick, so that the slippage fraction SlipNum/SlipDen is exact, as it is  *)
(* with the Decimals of the code.  A limit or stop price of 0 stands for   *)
(* None: the code treats both the same way.                                *)
(***************************************************************************)
EXTENDS Integers

CONSTANTS
  None,          \* an absent quote, bid, ask or last price
  Symbols,       \* the option contracts that are traded
  Requests,      \* the order requests that may be submitted
  Quotes,        \* the quotes the market data provider may answer with
  SlipNum,       \* slippage_bps / 10000 = SlipNum / SlipDen
  SlipDen,
  AllowPartial,  \* allow_partial
  DefaultSize    \* default_available_size

Side == {"BUY", "SELL"}
MarketTypes == {"MARKET", "STOP_MARKET"}
LimitTypes == {"LIMIT", "STOP_LIMIT"}
StopTypes == {"STOP_MARKET", "STOP_LIMIT"}

Request == [symbol : Symbols, side : Side, type : MarketTypes \cup LimitTypes,
            qty : Int, limit : Nat, stop : Nat]

MarketQuote == [bid : Nat \cup {None}, ask : Nat \cup {None}, last : Nat \cup {None},
                bidSize : Nat, askSize : Nat]

ASSUME NoneAssumption == None \notin Int /\ None \notin Request /\ None \notin MarketQuote
ASSUME RequestsAssumption == Requests \subseteq Request
ASSUME QuotesAssumption == Quotes \subseteq MarketQuote \cup {None}
ASSUME SlippageAssumption == SlipNum \in Nat /\ SlipDen \in Nat \ {0} /\ SlipNum <= SlipDen
ASSUME SizeAssumption == AllowPartial \in BOOLEAN /\ DefaultSize \in Nat \ {0}

-----------------------------------------------------------------------------
\* `ask_size or bid_size or default`: the ask side decides for sells too, and
\* a size of zero counts as unknown.
Available(q) ==
  IF q.askSize > 0 THEN q.askSize
  ELSE IF q.bidSize > 0 THEN q.bidSize ELSE DefaultSize

\* The checks at the head of match(): both sides quoted, a positive ask, not crossed.
Executable(q) ==
  /\ q # None
  /\ q.bid # None /\ q.ask # None
  /\ q.ask > 0
  /\ q.bid <= q.ask

Deliverable(wanted, available) ==
  IF wanted <= available THEN wanted
  ELSE IF AllowPartial THEN available ELSE 0

\* Twice the reference price of a stop: `last or mid`, and mid = (bid + ask) / 2.
TwiceReference(q) ==
  IF q.last # None /\ q.last # 0 THEN 2 * q.last ELSE q.bid + q.ask

Triggered(r, q) ==
  /\ r.stop > 0
  /\ IF r.side = "BUY" THEN TwiceReference(q) >= 2 * r.stop
                       ELSE TwiceReference(q) <= 2 * r.stop

\* The side of the book an order trades with.
Touch(side, q) == IF side = "BUY" THEN q.ask ELSE q.bid

WithinLimit(r, q) ==
  /\ r.limit > 0
  /\ IF r.side = "BUY" THEN q.ask <= r.limit ELSE q.bid >= r.limit

Slipped(side, price) ==
  IF side = "BUY" THEN price * (SlipDen + SlipNum) ELSE price * (SlipDen - SlipNum)

\* Within its limit an order executes at the touch: min(ask, limit) or max(bid, limit).
FillPrice(r, q) ==
  IF r.type \in MarketTypes THEN Slipped(r.side, Touch(r.side, q))
                            ELSE Touch(r.side, q) * SlipDen

FillSize(r, q) == Deliverable(r.qty, Available(q))

\* MatchResult.can_fill
CanFill(r, q) ==
  /\ Executable(q)
  /\ r.type \in StopTypes => Triggered(r, q)
  /\ r.type \in LimitTypes => WithinLimit(r, q)
  /\ FillSize(r, q) > 0
  /\ FillPrice(r, q) > 0
=============================================================================
