-------------------------------- MODULE Entry ---------------------------------
(***************************************************************************)
(* How an option comes to be bought.  Two ways lead there: the basic       *)
(* strategy (strategy_engine/basic.py) confirms a signal, sizes an order   *)
(* and has the risk manager examine it, then the executor                  *)
(* (strategy_engine/executor.py) has it examined again on a fresh quote    *)
(* and submits it; or the contract selector chooses one contract that the  *)
(* risk manager accepts.  A program uses one of the two.                   *)
(*                                                                         *)
(* The market may move between the chain the strategy reads, the quote the *)
(* executor reads and the price of the fill; the listings and quotes are   *)
(* chosen freely at each.  The indicators are a direction, the score of    *)
(* scoring.py is any of the candidates.  Positions are valued at what they *)
(* cost, orders fill whole or not at all: PaperBroker models partial fills *)
(* and resting orders.                                                     *)
(***************************************************************************)
EXTENDS Selection

CONSTANTS
  Quotes,              \* the quotes considered
  NoContract, NoPortfolio,
  InitialCash,
  MaxDailyTrades,      \* max_daily_trades of the strategy
  MaxCapital,          \* max_capital_per_signal
  ConfirmCycles,       \* signal_confirm_cycles
  StrategyMaxDays      \* max_dte of the strategy

ASSUME QuotesAssumption ==
  \A q \in Quotes : {q.bid, q.ask} \subseteq Nat \cup {NoPrice} /\ q.size \in Nat
ASSUME BudgetAssumption ==
  InitialCash \in Nat /\ MaxCapital \in Nat /\ ConfirmCycles \in Nat \ {0}

VARIABLES
  engine,     \* "basic" or "selector"
  gate,       \* the circuit breaker
  cash,
  held,       \* contract -> contracts of its position; 0: no position
  cost,       \* contract -> what the position cost
  trades,     \* _trades_today, counted up to DailyTradeLimit
  counts,     \* _signal_counts, counted up to ConfirmCycles
  waiting,    \* a trade was decided less than min_seconds_between_trades ago
  recent,     \* contracts decided on less than an hour ago
  exposure,   \* _exposure_counts and _expiry_counts of the selector
  choice,     \* the last SelectionResult
  purchase    \* the last purchase, as the executor saw it and as it was filled

account == <<cash, held, cost, trades, purchase>>
memory == <<counts, waiting, recent>>
entryVars == <<engine, gate, account, memory, exposure, choice>>

Listed == ToSet(Contracts)
Expiries == {<<Underlying[c], Days[c]>> : c \in Listed}
NoChoice == [winner |-> NoContract]

EntryInit ==
  /\ engine \in {"basic", "selector"}
  /\ \E stop \in BOOLEAN : gate = InitGate(stop)
  /\ cash = InitialCash
  /\ held = [c \in Listed |-> 0] /\ cost = [c \in Listed |-> 0]
  /\ trades = 0
  /\ counts = [c \in Listed |-> 0] /\ waiting = FALSE /\ recent = {}
  /\ exposure = [k \in Expiries |-> 0]
  /\ choice = NoChoice
  /\ purchase = [quantity |-> 0, ask |-> 0, excess |-> 0]

Held == {c \in Listed : held[c] > 0}

\* What the contracts of the chain add up to.
Total(amounts) ==
  LET upTo[n \in 0..Len(Contracts)] ==
        IF n = 0 THEN 0 ELSE upTo[n - 1] + amounts[Contracts[n]]
  IN upTo[Len(Contracts)]

Premium == Total(cost)

Portfolio(session) ==
  [ cash |-> cash, premium |-> Premium, equity |-> cash + Premium, trades |-> trades,
    open |-> Cardinality(Held),
    ofUnderlying |-> [u \in {Underlying[c] : c \in Listed} |->
                        Cardinality({c \in Held : Underlying[c] = u})],
    session |-> session ]
Portfolios == {Portfolio(session) : session \in Sessions}

-----------------------------------------------------------------------------
\* The broker fills at the quote it finds, checks the cash and charges its fee.
Fee(amount) == amount \div 1000

Submit(c, n, asked, fill) ==
  LET paid == fill.ask * n
      total == paid + Fee(paid)
  IN IF fill.ask = NoPrice THEN UNCHANGED account
     ELSE IF total > cash \/ n > (IF fill.size = 0 THEN 30 ELSE fill.size) THEN UNCHANGED account
     ELSE /\ cash' = cash - total
          /\ held' = [held EXCEPT ![c] = @ + n]
          /\ cost' = [cost EXCEPT ![c] = @ + paid]
          /\ trades' = Min({trades + 1, DailyTradeLimit})
          /\ purchase' = [ quantity |-> n, ask |-> asked,
                           excess |-> AtLeast0(total - (asked * n + Fee(asked * n))) ]

ExecuteAsDecided(c, n, q, p) ==
  /\ UNCHANGED gate
  /\ \E fill \in Quotes : Submit(c, n, IF q = NoQuote THEN fill.ask ELSE q.ask, fill)

\* The executor's own examination; a suggestion of 0 leaves the quantity as it was.
Execute(c, n, q, p) ==
  /\ gate' = AfterExamining(gate, n, Underlying[c], Days[c], q, p)
  /\ IF RefusesPurchase(gate, n, Underlying[c], Days[c], q, p) THEN UNCHANGED account
     ELSE LET suggested == SuggestedQuantity(n, q, p)
          IN \E fill \in Quotes :
               Submit(c, IF suggested = 0 THEN n ELSE suggested, q.ask, fill)

-----------------------------------------------------------------------------
\* assess_operability with the strategy's filters.
Operable(c, q) ==
  /\ q.bid # NoPrice /\ q.ask # NoPrice /\ q.ask > 0
  /\ q.bid <= q.ask /\ Spread(q) <= MaxSpread
  /\ Days[c] \in MinDays..StrategyMaxDays
  /\ q.volume >= MinVolume /\ q.age <= MaxQuoteAge

Candidates(q) ==
  {c \in Listed \ recent : Operable(c, q) /\ q.ask <= MaxCapital}

MayEvaluate ==
  engine = "basic" /\ ~Blocked(gate) /\ trades < MaxDailyTrades /\ ~waiting

Confirmed(best) == counts[best] + 1 >= ConfirmCycles

\* The best candidate has not been seen often enough.
AwaitConfirmation ==
  /\ MayEvaluate
  /\ \E q \in Quotes : \E best \in Candidates(q) :
       /\ ~Confirmed(best)
       /\ counts' = [counts EXCEPT ![best] = @ + 1]
  /\ UNCHANGED <<engine, gate, account, waiting, recent, exposure, choice>>

Wanted(q) == Max({1, MaxCapital \div q.ask})

\* The strategy's own examination refuses; the confirmations stay.
Discard ==
  /\ MayEvaluate
  /\ \E q \in Quotes, p \in Portfolios : \E best \in Candidates(q) :
         /\ Confirmed(best)
         /\ RefusesPurchase(gate, Wanted(q), Underlying[best], Days[best], q, p)
         /\ gate' = AfterExamining(gate, Wanted(q), Underlying[best], Days[best], q, p)
         /\ counts' = [counts EXCEPT ![best] = ConfirmCycles]
  /\ UNCHANGED <<engine, account, waiting, recent, exposure, choice>>

\* It accepts, and the executor takes over, whatever comes of it.
Enter ==
  /\ MayEvaluate
  /\ \E q \in Quotes, p \in Portfolios : \E best \in Candidates(q) :
         /\ Confirmed(best)
         /\ ~RefusesPurchase(gate, Wanted(q), Underlying[best], Days[best], q, p)
         /\ counts' = [counts EXCEPT ![best] = 0]
         /\ waiting' = TRUE /\ recent' = recent \cup {best}
         /\ LET suggested == SuggestedQuantity(Wanted(q), [ask |-> q.ask, size |-> 0], p)
                n == IF suggested = 0 THEN Wanted(q) ELSE suggested
            IN \E fresh \in Quotes \cup {NoQuote} : Execute(best, n, fresh, p)
  /\ UNCHANGED <<engine, exposure, choice>>

-----------------------------------------------------------------------------
\* select, which leaves the risk manager to the caller.
Select ==
  /\ engine = "selector" /\ choice = NoChoice
  /\ \E listing \in Listings, type \in {Type[c] : c \in Listed} :
       LET kept == Filtered(listing, type, exposure)
       IN choice' = [ listing |-> listing, portfolio |-> NoPortfolio, registered |-> FALSE,
                      winner |-> IF kept = <<>> THEN NoContract ELSE Head(kept) ]
  /\ UNCHANGED <<engine, gate, account, memory, exposure>>

SelectWithRisk ==
  /\ engine = "selector" /\ choice = NoChoice
  /\ \E listing \in Listings, type \in {Type[c] : c \in Listed}, p \in Portfolios :
       LET result == Examined(gate, listing, type, exposure, p)
       IN /\ gate' = result.gate
          /\ choice' = [ listing |-> listing, portfolio |-> p, registered |-> FALSE,
                         winner |-> IF result.approved = <<>> THEN NoContract
                                    ELSE Head(result.approved) ]
  /\ UNCHANGED <<engine, account, memory, exposure>>

\* The caller may register the winner, once, have one contract of it bought or do neither.
Register ==
  /\ choice.winner # NoContract
  /\ ~choice.registered
  /\ exposure' = [exposure EXCEPT ![<<Underlying[choice.winner], Days[choice.winner]>>] = @ + 1]
  /\ choice' = [choice EXCEPT !.registered = TRUE]
  /\ UNCHANGED <<engine, gate, account, memory>>

Ignore ==
  /\ choice # NoChoice /\ choice' = NoChoice
  /\ UNCHANGED <<engine, gate, account, memory, exposure>>

BuyWinner ==
  /\ choice.winner # NoContract
  /\ \E q \in Quotes \cup {NoQuote}, p \in Portfolios : Execute(choice.winner, 1, q, p)
  /\ choice' = NoChoice
  /\ UNCHANGED <<engine, memory, exposure>>

-----------------------------------------------------------------------------
\* A position is sold as a whole, at a bid if there is one.
Sell(c) ==
  /\ held[c] > 0
  /\ \E q \in Quotes :
       /\ ~RefusesSale(held[c], held[c], q)
       /\ q.bid # NoPrice
       /\ cash' = cash + q.bid * held[c] - Fee(q.bid * held[c])
  /\ held' = [held EXCEPT ![c] = 0] /\ cost' = [cost EXCEPT ![c] = 0]
  /\ trades' = Min({trades + 1, DailyTradeLimit})
  /\ choice' = NoChoice
  /\ UNCHANGED <<engine, gate, purchase, memory, exposure>>

ApiError ==
  /\ gate' = AfterError(gate)
  /\ UNCHANGED <<engine, account, memory, exposure, choice>>

ResetBreaker ==
  /\ gate' = Reset
  /\ UNCHANGED <<engine, account, memory, exposure, choice>>

\* The interval between trades passes, or the hour in which a contract is not bought again.
TimePasses ==
  /\ waiting' = FALSE /\ recent' \in SUBSET recent
  /\ UNCHANGED <<engine, gate, account, counts, exposure, choice>>

EntryNext ==
  \/ AwaitConfirmation \/ Discard \/ Enter
  \/ Select \/ SelectWithRisk \/ Register \/ Ignore \/ BuyWinner
  \/ \E c \in Listed : Sell(c)
  \/ ApiError \/ ResetBreaker \/ TimePasses

EntrySpec == EntryInit /\ [][EntryNext]_entryVars

-----------------------------------------------------------------------------
\* The state of the types above; with the account in money nobody owes.
EntryTypeOK ==
  /\ engine \in {"basic", "selector"}
  /\ gate \in Gates /\ gate.stop => gate.breaker
  /\ cash \in Nat /\ trades \in 0..DailyTradeLimit
  /\ \A c \in Listed : held[c] \in Nat /\ cost[c] \in Nat /\ (held[c] = 0) = (cost[c] = 0)
  /\ counts \in [Listed -> 0..ConfirmCycles] /\ recent \subseteq Listed
  /\ \A k \in Expiries : exposure[k] \in 0..PerExpiry
  /\ choice.winner \in Listed \cup {NoContract}

\* Whatever the order of purchases and sales, what the limits on money allow is
\* exceeded by no more than the last fill cost above the quote it was examined on, and an
\* order that loses more than the limit per trade has a contract dearer than the limit:
\* only then is the suggested quantity 0, which counts as no suggestion.
LimitsKept ==
  /\ Premium <= MaxTotalPremium + purchase.excess
  /\ cash + purchase.excess >= Min({InitialCash, MinReserve})
  /\ purchase.quantity * purchase.ask > LossPerTrade => purchase.ask > LossPerTrade

\* Nothing but the breaker stands in the way of the winner of a selection with risk: on
\* the quote and the portfolio it was examined with it passes every other check of the
\* risk manager, whatever the examination of its alternatives and the requests after it
\* have done to the breaker, which they may trip (select_with_risk does not look again).
WinnerIsBuyable ==
  LET c == choice.winner
  IN c # NoContract /\ choice.portfolio # NoPortfolio =>
       ~RefusesPurchase(Reset, 1, Underlying[c], Days[c], choice.listing[c], choice.portfolio)

=============================================================================
