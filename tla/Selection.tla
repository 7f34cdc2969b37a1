------------------------------ MODULE Selection -------------------------------
(***************************************************************************)
(* The contract selector (contract_selection/selector.py): which contracts *)
(* of a chain it discards, the score it gives the others, and how it keeps *)
(* its choices apart.  Scores are thousandths, rounded down.               *)
(*                                                                         *)
(* A listing gives each contract of a chain its quote; here a quote has,   *)
(* besides its prices, the open interest, the implied volatility in        *)
(* hundredths and the greeks of the contract.                              *)
(***************************************************************************)
EXTENDS RiskGate, Sequences, SequencesExt, Functions, TLC

CONSTANTS
  Contracts,           \* the chain, in the order of chain.contracts
  Listings,            \* the chains considered: contract -> quote
  Underlying, Type, Strike, Days,  \* contract -> attribute; Days: to its expiration
  Spot,
  HistoricalVol,       \* in hundredths, as the strategies pass it; 0: none
  NoGreeks,
  Peso,
  SelectorMinDays, SelectorMaxDays, SelectorMaxSpread, SelectorMinVolume, SelectorMaxAge,
  MaxPremium,          \* max_premium_capital
  ContractSize,
  PerUnderlying, PerExpiry  \* max_per_underlying, max_per_expiry

ASSUME ChainAssumption ==
  LET listed == ToSet(Contracts)
  IN /\ Contracts \in Seq(listed) /\ IsInjective(Contracts)
     /\ Type \in [listed -> {"CALL", "PUT"}]
     /\ Strike \in [listed -> Nat \ {0}] /\ Days \in [listed -> Nat]
     /\ Spot \in Nat \ {0} /\ ContractSize \in Nat \ {0} /\ MaxPremium \in Nat \ {0}

Distance(a, b) == IF a < b THEN b - a ELSE a - b
AtLeast0(x) == Max({0, x})

\* classify, as far as it matters here
AtTheMoney(c) == 100 * Distance(Spot, Strike[c]) <= 2 * Strike[c]
DeepOutOfTheMoney(c) ==
  IF Type[c] = "CALL" THEN 10 * Spot <= 9 * Strike[c] ELSE 10 * Spot >= 11 * Strike[c]

TooMuchTheta(greeks) == IF greeks = NoGreeks THEN FALSE ELSE greeks.theta > 50

\* A spread of 0 is taken for an unknown one.
Discarded(c, q) ==
  \/ q.bid = NoPrice \/ q.ask = NoPrice
  \/ q.bid >= q.ask
  \/ Spread(q) > SelectorMaxSpread
  \/ q.age > SelectorMaxAge
  \/ Days[c] < SelectorMinDays \/ Days[c] > SelectorMaxDays
  \/ q.volume < SelectorMinVolume
  \/ q.ask * ContractSize > MaxPremium
  \/ DeepOutOfTheMoney(c)
  \/ TooMuchTheta(q.greeks)

-----------------------------------------------------------------------------
SpreadScore(q) == AtLeast0(1000 - (1000 * Spread(q)) \div SelectorMaxSpread)

ExpiryFit(c) ==
  LET twiceMid == SelectorMinDays + SelectorMaxDays
  IN AtLeast0(1000 - (1000 * Distance(2 * Days[c], twiceMid)) \div Max({twiceMid, 2}))

StrikeFit(c) ==
  LET proximity == AtLeast0(1000 - (100000 * Distance(Strike[c], Spot)) \div (15 * Spot))
  IN IF AtTheMoney(c) THEN Min({1000, proximity + 100}) ELSE proximity

GreekScores(greeks) ==
  IF greeks = NoGreeks THEN [delta |-> 400, theta |-> 400, vega |-> 400]
  ELSE [ delta |-> IF greeks.delta \in 40..65 THEN 1000
                   ELSE AtLeast0(1000 - 10 * Distance(2 * greeks.delta, 105)),
         theta |-> AtLeast0(1000 - 20 * greeks.theta),
         vega |-> 1000 - 10 * Min({greeks.vega, 100}) ]

VolatilityScore(iv) ==
  IF iv = NoPrice \/ HistoricalVol = 0 THEN 350
  ELSE AtLeast0(1000 - (1000 * Distance(iv, HistoricalVol)) \div HistoricalVol)

\* A low premium earns no more than 700.
PremiumScore(q) == Min({700, AtLeast0(1000 - (1000 * q.ask * ContractSize) \div MaxPremium)})

ExecutionScore(q) == Min({1000, (7 * SpreadScore(q)) \div 10 + (IF q.bid = 0 THEN 0 ELSE 300)})

\* The components by their weights, which add up to 100.
WeightedSum(c, q) ==
  LET greek == GreekScores(q.greeks)
  IN ( 12 * Min({1000, 10 * q.volume}) + 14 * SpreadScore(q)
       + 10 * (IF q.bid = 0 THEN 200 ELSE 1000) + 10 * ExpiryFit(c) + 10 * StrikeFit(c)
       + 10 * greek.delta + 8 * greek.theta + 5 * greek.vega + 8 * VolatilityScore(q.iv)
       + 5 * PremiumScore(q) + 4 * (IF q.interest > 0 THEN 800 ELSE 400)
       + 4 * ExecutionScore(q) ) \div 100

Penalised(score, q) ==
  LET Percent(applies, factor, x) == IF applies THEN (factor * x) \div 100 ELSE x
      wide == 10 * Spread(q) > 7 * SelectorMaxSpread
      quiet == q.volume < 2 * SelectorMinVolume
      cheap == q.ask < Peso /\ q.volume < 20
      odd == q.iv # NoPrice /\ (IF q.iv = NoPrice THEN FALSE ELSE q.iv > 200 \/ q.iv < 5)
  IN Percent(odd, 85, Percent(cheap, 85, Percent(q.interest = 0, 90,
       Percent(quiet, 95, Percent(wide, 90, score)))))

Score(c, q) == Penalised(WeightedSum(c, q), q)

-----------------------------------------------------------------------------
\* The viable contracts of a type, best score first; equal scores in chain order.
Ranked(listing, type) ==
  LET viable == {i \in DOMAIN Contracts :
                   Type[Contracts[i]] = type /\ ~Discarded(Contracts[i], listing[Contracts[i]])}
      score == [i \in viable |-> Score(Contracts[i], listing[Contracts[i]])]
      Before(i, j) == score[i] > score[j] \/ (score[i] = score[j] /\ i < j)
      Place(i) == 1 + Cardinality({j \in viable : Before(j, i)})
  IN [n \in 1..Cardinality(viable) |-> Contracts[CHOOSE i \in viable : Place(i) = n]]

Ranking == [listing \in Listings |-> [type \in {"CALL", "PUT"} |-> Ranked(listing, type)]]

\* Strikes within 1 percent and the same expiration.
Equivalent(a, c) == /\ 100 * Distance(Strike[a], Strike[c]) < Strike[c]
                    /\ Days[a] = Days[c]


\* counts: how often a pair of underlying and days to expiration was registered.
Exposed(counts, c) ==
  \/ FoldFunctionOnSet(+, 0, counts, {k \in DOMAIN counts : k[1] = Underlying[c]}) >= PerUnderlying
  \/ counts[<<Underlying[c], Days[c]>>] >= PerExpiry

\* A contract is kept unless it is exposed or like one that is.
Keep(kept, c, counts) ==
  IF Exposed(counts, c) \/ \E a \in ToSet(kept) : Equivalent(a, c)
  THEN kept ELSE Append(kept, c)

Filtered(listing, type, counts) ==
  LET ranked == Ranking[listing][type]
      kept[n \in 0..Len(ranked)] ==
        IF n = 0 THEN <<>> ELSE Keep(kept[n - 1], ranked[n], counts)
  IN kept[Len(ranked)]

ExaminedInVain(g, listing, type, counts, p) ==
  [gate |-> g, approved |-> Filtered(listing, type, counts)]

\* select_with_risk shows the contracts to the risk manager one after the other.
ExamineOne(acc, c, q, p) ==
  [ gate |-> AfterExamining(acc.gate, 1, Underlying[c], Days[c], q, p),
    approved |-> IF RefusesPurchase(acc.gate, 1, Underlying[c], Days[c], q, p)
                 THEN acc.approved ELSE Append(acc.approved, c) ]

Examined(g, listing, type, counts, p) ==
  LET shown == Filtered(listing, type, counts)
      acc[n \in 0..Len(shown)] ==
        IF n = 0 THEN [gate |-> g, approved |-> <<>>]
        ELSE ExamineOne(acc[n - 1], shown[n], listing[shown[n]], p)
  IN acc[Len(shown)]
=============================================================================
