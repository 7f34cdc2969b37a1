----------------------------- MODULE Optimization -----------------------------
(***************************************************************************)
(* The search for parameters (modules/optimization/runner.py).  A grid     *)
(* search scores combinations on the training and the validation days of a *)
(* period and tests the best three on days held out.  A walk-forward       *)
(* search chooses on each training window and tests on the days after it.  *)
(*                                                                         *)
(* A backtest (module Backtest) gives any of a few results or raises,      *)
(* which ends the search; what it stored stays.  Days count from the start *)
(* of the period, scores are in thousandths.                               *)
(***************************************************************************)
EXTENDS Integers, Sequences, FiniteSetsExt, SequencesExt

CONSTANTS
  Params,      \* the combinations of a ParameterSpace
  Crossed,     \* those whose fast average is not faster than the slow one
  Periods,     \* the lengths of a period considered, in days
  Results,     \* the results of a backtest considered
  Samples,     \* the samples of them considered (sample, or grid cut to max_combos)
  Nothing,     \* no search
  MaxStored    \* bound: no search starts once as many experiments are stored

\* What MCResearch assumes of them.
SearchAssumption ==
  /\ Params # {} /\ Crossed \subseteq Params
  /\ Periods \subseteq Nat /\ MaxStored \in Nat
  /\ Results \subseteq [merit : Int, drawdown : Nat, trades : Nat]
  /\ \A s \in Samples : s # <<>> /\ s \in Seq(Params) /\ IsInjective(s)

VARIABLES
  search,      \* the search under way
  candidates,  \* grid: the candidates scored; walk-forward: the windows done
  tested,      \* how many of the best candidates have been tested
  seen,        \* history: the days the choices so far were made on, as ranges
  store        \* the experiments recorded

vars == <<search, candidates, tested, seen, store>>

Best == 3            \* candidates[:3]
MinTrades == 3       \* min_trades of score_result
WalkMinTrades == 2   \* min_trades of the WalkForwardOptimizer
TrainDays == 30
TestDays == 10
StepDays == 10

Days(first, last) == [first |-> first, last |-> last]

SplitDates(days) ==
  LET t1 == (days * 6) \div 10
      t2 == (days * 8) \div 10
  IN [train |-> Days(0, t1), val |-> Days(t1 + 1, t2), test |-> Days(t2 + 1, days)]

IsContaminated(split) ==
  split.test.first <= split.val.last \/ split.test.first <= split.train.last

\* The days a backtest runs over: a range with less than two of them is extended.
RunOverAWeek(r) == Days(r.first, IF r.last < r.first + 5 THEN r.first + 5 ELSE r.last)
Run(r) == Days(r.first, IF r.last <= r.first THEN r.first + 5 ELSE r.last)

\* windows(0, days)
Windows(days) ==
  [ k \in 1..(IF days < TrainDays + TestDays THEN 0
              ELSE (days - TrainDays - TestDays) \div StepDays + 1) |->
      LET start == (k - 1) * StepDays
          trained == start + TrainDays
      IN [train |-> Days(start, trained), test |-> Days(trained + 1, trained + TestDays)] ]

\* "merit" adds up the returns, ratios and trades of a result.
ScoreResult(result, minTrades) ==
  result.merit + 4 * (100 - result.drawdown)
    - (IF result.trades < minTrades THEN 500 ELSE 0)
    - 20 * Max({0, result.drawdown - 25})

Distance(a, b) == Max({a - b, b - a})
Consistency(t, v) ==
  IF t = 0 /\ v = 0 THEN 1000
  ELSE 1000 - (1000 * Distance(t, v)) \div (Distance(t, 0) + Distance(v, 0))

\* "combined", in ten thousandths
Objective(p, train, val) ==
  LET t == ScoreResult(train, MinTrades)
      v == ScoreResult(val, MinTrades)
  IN 4 * t + 6 * v + 2 * Consistency(t, v) - (IF p \in Crossed THEN 10000 ELSE 0)

\* The slippage is subtracted from the score of one and the same backtest.
QuickRobustness(result) ==
  LET scores == {ScoreResult(result, MinTrades) - 10 * slip : slip \in {2, 10, 20}}
      spread == Max(scores) - Min(scores)
  IN [robustness |-> Max({0, 1000 - spread}), fragile |-> spread > 800]

\* An experiment, with the tests it is made of.
ExperimentRecord(p, objective, trades, robustness, tests) ==
  [ days |-> search.days, params |-> p, objective |-> objective, trades |-> trades,
    robustness |-> robustness, tests |-> tests ]

Init ==
  /\ search = Nothing
  /\ candidates = <<>> /\ tested = 0 /\ seen = {}
  /\ store = <<>>

-----------------------------------------------------------------------------
Start(kind, days, combos, holdOut, fallback) ==
  /\ search = Nothing /\ Len(store) < MaxStored
  /\ search' = [kind |-> kind, days |-> days, combos |-> combos, holdOut |-> holdOut,
                fallback |-> fallback]
  /\ candidates' = <<>> /\ tested' = 0 /\ seen' = {}
  /\ UNCHANGED store

StartGrid ==
  \E days \in Periods, combos \in Samples, holdOut \in BOOLEAN :
    Start("grid", days, combos, holdOut, combos[1])

StartWalkForward ==
  \E days \in Periods, combos \in Samples, fallback \in Params :
    Start("walk", days, combos, TRUE, fallback)

Searching(kind) == search # Nothing /\ search.kind = kind
Split == SplitDates(search.days)

\* One combination is run on the training and on the validation days.
EvaluateCandidate ==
  /\ Searching("grid")
  /\ Len(candidates) < Len(search.combos)
  /\ LET p == search.combos[Len(candidates) + 1]
     IN \E train, val \in Results :
          candidates' = Append(candidates,
            [params |-> p, objective |-> Objective(p, train, val), val |-> val])
  /\ seen' = seen \cup {Run(Split.train), Run(Split.val)}
  /\ UNCHANGED <<search, tested, store>>

\* The sort is stable.
Rank(i) ==
  1 + Cardinality({j \in DOMAIN candidates :
        \/ candidates[j].objective > candidates[i].objective
        \/ candidates[j].objective = candidates[i].objective /\ j < i})
Ranked(n) == CHOOSE i \in DOMAIN candidates : Rank(i) = n
Top == Min({Best, Len(candidates)})

\* The next of the best is tested and recorded, its test days judged first.
TestBest ==
  /\ Searching("grid")
  /\ Len(candidates) = Len(search.combos)
  /\ ~(search.holdOut /\ IsContaminated(Split))
  /\ LET c == candidates[Ranked(tested + 1)]
     IN \E again \in Results :
          store' = Append(store,
            ExperimentRecord(c.params, c.objective, c.val.trades, QuickRobustness(again),
              IF search.holdOut THEN <<[seen |-> seen, days |-> Run(Split.test)]>> ELSE <<>>))
  /\ tested' = tested + 1
  /\ search' = IF tested' = Top THEN Nothing ELSE search
  /\ UNCHANGED <<candidates, seen>>

\* One window: the first combination with the highest score on its training days is tested.
AdvanceWindow ==
  /\ Searching("walk")
  /\ Len(candidates) < Len(Windows(search.days))
  /\ LET w == Windows(search.days)[Len(candidates) + 1]
     IN /\ seen' = seen \cup {Run(w.train)}
        /\ \E results \in [DOMAIN search.combos -> Results], oos \in Results :
             LET score == [i \in DOMAIN results |-> ScoreResult(results[i], WalkMinTrades)]
                 best == CHOOSE i \in DOMAIN score :
                           \A j \in DOMAIN score :
                             score[j] < score[i] \/ (score[j] = score[i] /\ i <= j)
             IN candidates' = Append(candidates,
                  [ params |-> search.combos[best], score |-> ScoreResult(oos, MinTrades),
                    trades |-> oos.trades, days |-> Run(w.test), seen |-> seen' ])
  /\ UNCHANGED <<search, tested, store>>

Sum(values) == FoldSeq(+, 0, values)

\* The parameters of the last window are recorded, with the windows' average score.
RecordWalkForward ==
  /\ Searching("walk")
  /\ Len(candidates) = Len(Windows(search.days))
  /\ store' = Append(store, ExperimentRecord(
       IF candidates = <<>> THEN search.fallback ELSE Last(candidates).params,
       Sum([i \in DOMAIN candidates |-> candidates[i].score]) \div Max({1, Len(candidates)}),
       Sum([i \in DOMAIN candidates |-> candidates[i].trades]),
       [robustness |-> 0, fragile |-> FALSE],
       [i \in DOMAIN candidates |->
          [seen |-> candidates[i].seen, days |-> candidates[i].days]]))
  /\ search' = Nothing
  /\ UNCHANGED <<candidates, tested, seen>>

\* A backtest raises, or the assertion about the test days does.
Raise ==
  /\ search # Nothing
  /\ search' = Nothing
  /\ UNCHANGED <<candidates, tested, seen, store>>

Next ==
  \/ StartGrid \/ EvaluateCandidate \/ TestBest
  \/ StartWalkForward \/ AdvanceWindow \/ RecordWalkForward
  \/ Raise

Spec == Init /\ [][Next]_vars

-----------------------------------------------------------------------------
ShortestSplit == 8   \* days of a period with two days of validation and of test

\* The days an experiment was tested on come after every day its parameters were chosen
\* on if the period has 8 days or more, and only then: of a shorter one, every experiment
\* tested on days held out has seen some of them, which _backtest adds to its training or
\* its validation where split_dates leaves a range of less than two days, and the assertion
\* of run_grid looks at the ranges before they are extended.  No day is tested twice.
TestDaysAreUnseen ==
  \A e \in ToSet(store) : \A i \in DOMAIN e.tests :
    /\ (\A r \in e.tests[i].seen : r.last < e.tests[i].days.first) <=> e.days >= ShortestSplit
    /\ \A j \in 1..(i - 1) : e.tests[j].days.last < e.tests[i].days.first

\* However many backtests of a grid have raised, fewer candidates than were tested have
\* a better objective than the one tested last (run_grid).
BestAreTested ==
  Searching("grid") /\ tested > 0 =>
    Cardinality({i \in DOMAIN candidates :
      candidates[i].objective > store[Len(store)].objective}) < tested

\* A test is made with the best candidates, and is on unseen days where the period
\* is long enough, never where it is not.
TestIsHonest == TestDaysAreUnseen /\ BestAreTested
=============================================================================
