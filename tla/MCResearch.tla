------------------------------ MODULE MCResearch ------------------------------
(***************************************************************************)
(* What comes before trading: the backtest, the search for parameters and  *)
(* the stress test.  They share no state, so that each is checked while    *)
(* the others rest.                                                        *)
(*                                                                         *)
(* The backtest has a contract whose quotes vary from day to day and one   *)
(* whose market is deep and steady, in two underlyings.  Prices are        *)
(* multiples of 50, so that limits and commissions are whole numbers.      *)
(***************************************************************************)
EXTENDS Backtest

CONSTANTS u1, u2, c1, c2

TwoUnderlyings == <<u1, u2>>
EachItsOwn == [c \in Contracts |-> IF c = c1 THEN u1 ELSE u2]
ExpirationOf == [c \in Contracts |-> IF c = c1 THEN 5 ELSE 7]

Quote(bid, ask, size) == [bid |-> bid, ask |-> ask, size |-> size]
Deep == Quote(100, 150, 3)
Thin == Quote(100, 150, 2)
Cheap == Quote(50, 100, 3)
OneSided == Quote(100, NoPrice, 5)
NoBid == Quote(NoPrice, 150, 5)

OfFirst == {NoChain, <<>>} \cup {c1 :> q : q \in {Deep, Thin, Cheap, OneSided, NoBid}}

\* On the last day it has expired, but snapshots still list it.
Expired == {NoChain} \cup {c1 :> q : q \in {Deep, Cheap, NoBid}}

\* Day 1 is in the past.  Day 2 is the first on which something is bought.
Varying ==
  { [d \in 1..LastDay |->
       [u \in {u1, u2} |->
          IF u = u2 THEN IF d <= 2 THEN c2 :> Deep ELSE NoChain
          ELSE IF d = 1 THEN c1 :> Deep ELSE IF d = 2 THEN c1 :> first
          ELSE IF d \in Closed THEN NoChain ELSE IF d = LastDay THEN last ELSE later[d]]] :
      first \in {Deep, Thin}, later \in [(3..LastDay - 1) \ Closed -> OfFirst],
      last \in Expired }
-----------------------------------------------------------------------------
CONSTANTS p1, p2, p3, p4, Params, Periods, MaxStored, Crossed, Nothing, Samples, Results

\* The combination that is penalized comes first.
SomeSamples == {<<p4, p1, p2, p3>>, <<p1, p3>>}
SomeResults ==
  { [merit |-> 300, drawdown |-> 10, trades |-> 2],
    [merit |-> 500, drawdown |-> 30, trades |-> 5] }

VARIABLES search, candidates, tested, seen, store
searching == <<search, candidates, tested, seen, store>>
O == INSTANCE Optimization
ASSUME O!SearchAssumption
TestIsHonest == O!TestIsHonest

-----------------------------------------------------------------------------
CONSTANTS MaxHazards, Losses, NoReport
VARIABLES subject, reconcileMustPass, verdict
judging == <<subject, reconcileMustPass, verdict>>
S == INSTANCE Stress WITH report <- verdict
ASSUME S!StressAssumption
VerdictIsForegone == S!VerdictIsForegone

-----------------------------------------------------------------------------
VARIABLE part

RestOfBacktest == Init /\ ~allowPartial /\ ~preloaded /\ data = CHOOSE h \in Histories : TRUE
RestOfStress == subject = NoReport /\ reconcileMustPass = TRUE /\ verdict = NoReport

MCInit ==
  /\ O!Init
  /\ \/ part = "backtest" /\ Init /\ RestOfStress
     \/ part = "search" /\ RestOfBacktest /\ RestOfStress
     \/ part = "stress" /\ RestOfBacktest /\ S!Init

MCNext ==
  /\ UNCHANGED part
  /\ \/ part = "backtest" /\ Next /\ UNCHANGED <<searching, judging>>
     \/ part = "search" /\ O!Next /\ UNCHANGED <<vars, judging>>
     \/ part = "stress" /\ S!Next /\ UNCHANGED <<vars, searching>>

MCSpec == MCInit /\ [][MCNext]_<<vars, searching, judging, part>>
=============================================================================
