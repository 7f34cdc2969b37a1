------------------------------ MODULE MCStrategy ------------------------------
(***************************************************************************)
(* The entries of a strategy, and its exits, which have only the position  *)
(* in common: each is checked while the other rests.                       *)
(*                                                                         *)
(* Entries: two calls so alike that the selector keeps one of them, and a  *)
(* third that expires later.  Prices are in thousandths.                   *)
(***************************************************************************)
EXTENDS Entry

CONSTANTS near, alike, later, u

Chain == <<near, alike, later>>
OneUnderlying == [c \in Listed |-> u]
Calls == [c \in Listed |-> "CALL"]
Strikes == [c \in Listed |-> IF c = alike THEN 1005 ELSE 1000]
Expirations == [c \in Listed |-> IF c = later THEN 45 ELSE 26]

Quote(bid, ask, volume, interest) ==
  [ bid |-> bid, ask |-> ask, size |-> 0, volume |-> volume, age |-> 0,
    interest |-> interest, iv |-> 30, greeks |-> NoGreeks ]
Good == [Quote(950, 1000, 60, 10) EXCEPT !.size = 2]
Dear == Quote(2940, 3000, 60, 10)
Cheap == Quote(480, 500, 15, 0)
Bargain == Quote(475, 500, 60, 10)
Old == [Good EXCEPT !.age = 200]
Rated == [Quote(1900, 2000, 40, 0) EXCEPT !.greeks = [delta |-> 30, theta |-> 20, vega |-> 3],
                                          !.iv = NoPrice]
SomeListings ==
  {[c \in Listed |-> IF c = later THEN q ELSE IF c = near THEN Good ELSE r] :
     q \in {Dear, Cheap, Rated}, r \in {Bargain, Old}}
SomeQuotes == {Good, Dear, Old}
-----------------------------------------------------------------------------
CONSTANTS Positions, NoPosition, Prices, TakeProfit, StopLoss, TrailingStop, MaxHolding,
          LastHeldDay, LastDay
VARIABLES holding, highWater, today, decided

leaving == <<holding, highWater, today, decided>>

X == INSTANCE Exits WITH Contracts <- Positions

ASSUME ExitsAssumption ==
  X!PricesAssumption /\ X!PercentagesAssumption /\ X!ExitDaysAssumption

TrailingStopNeverFires == X!TrailingStopNeverFires

-----------------------------------------------------------------------------
VARIABLE part

RestOfEntry == EntryInit /\ engine = "basic" /\ ~gate.stop

MCInit ==
  /\ X!Init
  /\ \/ part = "entries" /\ EntryInit
     \/ part = "exits" /\ RestOfEntry

MCNext ==
  /\ UNCHANGED part
  /\ \/ part = "entries" /\ EntryNext /\ UNCHANGED leaving
     \/ part = "exits" /\ X!Next /\ UNCHANGED entryVars

MCSpec == MCInit /\ [][MCNext]_<<entryVars, leaving, part>>
=============================================================================
