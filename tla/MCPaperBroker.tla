---------------------------- MODULE MCPaperBroker ----------------------------
(***************************************************************************)
(* Small instances of PaperBroker for TLC: the quotes and the requests the *)
(* configurations choose from.                                             *)
(***************************************************************************)
EXTENDS PaperBroker

CONSTANTS s1, s2

\* A tight deep quote, a wide thin one, none.
Tight == [bid |-> 2, ask |-> 2, last |-> None, bidSize |-> 0, askSize |-> 0]
Wide == [bid |-> 1, ask |-> 3, last |-> 3, bidSize |-> 0, askSize |-> 1]

BuyMarket == [symbol |-> s1, side |-> "BUY", type |-> "MARKET", qty |-> 2, limit |-> 0, stop |-> 0]
BuyLimit == [BuyMarket EXCEPT !.type = "LIMIT", !.limit = 2]
BuyStopLimit == [BuyMarket EXCEPT !.type = "STOP_LIMIT", !.qty = 1, !.limit = 3, !.stop = 3]
SellLimit == [BuyLimit EXCEPT !.side = "SELL"]
SellStop == [BuyMarket EXCEPT !.side = "SELL", !.type = "STOP_MARKET", !.qty = 1, !.stop = 2]
BuyOther == [BuyLimit EXCEPT !.symbol = s2, !.qty = 1]

AllQuotes == {Tight, Wide, None}
SomeOrders == {BuyMarket, BuyLimit, BuyStopLimit, BuyOther, SellStop, SellLimit}
=============================================================================
