---------------------------- MODULE MCTradingCycle ----------------------------
(***************************************************************************)
(* An instance of TradingCycle: contracts that expire one day apart.       *)
(***************************************************************************)
EXTENDS TradingCycle

CONSTANTS s1, s2

TwoExpirations == [s \in Symbols |-> IF s = s1 THEN 2 ELSE 3]
=============================================================================
