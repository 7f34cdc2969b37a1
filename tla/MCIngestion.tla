----------------------------- MODULE MCIngestion ------------------------------
(***************************************************************************)
(* The data of the past, which are imported, and those of today, which are *)
(* fetched.  They have nothing in common, so that each is checked while    *)
(* the other rests.                                                        *)
(*                                                                         *)
(* Imports: files of up to two records, each a plain quote or one with a   *)
(* single thing odd about it.                                              *)
(***************************************************************************)
EXTENDS Ingestion

CONSTANTS ggal, other

Plain ==
  [ symbol |-> ggal, day |-> 1, hour |-> 15, bid |-> 9, ask |-> 10, close |-> 10, volume |-> 5,
    underlying |-> ggal, type |-> "CALL", strike |-> 10, expiration |-> 20 ]
Later == [Plain EXCEPT !.day = 6, !.close = 13]

Odd ==
  { Plain, Later,
    [Plain EXCEPT !.symbol = Absent], [Plain EXCEPT !.symbol = other],
    [Plain EXCEPT !.day = Text], [Plain EXCEPT !.hour = 20],
    [Plain EXCEPT !.bid = Absent], [Plain EXCEPT !.bid = Text], [Plain EXCEPT !.bid = 11],
    [Plain EXCEPT !.close = 0], [Plain EXCEPT !.close = -1],
    [Plain EXCEPT !.volume = Absent], [Plain EXCEPT !.volume = Text],
    [Plain EXCEPT !.volume = Fraction], [Plain EXCEPT !.volume = -1],
    [Plain EXCEPT !.strike = Absent], [Plain EXCEPT !.strike = Text],
    [Plain EXCEPT !.expiration = 0] }

SomeFiles ==
  { [csv |-> csv, records |-> records] :
      csv \in {FALSE}, records \in {<<Plain, r>> : r \in Odd} \cup {<<r, Later>> : r \in Odd} }
    \cup { [csv |-> TRUE, records |-> <<r>>] :
             r \in {s \in Odd : \E k \in DOMAIN s : s[k] = Absent} \cup {Plain} }
-----------------------------------------------------------------------------
CONSTANTS Universe, Reference, Default, Panels, Spots, Listed, Ladder, AroundPanel, AroundListed,
          TTL, NoSpot, Failed, Undated, Garbled, LastTime
VARIABLES time, price, spotAt, chain, chainAt, panelRows, rowsAt, failedAt

fetching == <<time, price, spotAt, chain, chainAt, panelRows, rowsAt, failedAt>>

M == INSTANCE MarketData WITH rows <- panelRows

ASSUME M!MarketAssumption

\* One underlying whose price is not known; the panel may be garbled for it.
Row(symbol, underlying, strike, day) ==
  [symbol |-> symbol, underlying |-> underlying, strike |-> strike, expires |-> day]

Series == {Row("g8", ggal, 8, 1), Row("g10", ggal, 10, 1), Row("g12", ggal, 12, 1)}
OnPanel == Series \cup {Row("g9", ggal, 9, Undated), Row("o20", other, 20, 1)}
OffPanel == {Row("g9", ggal, 9, Garbled)}

SomePanels == {OnPanel, OffPanel}
UnknownPrices == [s \in {ggal} |-> Default]
SomeListed == [s \in {ggal} |-> Series]
NoLadder == [s \in {ggal} |-> {}]

OldOnlyAfterFailure == M!OldOnlyAfterFailure

-----------------------------------------------------------------------------
VARIABLE part

MCInit ==
  /\ M!MarketInit
  /\ Init
  /\ part \in {"imports", "fetches"}
  /\ part = "fetches" => ~kept /\ kind = "option"

MCNext ==
  /\ UNCHANGED part
  /\ \/ part = "imports" /\ Next /\ UNCHANGED fetching
     \/ part = "fetches" /\ M!MarketNext /\ UNCHANGED vars

MCSpec == MCInit /\ [][MCNext]_<<vars, fetching, part>>
=============================================================================
