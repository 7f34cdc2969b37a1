------------------------------ MODULE MarketData ------------------------------
(***************************************************************************)
(* The prices a paper account trades at (adapters/market_data): the panel  *)
(* of options and the spot of each underlying are fetched from BYMADATA    *)
(* and kept for TTL; what cannot be fetched is replaced by older rows or   *)
(* by a simulated chain (option_chain/simulator.py).                       *)
(*                                                                         *)
(* Every request blocks the program, so that a call is one step, and all   *)
(* its requests are answered at one moment.  The quote of a contract is    *)
(* looked for in one chain after the other: as many of these steps.  Of    *)
(* the prices of a contract only the strike matters here.  set_quote,      *)
(* which nothing calls, is left out.                                       *)
(***************************************************************************)
EXTENDS Integers, FiniteSetsExt

CONSTANTS
  Universe,   \* the underlyings
  Reference,  \* the price of each to begin with: spot_reference, or Default
  Default,    \* 1000: not known
  Panels,     \* the panels of options: sets of rows [symbol, underlying, strike, expires]
  Spots,      \* the spots that are fetched
  Listed,     \* the series of each underlying in config/byma_listed_series, as rows
  Ladder,     \* the rows made up for an underlying without series
  AroundPanel, AroundListed,  \* strikes kept on each side: around_atm, listed_strikes_around_atm
  TTL,        \* chain_ttl_s
  NoSpot,     \* the panel of shares lacks the symbol
  Failed,     \* the request raised
  Undated,    \* a row without maturityDate
  Garbled,    \* a row whose maturityDate is no date
  LastTime    \* bound

MarketAssumption ==
  /\ TTL \in Nat \ {0} /\ {AroundPanel, AroundListed} \subseteq Nat /\ LastTime \in Nat /\ Default \in Nat
  /\ {NoSpot, Failed} \cap Spots = {} /\ Failed \notin Panels

VARIABLES
  time,
  price, spotAt,   \* _prices, _spot_fetched_at
  chain, chainAt,  \* _chains, _chain_fetched_at
  rows, rowsAt,    \* _options_rows_cache, with the moment of its request; _options_rows_at
  failedAt         \* when the last request for options failed

marketVars == <<time, price, spotAt, chain, chainAt, rows, rowsAt, failedAt>>

Never == -1
NoRows == [panel |-> {}, at |-> Never]

Recent(at) == at # Never /\ time - at < TTL

MarketInit ==
  /\ time = 0
  /\ price = Reference /\ spotAt = [s \in Universe |-> Never]
  /\ chain = [s \in Universe |-> {}] /\ chainAt = [s \in Universe |-> Never]
  /\ rows = NoRows /\ rowsAt = Never
  /\ failedAt = Never

-----------------------------------------------------------------------------
\* The strikes that at most around others separate from the one nearest to the price,
\* the lower of two as near.
NearStrikes(strikes, spot, around) ==
  LET distance(k) == IF k > spot THEN k - spot ELSE spot - k
      nearest == Min({k \in strikes : \A o \in strikes : distance(k) =< distance(o)})
      between(k) == {o \in strikes : (o > nearest /\ o =< k) \/ (o < nearest /\ o >= k)}
  IN {k \in strikes : Cardinality(between(k)) =< around}

\* A contract of a row fetched at a moment: with any of bid, ask and last both sides
\* are made up, and its timestamp is the moment the chain is built.
ToContract(row, source, at) ==
  [ symbol |-> row.symbol, strike |-> row.strike, expires |-> row.expires,
    source |-> source, fetched |-> at ]

\* The strikes are trimmed by expiration.
FromPanel(some, s, spot) ==
  LET own == {r \in some.panel : r.underlying = s /\ r.expires # Undated}
      strikes(day) == {r.strike : r \in {o \in own : o.expires = day}}
  IN {ToContract(r, "panel", some.at) :
        r \in {o \in own : o.strike \in NearStrikes(strikes(o.expires), spot, AroundPanel)}}

Unreadable(some, s) == \E r \in some.panel : r.underlying = s /\ r.expires = Garbled

Live(some, s, spot) == IF Unreadable(some, s) THEN {} ELSE FromPanel(some, s, spot)

\* The strikes are trimmed over all expirations.
Simulated(s, spot) ==
  LET strikes == {r.strike : r \in Listed[s]}
      kept == {r \in Listed[s] : r.strike \in NearStrikes(strikes, spot, AroundListed)}
  IN {ToContract(r, "simulated", time) : r \in IF kept = {} THEN Ladder[s] ELSE kept}

\* strikes[len(strikes) // 2] of the sorted strikes, one of each contract.
MiddleStrike(contracts) ==
  LET below(k) == Cardinality({c \in contracts : c.strike < k})
      upTo(k) == Cardinality({c \in contracts : c.strike =< k})
      half == Cardinality(contracts) \div 2
  IN (CHOOSE c \in contracts : below(c.strike) =< half /\ half < upTo(c.strike)).strike

-----------------------------------------------------------------------------
\* The spot after a request; one that fails is repeated by the next call.
RefreshSpot(s, spot) ==
  IF Recent(spotAt[s]) \/ spot = Failed THEN UNCHANGED spotAt
  ELSE spotAt' = [spotAt EXCEPT ![s] = time]

SpotAfter(s, spot) ==
  IF Recent(spotAt[s]) \/ spot \in {Failed, NoSpot} THEN price[s] ELSE spot

\* The moment of a request for options, when it fails too.
RowsTriedAt(options) == IF Recent(rowsAt) THEN rowsAt ELSE time

\* A request that fails keeps the rows of an earlier one, and the moment of that one.
RowsAt(options) == IF Recent(rowsAt) \/ options = Failed THEN rowsAt ELSE time

RowsAfter(options) ==
  IF Recent(rowsAt) \/ options = Failed THEN rows ELSE [panel |-> options, at |-> time]

\* Without any rows they are requested once more, and not kept.
RowsToBuild(options, again) ==
  IF RowsAfter(options) = NoRows /\ again # Failed THEN [panel |-> again, at |-> time]
  ELSE RowsAfter(options)

KeepServing(s) == Recent(chainAt[s]) /\ UNCHANGED marketVars

BuildChain(s, spot, options, again) ==
  LET found == SpotAfter(s, spot)
      live == Live(RowsToBuild(options, again), s, found)
  IN /\ ~Recent(chainAt[s])
     /\ RefreshSpot(s, spot)
     /\ rows' = RowsAfter(options) /\ rowsAt' = RowsAt(options)
     /\ failedAt' = IF ~Recent(rowsAt) /\ options = Failed THEN time ELSE failedAt
     /\ chain' = [chain EXCEPT ![s] = IF live # {} THEN live ELSE Simulated(s, found)]
     /\ chainAt' = [chainAt EXCEPT ![s] = time]
     /\ price' = [price EXCEPT ![s] =
                    IF live # {} /\ found = Default THEN MiddleStrike(live) ELSE found]
     /\ UNCHANGED time

\* get_option_chain, and each turn of the loop of get_quote.
GetOptionChain(s) ==
  \/ KeepServing(s)
  \/ \E spot \in Spots \cup {NoSpot, Failed}, options, again \in Panels \cup {Failed} :
       BuildChain(s, spot, options, again)

\* get_underlying, get_historical_prices, get_quote of an underlying, and each underlying
\* of list_underlyings.
GetSpot(s) ==
  \E spot \in Spots \cup {NoSpot, Failed} :
    /\ RefreshSpot(s, spot)
    /\ price' = [price EXCEPT ![s] = SpotAfter(s, spot)]
    /\ UNCHANGED <<time, chain, chainAt, rows, rowsAt, failedAt>>

SetUnderlyingPrice(s, spot) ==
  /\ price' = [price EXCEPT ![s] = spot]
  /\ chain' = [chain EXCEPT ![s] = {}] /\ chainAt' = [chainAt EXCEPT ![s] = Never]
  /\ UNCHANGED <<time, spotAt, rows, rowsAt, failedAt>>

InvalidateChains ==
  /\ chain' = [s \in Universe |-> {}] /\ chainAt' = [s \in Universe |-> Never]
  /\ rows' = NoRows /\ rowsAt' = Never
  /\ UNCHANGED <<time, price, spotAt, failedAt>>

TimePasses ==
  /\ time < LastTime /\ time' = time + 1
  /\ UNCHANGED <<price, spotAt, chain, chainAt, rows, rowsAt, failedAt>>

MarketNext ==
  \/ \E s \in Universe :
       \/ GetOptionChain(s) \/ GetSpot(s)
       \/ \E spot \in Spots : SetUnderlyingPrice(s, spot)
  \/ InvalidateChains
  \/ TimePasses

MarketSpec == MarketInit /\ [][MarketNext]_marketVars

-----------------------------------------------------------------------------
\* A chain is served for TTL and built of rows that were kept for TTL: what it says of
\* the panel is twice as old at most, unless a request for the options failed within
\* the last TTL.  Old rows do not outlive the failure that let them in, although nobody
\* downstream could tell their age.
OldOnlyAfterFailure ==
  \A s \in Universe : Recent(chainAt[s]) =>
    \A c \in chain[s] :
      \/ c.source = "simulated"
      \/ time - c.fetched < 2 * TTL
      \/ Recent(failedAt)
=============================================================================
