----------------------------- MODULE PaperBroker -----------------------------
(***************************************************************************)
(* The paper broker (modules/paper_broker/broker.py): an in-memory account *)
(* that executes option orders against simulated quotes.                   *)
(*                                                                         *)
(* The market data adapters of the repository never suspend, so a call of  *)
(* submit_order, cancel_order or process_pending runs to its end before    *)
(* any other call starts.  process_pending is one step for each order of   *)
(* the list it copies when it starts (`work'), because each order asks for *)
(* a fresh quote and an exception abandons the orders after it; no other   *)
(* call is enabled while work is not empty.                                *)
(*                                                                         *)
(* Orders are numbered in the order of submission.  _pending only grows at *)
(* its end, with the order just submitted, so its order is that of the     *)
(* numbers and it is kept as a set.                                        *)
(*                                                                         *)
(* Money is counted in 1/(SlipDen * CommDen) of a tick, which makes every  *)
(* amount a whole number.  Average prices and profit and loss are left     *)
(* out: they decide nothing in the broker.                                 *)
(***************************************************************************)
EXTENDS MatchingEngine, FiniteSets, FiniteSetsExt

CONSTANTS
  MaxOrders,    \* bound: how many orders a behaviour submits
  InitialCash,
  CommNum,      \* commission_rate = CommNum / CommDen
  CommDen

ASSUME BoundAssumption == MaxOrders \in Nat
ASSUME CashAssumption == InitialCash \in Nat
ASSUME CommissionAssumption == CommNum \in Nat /\ CommDen \in Nat \ {0} /\ CommNum <= CommDen

VARIABLES
  request,    \* order id -> the request, None before the submission
  status,     \* order id -> OrderStatus, "UNUSED" before the submission
  filled,     \* order id -> filled_quantity
  settled,    \* order id -> money its recorded fills moved, commission included
  pending,    \* _pending
  work,       \* the orders the running process_pending has not reached yet
  nextId,     \* the id of the next order
  cash,       \* _cash
  reserved,   \* _reserved
  positions,  \* symbol -> quantity held; 0: no entry in _positions
  error       \* the exception that left the last call, or "none"

orderVars == <<request, status, filled, settled, pending, nextId>>
accountVars == <<cash, reserved, positions>>
vars == <<orderVars, work, accountVars, error>>

OrderIds == 1..MaxOrders
Status == {"UNUSED", "VALIDATED", "REJECTED", "PENDING", "PARTIALLY_FILLED", "FILLED", "CANCELLED"}
Cancellable == {"PENDING", "PARTIALLY_FILLED", "VALIDATED"}
Errors == {"none", "KeyError", "ValueError", "DivisionByZero"}

Init ==
  /\ request = [i \in OrderIds |-> None]
  /\ status = [i \in OrderIds |-> "UNUSED"]
  /\ filled = [i \in OrderIds |-> 0]
  /\ settled = [i \in OrderIds |-> 0]
  /\ pending = {}
  /\ work = {}
  /\ nextId = 1
  /\ cash = InitialCash
  /\ reserved = 0
  /\ positions = [s \in Symbols |-> 0]
  /\ error = "none"

-----------------------------------------------------------------------------
\* Money.
Cost(price, n) == price * n * (CommDen + CommNum)
Proceeds(price, n) == price * n * (CommDen - CommNum)

\* A resting buy holds its limit price, commission included, for each contract.
ReservesCash(r) == r.side = "BUY" /\ r.limit > 0
Reserve(r, n) == IF ReservesCash(r) THEN Cost(r.limit * SlipDen, n) ELSE 0

\* max(0, _reserved - amount)
ReleasedUnclamped(amount) == reserved - amount
ReleasedNever(amount) == reserved
Released(amount) == IF amount <= reserved THEN reserved - amount ELSE 0

Affordable(cost) == cost <= cash

Remaining(id) == request[id].qty - filled[id]

-----------------------------------------------------------------------------
\* _validate: sells must be covered by the position, buys by the cash that is
\* not reserved.  The estimate uses the ask without slippage.
Valid(r, q) ==
  /\ r.qty > 0
  /\ IF r.side = "SELL"
     THEN positions[r.symbol] >= r.qty
     ELSE /\ q # None /\ q.ask # None /\ q.ask > 0
          /\ Cost(q.ask * SlipDen, r.qty) <= cash - reserved

\* _apply_fill refuses a buy that the cash does not cover.  An order that was
\* already in _pending stays there.
RefuseFill(id, r, price, n) ==
  /\ r.side = "BUY" /\ ~Affordable(Cost(price, n))
  /\ status' = [status EXCEPT ![id] = "REJECTED"]
  /\ error' = "none"
  /\ UNCHANGED <<filled, settled, pending, cash, positions>>

\* The two exceptions of _apply_fill: a sell of a position that is gone, and a
\* buy that brings a short position to zero contracts, whose average price
\* divides by zero after the cash has been taken.
AbortFill(id, r, price, n, left) ==
  /\ \/ /\ r.side = "SELL" /\ positions[r.symbol] = 0
        /\ error' = "KeyError"
        /\ UNCHANGED cash
     \/ /\ r.side = "BUY" /\ Affordable(Cost(price, n))
        /\ positions[r.symbol] # 0 /\ positions[r.symbol] + n = 0
        /\ error' = "DivisionByZero"
        /\ cash' = cash - Cost(price, n)
  /\ status' = [status EXCEPT ![id] = left]
  /\ UNCHANGED <<filled, settled, pending, positions>>

RecordFillAlwaysRests(id, r, n) ==
  /\ filled' = [filled EXCEPT ![id] = @ + n]
  /\ status' = [status EXCEPT ![id] =
                   IF filled[id] + n >= r.qty THEN "FILLED" ELSE "PARTIALLY_FILLED"]
  /\ pending' = pending \cup {id}

\* The bookkeeping of a fill on the order and on _pending.
RecordFill(id, r, n) ==
  /\ filled' = [filled EXCEPT ![id] = @ + n]
  /\ IF filled[id] + n >= r.qty
     THEN /\ status' = [status EXCEPT ![id] = "FILLED"]
          /\ pending' = pending \ {id}
     ELSE /\ status' = [status EXCEPT ![id] = "PARTIALLY_FILLED"]
          /\ pending' = pending \cup {id}

CommitFillUnpaid(id, r, price, n) ==
  /\ error' = "none"
  /\ RecordFill(id, r, n)
  /\ r.side = "SELL" => positions[r.symbol] # 0
  /\ positions' = [positions EXCEPT ![r.symbol] = IF r.side = "BUY" THEN @ + n ELSE @ - n]
  /\ settled' = [settled EXCEPT ![id] = @ + Cost(price, n)]
  /\ cash' = cash

CommitFillWholeOrder(id, r, price, n) ==
  /\ error' = "none"
  /\ RecordFill(id, r, n)
  /\ r.side = "SELL" => positions[r.symbol] # 0
  /\ positions' = [positions EXCEPT ![r.symbol] = IF r.side = "BUY" THEN @ + r.qty ELSE @ - r.qty]
  /\ settled' = [settled EXCEPT ![id] = @ + Cost(price, n)]
  /\ cash' = IF r.side = "BUY" THEN cash - Cost(price, n) ELSE cash + Proceeds(price, n)

CommitFill(id, r, price, n) ==
  /\ error' = "none"
  /\ RecordFill(id, r, n)
  /\ \/ /\ r.side = "BUY" /\ Affordable(Cost(price, n))
        /\ positions[r.symbol] = 0 \/ positions[r.symbol] + n # 0
        /\ cash' = cash - Cost(price, n)
        /\ settled' = [settled EXCEPT ![id] = @ + Cost(price, n)]
        /\ positions' = [positions EXCEPT ![r.symbol] = @ + n]
     \/ /\ r.side = "SELL" /\ positions[r.symbol] # 0
        /\ cash' = cash + Proceeds(price, n)
        /\ settled' = [settled EXCEPT ![id] = @ + Proceeds(price, n)]
        /\ positions' = [positions EXCEPT ![r.symbol] = @ - n]

\* _apply_fill.  `left' is the status the order is left with by an exception.
ApplyFill(id, r, price, n, left) ==
  \/ RefuseFill(id, r, price, n)
  \/ AbortFill(id, r, price, n, left)
  \/ CommitFill(id, r, price, n)

-----------------------------------------------------------------------------
\* submit_order.  The order is created first, so even a refused request has one.
Admit(r) ==
  /\ work = {}
  /\ nextId \in OrderIds
  /\ request' = [request EXCEPT ![nextId] = r]
  /\ nextId' = nextId + 1
  /\ UNCHANGED work

RejectOnSubmit ==
  /\ status' = [status EXCEPT ![nextId] = "REJECTED"]
  /\ error' = "none"
  /\ UNCHANGED <<filled, settled, pending, accountVars>>

\* A limit or stop order that does not match rests, if the cash it must hold is free.

RestOnSubmit(r) ==
  /\ Reserve(r, r.qty) <= cash - reserved \/ ~ReservesCash(r)
  /\ status' = [status EXCEPT ![nextId] = "PENDING"]
  /\ pending' = pending \cup {nextId}
  /\ reserved' = reserved + Reserve(r, r.qty)
  /\ error' = "none"
  /\ UNCHANGED <<filled, settled, cash, positions>>

\* qv is the quote _validate saw, qm the one the matching engine was given.
Submit(r, qv, qm) ==
  /\ Admit(r)
  /\ \/ /\ ~Valid(r, qv)
        /\ RejectOnSubmit
     \/ /\ Valid(r, qv) /\ ~CanFill(r, qm)
        /\ r.type = "MARKET" \/ (ReservesCash(r) /\ Reserve(r, r.qty) > cash - reserved)
        /\ RejectOnSubmit
     \/ /\ Valid(r, qv) /\ ~CanFill(r, qm) /\ r.type # "MARKET"
        /\ RestOnSubmit(r)
     \/ /\ Valid(r, qv) /\ CanFill(r, qm)
        /\ ApplyFill(nextId, r, FillPrice(r, qm), FillSize(r, qm), "VALIDATED")
        /\ UNCHANGED reserved

-----------------------------------------------------------------------------
\* process_pending copies _pending and takes the orders one by one.
StartProcessing ==
  /\ work = {} /\ pending # {}
  /\ work' = pending
  /\ error' = "none"
  /\ UNCHANGED <<orderVars, accountVars>>

Foremost(id) == id \in work /\ \A j \in work : id <= j

PassOver(id, q) ==
  /\ ~CanFill(request[id], q)
  /\ work' = work \ {id}
  /\ UNCHANGED <<orderVars, accountVars, error>>

\* The engine matches the whole requested quantity again; the fill is capped by
\* what remains.  The reserve is released before the fill is known to succeed.
FillSizeUncapped(id, q) == FillSize(request[id], q)
FillSizePending(id, q) ==
  IF FillSize(request[id], q) <= Remaining(id) THEN FillSize(request[id], q) ELSE Remaining(id)

FillPending(id, q) ==
  LET r == request[id]
      n == FillSizePending(id, q)
  IN /\ CanFill(r, q)
     /\ reserved' = Released(Reserve(r, n))
     /\ ApplyFill(id, r, FillPrice(r, q), n, status[id])
     /\ work' = IF error' = "none" THEN work \ {id} ELSE {}
     /\ UNCHANGED <<request, nextId>>

ProcessNext(q) ==
  \E id \in work :
    /\ Foremost(id)
    /\ PassOver(id, q) \/ FillPending(id, q)

-----------------------------------------------------------------------------
\* cancel_order

Cancel(id) ==
  /\ work = {}
  /\ status[id] \in Cancellable
  /\ status' = [status EXCEPT ![id] = "CANCELLED"]
  /\ pending' = pending \ {id}
  /\ reserved' = Released(Reserve(request[id], Remaining(id)))
  /\ error' = "none"
  /\ UNCHANGED <<request, filled, settled, nextId, work, cash, positions>>

RefuseCancel(id) ==
  /\ work = {}
  /\ status[id] \notin Cancellable
  /\ error' = IF status[id] = "UNUSED" THEN "KeyError" ELSE "ValueError"
  /\ UNCHANGED <<orderVars, work, accountVars>>

Next ==
  \/ \E r \in Requests, qv, qm \in Quotes : Submit(r, qv, qm)
  \/ StartProcessing
  \/ \E q \in Quotes : ProcessNext(q)
  \/ \E id \in OrderIds : Cancel(id) \/ RefuseCancel(id)

Spec == Init /\ [][Next]_vars

-----------------------------------------------------------------------------
TypeOK ==
  /\ request \in [OrderIds -> Requests \cup {None}]
  /\ status \in [OrderIds -> Status]
  /\ filled \in [OrderIds -> Nat]
  /\ settled \in [OrderIds -> Nat]
  /\ pending \subseteq OrderIds /\ work \subseteq OrderIds
  /\ nextId \in 1..(MaxOrders + 1)
  /\ cash \in Int
  /\ reserved \in Nat
  /\ positions \in [Symbols -> Int]
  /\ error \in Errors

\* No order of fills, retries and cancellations takes the account below zero:
\* every purchase is checked again, against the cash, when it executes
\* (_apply_fill), whatever _validate had estimated.
CashNeverNegative == cash >= 0

\* _pending and the orders agree: what rests still has contracts to execute and
\* is neither filled nor cancelled, every order that waits for contracts rests,
\* and an order is FILLED exactly when all it asked for was executed.
RestingIsOpen ==
  \A id \in pending :
    /\ status[id] \in {"PENDING", "PARTIALLY_FILLED", "REJECTED"}
    /\ Remaining(id) > 0
OpenIsResting ==
  \A id \in OrderIds : status[id] \in {"PENDING", "PARTIALLY_FILLED"} => id \in pending
FilledIsComplete ==
  \A id \in OrderIds :
    request[id] # None => (status[id] = "FILLED" <=> filled[id] > 0 /\ Remaining(id) <= 0)
NeverOverfilled ==
  \A id \in OrderIds : request[id] # None => filled[id] = 0 \/ filled[id] <= request[id].qty
BookConsistent == RestingIsOpen /\ OpenIsResting /\ FilledIsComplete /\ NeverOverfilled

\* What the rest of an order holds while it rests.
ReserveNeeded ==
  [id \in OrderIds |-> IF request[id] = None THEN 0 ELSE Reserve(request[id], Remaining(id))]

\* No cash stays reserved for nothing: what is reserved is at most what the
\* orders in _pending would need, so when the last of them is filled or
\* cancelled the whole cash is available again.
NoOrphanReservation == reserved <= SumFunctionOnSet(ReserveNeeded, pending)

OrdersOf(side) == {id \in OrderIds : request[id] # None /\ request[id].side = side}
OrdersFor(side, s) == {id \in OrdersOf(side) : request[id].symbol = s}

Executed(side, s) == SumFunctionOnSet(filled, OrdersFor(side, s))

\* The positions are the net of the recorded fills, partial ones included,
\* whichever exceptions abandoned a process_pending in between.
PositionsMatchFills ==
  \A s \in Symbols : positions[s] = Executed("BUY", s) - Executed("SELL", s)

Settled(side) == SumFunctionOnSet(settled, OrdersOf(side))
SettledCash == InitialCash - Settled("BUY") + Settled("SELL")

\* No step creates money: the cash is at most the initial cash and the money of
\* the recorded fills, commissions included.  Less is possible: a buy that
\* divides by zero takes its money and records no fill.
NoMoneyCreated == cash <= SettledCash

\* Once it is FILLED or CANCELLED nothing about an order changes again: no
\* retry executes it and no cancellation takes it back.
FinalOrdersStay ==
  [][\A id \in OrderIds :
       status[id] \in {"FILLED", "CANCELLED"} =>
         /\ status'[id] = status[id]
         /\ filled'[id] = filled[id]
         /\ settled'[id] = settled[id]
         /\ id \notin pending']_vars

-----------------------------------------------------------------------------
\* Each order, seen alone, goes through the life of OrderLifecycle.
RequestedSize == [id \in OrderIds |-> IF request[id] = None THEN 0 ELSE request[id].qty]

Lifecycle == INSTANCE OrderLifecycle WITH
  Contracts <- UNION {{r.qty} \cup 0..r.qty : r \in Requests},
  size <- RequestedSize,
  resting <- pending

ImplementsLifecycle == Lifecycle!Spec
=============================================================================
