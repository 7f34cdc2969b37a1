---------------------------- MODULE OrderLifecycle ----------------------------
(***************************************************************************)
(* What an order book promises about each single order, with no cash, no   *)
(* positions and no quotes: an order executes at most once for each        *)
(* contract it asked for, it executes after its submission only while it   *)
(* rests in the book, and once it is FILLED or CANCELLED nothing about it  *)
(* changes.  PaperBroker is shown to implement this module with            *)
(*     resting <- pending,  size <- the requested quantities.              *)
(*                                                                         *)
(* A resting order may be REJECTED (its cash was not there when it         *)
(* matched) and still rest: that is what the code does.                    *)
(***************************************************************************)
EXTENDS Integers

CONSTANTS
  OrderIds,
  Contracts   \* the numbers of contracts an order may ask for or execute

VARIABLES
  status,   \* order id -> OrderStatus, or "UNUSED" before the submission
  size,     \* order id -> contracts requested
  filled,   \* order id -> contracts executed
  resting   \* the orders that may still execute

vars == <<status, size, filled, resting>>

Cancellable == {"PENDING", "PARTIALLY_FILLED", "VALIDATED"}

Init ==
  /\ status = [i \in OrderIds |-> "UNUSED"]
  /\ size = [i \in OrderIds |-> 0]
  /\ filled = [i \in OrderIds |-> 0]
  /\ resting = {}

\* The order enters the book and executes n contracts at once.
Execute(id, want, n) ==
  /\ n > filled[id] /\ n <= want
  /\ filled' = [filled EXCEPT ![id] = n]
  /\ IF n = want
     THEN /\ status' = [status EXCEPT ![id] = "FILLED"]
          /\ resting' = resting \ {id}
     ELSE /\ status' = [status EXCEPT ![id] = "PARTIALLY_FILLED"]
          /\ resting' = resting \cup {id}

Place(id, want) ==
  /\ status[id] = "UNUSED"
  /\ size' = [size EXCEPT ![id] = want]
  /\ \/ /\ status' = [status EXCEPT ![id] = "REJECTED"]
        /\ UNCHANGED <<filled, resting>>
     \/ /\ status' = [status EXCEPT ![id] = "VALIDATED"]
        /\ UNCHANGED <<filled, resting>>
     \/ /\ want > 0
        /\ status' = [status EXCEPT ![id] = "PENDING"]
        /\ resting' = resting \cup {id}
        /\ UNCHANGED filled
     \/ \E n \in Contracts : Execute(id, want, n)

Fill(id) ==
  /\ id \in resting
  /\ \E n \in Contracts : Execute(id, size[id], n)
  /\ UNCHANGED size

Refuse(id) ==
  /\ id \in resting
  /\ status' = [status EXCEPT ![id] = "REJECTED"]
  /\ UNCHANGED <<size, filled, resting>>

Cancel(id) ==
  /\ status[id] \in Cancellable
  /\ status' = [status EXCEPT ![id] = "CANCELLED"]
  /\ resting' = resting \ {id}
  /\ UNCHANGED <<size, filled>>

Next ==
  \E id \in OrderIds :
    \/ \E want \in Contracts : Place(id, want)
    \/ Fill(id)
    \/ Refuse(id)
    \/ Cancel(id)

Spec == Init /\ [][Next]_vars
=============================================================================
