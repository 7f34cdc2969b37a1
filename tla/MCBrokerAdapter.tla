---------------------------- MODULE MCBrokerAdapter ---------------------------
(***************************************************************************)
(* An instance of BrokerAdapter: two intents that want the same order.     *)
(* The requests and the feed share no variable, so that a behaviour of one *)
(* says the same whatever the other does; each is checked while the other  *)
(* rests.                                                                  *)
(***************************************************************************)
EXTENDS BrokerAdapter

VARIABLE part

SameParams == [i \in Intents |-> "params"]

MCInit == Init /\ part \in {"requests", "feed"}

MCNext ==
  /\ UNCHANGED part
  /\ \/ part = "requests" /\ Client /\ UNCHANGED streamVars
     \/ part = "feed" /\ StreamNext /\ UNCHANGED <<limiterVars, clientVars>>

MCSpec == MCInit /\ [][MCNext]_<<vars, part>> /\ Fairness
=============================================================================
