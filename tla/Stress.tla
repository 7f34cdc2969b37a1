-------------------------------- MODULE Stress --------------------------------
(***************************************************************************)
(* The stress test (modules/stress_testing): every scenario of a catalog   *)
(* is applied to a copy of one state, the controls the platform would have *)
(* are simulated, and the outcome is judged.                               *)
(*                                                                         *)
(* The dictionary of the code is reduced to what a failure depends on:     *)
(* the hazards it is in, the harm it says was done, the guards that are    *)
(* up, and money in percent of the authorized capital.                     *)
(***************************************************************************)
EXTENDS Integers, FiniteSetsExt

CONSTANTS
  MaxHazards,  \* bound: hazards a state is in before the test
  Losses,      \* the losses considered, in percent
  NoReport

\* What MCResearch assumes of them.
StressAssumption == MaxHazards \in Nat /\ Losses \subseteq Int

VARIABLES
  subject,           \* the state under test
  reconcileMustPass, \* AcceptanceCriteria.reconcile_must_pass
  report             \* scenario -> its failures, of the last test of them all

vars == <<subject, reconcileMustPass, report>>

\* The hazards are keys of the dictionary; lossStreak and skewedClock are keys whose
\* number is over its limit.
Unreliable ==
  {"data_corrupt", "data_frozen", "disconnected", "halted", "token_expired", "broker_timeout",
   "skewedClock"}
Repeated == {"duplicate_messages", "duplicate_workers", "out_of_order"}
Losing == {"simultaneous_losses", "lossStreak", "deltaExcess"}
Hazards ==
  Unreliable \cup Repeated \cup Losing \cup
  {"noBid", "noAsk", "db_down", "redis_down", "reconcile_bad", "uncertain_orders",
   "cannot_close", "overexposed"}
Harms == {"badDataTraded", "expiredTokenUsed", "new_orders_placed", "duplicate_orders_created"}
Guards == {"circuit_breaker", "idempotency_guard", "suppress_resubmit"}

\* catalog(): the critical scenarios that raise a hazard.  pf_no_capital takes the money
\* away; the rest change what no failure depends on (spot, volatility, spread, volume,
\* regime, rates, days to expiration, latency, a restart, concentration, theta, fees), and
\* mkt_crash stands for the critical ones of them.
Raises ==
  [ mkt_no_bid |-> "noBid", mkt_no_ask |-> "noAsk", mkt_halt |-> "halted",
    ops_disconnect |-> "disconnected", ops_timeout |-> "broker_timeout",
    ops_unconfirmed |-> "uncertain_orders", ops_dup_response |-> "duplicate_messages",
    ops_dup_msg |-> "duplicate_messages", ops_ooo |-> "out_of_order", ops_db_down |-> "db_down",
    ops_redis_down |-> "redis_down", ops_two_workers |-> "duplicate_workers",
    ops_token_expired |-> "token_expired", ops_clock_skew |-> "skewedClock",
    ops_frozen_data |-> "data_frozen", ops_corrupt |-> "data_corrupt",
    ops_recon_bad |-> "reconcile_bad", pf_multi_loss |-> "simultaneous_losses",
    pf_delta |-> "deltaExcess", pf_loss_streak |-> "lossStreak", pf_cant_close |-> "cannot_close" ]
CriticalScenarios == DOMAIN Raises \cup {"pf_no_capital", "mkt_crash"}

Shocked(s, id) ==
  [ hazards |-> IF id \in DOMAIN Raises THEN s.hazards \cup {Raises[id]} ELSE s.hazards,
    harms |-> s.harms, guards |-> s.guards, capital |-> s.capital,
    available |-> IF id = "pf_no_capital" THEN 0 ELSE s.available,
    pnl |-> IF id = "pf_multi_loss" THEN s.pnl - (s.capital * 8) \div 100 ELSE s.pnl ]

In(s, hazards) == s.hazards \cap hazards # {}

\* _apply_platform_defenses: harm that was done is taken back with the rest.
DefendedAgainstMessages(s) ==
  [ hazards |-> s.hazards, capital |-> s.capital, available |-> s.available, pnl |-> s.pnl,
    harms |-> s.harms \ (
      (IF In(s, Unreliable) THEN {"badDataTraded", "expiredTokenUsed"} ELSE {})
      \cup (IF In(s, {"duplicate_messages"}) THEN {"duplicate_orders_created"} ELSE {})),
    guards |-> s.guards ]
Defended(s) ==
  [ hazards |-> s.hazards, capital |-> s.capital, available |-> s.available, pnl |-> s.pnl,
    harms |-> s.harms \ (
      (IF In(s, Unreliable) THEN {"badDataTraded", "expiredTokenUsed"} ELSE {})
      \cup (IF In(s, Repeated) THEN {"duplicate_orders_created"} ELSE {})
      \cup (IF In(s, Hazards \ {"uncertain_orders", "cannot_close", "overexposed"})
                 \/ s.available <= 0
            THEN {"new_orders_placed"} ELSE {})),
    guards |-> s.guards \cup
      (IF In(s, Unreliable \cup Repeated \cup Losing \cup {"noBid", "noAsk"})
       THEN {"circuit_breaker"} ELSE {})
      \cup (IF In(s, Repeated) THEN {"idempotency_guard"} ELSE {})
      \cup (IF In(s, {"uncertain_orders"}) THEN {"suppress_resubmit"} ELSE {}) ]

\* _evaluate
Loss(s) == Max({0, 100 - (s.capital + s.pnl)})
Failures(s) ==
  {f \in {"drawdown", "loss", "duplicates", "workers", "reconciliation", "negativeCapital",
          "exposure", "tradedOnBadData", "tradedWhileHalted", "unclosable", "resubmission",
          "expiredToken", "series", "delta"} :
     CASE f = "drawdown" -> Loss(s) > 25
       [] f = "loss" -> Loss(s) > 20
       [] f = "duplicates" -> "duplicate_orders_created" \in s.harms
       [] f = "workers" -> "duplicate_workers" \in s.hazards /\ "idempotency_guard" \notin s.guards
       [] f = "reconciliation" -> "reconcile_bad" \in s.hazards /\ reconcileMustPass
       [] f = "negativeCapital" -> s.available < 0
       [] f = "exposure" -> "overexposed" \in s.hazards
       [] f = "tradedOnBadData" ->
            In(s, {"data_corrupt", "data_frozen"}) /\ "badDataTraded" \in s.harms
       [] f = "tradedWhileHalted" -> "halted" \in s.hazards /\ "new_orders_placed" \in s.harms
       [] f = "unclosable" -> "cannot_close" \in s.hazards
       [] f = "resubmission" ->
            "uncertain_orders" \in s.hazards /\ "suppress_resubmit" \notin s.guards
       [] f = "expiredToken" -> "token_expired" \in s.hazards /\ "expiredTokenUsed" \in s.harms
       [] f = "series" ->
            In(s, {"simultaneous_losses", "lossStreak"}) /\ "circuit_breaker" \notin s.guards
       [] OTHER -> "deltaExcess" \in s.hazards /\ "circuit_breaker" \notin s.guards}

-----------------------------------------------------------------------------
\* initial_state may say anything of the state.
Init ==
  /\ subject \in
       [ hazards : UNION {kSubset(n, Hazards) : n \in 0..MaxHazards}, harms : {{}, Harms},
         guards : {{}, Guards}, capital : {100}, available : {-1, 0, 1}, pnl : {-l : l \in Losses} ]
  /\ reconcileMustPass \in BOOLEAN
  /\ report = NoReport

RunOne(id) == Failures(Defended(Shocked(subject, id)))

\* run_all
RunAll ==
  /\ report = NoReport
  /\ report' = [id \in CriticalScenarios |-> RunOne(id)]
  /\ UNCHANGED <<subject, reconcileMustPass>>

Next == RunAll

Spec == Init /\ [][Next]_vars

-----------------------------------------------------------------------------
FailedCritical == {id \in CriticalScenarios : report[id] # {}}
BlocksLive == FailedCritical # {}

\* What the test can still find: money that is lost, or something no defence is
\* simulated against.
Undefended ==
  {"drawdown", "loss", "duplicates", "reconciliation", "negativeCapital", "exposure", "unclosable"}

\* The verdict does not depend on the state tested: pf_cant_close fails whatever is up, so
\* that blocks_live is always set, and no scenario ever fails for what the simulated
\* defences cover, not even when the state says the harm was done.
VerdictIsForegone ==
  report # NoReport => /\ BlocksLive
                       /\ UNION {report[id] : id \in CriticalScenarios} \subseteq Undefended
=============================================================================
