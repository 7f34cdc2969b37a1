----------------------------- MODULE MCGovernance -----------------------------
(***************************************************************************)
(* The two services behind api/routes/governance.py, the governance of     *)
(* strategies and the configuration.  They share no state, so that each is *)
(* checked while the other rests.                                          *)
(*                                                                         *)
(* Configuration: small payloads.  Going live takes three keys together,   *)
(* the limits agree one by one and not all together; a hot reload or a     *)
(* layer can make the hours, the strategy or the asset fail or unreadable. *)
(***************************************************************************)
EXTENDS Governance, TLC

CONSTANTS Categories, Payloads, Reloads, LayerUpdates, InitialLayers, Users, Nobody, Unreadable,
          MaxVersions
VARIABLES versions, active, layers

C == INSTANCE ConfigService

ASSUME SettingsAssumption == C!ConfigAssumption

ActiveIsInForce == C!ActiveIsInForce
CriticalIsApproved == C!CriticalIsApproved
CriticalChangesAreApplied == C!CriticalChangesAreApplied
ApplicationIsAtomic == C!ApplicationIsAtomic

GoLive == ("trading_mode" :> "live") @@ ("live_trading_enabled" :> TRUE)
            @@ ("emergency_stop" :> FALSE)
StopOn == "emergency_stop" :> TRUE
LowerCapital == "max_capital" :> 1
DailyLoss == "max_daily_loss" :> 1
Hours == ("market_open_hour" :> 11) @@ ("market_close_hour" :> 17) @@ ("asset" :> "GGAL")

SomePayloads == {GoLive, StopOn, LowerCapital, Hours}
SomeReloads == {"market_open_hour" :> 18, "market_open_hour" :> Unreadable,
                "strategy_approved" :> FALSE, "max_capital" :> 3, "credentials" :> "new"}
SomeUpdates == {<<"env", ("max_per_trade" :> 2) @@ ("allowed_assets" :> {"YPFD"})>>}

NoSettings == [k \in {} |-> 0]
StartLayers ==
  [l \in {"defaults", "yaml", "env", "database", "secrets", "env_override"} |->
     CASE l = "defaults" -> ("trading_mode" :> "paper") @@ ("emergency_stop" :> TRUE)
       [] l = "yaml" -> ("max_capital" :> 2) @@ ("max_per_trade" :> 1) @@ DailyLoss
                       @@ ("active_strategy" :> "trend")
       [] OTHER -> NoSettings]

-----------------------------------------------------------------------------
VARIABLE part

MCInit == Init /\ C!Init /\ part \in {"strategies", "settings"}

MCNext ==
  /\ UNCHANGED part
  /\ \/ part = "strategies" /\ Next /\ UNCHANGED <<versions, active, layers>>
     \/ part = "settings" /\ C!Next /\ UNCHANGED vars

MCSpec == MCInit /\ [][MCNext]_<<vars, versions, active, layers, part>>
=============================================================================
