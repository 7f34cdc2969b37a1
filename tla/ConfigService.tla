----------------------------- MODULE ConfigService -----------------------------
(***************************************************************************)
(* The configuration service (modules/config_service/service.py): drafts   *)
(* of settings that are approved and applied, the layers from which a      *)
(* setting is resolved, and the hot reload of what is not critical.        *)
(*                                                                         *)
(* A payload is a function from some of the Keys to values.  The content   *)
(* hash of a version is its payload: the category is not hashed, and of    *)
(* several versions with one payload every operation finds the first.      *)
(*                                                                         *)
(* A call that raises before it changes anything is not a step.            *)
(***************************************************************************)
EXTENDS Integers, Sequences

CONSTANTS
  Categories,
  Payloads,      \* what drafts may contain
  Reloads,       \* what hot_reload may be asked for: functions with one key
  LayerUpdates,  \* what set_layer may be asked for: pairs of a layer and its settings
  InitialLayers, \* layer -> settings, from the start of the process
  Users,
  Nobody,        \* approved_by of a version nobody has approved
  Unreadable,    \* a value int() and float() raise on
  MaxVersions    \* bound: how many drafts are created

VARIABLES
  versions,   \* _versions
  active,     \* _active: category -> index of a version, or 0
  layers      \* _layers

vars == <<versions, active, layers>>

\* REJECTED is declared by the code and given to no version.
ConfigStatus == {"DRAFT", "PENDING_APPROVAL", "APPROVED", "ACTIVE", "SUPERSEDED", "ROLLED_BACK"}

\* The keys of CRITICAL_KEYS and HOT_RELOAD_FORBIDDEN that decide something here.
CriticalKeys == {"trading_mode", "live_trading_enabled", "emergency_stop", "max_capital",
                 "max_daily_loss"}
HotReloadForbidden == {"trading_mode", "live_trading_enabled", "emergency_stop", "max_capital",
                       "max_daily_loss", "credentials"}
PlainKeys == {"max_per_trade", "market_open_hour", "market_close_hour", "asset", "allowed_assets",
              "active_strategy", "strategy_approved"}
Keys == CriticalKeys \cup PlainKeys \cup {"credentials"}

Precedence == <<"defaults", "yaml", "env", "database", "secrets", "env_override">>
Layers == {Precedence[i] : i \in DOMAIN Precedence}

\* What MCGovernance assumes of them, and the theorems.
ConfigAssumption ==
  /\ MaxVersions \in Nat
  /\ DOMAIN InitialLayers = Layers
  /\ \A u \in LayerUpdates : u[1] \in Layers
  /\ Nobody \notin Users

\* The settings of two layers, of which one has precedence
Override(below, above) ==
  [k \in DOMAIN below \cup DOMAIN above |-> IF k \in DOMAIN above THEN above[k] ELSE below[k]]

\* resolve
ResolveFrom(l) ==
  Override(Override(Override(Override(Override(
    l["defaults"], l["yaml"]), l["env"]), l["database"]), l["secrets"]), l["env_override"])
Resolved == ResolveFrom(layers)

Setting(p, k, default) == IF k \in DOMAIN p THEN p[k] ELSE default

\* AppConfigSchema: no live trading under an emergency stop or in another mode.
ModesAgree(p) ==
  Setting(p, "live_trading_enabled", FALSE) =>
    /\ ~Setting(p, "emergency_stop", TRUE)
    /\ Setting(p, "trading_mode", "paper") = "live"

\* RiskConfigSchema, which is only built when all of its three keys are there.
LimitsAgree(p) ==
  {"max_daily_loss", "max_per_trade", "max_capital"} \subseteq DOMAIN p =>
    /\ p["max_daily_loss"] > 0 /\ p["max_per_trade"] > 0 /\ p["max_capital"] > 0
    /\ p["max_per_trade"] <= p["max_capital"]

HoursAgree(p) ==
  {"market_open_hour", "market_close_hour"} \subseteq DOMAIN p =>
    p["market_open_hour"] < p["market_close_hour"]

StrategyIsApproved(p) == "active_strategy" \in DOMAIN p => Setting(p, "strategy_approved", TRUE)

\* An empty list of assets allows all.
AssetIsAllowed(p) ==
  {"asset", "allowed_assets"} \subseteq DOMAIN p =>
    p["allowed_assets"] = {} \/ p["asset"] \in p["allowed_assets"]

\* What the checks of limits and hours convert; otherwise validate_cross raises.
Converts(p) ==
  /\ Setting(p, "max_daily_loss", 1) # Unreadable
  /\ {"market_open_hour", "market_close_hour"} \subseteq DOMAIN p =>
       Unreadable \notin {p["market_open_hour"], p["market_close_hour"]}

\* validate_cross has no objection.
ValidCross(p) ==
  /\ Converts(p)
  /\ ModesAgree(p) /\ LimitsAgree(p)
  /\ StrategyIsApproved(p) /\ AssetIsAllowed(p)
  /\ Setting(p, "max_daily_loss", 1) >= 0
  /\ HoursAgree(p)

Init ==
  /\ versions = <<>>
  /\ active = [c \in Categories |-> 0]
  /\ layers = InitialLayers

-----------------------------------------------------------------------------
Critical(v) == DOMAIN versions[v].payload \cap CriticalKeys # {}

\* The versions that _by_hash can find: the first of each payload.
Found == {v \in DOMAIN versions : \A u \in 1..(v - 1) : versions[u].payload # versions[v].payload}

SetStatus(v, s) == [versions EXCEPT ![v].status = s]

\* create_draft
CreateDraft(c, p) ==
  /\ Len(versions) < MaxVersions
  /\ ValidCross(p)
  /\ versions' = Append(versions, [category |-> c, payload |-> p, status |-> "DRAFT",
                                   approvedBy |-> Nobody])
  /\ UNCHANGED <<active, layers>>

\* submit_for_approval, from any status
SubmitAsIfPlain(v) ==
  /\ versions' = SetStatus(v, "APPROVED")
  /\ UNCHANGED <<active, layers>>
SubmitForApproval(v) ==
  /\ versions' = SetStatus(v, IF Critical(v) THEN "PENDING_APPROVAL" ELSE "APPROVED")
  /\ UNCHANGED <<active, layers>>

\* approve, by anyone, the author included
ApprovedBy(v, user) ==
  [u \in DOMAIN versions |->
     IF u = v THEN [versions[u] EXCEPT !.status = "APPROVED", !.approvedBy = user] ELSE versions[u]]

Approve(v, user) ==
  /\ Critical(v) => versions[v].status = "PENDING_APPROVAL"
  /\ versions' = ApprovedBy(v, user)
  /\ UNCHANGED <<active, layers>>

\* rollback: whatever is active is marked, nothing is restored.
RolledBack(vs, act) ==
  [v \in DOMAIN vs |->
     IF \E c \in Categories : act[c] = v THEN [vs[v] EXCEPT !.status = "ROLLED_BACK"] ELSE vs[v]]

\* The version that was in force before v is superseded, be it v itself.
SupersedeNothing(vs, v, prev) == [vs EXCEPT ![v].status = "ACTIVE"]
Supersede(vs, v, prev) ==
  LET demoted == IF prev = 0 THEN vs ELSE [vs EXCEPT ![prev].status = "SUPERSEDED"]
  IN [demoted EXCEPT ![v].status = "ACTIVE"]

Merged(v) == [layers EXCEPT !["database"] = Override(@, versions[v].payload)]

\* apply_atomic: the version becomes active and its payload goes to the database
\* layer; when validate_cross then finds errors in the resolved settings, everything
\* that is active is rolled back and the payload stays; when it raises, nothing is.
ApplyAtomic(v) ==
  LET vs == Supersede(versions, v, active[versions[v].category])
      act == [active EXCEPT ![versions[v].category] = v]
  IN /\ versions[v].status = "APPROVED"
     /\ layers' = Merged(v)
     /\ IF LET resolved == ResolveFrom(Merged(v)) IN Converts(resolved) => ValidCross(resolved)
        THEN versions' = vs /\ active' = act
        ELSE /\ versions' = RolledBack(vs, act)
             /\ active' = [c \in Categories |-> 0]

\* rollback on demand, which needs a snapshot: some version was applied before.
Rollback ==
  /\ \E c \in Categories : active[c] # 0
  /\ versions' = RolledBack(versions, active)
  /\ active' = [c \in Categories |-> 0]
  /\ UNCHANGED layers

\* hot_reload
HotReloadAnything(r) ==
  /\ layers' = [layers EXCEPT !["env_override"] = Override(@, r)]
  /\ UNCHANGED <<versions, active>>
HotReload(r) ==
  /\ DOMAIN r \cap (HotReloadForbidden \cup CriticalKeys) = {}
  /\ layers' = [layers EXCEPT !["env_override"] = Override(@, r)]
  /\ UNCHANGED <<versions, active>>

\* set_layer
SetLayer(l, settings) ==
  /\ layers' = [layers EXCEPT ![l] = settings]
  /\ UNCHANGED <<versions, active>>

\* The request to approve submits the version first: whoever asks approves it in one
\* call, from any status.
ApproveRequest(v, user) ==
  /\ versions' = ApprovedBy(v, user)
  /\ UNCHANGED <<active, layers>>

\* The requests of api/routes/governance.py that change something.
ByRequest ==
  \/ \E c \in Categories, p \in Payloads : CreateDraft(c, p)
  \/ \E v \in Found :
       \/ \E user \in Users : ApproveRequest(v, user)
       \/ ApplyAtomic(v)

Next ==
  \/ ByRequest
  \/ \E v \in Found :
       \/ SubmitForApproval(v)
       \/ \E user \in Users : Approve(v, user)
  \/ Rollback
  \/ \E r \in Reloads : HotReload(r)
  \/ \E u \in LayerUpdates : SetLayer(u[1], u[2])

Spec == Init /\ [][Next]_vars

-----------------------------------------------------------------------------
TypeOK ==
  /\ versions \in Seq([category : Categories, payload : Payloads, status : ConfigStatus,
                       approvedBy : Users \cup {Nobody}])
  /\ active \in [Categories -> 0..Len(versions)]
  /\ DOMAIN layers = Layers

\* A version that claims to be ACTIVE is the one its category uses: two versions
\* of a category are never ACTIVE together, whichever were submitted, approved
\* and applied again in between.
ActiveIsInForce ==
  \A v \in DOMAIN versions :
    versions[v].status = "ACTIVE" => active[versions[v].category] = v

\* What came into force and concerns a critical key was approved by somebody,
\* and stays so through supersession, roll back and re-submission.
CriticalIsApproved ==
  \A v \in DOMAIN versions :
    Critical(v) /\ versions[v].status \in {"APPROVED", "ACTIVE", "SUPERSEDED", "ROLLED_BACK"}
      => versions[v].approvedBy # Nobody

\* The settings in force change in a critical key only by applying an approved
\* version that sets the key (or by replacing a whole layer): not by a hot
\* reload, and not by a plain version.
CriticalChangesAreApplied ==
  [][layers' # layers =>
       \A k \in CriticalKeys :
         Setting(Resolved', k, Nobody) # Setting(Resolved, k, Nobody) =>
           \/ \E v \in Found :
                /\ k \in DOMAIN versions[v].payload
                /\ versions[v].status = "APPROVED" /\ versions[v].approvedBy # Nobody
           \/ \E u \in LayerUpdates : SetLayer(u[1], u[2])]_vars

\* "Aplicacion atomica con snapshot" (docs/CONFIGURATION.md): an application that
\* changes the settings leaves a version ACTIVE.  apply_atomic merges the payload
\* before it verifies the result, and its roll back restores no layer.
ApplicationIsAtomic ==
  [][layers' # layers /\ versions' # versions =>
       \E v \in DOMAIN versions : versions[v].status # "ACTIVE" /\ versions'[v].status = "ACTIVE"]_vars
=============================================================================
