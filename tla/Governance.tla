------------------------------ MODULE Governance ------------------------------
(***************************************************************************)
(* The governance of strategies (modules/governance/service.py): a version *)
(* of a strategy is promoted towards live trading when the evidence its    *)
(* next status requires has been recorded, and loses its approval when     *)
(* something it depends on changes.                                        *)
(*                                                                         *)
(* The flags of PROMOTION_REQUIREMENTS fall into four groups that are      *)
(* required together, and a group stands for its flags:                    *)
(*   documentation   documentation                                         *)
(*   results         tests, reproducible_results                           *)
(*   paperReview     stress_testing, risk_review, technical_review,        *)
(*                   versioning                                            *)
(*   liveReview      operational_review, approvals                         *)
(*                                                                         *)
(* The service is called by the requests of api/routes/governance.py, of   *)
(* which one promotes and adds evidence at once, and from Python.  A call  *)
(* that raises before it changes anything is not a step.                   *)
(***************************************************************************)
CONSTANT Versions   \* the keys name@version

VARIABLES
  status,        \* definitions[key].status, or "UNREGISTERED"
  evidence,      \* evidence_flags[key]
  invalidated,   \* _invalidated
  audited,       \* what the last audit event about the key says of its status
  visited        \* history: the statuses since the registration

vars == <<status, evidence, invalidated, audited, visited>>

GovernanceStatus ==
  {"DRAFT", "RESEARCH", "BACKTESTED", "PAPER_APPROVED", "LIVE_RESTRICTED", "LIVE_APPROVED",
   "SUSPENDED", "RETIRED"}
Evidence == {"documentation", "results", "paperReview", "liveReview"}
Live == {"LIVE_RESTRICTED", "LIVE_APPROVED"}
Operating == Live \cup {"PAPER_APPROVED"}

\* PROMOTION_REQUIREMENTS
Required(target) ==
  CASE target = "RESEARCH" -> {"documentation"}
    [] target = "BACKTESTED" -> {"documentation", "results"}
    [] target = "PAPER_APPROVED" -> {"documentation", "results", "paperReview"}
    [] target \in Live -> Evidence
    [] OTHER -> {}

\* ALLOWED
AllowedSkippingPaper(from) ==
  CASE from = "DRAFT" -> {"RESEARCH", "RETIRED"}
    [] from = "RESEARCH" -> {"BACKTESTED", "SUSPENDED", "RETIRED"}
    [] from = "BACKTESTED" -> {"PAPER_APPROVED", "LIVE_RESTRICTED", "RESEARCH", "SUSPENDED"}
    [] from = "PAPER_APPROVED" -> {"LIVE_RESTRICTED", "SUSPENDED", "BACKTESTED"}
    [] from = "LIVE_RESTRICTED" -> {"LIVE_APPROVED", "SUSPENDED", "PAPER_APPROVED"}
    [] from = "LIVE_APPROVED" -> {"SUSPENDED", "LIVE_RESTRICTED"}
    [] from = "SUSPENDED" -> {"PAPER_APPROVED", "RESEARCH", "RETIRED"}
    [] OTHER -> {}
Allowed(from) ==
  CASE from = "DRAFT" -> {"RESEARCH", "RETIRED"}
    [] from = "RESEARCH" -> {"BACKTESTED", "SUSPENDED", "RETIRED"}
    [] from = "BACKTESTED" -> {"PAPER_APPROVED", "RESEARCH", "SUSPENDED"}
    [] from = "PAPER_APPROVED" -> {"LIVE_RESTRICTED", "SUSPENDED", "BACKTESTED"}
    [] from = "LIVE_RESTRICTED" -> {"LIVE_APPROVED", "SUSPENDED", "PAPER_APPROVED"}
    [] from = "LIVE_APPROVED" -> {"SUSPENDED", "LIVE_RESTRICTED"}
    [] from = "SUSPENDED" -> {"PAPER_APPROVED", "RESEARCH", "RETIRED"}
    [] OTHER -> {}

Registered(k) == status[k] # "UNREGISTERED"

Init ==
  /\ status = [k \in Versions |-> "UNREGISTERED"]
  /\ evidence = [k \in Versions |-> {}]
  /\ invalidated = {}
  /\ audited = [k \in Versions |-> "UNREGISTERED"]
  /\ visited = [k \in Versions |-> {}]

-----------------------------------------------------------------------------
Enter(k, s) ==
  /\ status' = [status EXCEPT ![k] = s]
  /\ visited' = [visited EXCEPT ![k] = @ \cup {s}]

\* register replaces whatever had the same name and version; what it forgets is
\* the evidence, not the invalidation.  It keeps the status of what it is given, and
\* its only caller, the request of api/routes/governance.py, gives it drafts.
Register(k) ==
  /\ status' = [status EXCEPT ![k] = "DRAFT"]
  /\ visited' = [visited EXCEPT ![k] = {"DRAFT"}]
  /\ evidence' = [evidence EXCEPT ![k] = {}]
  /\ audited' = [audited EXCEPT ![k] = "DRAFT"]
  /\ UNCHANGED invalidated

\* add_evidence asks for no registration.
AddEvidence(k, e) ==
  /\ evidence' = [evidence EXCEPT ![k] = @ \cup {e}]
  /\ UNCHANGED <<status, invalidated, audited, visited>>

PromoteUnproven(k, target) ==
  /\ k \notin invalidated
  /\ Registered(k)
  /\ target \in Allowed(status[k])
  /\ Required(status[k]) \subseteq evidence[k]
  /\ Enter(k, target)
  /\ audited' = [audited EXCEPT ![k] = target]
  /\ UNCHANGED <<evidence, invalidated>>
PromoteInvalidated(k, target) ==
  /\ Registered(k)
  /\ target \in Allowed(status[k])
  /\ Required(target) \subseteq evidence[k]
  /\ Enter(k, target)
  /\ audited' = [audited EXCEPT ![k] = target]
  /\ UNCHANGED <<evidence, invalidated>>
Promote(k, target) ==
  /\ k \notin invalidated
  /\ Registered(k)
  /\ target \in Allowed(status[k])
  /\ Required(target) \subseteq evidence[k]
  /\ Enter(k, target)
  /\ audited' = [audited EXCEPT ![k] = target]
  /\ UNCHANGED <<evidence, invalidated>>

\* invalidate marks the key before it looks the definition up, so a version
\* that is not registered yet stays barred although the call raises.  The audit
\* event says SUSPENDED whatever the status.
InvalidateFullyApproved(k) ==
  /\ invalidated' = invalidated \cup {k}
  /\ IF Registered(k)
     THEN /\ IF status[k] \in Operating \ {"LIVE_RESTRICTED"} THEN Enter(k, "SUSPENDED")
                                        ELSE UNCHANGED <<status, visited>>
          /\ audited' = [audited EXCEPT ![k] = "SUSPENDED"]
     ELSE UNCHANGED <<status, visited, audited>>
  /\ UNCHANGED evidence
Invalidate(k) ==
  /\ invalidated' = invalidated \cup {k}
  /\ IF Registered(k)
     THEN /\ IF status[k] \in Operating THEN Enter(k, "SUSPENDED")
                                        ELSE UNCHANGED <<status, visited>>
          /\ audited' = [audited EXCEPT ![k] = "SUSPENDED"]
     ELSE UNCHANGED <<status, visited, audited>>
  /\ UNCHANGED evidence

\* retire, from any status
Retire(k) ==
  /\ Registered(k)
  /\ Enter(k, "RETIRED")
  /\ audited' = [audited EXCEPT ![k] = "RETIRED"]
  /\ UNCHANGED <<evidence, invalidated>>

\* The request to promote: the evidence it carries stays when the promotion is refused.
PromoteRequest(k, target, flags) ==
  LET provided == evidence[k] \cup flags
  IN /\ evidence' = [evidence EXCEPT ![k] = provided]
     /\ IF /\ k \notin invalidated /\ Registered(k)
           /\ target \in Allowed(status[k]) /\ Required(target) \subseteq provided
        THEN Enter(k, target) /\ audited' = [audited EXCEPT ![k] = target]
        ELSE UNCHANGED <<status, visited, audited>>
     /\ UNCHANGED invalidated

\* The requests that change something.
ByRequest(k) ==
  \/ Register(k)
  \/ \E target \in GovernanceStatus, flags \in SUBSET Evidence : PromoteRequest(k, target, flags)

Next ==
  \E k \in Versions :
    \/ ByRequest(k)
    \/ \E e \in Evidence : AddEvidence(k, e)
    \/ \E target \in GovernanceStatus : Promote(k, target)
    \/ Invalidate(k)
    \/ Retire(k)

Spec == Init /\ [][Next]_vars

-----------------------------------------------------------------------------
TypeOK ==
  /\ status \in [Versions -> GovernanceStatus \cup {"UNREGISTERED"}]
  /\ evidence \in [Versions -> SUBSET Evidence]
  /\ invalidated \subseteq Versions
  /\ audited \in [Versions -> GovernanceStatus \cup {"UNREGISTERED"}]
  /\ visited \in [Versions -> SUBSET GovernanceStatus]

\* Wherever a version has got to, by whatever promotions, suspensions, returns
\* and registrations under the same key, the evidence its status requires is on
\* record (promote, register).
EvidenceBacksStatus ==
  \A k \in Versions : Registered(k) => Required(status[k]) \subseteq evidence[k]

\* A version whose approval was invalidated never operates again, on paper or
\* live, not even after it was registered anew (invalidate, promote).
InvalidatedNeverOperates ==
  \A k \in invalidated : status[k] \notin Operating

\* Nothing trades live that was not approved for paper trading first.
LiveFollowsPaper ==
  \A k \in Versions : status[k] \in Live => "PAPER_APPROVED" \in visited[k]

\* Whatever operates, operates under the status the audit log last told of it,
\* and what the log tells as operating does (promote, invalidate, retire,
\* register).  About a version that does not operate the log may be wrong: an
\* invalidation is logged as SUSPENDED whatever the status.
AuditTellsWhatOperates ==
  \A k \in Versions :
    status[k] \in Operating \/ audited[k] \in Operating => audited[k] = status[k]

=============================================================================
