---------------------------- MODULE LiveTransition ----------------------------
(***************************************************************************)
(* The way of a strategy from paper to live trading                        *)
(* (modules/live_transition/service.py) and the approval by two people it  *)
(* needs (modules/security/approvals/dual.py).                             *)
(*                                                                         *)
(* Whoever asks and approves is an ADMIN and the checklist is complete:    *)
(* any other call raises before it changes anything, and such a call is    *)
(* not a step.  What a record keeps of limits, checklist, approvers and    *)
(* the end of its activation decides no transition and is left out, with   *)
(* run_canary, which reads the last and changes only the audit log.  The   *)
(* figures of a paper trading period are reduced to whether they meet the  *)
(* criteria.  Time is counted in days.                                     *)
(***************************************************************************)
EXTENDS Integers, Sequences

CONSTANTS
  Strategies,
  Admins,
  Nobody,        \* approver of a request nobody has approved
  Commits,
  MaxRequests,   \* bound: how many approvals are requested
  MaxDays        \* bound: how long a behaviour lasts

\* What MCOps assumes of them, and the theorems: a strategy always has some code.
TransitionAssumption ==
  /\ Commits # {} /\ Nobody \notin Admins
  /\ MaxRequests \in Nat /\ MaxDays \in Nat

VARIABLES
  state,       \* strategies[id].state, or "UNREGISTERED"
  commit,      \* strategies[id].git_commit
  requests,    \* the approval requests, in the order they were made
  now,
  validated    \* history: the strategies that were PAPER_VALIDATED since they
               \* were registered or suspended

vars == <<state, commit, requests, now, validated>>

StrategyLifecycleState ==
  {"DEVELOPMENT", "BACKTEST_ONLY", "PAPER_TRADING", "PAPER_VALIDATED", "LIVE_RESTRICTED",
   "LIVE_LIMITED", "LIVE_APPROVED", "SUSPENDED", "RETIRED"}
Live == {"LIVE_RESTRICTED", "LIVE_LIMITED", "LIVE_APPROVED"}

ApprovalTTL == 1   \* ttl_hours = 24

\* ALLOWED_TRANSITIONS
AllowedBackToLive(from) ==
  CASE from = "DEVELOPMENT" -> {"BACKTEST_ONLY", "PAPER_TRADING", "RETIRED"}
    [] from = "BACKTEST_ONLY" -> {"PAPER_TRADING", "RETIRED"}
    [] from = "PAPER_TRADING" -> {"PAPER_VALIDATED", "SUSPENDED", "RETIRED"}
    [] from = "PAPER_VALIDATED" -> {"LIVE_RESTRICTED", "PAPER_TRADING", "SUSPENDED"}
    [] from = "LIVE_RESTRICTED" -> {"LIVE_LIMITED", "SUSPENDED", "PAPER_TRADING"}
    [] from = "LIVE_LIMITED" -> {"LIVE_APPROVED", "LIVE_RESTRICTED", "SUSPENDED"}
    [] from = "LIVE_APPROVED" -> {"LIVE_LIMITED", "SUSPENDED"}
    [] from = "SUSPENDED" -> {"PAPER_TRADING", "LIVE_RESTRICTED", "RETIRED"}
    [] OTHER -> {}
Allowed(from) ==
  CASE from = "DEVELOPMENT" -> {"BACKTEST_ONLY", "PAPER_TRADING", "RETIRED"}
    [] from = "BACKTEST_ONLY" -> {"PAPER_TRADING", "RETIRED"}
    [] from = "PAPER_TRADING" -> {"PAPER_VALIDATED", "SUSPENDED", "RETIRED"}
    [] from = "PAPER_VALIDATED" -> {"LIVE_RESTRICTED", "PAPER_TRADING", "SUSPENDED"}
    [] from = "LIVE_RESTRICTED" -> {"LIVE_LIMITED", "SUSPENDED", "PAPER_TRADING"}
    [] from = "LIVE_LIMITED" -> {"LIVE_APPROVED", "LIVE_RESTRICTED", "SUSPENDED"}
    [] from = "LIVE_APPROVED" -> {"LIVE_LIMITED", "SUSPENDED"}
    [] from = "SUSPENDED" -> {"PAPER_TRADING", "RETIRED"}
    [] OTHER -> {}

\* "opened" counts the strategies an approval has taken live.
ApprovalRequest ==
  [requester : Admins, approver : Admins \cup {Nobody},
   status : {"PENDING", "APPROVED", "EXPIRED"}, expires : 0..(MaxDays + ApprovalTTL),
   opened : 0..2]

Init ==
  /\ state = [s \in Strategies |-> "UNREGISTERED"]
  /\ commit = [s \in Strategies |-> CHOOSE c \in Commits : TRUE]
  /\ requests = <<>>
  /\ now = 0
  /\ validated = {}

-----------------------------------------------------------------------------
\* transition(), with what it means for the history.
Enter(s, new) ==
  /\ state' = [state EXCEPT ![s] = new]
  /\ validated' = CASE new = "PAPER_VALIDATED" -> validated \cup {s}
                    [] new = "SUSPENDED" -> validated \ {s}
                    [] OTHER -> validated

Transition(s, new) ==
  /\ new \in Allowed(state[s])
  /\ Enter(s, new)
  /\ UNCHANGED <<commit, requests, now>>

\* register makes a new record, whatever the strategy was doing.
Register(s, c) ==
  /\ state' = [state EXCEPT ![s] = "DEVELOPMENT"]
  /\ commit' = [commit EXCEPT ![s] = c]
  /\ validated' = validated \ {s}
  /\ UNCHANGED <<requests, now>>

\* evaluate_paper_validated of figures that meet the criteria
EvaluatePaperValidated(s) == Transition(s, "PAPER_VALIDATED")

\* /transition/paper-validate registers an unknown strategy and sends it to
\* paper trading before it evaluates the figures that came with the request.
PaperValidateUnknown(s, c) ==
  /\ state[s] = "UNREGISTERED"
  /\ commit' = [commit EXCEPT ![s] = c]
  /\ Enter(s, "PAPER_TRADING") \/ Enter(s, "PAPER_VALIDATED")
  /\ UNCHANGED <<requests, now>>

RequestLiveRestricted(s, requester) ==
  /\ Len(requests) < MaxRequests
  /\ state[s] = "PAPER_VALIDATED"
  /\ requests' = Append(requests,
       [requester |-> requester, approver |-> Nobody, status |-> "PENDING",
        expires |-> now + ApprovalTTL, opened |-> 0])
  /\ UNCHANGED <<state, commit, now, validated>>

Approved(request, approver, opens) ==
  [requester |-> request.requester, approver |-> approver, status |-> "APPROVED",
   expires |-> request.expires, opened |-> request.opened + opens]

\* DualApprovalService.approve followed by the transition, which may raise: the
\* request is spent all the same.  Nothing ties a request to a strategy.
ApproveAgain(s, r, approver) ==
  /\ now <= requests[r].expires
  /\ approver # requests[r].requester
  /\ LET taken == "LIVE_RESTRICTED" \in Allowed(state[s])
     IN /\ requests' = [requests EXCEPT ![r].status = "APPROVED", ![r].approver = approver,
                          ![r].opened = IF taken /\ @ < 2 THEN @ + 1 ELSE @]
        /\ IF taken
           THEN Enter(s, "LIVE_RESTRICTED")
           ELSE UNCHANGED <<state, validated>>
  /\ UNCHANGED <<commit, now>>

ApplyLiveRestrictedApproval(s, r, approver) ==
  /\ requests[r].status = "PENDING"
  /\ \/ /\ now > requests[r].expires
        /\ requests' = [requests EXCEPT ![r].status = "EXPIRED"]
        /\ UNCHANGED <<state, validated>>
     \/ /\ now <= requests[r].expires
        /\ approver # requests[r].requester
        /\ \/ /\ "LIVE_RESTRICTED" \in Allowed(state[s])
              /\ requests' = [requests EXCEPT ![r] = Approved(@, approver, 1)]
              /\ Enter(s, "LIVE_RESTRICTED")
           \/ /\ "LIVE_RESTRICTED" \notin Allowed(state[s])
              /\ requests' = [requests EXCEPT ![r] = Approved(@, approver, 0)]
              /\ UNCHANGED <<state, validated>>
  /\ UNCHANGED <<commit, now>>

\* A new commit suspends a live strategy, and is only recorded then.
VersionChangeKeepsLive(s, c) ==
  /\ c # commit[s] /\ state[s] \in Live
  /\ commit' = [commit EXCEPT ![s] = c]
  /\ UNCHANGED <<state, validated, requests, now>>
InvalidateOnVersionChange(s, c) ==
  /\ c # commit[s] /\ state[s] \in Live
  /\ Enter(s, "SUSPENDED")
  /\ commit' = [commit EXCEPT ![s] = c]
  /\ UNCHANGED <<requests, now>>

AutoSuspend(s) ==
  /\ state[s] \in Live
  /\ Enter(s, "SUSPENDED")
  /\ UNCHANGED <<commit, requests, now>>

DayPasses ==
  /\ now < MaxDays
  /\ now' = now + 1
  /\ UNCHANGED <<state, commit, requests, validated>>

\* The requests of api/routes/ops.py that change something: no other call is made by the
\* platform itself.
ByRequest(s) ==
  \/ \E c \in Commits : Register(s, c) \/ PaperValidateUnknown(s, c)
  \/ EvaluatePaperValidated(s)
  \/ \E u \in Admins :
       \/ RequestLiveRestricted(s, u)
       \/ \E r \in DOMAIN requests : ApplyLiveRestrictedApproval(s, r, u)

Next ==
  \/ \E s \in Strategies :
       \/ ByRequest(s)
       \/ \E c \in Commits : InvalidateOnVersionChange(s, c)
       \/ \E new \in StrategyLifecycleState : Transition(s, new)
       \/ AutoSuspend(s)
  \/ DayPasses

Spec == Init /\ [][Next]_vars

-----------------------------------------------------------------------------
TypeOK ==
  /\ state \in [Strategies -> StrategyLifecycleState \cup {"UNREGISTERED"}]
  /\ commit \in [Strategies -> Commits]
  /\ requests \in Seq(ApprovalRequest)
  /\ now \in 0..MaxDays
  /\ validated \subseteq Strategies

\* However it came there, a strategy that is live met the paper trading stage
\* after it was last registered or suspended (ALLOWED_TRANSITIONS): no way back
\* from a suspension leads around it.
LiveWasValidated == \A s \in Strategies : state[s] \in Live => s \in validated

\* An approval takes at most one strategy live, once, and two people are behind
\* it, whatever requests are repeated, late or meant for another strategy.
ApprovalIsSpentOnce ==
  \A r \in DOMAIN requests :
    /\ requests[r].opened <= 1
    /\ requests[r].opened = 1 =>
         requests[r].status = "APPROVED" /\ requests[r].approver \notin {Nobody, requests[r].requester}

\* The recorded code of a strategy never changes while it stays live: a new
\* commit suspends it, a new registration sends it back to the beginning.
LiveCodeIsFrozen ==
  [][\A s \in Strategies :
       state[s] \in Live /\ state'[s] \in Live => commit'[s] = commit[s]]_vars

\* "Checklist + doble aprobacion ADMIN distinta del solicitante" before
\* LIVE_RESTRICTED (docs/LIVE_TRANSITION.md): no strategy is live before some
\* approval took one there.  The generic transition() asks for none.
LiveNeedsApproval ==
  (\E s \in Strategies : state[s] \in Live) => \E r \in DOMAIN requests : requests[r].opened > 0
=============================================================================
