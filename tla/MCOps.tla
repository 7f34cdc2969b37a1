-------------------------------- MODULE MCOps ---------------------------------
(***************************************************************************)
(* What api/routes/ops.py serves to those who control the platform: the    *)
(* sessions they sign on to, and the way of a strategy to live trading.    *)
(* They share no state, so that each is checked while the other rests; so  *)
(* are sessions, failed logins and tokens without a session, which share   *)
(* the clock only.                                                         *)
(***************************************************************************)
EXTENDS Sessions

CONSTANTS Strategies, Admins, Nobody, Commits, MaxRequests, MaxDays
VARIABLES state, commit, requests, today, validated

transitions == <<state, commit, requests, today, validated>>

L == INSTANCE LiveTransition WITH now <- today

ASSUME LifecycleAssumption == L!TransitionAssumption

LiveWasValidated == L!LiveWasValidated
ApprovalIsSpentOnce == L!ApprovalIsSpentOnce
LiveCodeIsFrozen == L!LiveCodeIsFrozen
LiveNeedsApproval == L!LiveNeedsApproval

-----------------------------------------------------------------------------
VARIABLE part

MCInit == Init /\ L!Init /\ part \in {"sessions", "failures", "plain", "transitions"}

MCNext ==
  /\ UNCHANGED part
  /\ \/ part = "sessions" /\ SessionNext /\ UNCHANGED transitions
     \/ part = "failures" /\ FailureNext /\ UNCHANGED transitions
     \/ part = "plain" /\ PlainNext /\ UNCHANGED transitions
     \/ part # "transitions" /\ TimePasses /\ UNCHANGED transitions
     \/ part = "transitions" /\ L!Next /\ UNCHANGED vars

MCSpec == MCInit /\ [][MCNext]_<<vars, transitions, part>>
=============================================================================
