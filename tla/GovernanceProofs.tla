--------------------------- MODULE GovernanceProofs ---------------------------
(***************************************************************************)
(* For any set of versions: a version has the evidence its status          *)
(* requires, an invalidated one does not operate, a live one was approved  *)
(* for paper trading, and the audit log tells what operates.               *)
(*                                                                         *)
(* For any settings, categories and users: what is ACTIVE is in force,     *)
(* what came into force and is critical was approved, and critical         *)
(* settings change in no other way.                                        *)
(***************************************************************************)
EXTENDS MCGovernance, Integers, Sequences, TLAPS

\* The history contains the status: what makes LiveFollowsPaper inductive.
StatusVisited == \A k \in Versions : Registered(k) => status[k] \in visited[k]

Safe ==
  /\ EvidenceBacksStatus
  /\ InvalidatedNeverOperates
  /\ LiveFollowsPaper /\ StatusVisited
  /\ AuditTellsWhatOperates
IInv == TypeOK /\ Safe

\* No version is registered in an initial state.
LEMMA InitIInv == Init => IInv
BY DEF Init, IInv, Safe, TypeOK, EvidenceBacksStatus, InvalidatedNeverOperates, LiveFollowsPaper,
       StatusVisited, AuditTellsWhatOperates, Registered, Operating, Live, GovernanceStatus

\* register: a DRAFT needs no evidence and does not operate.
LEMMA RegisterStep ==
  ASSUME IInv, NEW k \in Versions, Register(k)
  PROVE  IInv'
<1> USE DEF IInv, TypeOK, Register
<1>1. TypeOK'
  BY DEF GovernanceStatus
<1>2. EvidenceBacksStatus'
  BY DEF Safe, EvidenceBacksStatus, Registered, Required, Live
<1>3. InvalidatedNeverOperates'
  BY DEF Safe, InvalidatedNeverOperates, Operating, Live
<1>4. LiveFollowsPaper' /\ StatusVisited'
  BY DEF Safe, LiveFollowsPaper, StatusVisited, Registered, Live
<1>5. AuditTellsWhatOperates'
  BY DEF Safe, AuditTellsWhatOperates, Operating, Live
<1> QED
  BY <1>1, <1>2, <1>3, <1>4, <1>5 DEF Safe

\* add_evidence: no requirement is lost.
LEMMA AddEvidenceStep ==
  ASSUME IInv, NEW k \in Versions, NEW e \in Evidence, AddEvidence(k, e)
  PROVE  IInv'
<1> USE DEF IInv, TypeOK, AddEvidence
<1>1. TypeOK'
  OBVIOUS
<1>2. EvidenceBacksStatus'
  <2> SUFFICES ASSUME NEW j \in Versions, Registered(j)'
               PROVE  Required(status[j])' \subseteq evidence'[j]
    BY DEF EvidenceBacksStatus
  <2>1. Registered(j) /\ Required(status[j])' = Required(status[j])
    BY DEF Registered, Required
  <2>2. Required(status[j]) \subseteq evidence[j]
    BY <2>1 DEF Safe, EvidenceBacksStatus
  <2>3. evidence[j] \subseteq evidence'[j]
    OBVIOUS
  <2> QED
    BY <2>1, <2>2, <2>3
<1>3. InvalidatedNeverOperates' /\ LiveFollowsPaper' /\ StatusVisited'
  BY DEF Safe, InvalidatedNeverOperates, LiveFollowsPaper, StatusVisited, Registered
<1>4. AuditTellsWhatOperates'
  BY DEF Safe, AuditTellsWhatOperates, Operating, Live
<1> QED
  BY <1>1, <1>2, <1>3, <1>4 DEF Safe

\* promote: the guard demands the evidence, bars the invalidated, and leads to
\* a live status only from PAPER_APPROVED or from the other live status.
LEMMA PromoteStep ==
  ASSUME IInv, NEW k \in Versions, NEW target \in GovernanceStatus, Promote(k, target)
  PROVE  IInv'
<1> USE DEF IInv, TypeOK, Promote, Enter
<1>1. TypeOK'
  OBVIOUS
<1>2. EvidenceBacksStatus'
  BY DEF Safe, EvidenceBacksStatus, Registered, Required
<1>3. InvalidatedNeverOperates'
  BY DEF Safe, InvalidatedNeverOperates
<1>4. LiveFollowsPaper'
  <2> SUFFICES ASSUME target \in Live
               PROVE  "PAPER_APPROVED" \in visited[k]
    BY DEF Safe, LiveFollowsPaper
  <2>1. status[k] = "PAPER_APPROVED" \/ status[k] \in Live
    BY DEF Allowed, Live, GovernanceStatus
  <2> QED
    BY <2>1 DEF Safe, LiveFollowsPaper, StatusVisited
<1>5. StatusVisited'
  BY DEF Safe, StatusVisited, Registered
<1>6. AuditTellsWhatOperates'
  BY DEF Safe, AuditTellsWhatOperates, Operating, Live, Registered
<1> QED
  BY <1>1, <1>2, <1>3, <1>4, <1>5, <1>6 DEF Safe

\* The request to promote does what add_evidence does, and promote if it may.
LEMMA PromoteRequestStep ==
  ASSUME IInv, NEW k \in Versions, NEW target \in GovernanceStatus, NEW flags \in SUBSET Evidence,
         PromoteRequest(k, target, flags)
  PROVE  IInv'
<1> DEFINE granted == /\ k \notin invalidated /\ Registered(k)
                      /\ target \in Allowed(status[k])
                      /\ Required(target) \subseteq evidence[k] \cup flags
<1> USE DEF IInv, TypeOK, Enter
<1>1. /\ evidence' = [evidence EXCEPT ![k] = evidence[k] \cup flags]
      /\ invalidated' = invalidated
  BY DEF PromoteRequest
<1>2. \/ /\ granted
         /\ Enter(k, target) /\ audited' = [audited EXCEPT ![k] = target]
      \/ UNCHANGED <<status, visited, audited>>
  BY DEF PromoteRequest
<1>3. TypeOK'
  BY <1>1, <1>2
<1>4. EvidenceBacksStatus'
  <2> SUFFICES ASSUME NEW j \in Versions, Registered(j)'
               PROVE  Required(status[j])' \subseteq evidence'[j]
    BY DEF EvidenceBacksStatus
  <2>1. evidence[j] \subseteq evidence'[j] /\ evidence'[k] = evidence[k] \cup flags
    BY <1>1
  <2>2. CASE status'[j] = status[j]
    BY <2>1, <2>2 DEF Safe, EvidenceBacksStatus, Registered, Required
  <2>3. CASE j = k /\ status'[k] = target /\ granted
    BY <2>1, <2>3 DEF Required
  <2> QED
    BY <1>2, <2>2, <2>3
<1>5. InvalidatedNeverOperates'
  BY <1>1, <1>2 DEF Safe, InvalidatedNeverOperates
<1>6. LiveFollowsPaper'
  <2>1. granted /\ target \in Live => status[k] = "PAPER_APPROVED" \/ status[k] \in Live
    BY DEF Allowed, Live, GovernanceStatus
  <2>2. granted /\ target \in Live => "PAPER_APPROVED" \in visited[k]
    BY <2>1 DEF Safe, LiveFollowsPaper, StatusVisited
  <2> HIDE DEF granted
  <2> QED
    BY <1>2, <2>2 DEF Safe, LiveFollowsPaper
<1>7. StatusVisited'
  BY <1>2 DEF Safe, StatusVisited, Registered
<1>8. AuditTellsWhatOperates'
  BY <1>2 DEF Safe, AuditTellsWhatOperates, Operating, Live, Registered
<1> QED
  BY <1>3, <1>4, <1>5, <1>6, <1>7, <1>8 DEF Safe

\* invalidate: what operated is suspended, what is suspended needs nothing.
LEMMA InvalidateStep ==
  ASSUME IInv, NEW k \in Versions, Invalidate(k)
  PROVE  IInv'
<1> USE DEF IInv, TypeOK, Invalidate, Enter
<1>1. TypeOK'
  BY DEF GovernanceStatus
<1>2. EvidenceBacksStatus'
  BY DEF Safe, EvidenceBacksStatus, Registered, Required, Live
<1>3. InvalidatedNeverOperates'
  BY DEF Safe, InvalidatedNeverOperates, Registered, Operating, Live
<1>4. LiveFollowsPaper' /\ StatusVisited'
  BY DEF Safe, LiveFollowsPaper, StatusVisited, Registered, Live
<1>5. AuditTellsWhatOperates'
  BY DEF Safe, AuditTellsWhatOperates, Operating, Live, Registered
<1> QED
  BY <1>1, <1>2, <1>3, <1>4, <1>5 DEF Safe

\* retire
LEMMA RetireStep ==
  ASSUME IInv, NEW k \in Versions, Retire(k)
  PROVE  IInv'
<1> USE DEF IInv, TypeOK, Retire, Enter
<1>1. TypeOK'
  BY DEF GovernanceStatus
<1>2. EvidenceBacksStatus'
  BY DEF Safe, EvidenceBacksStatus, Registered, Required, Live
<1>3. InvalidatedNeverOperates'
  BY DEF Safe, InvalidatedNeverOperates, Operating, Live
<1>4. LiveFollowsPaper' /\ StatusVisited'
  BY DEF Safe, LiveFollowsPaper, StatusVisited, Registered, Live
<1>5. AuditTellsWhatOperates'
  BY DEF Safe, AuditTellsWhatOperates, Operating, Live
<1> QED
  BY <1>1, <1>2, <1>3, <1>4, <1>5 DEF Safe

\* Every reachable state satisfies the inductive invariant.
THEOREM Invariance == Spec => []IInv
<1>1. IInv /\ [Next]_vars => IInv'
  <2> SUFFICES ASSUME IInv, [Next]_vars
               PROVE  IInv'
    OBVIOUS
  <2>1. CASE Next
    <3>1. PICK k \in Versions :
            \/ Register(k)
            \/ \E target \in GovernanceStatus, flags \in SUBSET Evidence :
                 PromoteRequest(k, target, flags)
            \/ \E e \in Evidence : AddEvidence(k, e)
            \/ \E target \in GovernanceStatus : Promote(k, target)
            \/ Invalidate(k)
            \/ Retire(k)
      BY <2>1 DEF Next, ByRequest
    <3> QED
      BY <3>1, RegisterStep, AddEvidenceStep, PromoteStep, PromoteRequestStep,
         InvalidateStep, RetireStep
  <2>2. CASE UNCHANGED vars
    BY <2>2 DEF vars, IInv, Safe, TypeOK, EvidenceBacksStatus, InvalidatedNeverOperates,
                LiveFollowsPaper, StatusVisited, AuditTellsWhatOperates, Registered, Required
  <2> QED
    BY <2>1, <2>2
<1> QED
  BY InitIInv, <1>1, PTL DEF Spec

\* The evidence that the status of a version requires is on record.
THEOREM EvidenceIsThere == Spec => []EvidenceBacksStatus
BY Invariance, PTL DEF IInv, Safe

\* An invalidated version does not operate.
THEOREM InvalidationHolds == Spec => []InvalidatedNeverOperates
BY Invariance, PTL DEF IInv, Safe

\* The audit log is right about every version that operates.
THEOREM AuditIsRight == Spec => []AuditTellsWhatOperates
BY Invariance, PTL DEF IInv, Safe

\* What trades live was approved for paper trading.
THEOREM PaperComesFirst == Spec => []LiveFollowsPaper
BY Invariance, PTL DEF IInv, Safe

-----------------------------------------------------------------------------
Version == [category : Categories, payload : Payloads, status : C!ConfigStatus,
            approvedBy : Users \cup {Nobody}]

\* What came into force at some time, or may.
Passed == {"APPROVED", "ACTIVE", "SUPERSEDED", "ROLLED_BACK"}

\* What is in force and critical was approved, even while it is submitted again: what makes
\* CriticalIsApproved inductive, since it may be superseded or rolled back then.
InForceIsApproved ==
  \A c \in Categories :
    active[c] # 0 /\ C!Critical(active[c]) => versions[active[c]].approvedBy # Nobody

CInv == C!TypeOK /\ C!ActiveIsInForce /\ C!CriticalIsApproved /\ InForceIsApproved

\* vs has the versions there are, with another status or approval.
Amends(vs) ==
  /\ vs \in Seq(Version) /\ DOMAIN vs = DOMAIN versions /\ Len(vs) = Len(versions)
  /\ \A u \in DOMAIN versions :
       vs[u].category = versions[u].category /\ vs[u].payload = versions[u].payload

LEMMA AmendingKeepsTheRest ==
  ASSUME versions \in Seq(Version), NEW vs,
         vs \in [DOMAIN versions -> Version],
         \A u \in DOMAIN versions :
           vs[u].category = versions[u].category /\ vs[u].payload = versions[u].payload
  PROVE  Amends(vs)
<1>1. DOMAIN versions = 1 .. Len(versions) /\ Len(versions) \in Nat
  OBVIOUS
<1>2. vs \in Seq(Version) /\ Len(vs) = Len(versions)
  BY <1>1
<1>. QED
  BY <1>2 DEF Amends

\* A version with another status.
WithStatus(vs, v, s) == [vs EXCEPT ![v].status = s]

LEMMA StatusAmends ==
  ASSUME NEW vs, Amends(vs), NEW v \in DOMAIN versions, NEW s \in C!ConfigStatus
  PROVE  /\ Amends(WithStatus(vs, v, s))
         /\ WithStatus(vs, v, s)[v].status = s
         /\ \A u \in DOMAIN versions :
              /\ WithStatus(vs, v, s)[u].approvedBy = vs[u].approvedBy
              /\ u # v => WithStatus(vs, v, s)[u].status = vs[u].status
<1>. DEFINE new == WithStatus(vs, v, s)
            old == vs[v]
<1>1. /\ DOMAIN vs = DOMAIN versions /\ DOMAIN vs = 1 .. Len(vs)
      /\ Len(vs) = Len(versions) /\ Len(vs) \in Nat
      /\ \A u \in DOMAIN versions :
           /\ vs[u] \in Version
           /\ vs[u].category = versions[u].category /\ vs[u].payload = versions[u].payload
  BY DEF Amends
<1>2. new = [u \in DOMAIN versions |-> IF u = v THEN [old EXCEPT !.status = s] ELSE vs[u]]
  BY <1>1 DEF WithStatus
<1>. HIDE DEF new, old
<1>3. old \in Version
  BY <1>1 DEF old
<1>4. /\ [old EXCEPT !.status = s] \in Version
      /\ [old EXCEPT !.status = s].status = s
      /\ [old EXCEPT !.status = s].approvedBy = old.approvedBy
      /\ [old EXCEPT !.status = s].category = old.category
      /\ [old EXCEPT !.status = s].payload = old.payload
  BY <1>3 DEF Version
<1>5. \A u \in DOMAIN versions :
        /\ new[u] \in Version /\ new[u].approvedBy = vs[u].approvedBy
        /\ new[u].category = versions[u].category /\ new[u].payload = versions[u].payload
        /\ u # v => new[u].status = vs[u].status
  BY <1>1, <1>2, <1>4 DEF old
<1>6. new \in Seq(Version) /\ Len(new) = Len(versions)
  BY <1>1, <1>2, <1>5
<1>7. Amends(new)
  BY <1>2, <1>5, <1>6 DEF Amends
<1>8. new[v].status = s
  BY <1>2, <1>4
<1>. QED
  BY <1>5, <1>7, <1>8 DEF new

\* A version that somebody approves.
LEMMA ApprovalAmends ==
  ASSUME versions \in Seq(Version), NEW v \in DOMAIN versions, NEW user \in Users
  PROVE  /\ Amends(C!ApprovedBy(v, user))
         /\ C!ApprovedBy(v, user)[v].status = "APPROVED"
         /\ C!ApprovedBy(v, user)[v].approvedBy = user
         /\ \A u \in DOMAIN versions : u # v => C!ApprovedBy(v, user)[u] = versions[u]
<1>. DEFINE vs == C!ApprovedBy(v, user)
            old == versions[v]
            new == [old EXCEPT !.status = "APPROVED", !.approvedBy = user]
<1>1. old \in Version /\ \A u \in DOMAIN versions : versions[u] \in Version
  OBVIOUS
<1>2. vs = [u \in DOMAIN versions |-> IF u = v THEN new ELSE versions[u]]
  BY DEF C!ApprovedBy
<1>. HIDE DEF old, vs
<1>3. /\ new \in Version /\ new.status = "APPROVED" /\ new.approvedBy = user
      /\ new.category = old.category /\ new.payload = old.payload
  BY <1>1 DEF Version, C!ConfigStatus
<1>. HIDE DEF new
<1>4. vs \in [DOMAIN versions -> Version]
  BY <1>1, <1>2, <1>3
<1>5. \A u \in DOMAIN versions :
        vs[u].category = versions[u].category /\ vs[u].payload = versions[u].payload
  BY <1>2, <1>3 DEF old
<1>6. Amends(vs)
  BY <1>4, <1>5, AmendingKeepsTheRest
<1>. QED
  BY <1>2, <1>3, <1>6 DEF vs

\* The invariant of amended versions.
LEMMA AmendedKeeps ==
  ASSUME CInv, Amends(versions'),
         active' \in [Categories -> 0 .. Len(versions)],
         \A u \in DOMAIN versions :
           versions'[u].status = "ACTIVE" => active'[versions[u].category] = u,
         \A u \in DOMAIN versions :
           C!Critical(u) /\ versions'[u].status \in Passed => versions'[u].approvedBy # Nobody,
         \A c \in Categories :
           active'[c] # 0 /\ C!Critical(active'[c]) => versions'[active'[c]].approvedBy # Nobody,
         DOMAIN layers' = C!Layers
  PROVE  CInv'
<1>1. C!TypeOK'
  BY DEF CInv, C!TypeOK, Amends, Version
<1>2. C!ActiveIsInForce'
  BY DEF Amends, C!ActiveIsInForce
<1>3. C!CriticalIsApproved'
  BY DEF Amends, C!CriticalIsApproved, C!Critical, Passed
<1>4. \A c \in Categories : active'[c] # 0 => active'[c] \in DOMAIN versions
  <2>1. DOMAIN versions = 1 .. Len(versions) /\ Len(versions) \in Nat
    BY DEF CInv, C!TypeOK
  <2>. QED
    BY <2>1
<1>5. InForceIsApproved'
  BY <1>4 DEF Amends, InForceIsApproved, C!Critical
<1>. QED
  BY <1>1, <1>2, <1>3, <1>5 DEF CInv

-----------------------------------------------------------------------------
LEMMA InitKeepsSettings ==
  ASSUME C!Init
  PROVE  CInv
BY SettingsAssumption
   DEF C!ConfigAssumption, C!Init, CInv, C!TypeOK, C!ActiveIsInForce, C!CriticalIsApproved,
       InForceIsApproved

\* What the invariant says of the versions, and of one of them.
LEMMA Typed ==
  ASSUME CInv
  PROVE  /\ versions \in Seq(Version) /\ Len(versions) \in Nat
         /\ DOMAIN versions = 1 .. Len(versions)
         /\ \A u \in DOMAIN versions : versions[u] \in Version
         /\ active \in [Categories -> 0 .. Len(versions)]
         /\ DOMAIN layers = C!Layers /\ Amends(versions)
         /\ \A c \in Categories : active[c] # 0 => active[c] \in DOMAIN versions
<1>1. versions \in Seq(Version) /\ active \in [Categories -> 0 .. Len(versions)] /\ DOMAIN layers = C!Layers
  BY DEF CInv, C!TypeOK, Version
<1>2. DOMAIN versions = 1 .. Len(versions) /\ Len(versions) \in Nat
  BY <1>1
<1>. QED
  BY <1>1, <1>2 DEF Amends

\* create_draft
LEMMA CreateDraftKeeps ==
  ASSUME CInv, NEW c \in Categories, NEW p \in Payloads, C!CreateDraft(c, p)
  PROVE  CInv'
<1>. DEFINE new == [category |-> c, payload |-> p, status |-> "DRAFT", approvedBy |-> Nobody]
<1>1. versions' = Append(versions, new) /\ active' = active /\ layers' = layers
  BY DEF C!CreateDraft
<1>2. new \in Version /\ new.status = "DRAFT"
  BY DEF Version, C!ConfigStatus
<1>. HIDE DEF new
<1>3. /\ versions' \in Seq(Version) /\ Len(versions') = Len(versions) + 1
      /\ DOMAIN versions' = 1 .. Len(versions) + 1
      /\ \A u \in DOMAIN versions : versions'[u] = versions[u]
      /\ versions'[Len(versions) + 1] = new
  BY <1>1, <1>2, Typed
<1>4. C!TypeOK'
  BY <1>1, <1>3, Typed DEF C!TypeOK, Version
<1>5. \A u \in DOMAIN versions' : u \in DOMAIN versions \/ versions'[u] = new
  BY <1>3, Typed
<1>6. C!ActiveIsInForce'
  BY <1>1, <1>2, <1>3, <1>5 DEF CInv, C!ActiveIsInForce
<1>7. C!CriticalIsApproved'
  BY <1>1, <1>2, <1>3, <1>5 DEF CInv, C!CriticalIsApproved, C!Critical
<1>8. InForceIsApproved'
  BY <1>1, <1>3, Typed DEF CInv, InForceIsApproved, C!Critical
<1>. QED
  BY <1>4, <1>6, <1>7, <1>8 DEF CInv

\* submit_for_approval: what is critical waits, whatever its status was.
LEMMA SubmitKeeps ==
  ASSUME CInv, NEW v \in DOMAIN versions, C!SubmitForApproval(v)
  PROVE  CInv'
<1>. DEFINE s == IF C!Critical(v) THEN "PENDING_APPROVAL" ELSE "APPROVED"
<1>1. /\ versions' = WithStatus(versions, v, s) /\ active' = active /\ layers' = layers
  BY DEF C!SubmitForApproval, C!SetStatus, WithStatus
<1>2. s \in C!ConfigStatus /\ s # "ACTIVE" /\ (C!Critical(v) => s \notin Passed)
  BY DEF C!ConfigStatus, Passed
<1>. HIDE DEF s
<1>3. /\ Amends(versions') /\ versions'[v].status = s
      /\ \A u \in DOMAIN versions :
           /\ versions'[u].approvedBy = versions[u].approvedBy
           /\ u # v => versions'[u].status = versions[u].status
  BY <1>1, <1>2, StatusAmends, Typed
<1>4. \A u \in DOMAIN versions :
        versions'[u].status = "ACTIVE" => active'[versions[u].category] = u
  BY <1>1, <1>2, <1>3 DEF CInv, C!ActiveIsInForce
<1>5. \A u \in DOMAIN versions :
        C!Critical(u) /\ versions'[u].status \in Passed => versions'[u].approvedBy # Nobody
  BY <1>2, <1>3 DEF CInv, C!CriticalIsApproved, Passed
<1>6. \A c \in Categories :
        active'[c] # 0 /\ C!Critical(active'[c]) => versions'[active'[c]].approvedBy # Nobody
  BY <1>1, <1>3, Typed DEF CInv, InForceIsApproved
<1>. QED
  BY <1>1, <1>3, <1>4, <1>5, <1>6, AmendedKeeps, Typed

\* approve, and the request to approve: somebody did.
LEMMA ApproveKeeps ==
  ASSUME CInv, NEW v \in DOMAIN versions, NEW user \in Users,
         C!Approve(v, user) \/ C!ApproveRequest(v, user)
  PROVE  CInv'
<1>1. versions' = C!ApprovedBy(v, user) /\ active' = active /\ layers' = layers
  BY DEF C!Approve, C!ApproveRequest
<1>2. /\ Amends(versions') /\ versions'[v].status = "APPROVED" /\ versions'[v].approvedBy = user
      /\ \A u \in DOMAIN versions : u # v => versions'[u] = versions[u]
  BY <1>1, ApprovalAmends, Typed
<1>3. \A u \in DOMAIN versions :
        versions'[u].status = "ACTIVE" => active'[versions[u].category] = u
  BY <1>1, <1>2 DEF CInv, C!ActiveIsInForce
<1>4. \A u \in DOMAIN versions :
        C!Critical(u) /\ versions'[u].status \in Passed => versions'[u].approvedBy # Nobody
  BY <1>2, SettingsAssumption DEF C!ConfigAssumption, CInv, C!CriticalIsApproved, Passed
<1>5. \A c \in Categories :
        active'[c] # 0 /\ C!Critical(active'[c]) => versions'[active'[c]].approvedBy # Nobody
  BY <1>1, <1>2, Typed, SettingsAssumption DEF C!ConfigAssumption, CInv, InForceIsApproved
<1>. QED
  BY <1>1, <1>2, <1>3, <1>4, <1>5, AmendedKeeps, Typed

\* Whatever was active is marked, and nothing is in force.
LEMMA RolledBackAmends ==
  ASSUME CInv, NEW vs, Amends(vs), NEW act, act \in [Categories -> 0 .. Len(versions)],
         NEW new, new = C!RolledBack(vs, act)
  PROVE  /\ Amends(new)
         /\ \A u \in DOMAIN versions :
              /\ new[u].approvedBy = vs[u].approvedBy
              /\ \/ new[u].status = "ROLLED_BACK" /\ \E c \in Categories : act[c] = u
                 \/ new[u].status = vs[u].status /\ \A c \in Categories : act[c] # u
<1>1. /\ DOMAIN vs = DOMAIN versions /\ DOMAIN vs = 1 .. Len(vs)
      /\ Len(vs) = Len(versions) /\ Len(vs) \in Nat
      /\ \A u \in DOMAIN versions :
           /\ vs[u] \in Version
           /\ vs[u].category = versions[u].category /\ vs[u].payload = versions[u].payload
  BY DEF Amends
<1>2. new = [u \in DOMAIN vs |-> IF \E c \in Categories : act[c] = u
                                 THEN [vs[u] EXCEPT !.status = "ROLLED_BACK"] ELSE vs[u]]
  BY DEF C!RolledBack
<1>3. ASSUME NEW u \in DOMAIN versions
      PROVE  /\ new[u] \in Version /\ new[u].approvedBy = vs[u].approvedBy
             /\ new[u].category = versions[u].category /\ new[u].payload = versions[u].payload
             /\ \/ new[u].status = "ROLLED_BACK" /\ \E c \in Categories : act[c] = u
                \/ new[u].status = vs[u].status /\ \A c \in Categories : act[c] # u
  <2>. DEFINE old == vs[u]
              marked == \E c \in Categories : act[c] = u
  <2>1. new[u] = IF marked THEN [old EXCEPT !.status = "ROLLED_BACK"] ELSE old
    BY <1>1, <1>2
  <2>. HIDE DEF old
  <2>2. old \in Version
    BY <1>1 DEF old
  <2>3. LET r == [old EXCEPT !.status = "ROLLED_BACK"]
        IN /\ r \in Version /\ r.status = "ROLLED_BACK" /\ r.approvedBy = old.approvedBy
           /\ r.category = old.category /\ r.payload = old.payload
    BY <2>2 DEF Version, C!ConfigStatus
  <2>4. old = vs[u]
    BY DEF old
  <2>. QED
    BY <1>1, <2>1, <2>2, <2>3, <2>4
<1>4. new \in Seq(Version) /\ Len(new) = Len(versions) /\ DOMAIN new = DOMAIN versions
  <2>1. DOMAIN new = 1 .. Len(vs) /\ \A u \in 1 .. Len(vs) : new[u] \in Version
    BY <1>1, <1>2, <1>3
  <2>2. new \in [1 .. Len(vs) -> Version]
    BY <1>1, <1>2, <2>1
  <2>. QED
    BY <1>1, <2>1, <2>2
<1>5. Amends(new)
  BY <1>3, <1>4 DEF Amends
<1>. QED
  BY <1>3, <1>5

\* rollback, of the versions there are or of those that were about to be in force.
LEMMA RollingBackKeeps ==
  ASSUME CInv, NEW vs, Amends(vs), NEW act, act \in [Categories -> 0 .. Len(versions)],
         \A u \in DOMAIN versions : vs[u].status = "ACTIVE" => act[versions[u].category] = u,
         \A u \in DOMAIN versions :
           C!Critical(u) /\ vs[u].status \in Passed => vs[u].approvedBy # Nobody,
         \A c \in Categories :
           act[c] # 0 /\ C!Critical(act[c]) => vs[act[c]].approvedBy # Nobody,
         versions' = C!RolledBack(vs, act), active' = [c \in Categories |-> 0],
         DOMAIN layers' = C!Layers
  PROVE  CInv'
<1>1. /\ Amends(versions')
      /\ \A u \in DOMAIN versions :
           /\ versions'[u].approvedBy = vs[u].approvedBy
           /\ \/ versions'[u].status = "ROLLED_BACK" /\ \E c \in Categories : act[c] = u
              \/ versions'[u].status = vs[u].status /\ \A c \in Categories : act[c] # u
  <2>. DEFINE new == C!RolledBack(vs, act)
  <2>1. versions' = new
    OBVIOUS
  <2>2. \A n : n = new =>
          /\ Amends(n)
          /\ \A u \in DOMAIN versions :
               /\ n[u].approvedBy = vs[u].approvedBy
               /\ \/ n[u].status = "ROLLED_BACK" /\ \E c \in Categories : act[c] = u
                  \/ n[u].status = vs[u].status /\ \A c \in Categories : act[c] # u
    BY RolledBackAmends
  <2>. QED
    BY <2>1, <2>2
<1>2. \A u \in DOMAIN versions : versions[u].category \in Categories /\ u # 0
  BY Typed DEF Version
<1>3. \A u \in DOMAIN versions :
        versions'[u].status = "ACTIVE" => active'[versions[u].category] = u
  BY <1>1, <1>2
<1>4. \A u \in DOMAIN versions :
        C!Critical(u) /\ versions'[u].status \in Passed => versions'[u].approvedBy # Nobody
  BY <1>1, <1>2
<1>5. active' \in [Categories -> 0 .. Len(versions)] /\ \A c \in Categories : active'[c] = 0
  BY Typed
<1>. QED
  BY <1>1, <1>3, <1>4, <1>5, AmendedKeeps

\* apply_atomic: the version before is superseded, and the new one is in force if the
\* settings are valid then.
LEMMA SupersedeAmends ==
  ASSUME CInv, NEW v \in DOMAIN versions, NEW prev \in 0 .. Len(versions)
  PROVE  /\ Amends(C!Supersede(versions, v, prev))
         /\ C!Supersede(versions, v, prev)[v].status = "ACTIVE"
         /\ \A u \in DOMAIN versions :
              /\ C!Supersede(versions, v, prev)[u].approvedBy = versions[u].approvedBy
              /\ u # v => \/ u = prev /\ C!Supersede(versions, v, prev)[u].status = "SUPERSEDED"
                          \/ u # prev /\ C!Supersede(versions, v, prev)[u].status = versions[u].status
<1>. DEFINE demoted == IF prev = 0 THEN versions ELSE WithStatus(versions, prev, "SUPERSEDED")
            new == WithStatus(demoted, v, "ACTIVE")
<1>1. C!Supersede(versions, v, prev) = new
  BY DEF C!Supersede, WithStatus
<1>2. "SUPERSEDED" \in C!ConfigStatus /\ "ACTIVE" \in C!ConfigStatus
  BY DEF C!ConfigStatus
<1>3. /\ Amends(demoted)
      /\ \A u \in DOMAIN versions :
           /\ demoted[u].approvedBy = versions[u].approvedBy
           /\ \/ u = prev /\ demoted[u].status = "SUPERSEDED"
              \/ u # prev /\ demoted[u].status = versions[u].status
  <2>1. CASE prev = 0
    BY <2>1, Typed
  <2>2. CASE prev # 0
    <3>1. prev \in DOMAIN versions /\ Amends(versions)
      BY <2>2, Typed
    <3>. DEFINE d == WithStatus(versions, prev, "SUPERSEDED")
    <3>2. /\ Amends(d) /\ d[prev].status = "SUPERSEDED"
          /\ \A u \in DOMAIN versions :
               d[u].approvedBy = versions[u].approvedBy /\ (u # prev => d[u].status = versions[u].status)
      <4>. HIDE DEF demoted, new
      <4>1. \A v1 \in DOMAIN versions, s \in C!ConfigStatus :
              LET w == WithStatus(versions, v1, s)
              IN /\ Amends(w) /\ w[v1].status = s
                 /\ \A u \in DOMAIN versions :
                      w[u].approvedBy = versions[u].approvedBy /\ (u # v1 => w[u].status = versions[u].status)
        BY <3>1, StatusAmends
      <4>. QED
        BY <1>2, <3>1, <4>1
    <3>3. demoted = d
      BY <2>2
    <3>. HIDE DEF d
    <3>. HIDE DEF demoted
    <3>. QED
      BY <3>2, <3>3
  <2>. QED
    BY <2>1, <2>2
<1>. HIDE DEF demoted
<1>4. /\ Amends(new) /\ new[v].status = "ACTIVE"
      /\ \A u \in DOMAIN versions :
           /\ new[u].approvedBy = demoted[u].approvedBy
           /\ u # v => new[u].status = demoted[u].status
  BY <1>2, <1>3, StatusAmends
<1>. HIDE DEF new
<1>. QED
  BY <1>1, <1>3, <1>4

LEMMA ApplyAtomicKeeps ==
  ASSUME CInv, NEW v \in DOMAIN versions, C!ApplyAtomic(v)
  PROVE  CInv'
<1>. DEFINE cat == versions[v].category
            prev == active[cat]
            vs == C!Supersede(versions, v, prev)
            act == [active EXCEPT ![cat] = v]
<1>1. /\ versions[v].status = "APPROVED" /\ layers' = C!Merged(v)
      /\ \/ versions' = vs /\ active' = act
         \/ versions' = C!RolledBack(vs, act) /\ active' = [c \in Categories |-> 0]
  BY DEF C!ApplyAtomic
<1>2. cat \in Categories /\ prev \in 0 .. Len(versions)
  BY Typed DEF Version
<1>3. /\ act \in [Categories -> 0 .. Len(versions)] /\ act[cat] = v
      /\ \A c \in Categories : c # cat => act[c] = active[c]
  BY <1>2, Typed
<1>4. /\ Amends(vs) /\ vs[v].status = "ACTIVE"
      /\ \A u \in DOMAIN versions :
           /\ vs[u].approvedBy = versions[u].approvedBy
           /\ u # v => \/ u = prev /\ vs[u].status = "SUPERSEDED"
                       \/ u # prev /\ vs[u].status = versions[u].status
  BY <1>2, SupersedeAmends
<1>5. DOMAIN layers' = C!Layers
  BY <1>1, Typed DEF C!Merged
<1>6. C!Critical(v) => versions[v].approvedBy # Nobody
  BY <1>1 DEF CInv, C!CriticalIsApproved
<1>7. prev # 0 /\ C!Critical(prev) => versions[prev].approvedBy # Nobody
  BY <1>2 DEF CInv, InForceIsApproved
<1>. HIDE DEF vs, act
<1>8. \A u \in DOMAIN versions : vs[u].status = "ACTIVE" => act[versions[u].category] = u
  <2>. SUFFICES ASSUME NEW u \in DOMAIN versions, vs[u].status = "ACTIVE", u # v
                PROVE  act[versions[u].category] = u
    BY <1>3
  <2>1. u # prev /\ versions[u].status = "ACTIVE"
    BY <1>4
  <2>2. active[versions[u].category] = u /\ versions[u].category \in Categories
    BY <2>1, Typed DEF CInv, C!ActiveIsInForce, Version
  <2>. QED
    BY <1>3, <2>1, <2>2
<1>9. \A u \in DOMAIN versions :
        C!Critical(u) /\ vs[u].status \in Passed => vs[u].approvedBy # Nobody
  <2>. SUFFICES ASSUME NEW u \in DOMAIN versions, C!Critical(u), vs[u].status \in Passed
                PROVE  versions[u].approvedBy # Nobody
    BY <1>4
  <2>1. u # 0
    BY Typed
  <2>. QED
    BY <1>4, <1>6, <1>7, <2>1 DEF CInv, C!CriticalIsApproved, Passed
<1>10. \A c \in Categories :
         act[c] # 0 /\ C!Critical(act[c]) => vs[act[c]].approvedBy # Nobody
  BY <1>3, <1>4, <1>6, Typed DEF CInv, InForceIsApproved
<1>11. CASE versions' = vs /\ active' = act
  BY <1>3, <1>4, <1>5, <1>8, <1>9, <1>10, <1>11, AmendedKeeps
<1>12. CASE versions' = C!RolledBack(vs, act) /\ active' = [c \in Categories |-> 0]
  BY <1>3, <1>4, <1>5, <1>8, <1>9, <1>10, <1>12, RollingBackKeeps
<1>. QED
  BY <1>1, <1>11, <1>12

\* rollback on demand
LEMMA RollbackKeeps ==
  ASSUME CInv, C!Rollback
  PROVE  CInv'
<1>1. /\ versions' = C!RolledBack(versions, active) /\ active' = [c \in Categories |-> 0]
      /\ layers' = layers
  BY DEF C!Rollback
<1>2. /\ \A u \in DOMAIN versions : versions[u].status = "ACTIVE" => active[versions[u].category] = u
      /\ \A u \in DOMAIN versions :
           C!Critical(u) /\ versions[u].status \in Passed => versions[u].approvedBy # Nobody
      /\ \A c \in Categories :
           active[c] # 0 /\ C!Critical(active[c]) => versions[active[c]].approvedBy # Nobody
  BY DEF CInv, C!ActiveIsInForce, C!CriticalIsApproved, InForceIsApproved, Passed
<1>. QED
  BY <1>1, <1>2, RollingBackKeeps, Typed

\* hot_reload, set_layer and a step that does nothing leave the versions alone.
LEMMA LayersKeep ==
  ASSUME CInv, UNCHANGED <<versions, active>>, DOMAIN layers' = DOMAIN layers
  PROVE  CInv'
BY DEF CInv, C!TypeOK, C!ActiveIsInForce, C!CriticalIsApproved, InForceIsApproved, C!Critical

LEMMA StepKeepsSettings ==
  ASSUME CInv, [C!Next]_C!vars
  PROVE  CInv'
<1>1. ASSUME NEW c \in Categories, NEW p \in Payloads, C!CreateDraft(c, p) PROVE CInv'
  BY <1>1, CreateDraftKeeps
<1>2. ASSUME NEW v \in C!Found,
             \/ C!ApplyAtomic(v) \/ C!SubmitForApproval(v)
             \/ \E user \in Users : C!ApproveRequest(v, user) \/ C!Approve(v, user)
      PROVE  CInv'
  BY <1>2, ApplyAtomicKeeps, SubmitKeeps, ApproveKeeps DEF C!Found
<1>3. CASE C!Rollback
  BY <1>3, RollbackKeeps
<1>4. ASSUME NEW r \in Reloads, C!HotReload(r) PROVE CInv'
  BY <1>4, LayersKeep DEF C!HotReload
<1>5. ASSUME NEW u \in LayerUpdates, C!SetLayer(u[1], u[2]) PROVE CInv'
  BY <1>5, LayersKeep DEF C!SetLayer
<1>6. CASE UNCHANGED C!vars
  BY <1>6, LayersKeep DEF C!vars
<1>. QED
  BY <1>1, <1>2, <1>3, <1>4, <1>5, <1>6 DEF C!Next, C!ByRequest


-----------------------------------------------------------------------------
\* Two functions of settings say the same of a key.
Agree(p, q, k) ==
  /\ k \in DOMAIN p <=> k \in DOMAIN q
  /\ k \in DOMAIN p => p[k] = q[k]

LEMMA OverrideAgrees ==
  ASSUME NEW p, NEW q, NEW r, NEW s, NEW k, Agree(p, q, k), Agree(r, s, k)
  PROVE  Agree(C!Override(p, r), C!Override(q, s), k)
BY DEF Agree, C!Override

\* What is resolved depends on what the layers say.
LEMMA ResolutionAgrees ==
  ASSUME NEW l, NEW m, NEW k, \A n \in C!Layers : Agree(l[n], m[n], k)
  PROVE  C!Setting(C!ResolveFrom(l), k, Nobody) = C!Setting(C!ResolveFrom(m), k, Nobody)
<1>1. /\ Agree(l["defaults"], m["defaults"], k) /\ Agree(l["yaml"], m["yaml"], k)
      /\ Agree(l["env"], m["env"], k) /\ Agree(l["database"], m["database"], k)
      /\ Agree(l["secrets"], m["secrets"], k) /\ Agree(l["env_override"], m["env_override"], k)
  <2>1. C!Layers = {"defaults", "yaml", "env", "database", "secrets", "env_override"}
    BY DEF C!Layers, C!Precedence
  <2>. QED
    BY <2>1
<1>. DEFINE L1 == C!Override(l["defaults"], l["yaml"])
            M1 == C!Override(m["defaults"], m["yaml"])
            L2 == C!Override(L1, l["env"])
            M2 == C!Override(M1, m["env"])
            L3 == C!Override(L2, l["database"])
            M3 == C!Override(M2, m["database"])
            L4 == C!Override(L3, l["secrets"])
            M4 == C!Override(M3, m["secrets"])
            L5 == C!Override(L4, l["env_override"])
            M5 == C!Override(M4, m["env_override"])
<1>2. C!ResolveFrom(l) = L5 /\ C!ResolveFrom(m) = M5
  BY DEF C!ResolveFrom
<1>3. Agree(L1, M1, k)
  BY <1>1, OverrideAgrees
<1>. HIDE DEF L1, M1
<1>4. Agree(L2, M2, k)
  BY <1>1, <1>3, OverrideAgrees
<1>. HIDE DEF L2, M2
<1>5. Agree(L3, M3, k)
  BY <1>1, <1>4, OverrideAgrees
<1>. HIDE DEF L3, M3
<1>6. Agree(L4, M4, k)
  BY <1>1, <1>5, OverrideAgrees
<1>. HIDE DEF L4, M4
<1>7. Agree(L5, M5, k)
  BY <1>1, <1>6, OverrideAgrees
<1>. HIDE DEF L5, M5
<1>. QED
  BY <1>2, <1>7 DEF Agree, C!Setting

\* A layer with a payload over it says of a key that is not in the payload what it said.
LEMMA OtherKeysStay ==
  ASSUME NEW n \in C!Layers, NEW p, NEW k, k \notin DOMAIN p, DOMAIN layers = C!Layers,
         layers' = [layers EXCEPT ![n] = C!Override(layers[n], p)]
  PROVE  C!Setting(C!Resolved', k, Nobody) = C!Setting(C!Resolved, k, Nobody)
<1>1. Agree(C!Override(layers[n], p), layers[n], k)
  BY DEF Agree, C!Override
<1>2. \A o \in C!Layers : Agree(layers'[o], layers[o], k)
  BY <1>1 DEF Agree
<1>3. C!Setting(C!ResolveFrom(layers'), k, Nobody) = C!Setting(C!ResolveFrom(layers), k, Nobody)
  BY <1>2, ResolutionAgrees
<1>. QED
  BY <1>3 DEF C!Resolved

\* What may be behind the change of a critical key.
Applied(k) ==
  \/ \E v \in C!Found :
       /\ k \in DOMAIN versions[v].payload
       /\ versions[v].status = "APPROVED" /\ versions[v].approvedBy # Nobody
  \/ \E u \in LayerUpdates : C!SetLayer(u[1], u[2])

LEMMA StepAppliesCritical ==
  ASSUME CInv, C!Next, NEW k \in C!CriticalKeys,
         C!Setting(C!Resolved', k, Nobody) # C!Setting(C!Resolved, k, Nobody)
  PROVE  Applied(k)
<1>1. DOMAIN layers = C!Layers
  BY Typed
<1>2. layers' # layers
  BY DEF C!Resolved, C!ResolveFrom
<1>3. ASSUME NEW v \in C!Found, C!ApplyAtomic(v)
      PROVE  Applied(k)
  <2>1. layers' = [layers EXCEPT !["database"] = C!Override(layers["database"], versions[v].payload)]
    BY <1>3 DEF C!ApplyAtomic, C!Merged
  <2>2. "database" \in C!Layers
    BY DEF C!Layers, C!Precedence
  <2>3. k \in DOMAIN versions[v].payload
    BY <1>1, <2>1, <2>2, OtherKeysStay
  <2>4. v \in DOMAIN versions /\ C!Critical(v) /\ versions[v].status = "APPROVED"
    BY <1>3, <2>3 DEF C!Found, C!Critical, C!ApplyAtomic
  <2>5. versions[v].approvedBy # Nobody
    BY <2>4 DEF CInv, C!CriticalIsApproved
  <2>. QED
    BY <2>3, <2>4, <2>5 DEF Applied
<1>4. ASSUME NEW r \in Reloads, C!HotReload(r)
      PROVE  FALSE
  <2>1. layers' = [layers EXCEPT !["env_override"] = C!Override(layers["env_override"], r)]
    BY <1>4 DEF C!HotReload
  <2>2. "env_override" \in C!Layers /\ k \notin DOMAIN r
    BY <1>4 DEF C!Layers, C!Precedence, C!HotReload
  <2>. QED
    BY <1>1, <2>1, <2>2, OtherKeysStay
<1>5. ASSUME NEW u \in LayerUpdates, C!SetLayer(u[1], u[2])
      PROVE  Applied(k)
  BY <1>5 DEF Applied
<1>6. \/ \E v \in C!Found : C!ApplyAtomic(v)
      \/ \E r \in Reloads : C!HotReload(r)
      \/ \E u \in LayerUpdates : C!SetLayer(u[1], u[2])
  BY <1>2 DEF C!Next, C!ByRequest, C!CreateDraft, C!ApproveRequest, C!Approve,
              C!SubmitForApproval, C!Rollback
<1>. QED
  BY <1>3, <1>4, <1>5, <1>6

-----------------------------------------------------------------------------
\* The versions of the configuration keep the invariant in every reachable state.
THEOREM SettingsInvariance == C!Spec => []CInv
<1>1. C!Init => CInv
  BY InitKeepsSettings
<1>2. CInv /\ [C!Next]_C!vars => CInv'
  BY StepKeepsSettings
<1>. QED
  BY <1>1, <1>2, PTL DEF C!Spec

\* A version that claims to be ACTIVE is the one its category uses, whichever were submitted,
\* approved and applied again in between (ConfigurationService.apply_atomic).
THEOREM ActiveVersions == C!Spec => []ActiveIsInForce
<1>1. CInv => ActiveIsInForce
  BY DEF CInv, ActiveIsInForce
<1>. QED
  BY <1>1, SettingsInvariance, PTL

\* What came into force and concerns a critical key was approved by somebody, through
\* supersession, roll back and re-submission (ConfigurationService.approve).
THEOREM CriticalVersions == C!Spec => []CriticalIsApproved
<1>1. CInv => CriticalIsApproved
  BY DEF CInv, CriticalIsApproved
<1>. QED
  BY <1>1, SettingsInvariance, PTL

\* No hot reload, roll back or plain version changes a critical setting in force
\* (ConfigurationService.hot_reload and resolve).
THEOREM CriticalSettings == C!Spec => CriticalChangesAreApplied
<1>. DEFINE Change == layers' # layers =>
       \A k \in C!CriticalKeys :
         C!Setting(C!Resolved', k, Nobody) # C!Setting(C!Resolved, k, Nobody) => Applied(k)
<1>1. CInv /\ [C!Next]_C!vars => [Change]_C!vars
  BY StepAppliesCritical
<1>2. C!Spec => [][Change]_C!vars
  BY <1>1, SettingsInvariance, PTL DEF C!Spec
<1>. QED
  BY <1>2 DEF CriticalChangesAreApplied, C!CriticalChangesAreApplied, Applied
=============================================================================
