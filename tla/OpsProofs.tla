------------------------------ MODULE OpsProofs ------------------------------
(***************************************************************************)
(* Refresh tokens are spent once and what was rejected stays rejected, for *)
(* any users, times and limits, by one invariant: the refresh tokens of    *)
(* the sessions are different from each other and from those exchanged,    *)
(* and every access token has its session.                                 *)
(*                                                                         *)
(* Bursts of failed logins are alerted, by another one: the attempts that  *)
(* are kept for a name are among those there were, and none of the last    *)
(* Window is missing.                                                      *)
(*                                                                         *)
(* For any strategies, administrators, commits and bounds, a strategy that *)
(* is live was validated, an approval takes one strategy live at most, and *)
(* the code of a strategy does not change while it is live.                *)
(*                                                                         *)
(* Of MCOps nothing is used but the instance of LiveTransition and the     *)
(* names of its properties.                                                *)
(***************************************************************************)
EXTENDS MCOps, FiniteSetTheorems, TLAPS

SessionRecord == [user : Users, refresh : Int, expires : Int, revoked : BOOLEAN]

SInv ==
  /\ now \in Int /\ refreshes \in Nat
  /\ sessions \in Seq(SessionRecord)
  /\ \A k \in DOMAIN sessions :
       /\ sessions[k].refresh \in Int /\ sessions[k].expires \in Int
       /\ sessions[k].refresh >= 1 /\ sessions[k].refresh =< refreshes
  /\ \A t \in spent : t \in Int /\ t =< refreshes
  /\ \A t \in access : t.session \in DOMAIN sessions /\ t.expires \in Int
  /\ RefreshIsSpentOnce

\* What a step may do to the sessions there are: their end and their revocation are kept, or
\* they are revoked, and the clock does not go back.
OnlyRevokes ==
  /\ now' \in Int /\ now' >= now
  /\ \A k \in DOMAIN sessions :
       /\ k \in DOMAIN sessions'
       /\ sessions'[k].expires = sessions[k].expires
       /\ sessions[k].revoked => sessions'[k].revoked

-----------------------------------------------------------------------------
\* Revoking changes nothing of the sessions but their revocation, whichever they are.
LEMMA RevokedOnlyRevokes ==
  ASSUME sessions \in Seq(SessionRecord), NEW ids
  PROVE  /\ Revoked(ids) \in Seq(SessionRecord)
         /\ DOMAIN Revoked(ids) = DOMAIN sessions
         /\ Len(Revoked(ids)) = Len(sessions)
         /\ \A k \in DOMAIN sessions :
              /\ Revoked(ids)[k] \in SessionRecord
              /\ Revoked(ids)[k].refresh = sessions[k].refresh
              /\ Revoked(ids)[k].expires = sessions[k].expires
              /\ sessions[k].revoked => Revoked(ids)[k].revoked
<1>1. DOMAIN sessions = 1 .. Len(sessions) /\ Len(sessions) \in Nat
  OBVIOUS
<1>2. DOMAIN Revoked(ids) = DOMAIN sessions
  BY DEF Revoked
<1>3. ASSUME NEW k \in DOMAIN sessions
      PROVE  /\ Revoked(ids)[k] \in SessionRecord
             /\ Revoked(ids)[k].refresh = sessions[k].refresh
             /\ Revoked(ids)[k].expires = sessions[k].expires
             /\ sessions[k].revoked => Revoked(ids)[k].revoked
  <2>1. sessions[k] \in SessionRecord
    BY <1>1
  <2>2. Revoked(ids)[k] = IF k \in ids THEN [sessions[k] EXCEPT !.revoked = TRUE] ELSE sessions[k]
    BY DEF Revoked
  <2> QED BY <2>1, <2>2 DEF SessionRecord
<1>4. Revoked(ids) \in [1 .. Len(sessions) -> SessionRecord]
  BY <1>1, <1>2, <1>3 DEF Revoked
<1>5. Revoked(ids) \in Seq(SessionRecord) /\ Len(Revoked(ids)) = Len(sessions)
  BY <1>1, <1>2, <1>4
<1> QED BY <1>2, <1>3, <1>5

-----------------------------------------------------------------------------
\* The invariant holds before anyone has signed on.
LEMMA SInvInit == Init => SInv
BY DEF Init, SInv, RefreshIsSpentOnce

\* A session that opens takes a refresh token never used, and costs others their revocation
\* at most.
LEMMA LoginKeeps ==
  ASSUME SInv, NEW u \in Users, Login(u)
  PROVE  SInv' /\ OnlyRevokes
<1> DEFINE kept == Revoked(RevokedFor(u))
           new  == [user |-> u, refresh |-> refreshes + 1, expires |-> now + RefreshTTL, revoked |-> FALSE]
<1>1. /\ sessions' = Append(kept, new) /\ refreshes' = refreshes + 1
      /\ now' = now /\ spent' = spent
      /\ access' = access \cup {[session |-> Len(sessions) + 1, expires |-> now + AccessTTL]}
  BY DEF Login
<1>2. /\ kept \in Seq(SessionRecord) /\ DOMAIN kept = DOMAIN sessions /\ Len(kept) = Len(sessions)
      /\ \A k \in DOMAIN sessions :
           /\ kept[k] \in SessionRecord /\ kept[k].refresh = sessions[k].refresh
           /\ kept[k].expires = sessions[k].expires /\ (sessions[k].revoked => kept[k].revoked)
  BY RevokedOnlyRevokes DEF SInv
<1>3. new \in SessionRecord /\ new.refresh = refreshes + 1
      /\ new.expires = now + RefreshTTL /\ AccessTTL \in Int /\ RefreshTTL \in Int
      /\ now \in Int /\ refreshes \in Nat
  BY SessionsAssumption DEF SInv, SessionRecord
<1> HIDE DEF kept, new
<1>4. /\ sessions' \in Seq(SessionRecord)
      /\ DOMAIN sessions' = DOMAIN sessions \cup {Len(sessions) + 1}
      /\ Len(sessions) + 1 \notin DOMAIN sessions
      /\ sessions'[Len(sessions) + 1] = new
      /\ \A k \in DOMAIN sessions : sessions'[k] = kept[k]
  <2>1. Append(kept, new) \in Seq(SessionRecord) /\ Len(Append(kept, new)) = Len(kept) + 1
    BY <1>2, <1>3
  <2>2. DOMAIN Append(kept, new) = 1 .. Len(kept) + 1 /\ DOMAIN kept = 1 .. Len(kept) /\ Len(kept) \in Nat
    BY <1>2, <2>1
  <2>3. Append(kept, new)[Len(kept) + 1] = new /\ \A k \in 1 .. Len(kept) : Append(kept, new)[k] = kept[k]
    BY <1>2, <1>3
  <2> QED BY <1>1, <1>2, <2>1, <2>2, <2>3
<1>5. \A k \in DOMAIN sessions' : /\ sessions'[k].refresh \in Int /\ sessions'[k].expires \in Int
                                /\ sessions'[k].refresh >= 1 /\ sessions'[k].refresh =< refreshes'
  BY <1>1, <1>2, <1>3, <1>4 DEF SInv
<1>6. RefreshIsSpentOnce'
  <2>1. \A k \in DOMAIN sessions : /\ sessions'[k].refresh = sessions[k].refresh
                                   /\ sessions[k].refresh \in Int /\ sessions[k].refresh =< refreshes
    BY <1>2, <1>4 DEF SInv
  <2>2. sessions'[Len(sessions) + 1].refresh = refreshes + 1 /\ refreshes \in Int
    BY <1>3, <1>4
  <2>3. refreshes + 1 \notin spent
    BY <2>2 DEF SInv
  <2>4. \A k \in DOMAIN sessions' : sessions'[k].refresh \notin spent'
    BY <1>1, <1>4, <2>1, <2>2, <2>3 DEF SInv, RefreshIsSpentOnce
  <2>5. \A k, m \in DOMAIN sessions' : k # m => sessions'[k].refresh # sessions'[m].refresh
    BY <1>4, <2>1, <2>2 DEF SInv, RefreshIsSpentOnce
  <2> QED BY <2>4, <2>5 DEF RefreshIsSpentOnce
<1>7. \A t \in access' : t.session \in DOMAIN sessions' /\ t.expires \in Int
  BY <1>1, <1>3, <1>4 DEF SInv
<1>8. OnlyRevokes
  BY <1>1, <1>2, <1>3, <1>4 DEF OnlyRevokes
<1>9. \A t \in spent' : t \in Int /\ t =< refreshes'
  BY <1>1, <1>3 DEF SInv
<1> QED BY <1>1, <1>3, <1>4, <1>5, <1>6, <1>7, <1>8, <1>9 DEF SInv

\* The exchange of a refresh token spends it and gives the session one never used.
LEMMA RefreshKeeps ==
  ASSUME SInv, NEW k \in DOMAIN sessions, Refresh(k)
  PROVE  SInv' /\ OnlyRevokes
<1>1. /\ sessions' = [sessions EXCEPT ![k].refresh = refreshes + 1] /\ refreshes' = refreshes + 1
      /\ now' = now /\ spent' = spent \cup {sessions[k].refresh}
      /\ access' = access \cup {[session |-> k, expires |-> now + AccessTTL]}
  BY DEF Refresh
<1>2. AccessTTL \in Int /\ now \in Int /\ refreshes \in Nat
      /\ sessions \in Seq(SessionRecord) /\ DOMAIN sessions = 1 .. Len(sessions)
  BY SessionsAssumption DEF SInv
<1>3. \A m \in DOMAIN sessions : sessions[m] \in SessionRecord
  BY <1>2
<1>4. /\ DOMAIN sessions' = DOMAIN sessions
      /\ \A m \in DOMAIN sessions : m # k => sessions'[m] = sessions[m]
      /\ sessions'[k] = [sessions[k] EXCEPT !.refresh = refreshes + 1]
  BY <1>1
<1>5. /\ sessions'[k] \in SessionRecord /\ sessions'[k].refresh = refreshes + 1
      /\ sessions'[k].expires = sessions[k].expires /\ sessions'[k].revoked = sessions[k].revoked
  <2> DEFINE s == sessions[k]
  <2>1. s \in SessionRecord /\ refreshes + 1 \in Int
    BY <1>2, <1>3
  <2>2. sessions'[k] = [s EXCEPT !.refresh = refreshes + 1]
    BY <1>4
  <2> HIDE DEF s
  <2>3. [s EXCEPT !.refresh = refreshes + 1] \in SessionRecord
    BY <2>1 DEF SessionRecord
  <2>4. /\ [s EXCEPT !.refresh = refreshes + 1].refresh = refreshes + 1
        /\ [s EXCEPT !.refresh = refreshes + 1].expires = s.expires
        /\ [s EXCEPT !.refresh = refreshes + 1].revoked = s.revoked
    BY <2>1 DEF SessionRecord
  <2> QED BY <2>2, <2>3, <2>4 DEF s
<1>6. sessions' \in Seq(SessionRecord)
  <2>1. \A m \in DOMAIN sessions : sessions'[m] \in SessionRecord
    BY <1>3, <1>4, <1>5
  <2>2. sessions' \in [1 .. Len(sessions) -> SessionRecord]
    BY <1>1, <1>2, <1>4, <2>1
  <2> QED BY <1>2, <2>2
<1>7. \A m \in DOMAIN sessions' : /\ sessions'[m].refresh \in Int /\ sessions'[m].expires \in Int
                                /\ sessions'[m].refresh >= 1 /\ sessions'[m].refresh =< refreshes'
  BY <1>1, <1>2, <1>3, <1>4, <1>5 DEF SInv
<1>8. RefreshIsSpentOnce'
  BY <1>1, <1>2, <1>4, <1>5 DEF SInv, RefreshIsSpentOnce
<1>9. \A t \in access' : t.session \in DOMAIN sessions' /\ t.expires \in Int
  BY <1>1, <1>2, <1>4 DEF SInv
<1>10. \A t \in spent' : t \in Int /\ t =< refreshes'
  BY <1>1, <1>2, <1>3 DEF SInv
<1>11. OnlyRevokes
  BY <1>1, <1>2, <1>4, <1>5 DEF OnlyRevokes
<1> QED BY <1>1, <1>2, <1>6, <1>7, <1>8, <1>9, <1>10, <1>11 DEF SInv

\* Revoking sessions keeps the tokens as they are.
LEMMA RevokingKeeps ==
  ASSUME SInv, NEW ids, sessions' = Revoked(ids),
         UNCHANGED <<now, access, refreshes, spent>>
  PROVE  SInv' /\ OnlyRevokes
<1>1. /\ sessions' \in Seq(SessionRecord) /\ DOMAIN sessions' = DOMAIN sessions
      /\ \A k \in DOMAIN sessions :
           /\ sessions'[k] \in SessionRecord /\ sessions'[k].refresh = sessions[k].refresh
           /\ sessions'[k].expires = sessions[k].expires
           /\ sessions[k].revoked => sessions'[k].revoked
  BY RevokedOnlyRevokes DEF SInv
<1>2. \A k \in DOMAIN sessions' : /\ sessions'[k].refresh \in Int /\ sessions'[k].expires \in Int
                                /\ sessions'[k].refresh >= 1 /\ sessions'[k].refresh =< refreshes'
  BY <1>1 DEF SInv
<1>3. RefreshIsSpentOnce'
  BY <1>1 DEF SInv, RefreshIsSpentOnce
<1>4. OnlyRevokes
  BY <1>1 DEF SInv, OnlyRevokes
<1> QED BY <1>1, <1>2, <1>3, <1>4 DEF SInv

\* The steps that leave the sessions and their tokens alone.
LEMMA OthersKeep ==
  ASSUME SInv, UNCHANGED <<sessions, access, refreshes, spent>>, now' \in Int, now' >= now
  PROVE  SInv' /\ OnlyRevokes
BY DEF SInv, RefreshIsSpentOnce, OnlyRevokes

\* Every step keeps the invariant and only revokes.
LEMMA StepKeeps ==
  ASSUME SInv, [Next]_vars
  PROVE  SInv' /\ OnlyRevokes
<1>0. now \in Int
  BY DEF SInv
<1>1. ASSUME NEW u \in Users, Login(u) PROVE SInv' /\ OnlyRevokes
  BY <1>1, LoginKeeps
<1>2. ASSUME NEW u \in Users, RevokeAll(u) PROVE SInv' /\ OnlyRevokes
  BY <1>2, RevokingKeeps DEF RevokeAll
<1>3. ASSUME NEW k \in DOMAIN sessions, Refresh(k) PROVE SInv' /\ OnlyRevokes
  BY <1>3, RefreshKeeps
<1>4. ASSUME NEW k \in DOMAIN sessions, Revoke(k) PROVE SInv' /\ OnlyRevokes
  BY <1>4, RevokingKeeps DEF Revoke
<1>5. ASSUME NEW n \in Names, FailLogin(n) PROVE SInv' /\ OnlyRevokes
  BY <1>0, <1>5, OthersKeep DEF FailLogin
<1>6. ASSUME NEW u \in Users, PlainLogin(u) PROVE SInv' /\ OnlyRevokes
  BY <1>0, <1>6, OthersKeep DEF PlainLogin
<1>7. ASSUME NEW token \in plain, Logout(token) PROVE SInv' /\ OnlyRevokes
  BY <1>0, <1>7, OthersKeep DEF Logout
<1>8. CASE TimePasses
  BY <1>0, <1>8, OthersKeep DEF TimePasses
<1>9. CASE UNCHANGED vars
  BY <1>0, <1>9, OthersKeep DEF vars
<1> QED BY <1>1, <1>2, <1>3, <1>4, <1>5, <1>6, <1>7, <1>8, <1>9
        DEF Next, SessionNext, FailureNext, PlainNext

\* Under the invariant, a step that only revokes accepts no token that was not accepted.
LEMMA OnlyRevokesRejects ==
  ASSUME SInv, OnlyRevokes
  PROVE  \A token \in access : ~Accepts(token) => ~Accepts(token)'
<1> SUFFICES ASSUME NEW token \in access, Accepts(token)' PROVE Accepts(token)
  OBVIOUS
<1>1. token.session \in DOMAIN sessions /\ token.expires \in Int /\ now \in Int /\ now' \in Int /\ now' >= now
  BY DEF SInv, OnlyRevokes
<1>2. /\ now' =< token.expires
      /\ now' =< sessions'[token.session].expires
      /\ ~sessions'[token.session].revoked
  BY DEF Accepts, Live
<1>3. /\ sessions'[token.session].expires = sessions[token.session].expires
      /\ ~sessions[token.session].revoked
      /\ sessions[token.session].expires \in Int
  BY <1>1, <1>2 DEF OnlyRevokes, SInv
<1> QED BY <1>1, <1>2, <1>3 DEF Accepts, Live

-----------------------------------------------------------------------------
\* The sessions and tokens keep the invariant in every reachable state.
THEOREM Invariance == Spec => []SInv
<1>1. SInv /\ [Next]_vars => SInv'
  BY StepKeeps
<1> QED BY SInvInit, <1>1, PTL DEF Spec

\* A refresh token is exchanged once, for any number of users and sessions: what was
\* exchanged opens nothing any more, and no two sessions share a token (SessionManager.refresh).
THEOREM SpentOnce == Spec => []RefreshIsSpentOnce
<1>1. SInv => RefreshIsSpentOnce
  BY DEF SInv
<1> QED BY Invariance, <1>1, PTL

\* No step accepts an access token again that was not accepted any more, whatever is
\* refreshed, opened or revoked meanwhile (SessionManager.parse_access).
THEOREM RejectedForGood == Spec => RejectedStaysRejected
<1>1. SInv /\ [Next]_vars => [\A token \in access : ~Accepts(token) => ~Accepts(token)']_vars
  BY StepKeeps, OnlyRevokesRejects
<1> QED BY Invariance, <1>1, PTL DEF Spec, RejectedStaysRejected

-----------------------------------------------------------------------------
Attempt == [name : Names, time : Int]

\* The attempts for a name within the Window that ends now, and before an attempt.
Lately(n) == {m \in DOMAIN attempts : attempts[m].name = n /\ now - attempts[m].time < Window}
Before(k) == {m \in 1 .. k : attempts[m].name = attempts[k].name
                               /\ attempts[k].time - attempts[m].time < Window}

FailuresInv ==
  /\ now \in Int /\ attempts \in Seq(Attempt)
  /\ failed \in [Names -> SUBSET DOMAIN attempts]
  /\ \A n \in Names : Lately(n) \subseteq failed[n]
  /\ BurstsAreAlerted

LEMMA AttemptsAreTyped ==
  ASSUME FailuresInv
  PROVE  /\ DOMAIN attempts = 1 .. Len(attempts) /\ Len(attempts) \in Nat
         /\ \A k \in DOMAIN attempts : attempts[k].name \in Names /\ attempts[k].time \in Int
<1>1. DOMAIN attempts = 1 .. Len(attempts) /\ Len(attempts) \in Nat
  BY DEF FailuresInv
<1>2. \A k \in DOMAIN attempts : attempts[k] \in Attempt
  BY DEF FailuresInv
<1>. QED
  BY <1>1, <1>2 DEF Attempt

\* No event is dropped that tells of a burst.
LEMMA BurstsAreLogged ==
  ASSUME NEW n, NEW first, Log(<<first>> \o <<Event(n, "login.failed_burst", "DENIED")>>)
  PROVE  [actor |-> n, action |-> "login.failed_burst", time |-> now] \in alerts'
<1>. DEFINE burst == Event(n, "login.failed_burst", "DENIED")
            entries == <<first>> \o <<burst>>
<1>1. burst \in ToSet(entries)
  <2>1. entries[2] = burst /\ 2 \in DOMAIN entries
    OBVIOUS
  <2>. QED
    BY <2>1 DEF ToSet
<1>2. burst.action \in CriticalActions /\ burst.actor = n /\ burst.action = "login.failed_burst"
  BY DEF Event, CriticalActions
<1>3. Log(entries)
  OBVIOUS
<1>. HIDE DEF burst, entries
<1>4. alerts' = alerts \cup
        {[actor |-> e.actor, action |-> e.action, time |-> now] :
           e \in {f \in ToSet(entries) : f.action \in CriticalActions \/ f.result = "DENIED"}}
  BY <1>3 DEF Log
<1>5. [actor |-> burst.actor, action |-> burst.action, time |-> now] \in alerts'
  BY <1>1, <1>2, <1>4
<1>. QED
  BY <1>2, <1>5

\* A failed login is alerted with those the Window still holds.
LEMMA FailLoginAlerts ==
  ASSUME FailuresInv, NEW n \in Names, FailLogin(n)
  PROVE  FailuresInv'
<1>. DEFINE k == Len(attempts) + 1
            new == [name |-> n, time |-> now]
<1>1. /\ attempts' = Append(attempts, new) /\ now' = now
      /\ failed' = [failed EXCEPT ![n] = Kept(failed[n])]
      /\ alerts \subseteq alerts'
  BY DEF FailLogin, Log
<1>2. now \in Int /\ Window \in Int /\ Window > 0 /\ Burst \in Int
  BY SessionsAssumption DEF FailuresInv
<1>3. new \in Attempt /\ new.name = n /\ new.time = now
  BY <1>2 DEF Attempt
<1>. HIDE DEF new
<1>4. /\ attempts' \in Seq(Attempt) /\ Len(attempts') = k
      /\ DOMAIN attempts' = DOMAIN attempts \cup {k} /\ k \notin DOMAIN attempts
      /\ attempts'[k] = new /\ \A m \in DOMAIN attempts : attempts'[m] = attempts[m]
  BY <1>1, <1>3, AttemptsAreTyped DEF FailuresInv
<1>5. /\ failed' \in [Names -> SUBSET DOMAIN attempts']
      /\ \A o \in Names : o # n => failed'[o] = failed[o]
      /\ failed'[n] = Kept(failed[n])
  BY <1>1, <1>4 DEF FailuresInv, Kept
<1>6. \A o \in Names : Lately(o)' \subseteq failed'[o]
  <2>. SUFFICES ASSUME NEW o \in Names, NEW m \in Lately(o)'
                PROVE  m \in failed'[o]
    OBVIOUS
  <2>1. m \in DOMAIN attempts' /\ attempts'[m].name = o /\ now - attempts'[m].time < Window
    BY <1>1 DEF Lately
  <2>2. CASE m = k
    BY <1>3, <1>4, <1>5, <2>1, <2>2 DEF Kept
  <2>3. CASE m # k
    <3>1. m \in DOMAIN attempts /\ attempts'[m] = attempts[m]
      BY <1>4, <2>1, <2>3
    <3>2. m \in failed[o] /\ now - attempts[m].time < Window
      BY <2>1, <3>1 DEF Lately, FailuresInv
    <3>. QED
      BY <1>5, <3>2 DEF Kept
  <2>. QED
    BY <2>2, <2>3
<1>7. ASSUME NEW j \in DOMAIN attempts', Cardinality(Before(j)') >= Burst
      PROVE  [actor |-> attempts'[j].name, action |-> "login.failed_burst",
              time |-> attempts'[j].time] \in alerts'
  <2>1. CASE j # k
    <3>1. j \in DOMAIN attempts /\ attempts'[j] = attempts[j]
      BY <1>4, <2>1
    <3>2. Before(j)' = Before(j)
      <4>1. \A m \in 1 .. j : m \in DOMAIN attempts
        BY <3>1, AttemptsAreTyped
      <4>. QED
        BY <1>4, <3>1, <4>1 DEF Before
    <3>. QED
      BY <1>1, <1>7, <3>1, <3>2 DEF FailuresInv, BurstsAreAlerted, Before
  <2>2. CASE j = k
    <3>1. attempts'[j].name = n /\ attempts'[j].time = now
      BY <1>3, <1>4, <2>2
    <3>2. Before(j)' \subseteq failed'[n]
      <4>1. \A m \in 1 .. k : m \in DOMAIN attempts'
        BY <1>4, AttemptsAreTyped
      <4>. QED
        BY <1>1, <1>6, <2>2, <3>1, <4>1 DEF Before, Lately
    <3>3. IsFiniteSet(failed'[n])
      <4>1. failed'[n] \subseteq 1 .. k
        BY <1>4, <1>5, AttemptsAreTyped
      <4>2. IsFiniteSet(1 .. k)
        BY FS_Interval, AttemptsAreTyped
      <4>. QED
        BY <4>1, <4>2, FS_Subset
    <3>4. Cardinality(failed'[n]) >= Burst
      <4>1. /\ Cardinality(Before(j)') =< Cardinality(failed'[n])
            /\ Cardinality(Before(j)') \in Nat /\ Cardinality(failed'[n]) \in Nat
        BY <3>2, <3>3, FS_Subset, FS_CardinalityType
      <4>. QED
        BY <1>2, <1>7, <4>1
    <3>5. Log(<<Event(n, "login.failed", "DENIED")>> \o <<Event(n, "login.failed_burst", "DENIED")>>)
      BY <3>4 DEF FailLogin
    <3>. QED
      BY <3>1, <3>5, BurstsAreLogged
  <2>. QED
    BY <2>1, <2>2
<1>8. BurstsAreAlerted'
  BY <1>7 DEF BurstsAreAlerted, Before
<1>. QED
  BY <1>1, <1>2, <1>4, <1>5, <1>6, <1>8 DEF FailuresInv

\* The other steps fail nobody, take back no alert, and only move the clock ahead.
LEMMA NoFailureKeeps ==
  ASSUME FailuresInv, UNCHANGED <<attempts, failed>>, alerts \subseteq alerts',
         now' \in Int, now' >= now
  PROVE  FailuresInv'
<1>1. \A n \in Names : Lately(n)' \subseteq Lately(n)
  <2>. SUFFICES ASSUME NEW n \in Names, NEW m \in Lately(n)'
                PROVE  m \in Lately(n)
    OBVIOUS
  <2>1. m \in DOMAIN attempts /\ attempts[m].name = n /\ now' - attempts[m].time < Window
    BY DEF Lately
  <2>2. now \in Int /\ attempts[m].time \in Int /\ Window \in Int
    BY <2>1, AttemptsAreTyped, SessionsAssumption DEF FailuresInv
  <2>3. now - attempts[m].time < Window
    BY <2>1, <2>2
  <2>. QED
    BY <2>1, <2>3 DEF Lately
<1>2. BurstsAreAlerted'
  BY DEF FailuresInv, BurstsAreAlerted
<1>. QED
  BY <1>1, <1>2 DEF FailuresInv

LEMMA StepAlerts ==
  ASSUME FailuresInv, [Next]_vars
  PROVE  FailuresInv'
<1>0. now \in Int
  BY DEF FailuresInv
<1>1. ASSUME NEW u \in Users, Login(u) \/ RevokeAll(u) \/ PlainLogin(u) PROVE FailuresInv'
  BY <1>0, <1>1, NoFailureKeeps DEF Login, RevokeAll, PlainLogin, Log
<1>2. ASSUME NEW k \in DOMAIN sessions, Refresh(k) \/ Revoke(k) PROVE FailuresInv'
  BY <1>0, <1>2, NoFailureKeeps DEF Refresh, Revoke
<1>3. ASSUME NEW token \in plain, Logout(token) PROVE FailuresInv'
  BY <1>0, <1>3, NoFailureKeeps DEF Logout, Log
<1>4. CASE TimePasses
  BY <1>0, <1>4, NoFailureKeeps DEF TimePasses
<1>5. CASE UNCHANGED vars
  BY <1>0, <1>5, NoFailureKeeps DEF vars
<1>. QED
  BY <1>1, <1>2, <1>3, <1>4, <1>5, FailLoginAlerts DEF Next, SessionNext, FailureNext, PlainNext

\* Whenever Burst failures for one name lie within Window, an alert tells of the burst at the
\* time of the last of them, whichever names fail in between and whatever else is done
\* (SessionManager.record_failed_login, ImmutableAuditLog._maybe_alert).
THEOREM BurstsAreSeen == Spec => []BurstsAreAlerted
<1>1. Init => FailuresInv
  BY DEF Init, FailuresInv, BurstsAreAlerted, Lately
<1>2. FailuresInv /\ [Next]_vars => FailuresInv'
  BY StepAlerts
<1>3. FailuresInv => BurstsAreAlerted
  BY DEF FailuresInv
<1>. QED
  BY <1>1, <1>2, <1>3, PTL DEF Spec

-----------------------------------------------------------------------------
\* What L!LiveWasValidated lacks: live trading is entered from PAPER_VALIDATED.
ValidatedIsMarked == \A s \in Strategies : state[s] = "PAPER_VALIDATED" => s \in validated

\* What L!ApprovalIsSpentOnce lacks: a request that is pending opened nothing.
PendingOpenedNothing ==
  \A r \in DOMAIN requests : requests[r].status = "PENDING" => requests[r].opened = 0

Validation == L!LiveWasValidated /\ ValidatedIsMarked
Approval == L!ApprovalIsSpentOnce /\ PendingOpenedNothing
TransitionInv == L!TypeOK /\ Validation /\ Approval

\* Nothing is registered and nothing requested in an initial state.
LEMMA TransitionInit == L!Init => TransitionInv
<1> SUFFICES ASSUME L!Init
             PROVE  TransitionInv
  OBVIOUS
<1>1. L!TypeOK
  <2>1. (CHOOSE c \in Commits : TRUE) \in Commits
    BY LifecycleAssumption DEF L!TransitionAssumption
  <2>2. requests \in Seq(L!ApprovalRequest)
    BY DEF L!Init
  <2> QED
    BY <2>1, <2>2, LifecycleAssumption DEF L!TransitionAssumption, L!Init, L!TypeOK
<1>2. Validation
  BY DEF L!Init, Validation, L!LiveWasValidated, ValidatedIsMarked, L!Live
<1>3. Approval
  BY DEF L!Init, Approval, L!ApprovalIsSpentOnce, PendingOpenedNothing
<1> QED
  BY <1>1, <1>2, <1>3 DEF TransitionInv

\* L!Live trading is entered from PAPER_VALIDATED, or from another live state.
LEMMA LiveIsEnteredValidated ==
  ASSUME NEW from, NEW new \in L!Allowed(from), new \in L!Live
  PROVE  from = "PAPER_VALIDATED" \/ from \in L!Live
BY DEF L!Allowed, L!Live

\* No state is allowed that the life cycle does not have.
LEMMA AllowedType ==
  ASSUME NEW from
  PROVE  L!Allowed(from) \subseteq L!StrategyLifecycleState
BY DEF L!Allowed, L!StrategyLifecycleState

\* A state may be entered if it is not live or the strategy is validated.
LEMMA EnterStep ==
  ASSUME L!TypeOK, Validation, NEW s \in Strategies, NEW new \in L!StrategyLifecycleState,
         L!Enter(s, new), new \in L!Live => state[s] = "PAPER_VALIDATED" \/ state[s] \in L!Live
  PROVE  /\ state' \in [Strategies -> L!StrategyLifecycleState \cup {"UNREGISTERED"}]
         /\ validated' \subseteq Strategies
         /\ Validation'
<1> USE DEF L!TypeOK, L!Enter
<1>1. /\ state' \in [Strategies -> L!StrategyLifecycleState \cup {"UNREGISTERED"}]
      /\ validated' \subseteq Strategies
  OBVIOUS
<1>2. ASSUME NEW t \in Strategies, state'[t] \in L!Live \cup {"PAPER_VALIDATED"}
      PROVE  t \in validated'
  <2>1. CASE t = s
    <3>1. state'[s] = new
      OBVIOUS
    <3>2. CASE new = "PAPER_VALIDATED"
      BY <2>1, <3>2
    <3>3. CASE new \in L!Live
      <4>1. s \in validated
        BY <3>3 DEF Validation, L!LiveWasValidated, ValidatedIsMarked
      <4>2. validated' = validated
        BY <3>3 DEF L!Live
      <4> QED
        BY <2>1, <4>1, <4>2
    <3> QED
      BY <1>2, <2>1, <3>1, <3>2, <3>3
  <2>2. CASE t # s
    <3>1. state'[t] = state[t]
      BY <2>2
    <3>2. t \in validated
      BY <1>2, <3>1 DEF Validation, L!LiveWasValidated, ValidatedIsMarked
    <3> QED
      BY <2>2, <3>2
  <2> QED
    BY <2>1, <2>2
<1> QED
  BY <1>1, <1>2 DEF Validation, L!LiveWasValidated, ValidatedIsMarked

\* transition() with any target
LEMMA TransitionStep ==
  ASSUME TransitionInv, NEW s \in Strategies, NEW new \in L!StrategyLifecycleState, L!Transition(s, new)
  PROVE  TransitionInv'
<1>1. new \in L!Live => state[s] = "PAPER_VALIDATED" \/ state[s] \in L!Live
  BY LiveIsEnteredValidated DEF L!Transition
<1>2. /\ state' \in [Strategies -> L!StrategyLifecycleState \cup {"UNREGISTERED"}]
      /\ validated' \subseteq Strategies
      /\ Validation'
  BY <1>1, EnterStep DEF TransitionInv, L!Transition
<1>3. UNCHANGED <<commit, requests, today>>
  BY DEF L!Transition
<1>4. Approval'
  BY <1>3 DEF TransitionInv, Approval, L!ApprovalIsSpentOnce, PendingOpenedNothing
<1>5. L!TypeOK'
  BY <1>2, <1>3 DEF TransitionInv, L!TypeOK
<1> QED
  BY <1>2, <1>4, <1>5 DEF TransitionInv

\* register: DEVELOPMENT asks for no validation.
LEMMA RegisterStep ==
  ASSUME TransitionInv, NEW s \in Strategies, NEW c \in Commits, L!Register(s, c)
  PROVE  TransitionInv'
<1> USE DEF TransitionInv, L!TypeOK, L!Register
<1>1. L!TypeOK'
  BY DEF L!StrategyLifecycleState
<1>2. Validation'
  BY DEF Validation, L!LiveWasValidated, ValidatedIsMarked, L!Live
<1>3. Approval'
  BY DEF Approval, L!ApprovalIsSpentOnce, PendingOpenedNothing
<1> QED
  BY <1>1, <1>2, <1>3

\* /transition/paper-validate of an unknown strategy
LEMMA PaperValidateUnknownStep ==
  ASSUME TransitionInv, NEW s \in Strategies, NEW c \in Commits, L!PaperValidateUnknown(s, c)
  PROVE  TransitionInv'
<1>1. PICK new \in {"PAPER_TRADING", "PAPER_VALIDATED"} : L!Enter(s, new)
  BY DEF L!PaperValidateUnknown
<1>2. new \in L!StrategyLifecycleState /\ new \notin L!Live
  BY DEF L!StrategyLifecycleState, L!Live
<1>3. /\ state' \in [Strategies -> L!StrategyLifecycleState \cup {"UNREGISTERED"}]
      /\ validated' \subseteq Strategies
      /\ Validation'
  BY <1>1, <1>2, EnterStep DEF TransitionInv
<1>4. UNCHANGED <<requests, today>> /\ commit' \in [Strategies -> Commits]
  BY DEF L!PaperValidateUnknown, TransitionInv, L!TypeOK
<1>5. Approval'
  BY <1>4 DEF TransitionInv, Approval, L!ApprovalIsSpentOnce, PendingOpenedNothing
<1>6. L!TypeOK'
  BY <1>3, <1>4 DEF TransitionInv, L!TypeOK
<1> QED
  BY <1>3, <1>5, <1>6 DEF TransitionInv

\* request_live_restricted: the new request opened nothing yet.
LEMMA RequestStep ==
  ASSUME TransitionInv, NEW s \in Strategies, NEW u \in Admins, L!RequestLiveRestricted(s, u)
  PROVE  TransitionInv'
<1> DEFINE q == [requester |-> u, approver |-> Nobody, status |-> "PENDING",
                 expires |-> today + L!ApprovalTTL, opened |-> 0]
<1>1. q \in L!ApprovalRequest
  BY LifecycleAssumption DEF L!TransitionAssumption, TransitionInv, L!TypeOK, L!ApprovalRequest, L!ApprovalTTL
<1>2. requests' = Append(requests, q) /\ UNCHANGED <<state, commit, today, validated>>
  BY DEF L!RequestLiveRestricted
<1>3. requests \in Seq(L!ApprovalRequest)
  BY DEF TransitionInv, L!TypeOK
<1> HIDE DEF q
<1>4. requests' \in Seq(L!ApprovalRequest)
  BY <1>1, <1>2, <1>3
<1>5. L!TypeOK'
  BY <1>2, <1>4 DEF TransitionInv, L!TypeOK
<1>6. Validation'
  BY <1>2 DEF TransitionInv, Validation, L!LiveWasValidated, ValidatedIsMarked
<1>7. ASSUME NEW r \in DOMAIN requests'
      PROVE  requests'[r] = q \/ (r \in DOMAIN requests /\ requests'[r] = requests[r])
  BY <1>2, <1>3
<1>8. q.opened = 0 /\ q.status = "PENDING"
  BY DEF q
<1>9. Approval'
  BY <1>7, <1>8 DEF TransitionInv, Approval, L!ApprovalIsSpentOnce, PendingOpenedNothing
<1> QED
  BY <1>5, <1>6, <1>9 DEF TransitionInv

\* What an approval makes of a request that opened nothing.
LEMMA ApprovedRequest ==
  ASSUME NEW request \in L!ApprovalRequest, request.opened = 0, NEW u \in Admins,
         NEW opens \in {0, 1}
  PROVE  /\ L!Approved(request, u, opens) \in L!ApprovalRequest
         /\ L!Approved(request, u, opens).status = "APPROVED"
         /\ L!Approved(request, u, opens).approver = u
         /\ L!Approved(request, u, opens).requester = request.requester
         /\ L!Approved(request, u, opens).opened <= 1
BY DEF L!Approved, L!ApprovalRequest

\* approve, late or in time, and the transition it is followed by
LEMMA ApplyStep ==
  ASSUME TransitionInv, NEW s \in Strategies, NEW r \in DOMAIN requests, NEW u \in Admins,
         L!ApplyLiveRestrictedApproval(s, r, u)
  PROVE  TransitionInv'
<1>1. /\ requests \in Seq(L!ApprovalRequest) /\ requests[r] \in L!ApprovalRequest
      /\ requests[r].status = "PENDING" /\ requests[r].opened = 0
      /\ UNCHANGED <<commit, today>>
  BY DEF TransitionInv, L!TypeOK, Approval, PendingOpenedNothing, L!ApplyLiveRestrictedApproval
<1>2. CASE /\ requests' = [requests EXCEPT ![r].status = "EXPIRED"]
           /\ UNCHANGED <<state, validated>>
  <2> DEFINE q == [requests[r] EXCEPT !.status = "EXPIRED"]
  <2>1. q \in L!ApprovalRequest /\ q.status = "EXPIRED" /\ q.opened = 0
    BY <1>1 DEF L!ApprovalRequest
  <2>2. requests' = [requests EXCEPT ![r] = q]
    BY <1>2
  <2> HIDE DEF q
  <2>3. /\ requests' \in Seq(L!ApprovalRequest)
        /\ DOMAIN requests' = DOMAIN requests
        /\ \A t \in DOMAIN requests : t # r => requests'[t] = requests[t]
        /\ requests'[r] = q
    BY <1>1, <2>1, <2>2
  <2>4. Validation'
    BY <1>2 DEF TransitionInv, Validation, L!LiveWasValidated, ValidatedIsMarked
  <2>5. Approval'
    BY <2>1, <2>3 DEF TransitionInv, Approval, L!ApprovalIsSpentOnce, PendingOpenedNothing
  <2> QED
    BY <1>1, <1>2, <2>3, <2>4, <2>5 DEF TransitionInv, L!TypeOK
<1>3. CASE /\ u # requests[r].requester
           /\ \/ /\ "LIVE_RESTRICTED" \in L!Allowed(state[s])
                 /\ requests' = [requests EXCEPT ![r] = L!Approved(@, u, 1)]
                 /\ L!Enter(s, "LIVE_RESTRICTED")
              \/ /\ requests' = [requests EXCEPT ![r] = L!Approved(@, u, 0)]
                 /\ UNCHANGED <<state, validated>>
  <2>1. /\ state' \in [Strategies -> L!StrategyLifecycleState \cup {"UNREGISTERED"}]
        /\ validated' \subseteq Strategies
        /\ Validation'
    <3>1. CASE L!Enter(s, "LIVE_RESTRICTED") /\ "LIVE_RESTRICTED" \in L!Allowed(state[s])
      <4>1. state[s] = "PAPER_VALIDATED" \/ state[s] \in L!Live
        BY <3>1, LiveIsEnteredValidated DEF L!Live
      <4>2. "LIVE_RESTRICTED" \in L!StrategyLifecycleState
        BY DEF L!StrategyLifecycleState
      <4> QED
        BY <3>1, <4>1, <4>2, EnterStep DEF TransitionInv
    <3>2. CASE UNCHANGED <<state, validated>>
      BY <3>2 DEF TransitionInv, L!TypeOK, Validation, L!LiveWasValidated, ValidatedIsMarked
    <3> QED
      BY <1>3, <3>1, <3>2
  <2>2. PICK opens \in {0, 1} : requests' = [requests EXCEPT ![r] = L!Approved(@, u, opens)]
    BY <1>3
  <2> DEFINE q == L!Approved(requests[r], u, opens)
  <2>3. /\ q \in L!ApprovalRequest /\ q.status = "APPROVED" /\ q.approver = u
        /\ q.requester = requests[r].requester /\ q.opened <= 1
    BY <1>1, ApprovedRequest
  <2> HIDE DEF q
  <2>4. /\ requests' \in Seq(L!ApprovalRequest)
        /\ DOMAIN requests' = DOMAIN requests
        /\ \A t \in DOMAIN requests : t # r => requests'[t] = requests[t]
        /\ requests'[r] = q
    <3>1. requests' = [requests EXCEPT ![r] = q]
      BY <2>2 DEF q
    <3> QED
      BY <1>1, <2>3, <3>1
  <2>5. u \notin {Nobody, requests[r].requester}
    BY <1>3, LifecycleAssumption DEF L!TransitionAssumption
  <2>6. Approval'
    BY <2>3, <2>4, <2>5 DEF TransitionInv, Approval, L!ApprovalIsSpentOnce, PendingOpenedNothing
  <2> QED
    BY <1>1, <2>1, <2>4, <2>6 DEF TransitionInv, L!TypeOK
<1> QED
  BY <1>2, <1>3 DEF L!ApplyLiveRestrictedApproval

\* invalidate_on_version_change and auto_suspend leave live trading.
LEMMA SuspendStep ==
  ASSUME TransitionInv, NEW s \in Strategies, L!Enter(s, "SUSPENDED"),
         commit' \in [Strategies -> Commits], UNCHANGED <<requests, today>>
  PROVE  TransitionInv'
<1>1. "SUSPENDED" \in L!StrategyLifecycleState /\ "SUSPENDED" \notin L!Live
  BY DEF L!StrategyLifecycleState, L!Live
<1>2. /\ state' \in [Strategies -> L!StrategyLifecycleState \cup {"UNREGISTERED"}]
      /\ validated' \subseteq Strategies
      /\ Validation'
  BY <1>1, EnterStep DEF TransitionInv
<1>3. Approval'
  BY DEF TransitionInv, Approval, L!ApprovalIsSpentOnce, PendingOpenedNothing
<1> QED
  BY <1>2, <1>3 DEF TransitionInv, L!TypeOK

\* Every reachable state satisfies the inductive invariant.
THEOREM TransitionInvariance == L!Spec => []TransitionInv
<1>1. TransitionInv /\ [L!Next]_L!vars => TransitionInv'
  <2> SUFFICES ASSUME TransitionInv, [L!Next]_L!vars
               PROVE  TransitionInv'
    OBVIOUS
  <2>1. ASSUME NEW s \in Strategies, NEW c \in Commits, L!Register(s, c)
        PROVE  TransitionInv'
    BY <2>1, RegisterStep
  <2>2. ASSUME NEW s \in Strategies, NEW c \in Commits, L!PaperValidateUnknown(s, c)
        PROVE  TransitionInv'
    BY <2>2, PaperValidateUnknownStep
  <2>3. ASSUME NEW s \in Strategies, NEW c \in Commits, L!InvalidateOnVersionChange(s, c)
        PROVE  TransitionInv'
    <3>1. commit' \in [Strategies -> Commits]
      BY <2>3 DEF TransitionInv, L!TypeOK, L!InvalidateOnVersionChange
    <3> QED
      BY <2>3, <3>1, SuspendStep DEF L!InvalidateOnVersionChange
  <2>4. ASSUME NEW s \in Strategies, NEW new \in L!StrategyLifecycleState, L!Transition(s, new)
        PROVE  TransitionInv'
    BY <2>4, TransitionStep
  <2>5. ASSUME NEW s \in Strategies, L!EvaluatePaperValidated(s)
        PROVE  TransitionInv'
    <3>1. "PAPER_VALIDATED" \in L!StrategyLifecycleState
      BY DEF L!StrategyLifecycleState
    <3> QED
      BY <2>5, <3>1, TransitionStep DEF L!EvaluatePaperValidated
  <2>6. ASSUME NEW s \in Strategies, NEW u \in Admins, L!RequestLiveRestricted(s, u)
        PROVE  TransitionInv'
    BY <2>6, RequestStep
  <2>7. ASSUME NEW s \in Strategies, NEW u \in Admins, NEW r \in DOMAIN requests,
               L!ApplyLiveRestrictedApproval(s, r, u)
        PROVE  TransitionInv'
    BY <2>7, ApplyStep
  <2>8. ASSUME NEW s \in Strategies, L!AutoSuspend(s)
        PROVE  TransitionInv'
    <3>1. commit' \in [Strategies -> Commits]
      BY <2>8 DEF TransitionInv, L!TypeOK, L!AutoSuspend
    <3> QED
      BY <2>8, <3>1, SuspendStep DEF L!AutoSuspend
  <2>9. CASE L!DayPasses
    BY <2>9, LifecycleAssumption
       DEF L!TransitionAssumption, L!DayPasses, TransitionInv, L!TypeOK, Validation, L!LiveWasValidated, ValidatedIsMarked,
           Approval, L!ApprovalIsSpentOnce, PendingOpenedNothing
  <2>10. CASE UNCHANGED L!vars
    BY <2>10 DEF L!vars, TransitionInv, L!TypeOK, Validation, L!LiveWasValidated, ValidatedIsMarked,
                 Approval, L!ApprovalIsSpentOnce, PendingOpenedNothing
  <2> QED
    BY <2>1, <2>2, <2>3, <2>4, <2>5, <2>6, <2>7, <2>8, <2>9, <2>10 DEF L!Next, L!ByRequest
<1> QED
  BY TransitionInit, <1>1, PTL DEF L!Spec

\* Every variable keeps its type, for any strategies, commits and bounds.
THEOREM TransitionTypes == L!Spec => []L!TypeOK
BY TransitionInvariance, PTL DEF TransitionInv

\* A strategy that is live met the paper trading stage since it was last
\* registered or suspended: ALLOWED_TRANSITIONS and the approval lead nowhere
\* around evaluate_paper_validated.
THEOREM LiveIsValidated == L!Spec => []LiveWasValidated
BY TransitionInvariance, PTL DEF TransitionInv, Validation, LiveWasValidated

\* However requests are repeated, late or meant for another strategy, an
\* approval takes one strategy live at most and has two people behind it.
THEOREM ApprovalOnce == L!Spec => []ApprovalIsSpentOnce
BY TransitionInvariance, PTL DEF TransitionInv, Approval, ApprovalIsSpentOnce

\* One step never changes the recorded code of a strategy and leaves it live.
THEOREM LiveCodeFrozen == L!Spec => LiveCodeIsFrozen
<1> DEFINE Frozen == \A s \in Strategies :
              state[s] \in L!Live /\ state'[s] \in L!Live => commit'[s] = commit[s]
<1>1. L!TypeOK /\ [L!Next]_L!vars => [Frozen]_L!vars
  <2> SUFFICES ASSUME L!TypeOK, [L!Next]_L!vars, NEW t \in Strategies,
                      state[t] \in L!Live, state'[t] \in L!Live
               PROVE  commit'[t] = commit[t]
    OBVIOUS
  <2> USE DEF L!TypeOK
  <2>1. ASSUME NEW s \in Strategies, NEW c \in Commits, L!Register(s, c)
        PROVE  commit'[t] = commit[t]
    BY <2>1 DEF L!Register, L!Live
  <2>2. ASSUME NEW s \in Strategies, NEW c \in Commits, L!PaperValidateUnknown(s, c)
        PROVE  commit'[t] = commit[t]
    BY <2>2 DEF L!PaperValidateUnknown, L!Live
  <2>3. ASSUME NEW s \in Strategies, NEW c \in Commits, L!InvalidateOnVersionChange(s, c)
        PROVE  commit'[t] = commit[t]
    BY <2>3 DEF L!InvalidateOnVersionChange, L!Enter, L!Live
  <2>4. CASE UNCHANGED commit
    BY <2>4
  <2> QED
    BY <2>1, <2>2, <2>3, <2>4
       DEF L!Next, L!ByRequest, L!vars, L!Transition, L!EvaluatePaperValidated, L!RequestLiveRestricted,
           L!ApplyLiveRestrictedApproval, L!AutoSuspend, L!DayPasses
<1>2. L!Spec => [][Frozen]_L!vars
  BY TransitionTypes, <1>1, PTL DEF L!Spec
<1> QED
  BY <1>2 DEF LiveCodeIsFrozen, L!LiveCodeIsFrozen
=============================================================================
