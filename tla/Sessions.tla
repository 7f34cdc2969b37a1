------------------------------- MODULE Sessions -------------------------------
(***************************************************************************)
(* Signing on: the sessions of SessionManager                              *)
(* (security/auth/sessions.py) as the routes of api/routes/ops.py use      *)
(* them, with the audit log (security/audit/log.py), beside the tokens     *)
(* without a session of api/deps/auth.py.                                  *)
(*                                                                         *)
(* A session is known by its place in the order of creation, a refresh     *)
(* token by the number of its making; hashes and signatures tell what they *)
(* were made from.  time.time() is a clock that never goes back.           *)
(***************************************************************************)
EXTENDS Integers, Sequences, FiniteSetsExt, SequencesExt

CONSTANTS
  Users, Strangers,        \* names with and without a user
  AccessTTL, RefreshTTL,   \* of a session's tokens
  PlainTTL,                \* of a token without a session
  MaxSessionsPerUser,
  Window, Burst,           \* 900 seconds; 5 failures
  MaxTime, MaxSessions, MaxFailures, MaxRefresh, MaxPlain   \* bounds

ASSUME SessionsAssumption ==
  /\ {AccessTTL, RefreshTTL, PlainTTL, MaxTime, MaxSessions, MaxFailures, MaxRefresh, MaxPlain} \subseteq Nat
  /\ MaxSessionsPerUser \in Nat \ {0} /\ Window \in Nat \ {0} /\ Burst \in Nat \ {0}

VARIABLES
  now,
  sessions,  \* in order of creation: [user, refresh, expires, revoked]
  access,    \* access tokens: [session, expires]
  refreshes, \* refresh tokens made
  spent,     \* refresh tokens exchanged for another one
  plain,     \* tokens without a session: [user, expires]
  failed,    \* failed_logins: name -> the attempts whose times it keeps
  attempts,  \* every failed login: [name, time]
  alerts     \* the alerts of the audit log: [actor, action, time]

vars == <<now, sessions, access, refreshes, spent, plain, failed, attempts, alerts>>

Names == Users \cup Strangers

Init ==
  /\ now = 0
  /\ sessions = <<>> /\ access = {} /\ refreshes = 0 /\ spent = {} /\ plain = {}
  /\ failed = [n \in Names |-> {}] /\ attempts = <<>>
  /\ alerts = {}

-----------------------------------------------------------------------------
\* append; of the events only those are kept that _maybe_alert tells of.
CriticalActions == {"login.failed_burst"}
Log(entries) ==
  alerts' = alerts \cup { [actor |-> e.actor, action |-> e.action, time |-> now] :
                            e \in {f \in ToSet(entries) : f.action \in CriticalActions
                                                              \/ f.result = "DENIED"} }
Event(actor, action, result) == [actor |-> actor, action |-> action, result |-> result]

\* A session that may still be used
Live(s) == ~s.revoked /\ now =< s.expires

\* parse_access
Accepts(token) == now =< token.expires /\ Live(sessions[token.session])
\* parse_token of the tokens without a session
AcceptsPlain(token) == now =< token.expires

-----------------------------------------------------------------------------
\* The oldest sessions of a user that make room for one more; expired ones count.
ActiveOf(u) == SelectSeq([k \in DOMAIN sessions |-> k],
                         LAMBDA k : sessions[k].user = u /\ ~sessions[k].revoked)
RevokedFor(u) ==
  LET active == ActiveOf(u)
  IN {active[k] : k \in {n \in DOMAIN active : n =< Len(active) - MaxSessionsPerUser + 1}}

Revoked(ids) ==
  [k \in DOMAIN sessions |->
     IF k \in ids THEN [sessions[k] EXCEPT !.revoked = TRUE] ELSE sessions[k]]

\* create_session
Login(u) ==
  LET new == [ user |-> u, refresh |-> refreshes + 1, expires |-> now + RefreshTTL, revoked |-> FALSE ]
  IN /\ Len(sessions) < MaxSessions
     /\ sessions' = Append(Revoked(RevokedFor(u)), new)
     /\ refreshes' = refreshes + 1
     /\ access' = access \cup {[session |-> Len(sessions) + 1, expires |-> now + AccessTTL]}
     /\ Log(<<Event(u, "login", "OK")>>)
     /\ UNCHANGED <<now, spent, plain, failed, attempts>>

\* record_failed_login: the new one is added to those kept, and the old are dropped.
KeptOfOthers(old) ==
  {k \in old : now - attempts[k].time < Window - 1} \cup {Len(attempts) + 1}
Kept(old) ==
  {k \in old : now - attempts[k].time < Window} \cup {Len(attempts) + 1}

FailLogin(n) ==
  /\ Len(attempts) < MaxFailures
  /\ failed' = [failed EXCEPT ![n] = Kept(failed[n])]
  /\ attempts' = Append(attempts, [name |-> n, time |-> now])
  /\ Log(<<Event(n, "login.failed", "DENIED")>>
           \o (IF Cardinality(failed'[n]) >= Burst THEN <<Event(n, "login.failed_burst", "DENIED")>> ELSE <<>>))
  /\ UNCHANGED <<now, sessions, access, refreshes, spent, plain>>

\* refresh: the session keeps its end, its refresh token is replaced.
RefreshInPlace(k) ==
  /\ Live(sessions[k]) /\ refreshes < MaxRefresh
  /\ refreshes' = refreshes + 1 /\ spent' = spent \cup {sessions[k].refresh}
  /\ access' = access \cup {[session |-> k, expires |-> now + AccessTTL]}
  /\ UNCHANGED <<now, sessions, plain, failed, attempts, alerts>>
RefreshReopens(k) ==
  /\ now =< sessions[k].expires /\ refreshes < MaxRefresh
  /\ refreshes' = refreshes + 1 /\ spent' = spent \cup {sessions[k].refresh}
  /\ sessions' = [sessions EXCEPT ![k] = [ user |-> sessions[k].user, refresh |-> refreshes + 1,
                                           expires |-> now + RefreshTTL, revoked |-> FALSE ]]
  /\ access' = access \cup {[session |-> k, expires |-> now + AccessTTL]}
  /\ UNCHANGED <<now, plain, failed, attempts, alerts>>
Refresh(k) ==
  /\ Live(sessions[k]) /\ refreshes < MaxRefresh
  /\ refreshes' = refreshes + 1 /\ spent' = spent \cup {sessions[k].refresh}
  /\ sessions' = [sessions EXCEPT ![k].refresh = refreshes + 1]
  /\ access' = access \cup {[session |-> k, expires |-> now + AccessTTL]}
  /\ UNCHANGED <<now, plain, failed, attempts, alerts>>

Revoke(k) ==
  /\ ~sessions[k].revoked
  /\ sessions' = Revoked({k})
  /\ UNCHANGED <<now, access, refreshes, spent, plain, failed, attempts, alerts>>

RevokeAll(u) ==
  /\ ActiveOf(u) # <<>>
  /\ sessions' = Revoked(ToSet(ActiveOf(u)))
  /\ UNCHANGED <<now, access, refreshes, spent, plain, failed, attempts, alerts>>

-----------------------------------------------------------------------------
\* /auth/login
PlainLogin(u) ==
  /\ Cardinality(plain) < MaxPlain
  /\ plain' = plain \cup {[user |-> u, expires |-> now + PlainTTL]}
  /\ UNCHANGED <<now, sessions, access, refreshes, spent, failed, attempts, alerts>>

\* /auth/v2/logout takes a token without a session and ends nothing.
Logout(token) ==
  /\ AcceptsPlain(token)
  /\ Log(<<Event(token.user, "logout", "OK")>>)
  /\ UNCHANGED <<now, sessions, access, refreshes, spent, plain, failed, attempts>>

TimePasses ==
  /\ now < MaxTime
  /\ now' = now + 1
  /\ UNCHANGED <<sessions, access, refreshes, spent, plain, failed, attempts, alerts>>

SessionNext ==
  \/ \E u \in Users : Login(u) \/ RevokeAll(u)
  \/ \E k \in DOMAIN sessions : Refresh(k) \/ Revoke(k)
FailureNext == \E n \in Names : FailLogin(n)
PlainNext ==
  \/ \E u \in Users : PlainLogin(u)
  \/ \E token \in plain : Logout(token)

Next == SessionNext \/ FailureNext \/ PlainNext \/ TimePasses

Spec == Init /\ [][Next]_vars

-----------------------------------------------------------------------------
\* Tokens belong to sessions that exist, and alerts to names.
TypeOK ==
  /\ now \in 0 .. MaxTime
  /\ \A k \in DOMAIN sessions :
       sessions[k].user \in Users /\ sessions[k].refresh \in 1 .. refreshes
  /\ \A token \in access : token.session \in DOMAIN sessions
  /\ spent \subseteq 1 .. refreshes
  /\ \A e \in alerts : e.actor \in Names /\ e.time =< now

\* A refresh token is exchanged once: whatever was exchanged opens no session any more, and
\* no two sessions share one.
RefreshIsSpentOnce ==
  /\ \A k \in DOMAIN sessions : sessions[k].refresh \notin spent
  /\ \A k, m \in DOMAIN sessions : k # m => sessions[k].refresh # sessions[m].refresh

\* A token that is not accepted any more, because it or its session expired or the session was
\* revoked by its user or lost to newer ones, is never accepted again.
RejectedStaysRejected ==
  [][ \A token \in access : ~Accepts(token) => ~Accepts(token)' ]_vars

\* Whenever Burst failures for one name lie within Window, an alert tells of the burst at the
\* time of the last of them, whichever names failed in between.
BurstsAreAlerted ==
  \A k \in DOMAIN attempts :
    LET n == attempts[k].name
        before == {m \in 1 .. k : attempts[m].name = n /\ attempts[k].time - attempts[m].time < Window}
    IN Cardinality(before) >= Burst
       => [actor |-> n, action |-> "login.failed_burst", time |-> attempts[k].time] \in alerts
=============================================================================
