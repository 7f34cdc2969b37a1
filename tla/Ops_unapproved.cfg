SPECIFICATION MCSpec
CONSTANTS
  Users = {admin, trader}
  Strangers = {nobody}
  AccessTTL = 1
  RefreshTTL = 2
  PlainTTL = 1
  MaxSessionsPerUser = 2
  Window = 2
  Burst = 3
  MaxTime = 4
  MaxSessions = 3
  MaxFailures = 5
  MaxRefresh = 5
  MaxPlain = 2
  Strategies = {s1, s2}
  Admins = {ana, bea}
  Nobody = Nobody
  Commits = {c1, c2}
  MaxRequests = 2
  MaxDays = 2
CHECK_DEADLOCK FALSE
INVARIANTS LiveNeedsApproval
