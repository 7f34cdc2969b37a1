SPECIFICATION FairSpec
CONSTANTS
  s1 = s1
  s2 = s2
  Symbols = {s1, s2}
  Expiration <- TwoExpirations
  MinDaysToExpiration = 2
  ForceExitDays = 1
  MaxOpenPositions = 2
  MaxDailyTrades = 3
  AllowPartial = TRUE
  PartialCloses = TRUE
  NoOrder = NoOrder
  MaxQuantity = 2
  MaxResting = 2
  MaxDay = 2
INVARIANTS ShortsNeedASplit RestingIsForcedExit
PROPERTIES ExpiringIsSold EmergencyOnlyUnwinds
