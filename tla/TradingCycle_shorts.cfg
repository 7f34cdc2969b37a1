SPECIFICATION Spec
CONSTANTS
  s1 = s1
  s2 = s2
  Symbols = {s1}
  Expiration <- TwoExpirations
  MinDaysToExpiration = 2
  ForceExitDays = 1
  MaxOpenPositions = 1
  MaxDailyTrades = 4
  AllowPartial = FALSE
  PartialCloses = TRUE
  NoOrder = NoOrder
  MaxQuantity = 2
  MaxResting = 1
  MaxDay = 2
INVARIANTS NoShorts
