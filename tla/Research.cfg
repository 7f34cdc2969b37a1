SPECIFICATION MCSpec
CONSTANTS
  u1 = u1
  u2 = u2
  c1 = c1
  c2 = c2
  Universe <- TwoUnderlyings
  Contracts = {c1, c2}
  Underlying <- EachItsOwn
  Expiration <- ExpirationOf
  LastDay = 6
  Closed = {4}
  Today = 2
  Histories <- Varying
  NoChain = NoChain
  NoQuote = NoQuote
  NoPrice = NoPrice
  MinDaysToExpiration = 3
  ForceExitDays = 2
  InitialCash = 610
  CommissionPct = 2
  MaxQuantity = 3
  p1 = p1
  p2 = p2
  p3 = p3
  p4 = p4
  Params = {p1, p2, p3, p4}
  Crossed = {p4}
  Periods = {0, 7, 8, 50}
  MaxStored = 1
  Nothing = Nothing
  Samples <- SomeSamples
  Results <- SomeResults
  MaxHazards = 2
  Losses = {0, 15, 30}
  NoReport = NoReport
CHECK_DEADLOCK FALSE
INVARIANTS NoLookAhead ReportIsRight PastIsNotTraded TestIsHonest VerdictIsForegone
