SPECIFICATION MCSpec
CONSTANTS
  near = near
  alike = alike
  later = later
  u = u
  NoPrice = NoPrice
  NoQuote = NoQuote
  NoGreeks = NoGreeks
  NoContract = NoContract
  NoPortfolio = NoPortfolio
  Contracts <- Chain
  Underlying <- OneUnderlying
  Type <- Calls
  Strike <- Strikes
  Days <- Expirations
  Spot = 1000
  HistoricalVol = 3000
  Quotes <- SomeQuotes
  Listings <- SomeListings
  Peso = 1000
  MaxQuoteAge = 120
  MaxSpread = 800
  MinVolume = 10
  MinDays = 5
  MaxDays = 60
  DailyTradeLimit = 3
  MaxOpenPositions = 2
  MaxPerUnderlying = 2
  MinReserve = 1500
  MaxTotalPremium = 6500
  PositionPct = 70
  CapitalAtRisk = 6500
  LossPerTrade = 2500
  RejectionsToTrip = 2
  ErrorsToTrip = 2
  SelectorMinDays = 7
  SelectorMaxDays = 45
  SelectorMaxSpread = 800
  SelectorMinVolume = 10
  SelectorMaxAge = 300
  MaxPremium = 10000
  ContractSize = 1
  PerUnderlying = 2
  PerExpiry = 1
  InitialCash = 9000
  MaxDailyTrades = 3
  MaxCapital = 4000
  ConfirmCycles = 2
  StrategyMaxDays = 30
  Positions = {near}
  NoPosition = NoPosition
  Prices = {100, 105, 128}
  TakeProfit = 25
  StopLoss = 20
  TrailingStop = 15
  MaxHolding = 1
  LastHeldDay = 0
  LastDay = 1
INVARIANTS LimitsKept WinnerIsBuyable TrailingStopNeverFires
