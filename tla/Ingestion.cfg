SPECIFICATION MCSpec
CONSTANTS
  ggal = ggal
  other = other
  Absent = Absent
  Empty = Empty
  Text = Text
  Fraction = Fraction
  Files <- SomeFiles
  KnownSymbols = {ggal}
  MarketOpen = 11
  MarketClose = 17
  MaxImports = 2
  MaxContents = 2
  Default = 1000
  Universe = {ggal}
  Spots = {11}
  AroundPanel = 1
  AroundListed = 1
  Panels <- SomePanels
  Reference <- UnknownPrices
  Listed <- SomeListed
  Ladder <- NoLadder
  TTL = 2
  NoSpot = NoSpot
  Failed = Failed
  Undated = Undated
  Garbled = Garbled
  LastTime = 4
CHECK_DEADLOCK FALSE
INVARIANTS NothingIsLost DuplicatesAreMarked OldOnlyAfterFailure
