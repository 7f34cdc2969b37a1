CONSTANTS
  None = None
  s1 = s1
  s2 = s2
  Symbols = {s1, s2}
  Requests <- SomeOrders
  Quotes <- AllQuotes
  SlipNum = 1
  SlipDen = 10
  AllowPartial = TRUE
  DefaultSize = 2
  MaxOrders = 4
  InitialCash = 900
  CommNum = 1
  CommDen = 10
SPECIFICATION Spec
INVARIANTS
  TypeOK
  BookConsistent
  NoOrphanReservation
  PositionsMatchFills
  NoMoneyCreated
PROPERTIES
  ImplementsLifecycle
