SPECIFICATION StatSpec
CONSTANTS
  btc = btc
  eth = eth
  Nil = Nil
  Symbols <- MCSymbols
  MaxTrades = 1
  RawCap = 1
  TradeCap = 1
  OutCap = 1
INVARIANT RunsUntilInterrupt
PROPERTIES
  LatestIsPublished
  StatInterruptEnds
CHECK_DEADLOCK FALSE
