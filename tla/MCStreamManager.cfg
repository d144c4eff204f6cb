SPECIFICATION Spec
CONSTANTS
  btc = btc
  eth = eth
  BTC = BTC
  u1 = u1
  u2 = u2
  w1 = w1
  w2 = w2
  NoWorker = NoWorker
  NoSymbol = NoSymbol
  Symbols <- MCSymbols
  Spellings <- MCSpellings
  Lower <- MCLower
  Users <- MCUsers
  Workers <- MCWorkers
  MaxRetries = 2
  ChanCap = 1
  MaxLate = 1
INVARIANTS
  EntriesMatchWorkers
  OneStreamPerSymbol
  UnfollowedIsCancelled
PROPERTIES
  CancelsOnlyUnfollowed
  WaitCoversStreams
  CancelledWorkerEnds
  ShutdownCompletes
  RefinesFeed
