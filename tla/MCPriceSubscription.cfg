SPECIFICATION JoinedSpec
CONSTANTS
  u1 = u1
  u2 = u2
  c1 = c1
  c2 = c2
  c3 = c3
  btc = btc
  w1 = w1
  NoConn = NoConn
  NoWorker = NoWorker
  NoSymbol = NoSymbol
  Users <- MCUsers
  Conns <- MCConns
  UserOf <- MCUserOf
  Symbols <- MCSymbols
  Portfolios <- MCPortfolios
  Workers <- MCWorkers
  SendCap = 1
  MsgCap = 1
  MaxRetries = 1
  ChanCap = 1
  MaxLate = 0
INVARIANTS
  SubscribedSymbolIsFollowed
CHECK_DEADLOCK FALSE
