SPECIFICATION Spec
CONSTANTS
  u1 = u1
  u2 = u2
  c1 = c1
  c2 = c2
  c3 = c3
  btc = btc
  NoConn = NoConn
  Users <- MCUsers
  Conns <- MCConns
  UserOf <- MCUserOf
  Symbols <- MCSymbols
  Portfolios <- MCPortfolios
  SendCap = 1
  MsgCap = 1
INVARIANTS
  OpenConnectionStaysRegistered
CHECK_DEADLOCK FALSE
