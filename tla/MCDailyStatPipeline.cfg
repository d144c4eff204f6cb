SPECIFICATION Spec
CONSTANTS
  Workers = {w1, w2}
  Feed <- MCFeed
  Capacity <- MCCapacity
  BatchSize = 2
  Priceless <- MCPriceless
INVARIANTS
  EachTickerOnce
  ChannelsCloseOnInterrupt
PROPERTIES
  ReceivedIsWritten
  InterruptEnds
CHECK_DEADLOCK FALSE
