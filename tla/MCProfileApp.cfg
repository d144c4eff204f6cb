SPECIFICATION Spec
CONSTANTS
  c1 = c1
  c2 = c2
  p1 = p1
  p2 = p2
  NoPubsub = NoPubsub
  Conns <- MCConns
  Pubsubs <- MCPubsubs
  ChanCap = 1
INVARIANT ListenersFollowSubscription
CHECK_DEADLOCK FALSE
PROPERTIES
  ConnectionsAreServed
  ProcessEnds
