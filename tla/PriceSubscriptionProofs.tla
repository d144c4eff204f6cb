----------------------- MODULE PriceSubscriptionProofs ------------------------
(***************************************************************************)
(* Theorems about the Profile's manager (WsManager) and about its joining  *)
(* with the Aggregator (PriceSubscription), for any users, symbols,        *)
(* connections, portfolios and streams.                                    *)
(***************************************************************************)
EXTENDS PriceSubscription, SequenceTheorems, TLAPS

-------------------------------------------------------------------------------
(* The manager by itself.  A connection that its handler still holds has   *)
(* an open Send and no Writer (Unlaunched), so it is not the one m.clients *)
(* names for its user and registering it replaces another; the rest of the *)
(* invariant is the properties themselves.                                 *)

(* A client the handler has not launched. *)
Unlaunched ==
    \A c \in Conns : reader[c] \in {"none", "registering"} =>
        sendOpen[c] /\ writer[c] = "none"

IInv == MapsAgree /\ RegisteredCanReceive /\ FollowsItsPortfolio /\ Unlaunched

(* The manager starts without clients. *)
LEMMA InitIInv == Init => IInv
<1> SUFFICES ASSUME Init PROVE IInv
  OBVIOUS
<1> USE WsManagerAssumption DEF Init
<1>1. messages \in Seq(Symbols) /\ Len(messages) <= MsgCap
  BY EmptySeq
<1>2. TypeOK
  BY <1>1 DEF TypeOK, ReaderPhases, WriterPhases
<1> QED
  BY <1>2 DEF IInv, MapsAgree, SubscribersAreRegistered, RedisMatchesFollowers,
              RegisteredCanReceive, FollowsItsPortfolio, Unlaunched, Registered

(* followCoin for each coin adds the user to the followers of the portfolio *)
(* and leaves no subscription without a follower.                           *)
LEMMA FollowCoinsKeeps ==
    ASSUME TypeOK, RedisMatchesFollowers, NEW c \in Conns, NEW failed, FollowCoins(c, failed)
    PROVE  /\ coinSubscribers' \in [Symbols -> SUBSET Users]
           /\ activeRedisSub' \in SUBSET Symbols /\ subscriptions' \in SUBSET Symbols
           /\ RedisMatchesFollowers'
           /\ \A s \in Symbols : /\ coinSubscribers[s] \subseteq coinSubscribers'[s]
                                 /\ coinSubscribers'[s] \subseteq coinSubscribers[s] \cup {UserOf[c]}
           /\ \A s \in profile[c] : UserOf[c] \in coinSubscribers'[s]
<1>1. UserOf[c] \in Users /\ profile[c] \in SUBSET Symbols
  BY WsManagerAssumption DEF TypeOK
<1>2. /\ coinSubscribers' = [s \in Symbols |->
             IF s \in profile[c] THEN coinSubscribers[s] \cup {UserOf[c]} ELSE coinSubscribers[s]]
      /\ activeRedisSub' = activeRedisSub \cup (Unsubscribed(c) \ failed)
      /\ subscriptions' = subscriptions \cup (Unsubscribed(c) \ failed)
      /\ Unsubscribed(c) \subseteq profile[c]
  BY DEF FollowCoins, Unsubscribed
<1>3. coinSubscribers' \in [Symbols -> SUBSET Users]
  BY <1>1, <1>2 DEF TypeOK
<1>4. activeRedisSub' \in SUBSET Symbols /\ subscriptions' \in SUBSET Symbols
  BY <1>1, <1>2 DEF TypeOK
<1>5. \A s \in activeRedisSub' : coinSubscribers'[s] # {}
  BY <1>1, <1>2 DEF TypeOK, RedisMatchesFollowers
<1>6. \A s \in Symbols : /\ coinSubscribers[s] \subseteq coinSubscribers'[s]
                         /\ coinSubscribers'[s] \subseteq coinSubscribers[s] \cup {UserOf[c]}
  BY <1>2
<1>7. \A s \in profile[c] : UserOf[c] \in coinSubscribers'[s]
  BY <1>1, <1>2
<1> QED
  BY <1>2, <1>3, <1>4, <1>5, <1>6, <1>7 DEF RedisMatchesFollowers

(* A registered client is not one that is being registered, and the        *)
(* clients of two users differ.                                            *)
LEMMA RegisterKeeps ==
    ASSUME IInv, NEW c \in Conns, NEW failed \in SUBSET Symbols, Register(c, failed)
    PROVE  IInv'
<1> DEFINE u == UserOf[c]
           old == clients[u]
<1> USE WsManagerAssumption
<1>1. TypeOK /\ u \in Users
  BY DEF IInv, MapsAgree
<1>2. /\ clients' = [clients EXCEPT ![u] = c]
      /\ sendOpen' = IF old = NoConn THEN sendOpen ELSE [sendOpen EXCEPT ![old] = FALSE]
      /\ socketOpen' = IF old = NoConn THEN socketOpen ELSE [socketOpen EXCEPT ![old] = FALSE]
      /\ reader' = [reader EXCEPT ![c] = "reading"]
      /\ writer' = [writer EXCEPT ![c] = "running"]
      /\ UNCHANGED <<messages, profile, backlog, loop>>
  BY DEF Register, Launch
<1>3. RedisMatchesFollowers /\ FollowCoins(c, failed) /\ reader[c] = "registering"
  BY DEF IInv, MapsAgree, Register
<1>4. /\ coinSubscribers' \in [Symbols -> SUBSET Users]
      /\ activeRedisSub' \in SUBSET Symbols /\ subscriptions' \in SUBSET Symbols
      /\ RedisMatchesFollowers'
      /\ \A s \in Symbols : /\ coinSubscribers[s] \subseteq coinSubscribers'[s]
                            /\ coinSubscribers'[s] \subseteq coinSubscribers[s] \cup {u}
      /\ \A s \in profile[c] : u \in coinSubscribers'[s]
  BY <1>1, <1>3, FollowCoinsKeeps
<1>5. sendOpen[c] /\ writer[c] = "none"
  BY <1>3 DEF IInv, Unlaunched
<1>6. c # NoConn /\ c # old
  BY <1>1, <1>5 DEF IInv, RegisteredCanReceive, Registered
<1>7. TypeOK'
  <2>1. /\ clients' \in [Users -> Conns \cup {NoConn}]
        /\ reader' \in [Conns -> ReaderPhases] /\ writer' \in [Conns -> WriterPhases]
    BY <1>1, <1>2 DEF TypeOK, ReaderPhases, WriterPhases
  <2>2. sendOpen' \in [Conns -> BOOLEAN] /\ socketOpen' \in [Conns -> BOOLEAN]
    BY <1>1, <1>2 DEF TypeOK
  <2> QED
    BY <1>1, <1>2, <1>4, <2>1, <2>2 DEF TypeOK
<1>8. SubscribersAreRegistered'
  <2>1. \A v \in Users : clients'[v] = IF v = u THEN c ELSE clients[v]
    BY <1>1, <1>2 DEF TypeOK
  <2> QED
    BY <1>1, <1>4, <1>6, <2>1 DEF IInv, MapsAgree, SubscribersAreRegistered, Registered, TypeOK
<1>9. RegisteredCanReceive'
  <2> SUFFICES ASSUME NEW v \in Users, clients'[v] # NoConn
               PROVE  /\ UserOf[clients'[v]] = v
                      /\ sendOpen'[clients'[v]] /\ writer'[clients'[v]] # "none"
    BY DEF RegisteredCanReceive, Registered
  <2>1. CASE v = u
    BY <1>1, <1>2, <1>5, <1>6, <2>1 DEF TypeOK
  <2>2. CASE v # u
    <3>1. clients'[v] = clients[v] /\ clients[v] \in Conns
      BY <1>1, <1>2, <2>2 DEF TypeOK
    <3>2. UserOf[clients[v]] = v /\ sendOpen[clients[v]] /\ writer[clients[v]] # "none"
      BY <3>1 DEF IInv, RegisteredCanReceive, Registered
    <3>3. clients[v] # old
      BY <1>1, <2>2, <3>1, <3>2 DEF IInv, RegisteredCanReceive, Registered
    <3>4. clients[v] # c
      BY <1>5, <3>2
    <3> QED
      BY <1>1, <1>2, <3>1, <3>2, <3>3, <3>4 DEF TypeOK
  <2> QED
    BY <2>1, <2>2
<1>10. FollowsItsPortfolio'
  <2> SUFFICES ASSUME NEW v \in Users, clients'[v] # NoConn, NEW s \in profile'[clients'[v]]
               PROVE  v \in coinSubscribers'[s]
    BY DEF FollowsItsPortfolio, Registered
  <2>1. CASE v = u
    BY <1>1, <1>2, <1>4, <2>1 DEF TypeOK
  <2>2. CASE v # u
    <3>1. clients'[v] = clients[v] /\ clients[v] \in Conns /\ s \in profile[clients[v]]
      BY <1>1, <1>2, <2>2 DEF TypeOK
    <3>2. s \in Symbols /\ v \in coinSubscribers[s]
      BY <1>1, <3>1 DEF IInv, FollowsItsPortfolio, Registered, TypeOK
    <3> QED
      BY <1>4, <3>2
  <2> QED
    BY <2>1, <2>2
<1>11. Unlaunched'
  <2> SUFFICES ASSUME NEW d \in Conns, reader'[d] \in {"none", "registering"}
               PROVE  sendOpen'[d] /\ writer'[d] = "none"
    BY DEF Unlaunched
  <2>1. d # c /\ reader[d] = reader'[d]
    BY <1>1, <1>2 DEF TypeOK
  <2>2. sendOpen[d] /\ writer[d] = "none"
    BY <2>1 DEF IInv, Unlaunched
  <2>3. d # old
    BY <1>1, <2>2 DEF IInv, RegisteredCanReceive, Registered
  <2> QED
    BY <1>1, <1>2, <2>1, <2>2, <2>3 DEF TypeOK
<1> QED
  BY <1>4, <1>7, <1>8, <1>9, <1>10, <1>11 DEF IInv, MapsAgree

(* unfollowAllCoins takes a user out of all that names it, and only him.    *)
LEMMA UnregisterKeeps == ASSUME IInv, NEW c \in Conns, Unregister(c) PROVE IInv'
<1> DEFINE u == UserOf[c]
<1> USE WsManagerAssumption
<1>1. TypeOK /\ u \in Users
  BY DEF IInv, MapsAgree
<1>2. /\ reader[c] = "unregistering"
      /\ reader' = [reader EXCEPT ![c] = "closing"]
      /\ profile' = [profile EXCEPT ![c] = {}]
      /\ UNCHANGED <<messages, writer, sendOpen, backlog, socketOpen, loop>>
  BY DEF Unregister
<1>3. Unlaunched'
  BY <1>1, <1>2 DEF IInv, Unlaunched, TypeOK
<1>4. \A d \in Conns : profile'[d] \subseteq profile[d]
  BY <1>1, <1>2 DEF TypeOK
<1>5. CASE Registered(u)
  <2>1. /\ clients' = [clients EXCEPT ![u] = NoConn]
        /\ coinSubscribers' = [s \in Symbols |-> coinSubscribers[s] \ {u}]
        /\ activeRedisSub' = activeRedisSub \ LeftBy(u)
        /\ subscriptions' = subscriptions \ LeftBy(u)
    BY <1>5 DEF Unregister, UnfollowAll
  <2>2. TypeOK'
    BY <1>1, <1>2, <2>1 DEF TypeOK, ReaderPhases
  <2>3. \A v \in Users : clients'[v] = IF v = u THEN NoConn ELSE clients[v]
    BY <1>1, <2>1 DEF TypeOK
  <2>4. SubscribersAreRegistered'
    BY <1>1, <2>1, <2>3 DEF IInv, MapsAgree, SubscribersAreRegistered, Registered, TypeOK
  <2>5. RedisMatchesFollowers'
    <3>1. ASSUME NEW s \in activeRedisSub' PROVE coinSubscribers'[s] # {}
      <4>1. s \in Symbols /\ coinSubscribers[s] # {} /\ coinSubscribers[s] # {u}
        BY <1>1, <2>1 DEF IInv, MapsAgree, RedisMatchesFollowers, LeftBy, TypeOK
      <4> QED
        BY <2>1, <4>1
    <3> QED
      BY <2>1, <3>1 DEF IInv, MapsAgree, RedisMatchesFollowers
  <2>6. RegisteredCanReceive'
    BY <1>2, <2>3 DEF IInv, RegisteredCanReceive, Registered
  <2>7. FollowsItsPortfolio'
    <3> SUFFICES ASSUME NEW v \in Users, clients'[v] # NoConn, NEW s \in profile'[clients'[v]]
                 PROVE  v \in coinSubscribers'[s]
      BY DEF FollowsItsPortfolio, Registered
    <3>1. v # u /\ clients'[v] = clients[v] /\ clients[v] \in Conns
      BY <1>1, <2>3 DEF TypeOK
    <3>2. s \in profile[clients[v]] /\ s \in Symbols
      BY <1>1, <1>4, <3>1 DEF TypeOK
    <3>3. v \in coinSubscribers[s]
      BY <3>1, <3>2 DEF IInv, FollowsItsPortfolio, Registered
    <3> QED
      BY <2>1, <3>1, <3>2, <3>3
  <2> QED
    BY <1>3, <2>2, <2>4, <2>5, <2>6, <2>7 DEF IInv, MapsAgree
<1>6. CASE ~Registered(u)
  <2>1. UNCHANGED <<clients, coinSubscribers, activeRedisSub, subscriptions>>
    BY <1>6 DEF Unregister, manager
  <2>2. TypeOK'
    BY <1>1, <1>2, <2>1 DEF TypeOK, ReaderPhases
  <2>3. SubscribersAreRegistered' /\ RedisMatchesFollowers' /\ RegisteredCanReceive'
    BY <1>2, <2>1 DEF IInv, MapsAgree, SubscribersAreRegistered, RedisMatchesFollowers,
                      RegisteredCanReceive, Registered
  <2>4. FollowsItsPortfolio'
    BY <1>1, <1>4, <2>1 DEF IInv, FollowsItsPortfolio, Registered, TypeOK
  <2> QED
    BY <1>3, <2>2, <2>3, <2>4 DEF IInv, MapsAgree
<1> QED
  BY <1>5, <1>6

(* What leaves the manager's maps, the portfolios and Send alone and       *)
(* launches nobody keeps the invariant.                                    *)
LEMMA AsideKeeps ==
    ASSUME IInv, TypeOK', UNCHANGED <<manager, profile, sendOpen>>,
           \A c \in Conns : writer'[c] = "none" <=> writer[c] = "none",
           \A c \in Conns : reader'[c] \in {"none", "registering"} =>
                              reader[c] \in {"none", "registering"}
    PROVE  IInv'
<1>1. SubscribersAreRegistered' /\ RedisMatchesFollowers' /\ FollowsItsPortfolio'
  BY DEF IInv, MapsAgree, SubscribersAreRegistered, RedisMatchesFollowers,
         FollowsItsPortfolio, Registered, manager
<1>2. RegisteredCanReceive'
  BY DEF IInv, MapsAgree, TypeOK, RegisteredCanReceive, Registered, manager
<1>3. Unlaunched'
  BY DEF IInv, Unlaunched
<1> QED
  BY <1>1, <1>2, <1>3 DEF IInv, MapsAgree

(* A connection that nobody launched is nobody's client: its portfolio may *)
(* change.                                                                 *)
LEMMA ConnectKeeps ==
    ASSUME IInv, NEW c \in Conns, NEW coins \in Portfolios, Connect(c, coins)
    PROVE  IInv'
<1> USE WsManagerAssumption
<1>1. TypeOK
  BY DEF IInv, MapsAgree
<1>2. /\ reader[c] = "none"
      /\ profile' = [profile EXCEPT ![c] = coins]
      /\ reader' = [reader EXCEPT ![c] = "registering"]
      /\ socketOpen' = [socketOpen EXCEPT ![c] = TRUE]
      /\ UNCHANGED <<clients, coinSubscribers, activeRedisSub, subscriptions,
                     messages, writer, sendOpen, backlog, loop>>
  BY DEF Connect, manager
<1>3. TypeOK'
  BY <1>1, <1>2 DEF TypeOK, ReaderPhases
<1>4. \A v \in Users : Registered(v) => clients[v] # c
  BY <1>2 DEF IInv, Unlaunched, RegisteredCanReceive
<1>5. FollowsItsPortfolio'
  BY <1>1, <1>2, <1>4 DEF IInv, FollowsItsPortfolio, Registered, TypeOK
<1>6. SubscribersAreRegistered' /\ RedisMatchesFollowers' /\ RegisteredCanReceive'
  BY <1>2 DEF IInv, MapsAgree, SubscribersAreRegistered, RedisMatchesFollowers,
              RegisteredCanReceive, Registered
<1>7. Unlaunched'
  BY <1>1, <1>2 DEF IInv, Unlaunched, TypeOK
<1> QED
  BY <1>3, <1>5, <1>6, <1>7 DEF IInv, MapsAgree

(* The goroutines of a client, and the messages between them.              *)
LEMMA ClientKeeps ==
    ASSUME IInv, NEW c \in Conns,
           ReadFails(c) \/ ReaderCloses(c) \/ WriterSends(c) \/ WriterEnds(c)
    PROVE  IInv'
<1> USE WsManagerAssumption
<1>1. TypeOK
  BY DEF IInv, MapsAgree
<1>2. CASE ReadFails(c)
  BY <1>1, <1>2, AsideKeeps DEF ReadFails, manager, TypeOK, ReaderPhases
<1>3. CASE ReaderCloses(c)
  BY <1>1, <1>3, AsideKeeps DEF ReaderCloses, manager, TypeOK, ReaderPhases
<1>4. CASE WriterSends(c)
  BY <1>1, <1>4, AsideKeeps DEF WriterSends, sockets, manager, TypeOK
<1>5. CASE WriterEnds(c)
  <2>1. backlog' \in [Conns -> 0..SendCap]
    <3>1. backlog \in [Conns -> 0..SendCap]
      BY <1>1 DEF TypeOK
    <3>2. CASE backlog' = backlog
      BY <3>1, <3>2
    <3>3. CASE backlog[c] > 0 /\ backlog' = [backlog EXCEPT ![c] = backlog[c] - 1]
      BY <3>1, <3>3
    <3> QED
      BY <1>5, <3>2, <3>3 DEF WriterEnds
  <2>2. /\ writer[c] = "running"
        /\ writer' = [writer EXCEPT ![c] = "done"]
        /\ socketOpen' = [socketOpen EXCEPT ![c] = FALSE]
        /\ UNCHANGED <<clients, coinSubscribers, activeRedisSub, subscriptions,
                       messages, profile, reader, sendOpen, loop>>
    BY <1>5 DEF WriterEnds, manager
  <2>3. TypeOK'
    BY <1>1, <2>1, <2>2 DEF TypeOK, WriterPhases
  <2> QED
    BY <1>1, <2>2, <2>3, AsideKeeps DEF manager, TypeOK
<1> QED
  BY <1>2, <1>3, <1>4, <1>5

LEMMA MessageKeeps ==
    ASSUME IInv, ProcessMessage \/ LoopStops \/ \E s \in Symbols : Publish(s)
    PROVE  IInv'
<1> USE WsManagerAssumption
<1>1. TypeOK
  BY DEF IInv, MapsAgree
<1>2. CASE ProcessMessage
  <2>1. messages' \in Seq(Symbols) /\ Len(messages') <= MsgCap
    BY <1>1, <1>2 DEF ProcessMessage, TypeOK
  <2>2. backlog' \in [Conns -> 0..SendCap]
    BY <1>1, <1>2 DEF ProcessMessage, TypeOK
  <2>3. UNCHANGED <<clients, coinSubscribers, activeRedisSub, subscriptions, profile,
                    reader, writer, socketOpen, sendOpen, loop>>
    BY <1>2 DEF ProcessMessage, manager, sockets
  <2>4. TypeOK'
    BY <1>1, <2>1, <2>2, <2>3 DEF TypeOK
  <2> QED
    BY <2>3, <2>4, AsideKeeps DEF manager
<1>3. ASSUME NEW s \in Symbols, Publish(s) PROVE IInv'
  <2>1. messages' \in Seq(Symbols) /\ Len(messages') <= MsgCap
    BY <1>1, <1>3 DEF Publish, TypeOK
  <2>2. UNCHANGED <<clients, coinSubscribers, activeRedisSub, subscriptions, profile,
                    reader, writer, socketOpen, sendOpen, backlog, loop>>
    BY <1>3 DEF Publish, manager, sockets
  <2>3. TypeOK'
    BY <1>1, <2>1, <2>2 DEF TypeOK
  <2> QED
    BY <2>2, <2>3, AsideKeeps DEF manager
<1>4. CASE LoopStops
  BY <1>1, <1>4, AsideKeeps DEF LoopStops, manager, sockets, TypeOK
<1> QED
  BY <1>2, <1>3, <1>4

LEMMA NextIInv == IInv /\ [Next]_vars => IInv'
<1> SUFFICES ASSUME IInv, [Next]_vars PROVE IInv'
  OBVIOUS
<1>1. CASE Next
  BY <1>1, ConnectKeeps, RegisterKeeps, UnregisterKeeps, ClientKeeps, MessageKeeps DEF Next
<1>2. CASE UNCHANGED vars
  BY <1>2 DEF vars, manager, sockets, IInv, MapsAgree, TypeOK, SubscribersAreRegistered,
              RedisMatchesFollowers, RegisteredCanReceive, FollowsItsPortfolio,
              Unlaunched, Registered
<1> QED
  BY <1>1, <1>2

LEMMA Invariance == Spec => []IInv
BY InitIInv, NextIInv, PTL DEF Spec

(* The maps of the manager and of the subscriber agree, whichever          *)
(* connections replace or leave each other and whichever subscriptions     *)
(* fail, for any number of them (manager.go:98-164).                       *)
THEOREM MapsAlwaysAgree == Spec => []MapsAgree
<1>1. IInv => MapsAgree
  BY DEF IInv
<1> QED
  BY <1>1, Invariance, PTL

(* The client processRedisMessage finds for a user is that user's, and its *)
(* Send is open: no price panics the service (manager.go:104, 178-220).    *)
THEOREM NoSendOnClosed == Spec => []RegisteredCanReceive
<1>1. IInv => RegisteredCanReceive
  BY DEF IInv
<1> QED
  BY <1>1, Invariance, PTL

(* A registered client gets the prices of all its own coins, also after it *)
(* replaced a connection with others (manager.go:102-113).                 *)
THEOREM PortfolioIsFollowed == Spec => []FollowsItsPortfolio
<1>1. IInv => FollowsItsPortfolio
  BY DEF IInv
<1> QED
  BY <1>1, Invariance, PTL

-------------------------------------------------------------------------------
(* The manager and the Aggregator. *)

JoinedTypes ==
    /\ calls \in [Calls -> Nat]
    /\ disturbed \subseteq Symbols
    /\ activeRedisSub \subseteq Symbols
    /\ profile \in [Conns -> SUBSET Symbols]
    /\ followers \in [Symbols -> SUBSET Users]

Get(u, s) == [method |-> "GET", user |-> u, symbol |-> s]
Delete(u, s) == [method |-> "DELETE", user |-> u, symbol |-> s]

(* u follows s at the Aggregator or is about to, and no call on its way    *)
(* ends that.                                                              *)
Follows(u, s) == /\ calls[Delete(u, s)] = 0
                 /\ calls[Get(u, s)] > 0 \/ u \in followers[s]

(* A symbol the Profile listens to is, unless it is disturbed, followed by *)
(* somebody or about to be.                                                *)
Announced == \A s \in activeRedisSub \ disturbed : \E u \in Users : Follows(u, s)

JoinedInv == JoinedTypes /\ Announced

-------------------------------------------------------------------------------
LEMMA CallsAreCalls ==
  \A u \in Users, s \in Symbols : /\ Get(u, s) \in Calls /\ Delete(u, s) \in Calls
                                  /\ Get(u, s).user = u /\ Get(u, s).symbol = s
                                  /\ Delete(u, s).user = u /\ Delete(u, s).symbol = s
                                  /\ Get(u, s).method = "GET" /\ Delete(u, s).method = "DELETE"
                                  /\ [Get(u, s) EXCEPT !.method = "DELETE"] = Delete(u, s)
  BY DEF Get, Delete, Calls

(* Both services start without clients, followers and calls. *)
LEMMA JoinedInitially == JoinedInit => JoinedInv
  BY DEF JoinedInit, Init, Aggregator!Init, JoinedInv, JoinedTypes, Announced

(* Launching calls the others of which do not end what is followed. *)
LEMMA LaunchAdds ==
  ASSUME JoinedTypes, NEW ks \in SUBSET Calls, LaunchCalls(ks)
  PROVE  /\ calls' \in [Calls -> Nat]
         /\ \A k \in ks : calls'[k] > 0
         /\ \A k \in Calls : calls'[k] >= calls[k]
         /\ \A k \in Calls \ ks : calls'[k] = calls[k]
  BY DEF JoinedTypes, LaunchCalls

-------------------------------------------------------------------------------
(* A client registers: each symbol it subscribes has a GET on its way, and *)
(* is disturbed if an older DELETE of the same user is, too.               *)
LEMMA RegisterClientKeeps ==
  ASSUME JoinedInv, NEW c \in Conns, NEW failed \in SUBSET Symbols, RegisterClient(c, failed)
  PROVE  JoinedInv'
<1> DEFINE u == UserOf[c]
           gets == Gets(c)
           new == Unsubscribed(c)
<1>1. u \in Users /\ new \subseteq Symbols
  BY WsManagerAssumption DEF JoinedInv, JoinedTypes, Unsubscribed
<1>2. gets \subseteq Calls /\ \A k \in gets : k.method = "GET" /\ k.user = u /\ k.symbol \in new
  BY <1>1 DEF Gets, Calls
<1>3. \A s \in new : Get(u, s) \in gets
  BY <1>1 DEF Gets, Get
<1>4. /\ calls' \in [Calls -> Nat]
      /\ \A k \in gets : calls'[k] > 0
      /\ \A k \in Calls : calls'[k] >= calls[k]
      /\ \A k \in Calls \ gets : calls'[k] = calls[k]
  BY <1>2, LaunchAdds DEF RegisterClient, JoinedInv
<1>5. UNCHANGED followers
  BY DEF RegisterClient, aggregatorVars
<1>6. activeRedisSub' = activeRedisSub \cup (new \ failed) /\ UNCHANGED profile
  BY DEF RegisterClient, Register, FollowCoins
<1>7. disturbed' \subseteq Symbols
  BY <1>1, <1>2 DEF RegisterClient, Announce, JoinedInv, JoinedTypes
<1>8. JoinedTypes'
  BY <1>1, <1>4, <1>5, <1>6, <1>7 DEF JoinedInv, JoinedTypes
<1>9. ASSUME NEW s \in activeRedisSub' \ disturbed'
      PROVE  \E v \in Users : Follows(v, s)'
  <2>0. s \in Symbols
    BY <1>8 DEF JoinedTypes
  <2>1. CASE s \in new
    <3>1. calls[Delete(u, s)] = 0
      <4>1. ~(calls[[Get(u, s) EXCEPT !.method = "DELETE"]] > 0)
        BY <1>1, <1>3, <2>0, <2>1, CallsAreCalls DEF RegisterClient, Announce
      <4> QED
        BY <1>1, <2>0, <4>1, CallsAreCalls DEF JoinedInv, JoinedTypes
    <3>2. Delete(u, s) \in Calls \ gets
      BY <1>1, <1>2, <2>0, CallsAreCalls
    <3> QED
      BY <1>1, <1>3, <1>4, <2>1, <3>1, <3>2 DEF Follows
  <2>2. CASE s \notin new
    <3>1. s \in activeRedisSub \ disturbed
      BY <1>2, <1>6, <2>2 DEF RegisterClient, Announce
    <3>2. PICK v \in Users : Follows(v, s)
      BY <3>1 DEF JoinedInv, Announced
    <3>3. Delete(v, s) \in Calls \ gets /\ Get(v, s) \in Calls
      BY <1>2, <2>0, CallsAreCalls
    <3> QED
      BY <1>4, <1>5, <3>2, <3>3 DEF Follows, JoinedInv, JoinedTypes
  <2> QED
    BY <2>1, <2>2
<1> QED
  BY <1>8, <1>9 DEF JoinedInv, Announced

(* A client unregisters: calls are launched only for symbols the Profile   *)
(* no longer listens to.                                                   *)
LEMMA UnregisterClientKeeps ==
  ASSUME JoinedInv, NEW c \in Conns, UnregisterClient(c)
  PROVE  JoinedInv'
<1> DEFINE u == UserOf[c]
           left == LeftBy(u)
           deletes == Deletes(c)
<1>1. u \in Users /\ left \subseteq Symbols
  BY WsManagerAssumption DEF LeftBy
<1>2. deletes \subseteq Calls /\ \A k \in deletes : k.symbol \in left /\ k.method = "DELETE"
  BY <1>1 DEF Deletes, Calls
<1>3. /\ calls' \in [Calls -> Nat]
      /\ \A k \in Calls \ deletes : calls'[k] = calls[k]
  BY <1>2, LaunchAdds DEF UnregisterClient, JoinedInv
<1>4. UNCHANGED <<followers, disturbed>>
  BY DEF UnregisterClient, aggregatorVars
<1>5. /\ activeRedisSub' \subseteq activeRedisSub
      /\ deletes # {} => activeRedisSub' = activeRedisSub \ left
  BY DEF UnregisterClient, Unregister, UnfollowAll, Deletes, manager
<1>6. profile' \in [Conns -> SUBSET Symbols]
  BY DEF UnregisterClient, Unregister, JoinedInv, JoinedTypes
<1>7. JoinedTypes'
  BY <1>3, <1>4, <1>5, <1>6 DEF JoinedInv, JoinedTypes
<1>8. ASSUME NEW s \in activeRedisSub' \ disturbed'
      PROVE  \E v \in Users : Follows(v, s)'
  <2>1. s \in activeRedisSub \ disturbed /\ s \in Symbols
    BY <1>4, <1>5 DEF JoinedInv, JoinedTypes
  <2>2. PICK v \in Users : Follows(v, s)
    BY <2>1 DEF JoinedInv, Announced
  <2>3. Get(v, s) \in Calls \ deletes /\ Delete(v, s) \in Calls \ deletes
    BY <1>2, <1>5, <2>1, CallsAreCalls
  <2> QED
    BY <1>3, <1>4, <2>2, <2>3 DEF Follows
<1> QED
  BY <1>7, <1>8 DEF JoinedInv, Announced

-------------------------------------------------------------------------------
(* A call in flight arrives. *)
LEMMA ServeKeeps ==
  ASSUME JoinedInv, NEW k \in Calls, Serve(k)
  PROVE  JoinedInv'
<1>1. /\ calls' \in [Calls -> Nat]
      /\ \A j \in Calls \ {k} : calls'[j] = calls[j]
      /\ calls[k] > 0
  BY DEF Serve, JoinedInv, JoinedTypes
<1>2. UNCHANGED <<activeRedisSub, disturbed, profile>>
  BY DEF Serve, profileVars, vars, manager, sockets
<1>3. k.method \in {"GET", "DELETE"} /\ k.user \in Users /\ k.symbol \in Symbols
  BY DEF Calls
<1>4. /\ followers' \in [Symbols -> SUBSET Users]
      /\ \A s \in Symbols, v \in Users :
           v \in followers[s] => v \in followers'[s] \/ k = Delete(v, s)
      /\ k.method = "GET" => k.user \in followers'[k.symbol]
      /\ k.method = "GET" => \A s \in Symbols : followers[s] \subseteq followers'[s]
  <2>1. CASE k.method = "GET" /\ Aggregator!AddCoin(k.symbol, k.user)
    BY <1>3, <2>1 DEF Aggregator!AddCoin, JoinedInv, JoinedTypes
  <2>2. CASE k.method = "GET" /\ k.user \in followers[k.symbol] /\ UNCHANGED aggregatorVars
    BY <1>3, <2>2 DEF aggregatorVars, JoinedInv, JoinedTypes
  <2>3. CASE k.method = "DELETE" /\ Aggregator!DeleteCoin(k.symbol, k.user)
    <3>1. followers' = [followers EXCEPT ![k.symbol] = @ \ {k.user}]
      BY <1>3, <2>3 DEF Aggregator!DeleteCoin
    <3>2. k = Delete(k.user, k.symbol)
      BY <2>3 DEF Calls, Delete
    <3> QED
      BY <1>3, <2>3, <3>1, <3>2 DEF JoinedInv, JoinedTypes
  <2> QED
    BY <2>1, <2>2, <2>3 DEF Serve
<1>5. ASSUME NEW s \in activeRedisSub' \ disturbed'
      PROVE  \E v \in Users : Follows(v, s)'
  <2>1. s \in activeRedisSub \ disturbed /\ s \in Symbols
    BY <1>2 DEF JoinedInv, JoinedTypes
  <2>2. PICK v \in Users : Follows(v, s)
    BY <2>1 DEF JoinedInv, Announced
  <2>3. k # Delete(v, s) /\ Delete(v, s) \in Calls /\ Get(v, s) \in Calls
    BY <1>1, <2>1, <2>2, CallsAreCalls DEF Follows
  <2>4. calls'[Delete(v, s)] = 0
    BY <1>1, <2>2, <2>3 DEF Follows
  <2>5. CASE v \in followers[s]
    BY <1>4, <2>1, <2>3, <2>4, <2>5 DEF Follows
  <2>6. CASE calls[Get(v, s)] > 0 /\ k # Get(v, s)
    BY <1>1, <2>3, <2>4, <2>6 DEF Follows
  <2>7. CASE k = Get(v, s)
    BY <1>4, <2>1, <2>4, <2>7, CallsAreCalls DEF Follows
  <2> QED
    BY <2>2, <2>5, <2>6, <2>7 DEF Follows
<1> QED
  BY <1>1, <1>2, <1>4, <1>5 DEF JoinedInv, JoinedTypes, Announced

(* A call in flight is lost: a GET disturbs its symbol, and without a      *)
(* DELETE only fewer users stop to follow.                                 *)
LEMMA LoseKeeps ==
  ASSUME JoinedInv, NEW k \in Calls, Lose(k)
  PROVE  JoinedInv'
<1>1. /\ calls' \in [Calls -> Nat]
      /\ \A j \in Calls \ {k} : calls'[j] = calls[j]
      /\ calls[k] > 0
  BY DEF Lose, JoinedInv, JoinedTypes
<1>2. UNCHANGED <<activeRedisSub, profile, followers>>
  BY DEF Lose, profileVars, vars, manager, sockets, aggregatorVars
<1>3. disturbed \subseteq disturbed' /\ disturbed' \subseteq Symbols
  BY DEF Lose, JoinedInv, JoinedTypes, Calls
<1>4. ASSUME NEW s \in activeRedisSub' \ disturbed'
      PROVE  \E v \in Users : Follows(v, s)'
  <2>1. s \in activeRedisSub \ disturbed /\ s \in Symbols
    BY <1>2, <1>3 DEF JoinedInv, JoinedTypes
  <2>2. PICK v \in Users : Follows(v, s)
    BY <2>1 DEF JoinedInv, Announced
  <2>3. k # Delete(v, s) /\ k # Get(v, s) /\ Delete(v, s) \in Calls /\ Get(v, s) \in Calls
    BY <1>1, <2>1, <2>2, CallsAreCalls DEF Follows, Lose
  <2> QED
    BY <1>1, <1>2, <2>2, <2>3 DEF Follows
<1> QED
  BY <1>1, <1>2, <1>3, <1>4 DEF JoinedInv, JoinedTypes, Announced

(* The rest of a client's life, the Aggregator's restart and its streams   *)
(* launch nothing and end no following that is not disturbed.              *)
LEMMA OthersKeep ==
  ASSUME JoinedInv,
         \/ \E c \in Conns : ClientStep(c)
         \/ AggregatorRestarts
         \/ StreamStep
  PROVE  JoinedInv'
<1>1. CASE \E c \in Conns : ClientStep(c)
  <2>1. PICK c \in Conns : ClientStep(c)
    BY <1>1
  <2>2. UNCHANGED <<followers, calls, disturbed>>
    BY <2>1 DEF ClientStep, aggregatorVars
  <2>3. UNCHANGED activeRedisSub /\ profile' \in [Conns -> SUBSET Symbols]
    BY <2>1, WsManagerAssumption
       DEF ClientStep, JoinedInv, JoinedTypes, Connect, ReadFails, ReaderCloses,
           WriterEnds, manager
  <2> QED
    BY <2>2, <2>3 DEF JoinedInv, JoinedTypes, Announced, Follows
<1>2. CASE AggregatorRestarts
  BY <1>2 DEF AggregatorRestarts, profileVars, vars, manager, sockets, JoinedInv, JoinedTypes, Announced
<1>3. CASE StreamStep
  <2>1. UNCHANGED <<activeRedisSub, profile, calls, disturbed>>
    BY <1>3 DEF StreamStep, profileVars, vars, manager, sockets
  <2>2. UNCHANGED followers
    BY <1>3 DEF StreamStep, Aggregator!TakeRaw, Aggregator!Worker, Aggregator!registry,
       Aggregator!Connected, Aggregator!Opened, Aggregator!AttemptFails, Aggregator!Recv,
       Aggregator!Send, Aggregator!StopOnContext, Aggregator!Cleanup
  <2> QED
    BY <2>1, <2>2 DEF JoinedInv, JoinedTypes, Announced, Follows
<1> QED
  BY <1>1, <1>2, <1>3

-------------------------------------------------------------------------------
(* The types and what is announced hold in every reachable state. *)
LEMMA JoinedInvariance == JoinedSpec => []JoinedInv
<1>1. JoinedInit => JoinedInv
  BY JoinedInitially
<1>2. JoinedInv /\ [JoinedNext]_joinedVars => JoinedInv'
  <2> SUFFICES ASSUME JoinedInv, [JoinedNext]_joinedVars PROVE JoinedInv'
    OBVIOUS
  <2>1. CASE JoinedNext
    BY <2>1, RegisterClientKeeps, UnregisterClientKeeps, ServeKeeps, LoseKeeps, OthersKeep DEF JoinedNext
  <2>2. CASE UNCHANGED joinedVars
    BY <2>2 DEF joinedVars, profileVars, vars, manager, sockets, aggregatorVars, JoinedInv, JoinedTypes, Announced, Follows
  <2> QED
    BY <2>1, <2>2
<1> QED
  BY <1>1, <1>2, PTL DEF JoinedSpec

(* Once no call is on its way, a symbol the Profile listens to has a       *)
(* follower at the Aggregator, in whatever order the calls arrived: unless *)
(* a call was lost or overtaken or the Aggregator restarted since the      *)
(* symbol was announced.                                                   *)
THEOREM SubscriptionsAreFollowed == JoinedSpec => []SubscribedSymbolIsFollowed
<1>1. JoinedInv => SubscribedSymbolIsFollowed
  <2> SUFFICES ASSUME JoinedInv, Quiet, NEW s \in activeRedisSub \ disturbed
               PROVE  followers[s] # {}
    BY DEF SubscribedSymbolIsFollowed
  <2>1. PICK u \in Users : Follows(u, s)
    BY DEF JoinedInv, Announced
  <2>2. calls[Get(u, s)] = 0
    BY CallsAreCalls DEF JoinedInv, JoinedTypes, Quiet
  <2> QED
    BY <2>1, <2>2 DEF Follows
<1> QED
  BY <1>1, JoinedInvariance, PTL

-------------------------------------------------------------------------------
(* The two services, joined, each take only the steps their own modules    *)
(* allow.                                                                  *)

(* What the Profile does together with the Aggregator is a behaviour of    *)
(* its manager alone: launching calls adds no step and takes no guard away. *)
THEOREM JoinedIsManager == JoinedSpec => Init /\ [][Next]_vars
<1>1. JoinedInit => Init
  BY DEF JoinedInit
<1>2. [JoinedNext]_joinedVars => [Next]_vars
  <2> SUFFICES ASSUME [JoinedNext]_joinedVars PROVE [Next]_vars
    OBVIOUS
  <2>1. ASSUME NEW c \in Conns, NEW failed \in SUBSET Symbols, RegisterClient(c, failed)
        PROVE  Next
    BY <2>1 DEF RegisterClient, Next
  <2>2. ASSUME NEW c \in Conns, UnregisterClient(c) \/ ClientStep(c) PROVE Next
    BY <2>2 DEF UnregisterClient, ClientStep, Next
  <2>3. ASSUME NEW k \in Calls, Serve(k) \/ Lose(k) PROVE UNCHANGED vars
    BY <2>3 DEF Serve, Lose, profileVars
  <2>4. ASSUME AggregatorRestarts \/ StreamStep PROVE UNCHANGED vars
    BY <2>4 DEF AggregatorRestarts, StreamStep, profileVars
  <2>5. CASE UNCHANGED joinedVars
    BY <2>5 DEF joinedVars, profileVars
  <2> QED
    BY <2>1, <2>2, <2>3, <2>4, <2>5 DEF JoinedNext
<1> QED
  BY <1>1, <1>2, PTL DEF JoinedSpec

(* What the Aggregator does together with the Profile is a behaviour of    *)
(* its stream manager, but for the restarts: every call that reaches it is *)
(* one its handlers serve.                                                 *)
THEOREM JoinedIsStreamManager ==
    JoinedSpec => /\ Aggregator!Init
                  /\ [][Aggregator!Next \/ Aggregator!Init']_aggregatorVars
<1>1. JoinedInit => Aggregator!Init
  BY DEF JoinedInit
<1>2. [JoinedNext]_joinedVars => [Aggregator!Next \/ Aggregator!Init']_aggregatorVars
  <2> SUFFICES ASSUME [JoinedNext]_joinedVars
               PROVE  [Aggregator!Next \/ Aggregator!Init']_aggregatorVars
    OBVIOUS
  <2>1. ASSUME NEW c \in Conns, NEW failed \in SUBSET Symbols,
               RegisterClient(c, failed) \/ UnregisterClient(c) \/ ClientStep(c)
        PROVE  UNCHANGED aggregatorVars
    BY <2>1 DEF RegisterClient, UnregisterClient, ClientStep
  <2>2. ASSUME NEW k \in Calls, Serve(k)
        PROVE  Aggregator!Next \/ UNCHANGED aggregatorVars
    <3>1. k.user \in Users /\ k.symbol \in Symbols
      BY DEF Calls
    <3> QED
      BY <2>2, <3>1 DEF Serve, Aggregator!Next, Aggregator!Handler
  <2>3. ASSUME NEW k \in Calls, Lose(k) PROVE UNCHANGED aggregatorVars
    BY <2>3 DEF Lose
  <2>4. ASSUME AggregatorRestarts PROVE Aggregator!Init'
    BY <2>4 DEF AggregatorRestarts, Aggregator!Init
  <2>5. ASSUME StreamStep PROVE Aggregator!Next
    BY <2>5 DEF StreamStep, Aggregator!Next
  <2>6. CASE UNCHANGED joinedVars
    BY <2>6 DEF joinedVars
  <2> QED
    BY <2>1, <2>2, <2>3, <2>4, <2>5, <2>6 DEF JoinedNext
<1> QED
  BY <1>1, <1>2, PTL DEF JoinedSpec

(* So the manager's maps agree, its sends are safe and its portfolios are  *)
(* followed whatever the Aggregator and the network do.                    *)
THEOREM ManagerIsSafeJoined ==
    JoinedSpec => [](MapsAgree /\ RegisteredCanReceive /\ FollowsItsPortfolio)
<1>1. IInv => MapsAgree /\ RegisteredCanReceive /\ FollowsItsPortfolio
  BY DEF IInv
<1> QED
  BY <1>1, InitIInv, NextIInv, JoinedIsManager, PTL
===============================================================================
