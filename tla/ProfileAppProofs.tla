--------------------------- MODULE ProfileAppProofs ---------------------------
(***************************************************************************)
(* Theorems about ProfileApp, for any connections, PubSubs and capacity.   *)
(***************************************************************************)
EXTENDS ProfileApp, TLAPS

(* TypeOK in parts. *)
AppTypes ==
  /\ proc \in {"running", "exited", "panicked"} /\ cancelled \in BOOLEAN
  /\ servers \in [Servers -> {"starting", "serving", "done"}]
  /\ stopped \subseteq Servers /\ failed \in BOOLEAN
  /\ stop \in [Stoppers -> {"waiting", "http", "grpc", "close", "storage", "returned"}]
  /\ rpcs \in 0..1
ManagerTypes ==
  /\ conn \in [Conns -> {"none", "opening", "registering", "reading", "unregistering"}]
  /\ loop \in {"selecting", "receiving", "returned"}
  /\ clients \subseteq Conns
RedisTypes ==
  /\ subscription \in Pubsubs \union {NoPubsub} /\ redisOpen \in BOOLEAN
  /\ pubsub \in [Pubsubs -> {"open", "closed"}] /\ queue \in [Pubsubs -> 0..ChanCap]
  /\ listener \in [Pubsubs -> {"none", "running"}]
  /\ messagesOpen \in BOOLEAN

(* Of the PubSubs the one in the map is open, and has its listener. *)
OneOpen ==
  /\ \A p \in Pubsubs : pubsub[p] = "open" <=> redisOpen /\ p = subscription
  /\ \A p \in Pubsubs : pubsub[p] = "open" => listener[p] = "running"

(* Only a manager that has clients and no subscription asks Redis for one, *)
(* and no subscription outlives the clients.                               *)
SubscriptionHasClients ==
  /\ clients = {} => subscription = NoPubsub
  /\ loop = "receiving" => subscription = NoPubsub /\ clients # {}

(* What the shutdown has done follows the order it does it in. *)
ShutdownInOrder ==
  /\ \A x \in Stoppers : stop[x] # "waiting" => cancelled
  /\ redisOpen = messagesOpen
  /\ ~messagesOpen => cancelled
  /\ loop = "returned" => cancelled
  /\ proc = "panicked" => ~messagesOpen

IInv == /\ AppTypes /\ ManagerTypes /\ RedisTypes
        /\ OneOpen /\ SubscriptionHasClients /\ ShutdownInOrder

-------------------------------------------------------------------------------
LEMMA Initially == Init => IInv
<1> SUFFICES ASSUME Init PROVE IInv
  OBVIOUS
<1> USE AppAssumption DEF Init
<1>1. /\ servers \in [Servers -> {"starting", "serving", "done"}]
      /\ stop \in [Stoppers -> {"waiting", "http", "grpc", "close", "storage", "returned"}]
  OBVIOUS
<1>2. AppTypes
  <2>1. proc \in {"running", "exited", "panicked"} /\ cancelled \in BOOLEAN /\ failed \in BOOLEAN
    OBVIOUS
  <2>2. stopped \subseteq Servers /\ rpcs \in 0..1
    OBVIOUS
  <2> QED
    BY <1>1, <2>1, <2>2 DEF AppTypes
<1>3. ManagerTypes /\ RedisTypes
  BY DEF ManagerTypes, RedisTypes
<1>4. OneOpen /\ SubscriptionHasClients /\ ShutdownInOrder
  BY DEF OneOpen, SubscriptionHasClients, ShutdownInOrder
<1> QED
  BY <1>2, <1>3, <1>4 DEF IInv

(* The servers, their calls and the handlers leave the manager's clients   *)
(* and Redis alone.                                                        *)
LEMMA ServersKeep ==
  ASSUME IInv,
         \/ GrpcServes \/ \E s \in Servers : ServerEnds(s)
         \/ RpcBegins \/ RpcReturns
         \/ \E c \in Conns : WsConnect(c) \/ Upgrade(c) \/ ReadFails(c)
  PROVE  IInv'
<1>1. UNCHANGED <<proc, cancelled, stopped, stop, mgr, pubs, messagesOpen>>
  BY DEF GrpcServes, ServerEnds, RpcBegins, RpcReturns, WsConnect, Upgrade, ReadFails, app, srv
<1>2. AppTypes'
  <2>1. CASE GrpcServes \/ \E s \in Servers : ServerEnds(s)
    <3>1. servers' \in [Servers -> {"starting", "serving", "done"}] /\ failed' \in BOOLEAN
      BY <2>1 DEF GrpcServes, ServerEnds, ServerGoes, IInv, AppTypes
    <3>2. UNCHANGED rpcs
      BY <2>1 DEF GrpcServes, ServerEnds
    <3> QED
      BY <1>1, <3>1, <3>2 DEF IInv, AppTypes
  <2>2. CASE RpcBegins \/ RpcReturns
    BY <1>1, <2>2 DEF RpcBegins, RpcReturns, IInv, AppTypes
  <2>3. CASE \E c \in Conns : WsConnect(c) \/ Upgrade(c) \/ ReadFails(c)
    BY <1>1, <2>3 DEF WsConnect, Upgrade, ReadFails, app, srv, IInv, AppTypes
  <2> QED
    BY <2>1, <2>2, <2>3
<1>3. conn' \in [Conns -> {"none", "opening", "registering", "reading", "unregistering"}]
  BY DEF GrpcServes, ServerEnds, RpcBegins, RpcReturns, WsConnect, Upgrade, ReadFails, ConnGoes,
         IInv, ManagerTypes
<1> QED
  BY <1>1, <1>2, <1>3 DEF IInv, ManagerTypes, RedisTypes, OneOpen, SubscriptionHasClients,
     ShutdownInOrder, mgr, pubs

(* The manager's loop. *)
LEMMA LoopKeeps == ASSUME IInv, LoopStep PROVE IInv'
<1>1. UNCHANGED <<proc, app, messagesOpen, redisOpen>>
  BY DEF LoopStep, ServeClient, RegisterClient, UnregisterClient, Subscribed, SubscribeFails,
         LoopReturns, pubs
<1>2. AppTypes'
  BY <1>1 DEF IInv, AppTypes, app, srv
<1>3. CASE \E c \in Conns : RegisterClient(c)
  <2>1. PICK c \in Conns : RegisterClient(c)
    BY <1>3
  <2>2. UNCHANGED pubs
    BY <2>1 DEF RegisterClient
  <2>3. ManagerTypes'
    BY <2>1 DEF RegisterClient, ConnGoes, IInv, ManagerTypes
  <2>4. SubscriptionHasClients'
    BY <2>1, <2>2 DEF RegisterClient, SubscriptionHasClients, pubs
  <2>5. ShutdownInOrder'
    BY <1>1, <2>1 DEF RegisterClient, IInv, ShutdownInOrder, app
  <2> QED
    BY <1>1, <1>2, <2>2, <2>3, <2>4, <2>5 DEF IInv, RedisTypes, OneOpen, pubs
<1>4. CASE \E c \in Conns : UnregisterClient(c)
  <2>1. PICK c \in Conns : UnregisterClient(c)
    BY <1>4
  <2>2. UNCHANGED <<queue, listener, loop>> /\ loop = "selecting"
    BY <2>1 DEF UnregisterClient
  <2>3. ManagerTypes'
    BY <2>1 DEF UnregisterClient, ConnGoes, IInv, ManagerTypes
  <2>4. \/ /\ clients' = {} /\ subscription' = NoPubsub
           /\ pubsub' = [p \in Pubsubs |-> IF p = subscription THEN "closed" ELSE pubsub[p]]
        \/ clients' # {} /\ UNCHANGED <<subscription, pubsub>>
    BY <2>1 DEF UnregisterClient, Unsubscribe
  <2>5. RedisTypes' /\ OneOpen'
    BY <1>1, <2>2, <2>4, AppAssumption DEF IInv, RedisTypes, OneOpen
  <2>6. SubscriptionHasClients' /\ ShutdownInOrder'
    BY <1>1, <2>2, <2>4 DEF IInv, SubscriptionHasClients, ShutdownInOrder, app
  <2> QED
    BY <1>2, <2>3, <2>5, <2>6 DEF IInv
<1>5. CASE Subscribed
  <2>1. PICK p \in Pubsubs :
          /\ Free(p) /\ subscription' = p
          /\ pubsub' = [pubsub EXCEPT ![p] = "open"]
          /\ queue' = [queue EXCEPT ![p] = 0]
          /\ listener' = [listener EXCEPT ![p] = "running"]
    BY <1>5 DEF Subscribed
  <2>2. /\ loop = "receiving" /\ loop' = "selecting" /\ redisOpen
        /\ UNCHANGED <<conn, clients>>
    BY <1>5 DEF Subscribed
  <2>3. ManagerTypes'
    BY <2>2 DEF IInv, ManagerTypes
  <2>4. subscription = NoPubsub /\ clients # {}
    BY <2>2 DEF IInv, SubscriptionHasClients
  <2>5. RedisTypes' /\ OneOpen'
    BY <1>1, <2>1, <2>2, <2>4, AppAssumption DEF IInv, RedisTypes, OneOpen
  <2>6. SubscriptionHasClients' /\ ShutdownInOrder'
    BY <1>1, <2>2, <2>4 DEF IInv, SubscriptionHasClients, ShutdownInOrder, app
  <2> QED
    BY <1>2, <2>3, <2>5, <2>6 DEF IInv
<1>6. CASE SubscribeFails \/ LoopReturns
  <2>1. /\ UNCHANGED <<conn, clients, pubs>>
        /\ loop' \in {"selecting", "returned"} /\ (loop' = "returned" => cancelled)
    BY <1>6 DEF SubscribeFails, LoopReturns
  <2> QED
    BY <1>1, <1>2, <2>1 DEF IInv, ManagerTypes, RedisTypes, OneOpen, SubscriptionHasClients,
       ShutdownInOrder, app, pubs
<1> QED
  BY <1>3, <1>4, <1>5, <1>6 DEF LoopStep, ServeClient

(* Prices and listeners: only a listener of a closed PubSub returns, and a *)
(* price meets closed Messages only after Close.                           *)
LEMMA ListenersKeep ==
  ASSUME IInv, NEW p \in Pubsubs, RedisPublishes(p) \/ ListenerStep(p)
  PROVE  IInv'
<1>1. UNCHANGED <<app, conn, mgr, subscription, redisOpen, pubsub, messagesOpen>>
  BY DEF RedisPublishes, ListenerStep, ListenerPasses, ListenerReturns
<1>2. proc' \in {proc, "panicked"} /\ (proc' # proc => ~messagesOpen)
  BY DEF RedisPublishes, ListenerStep, ListenerPasses, ListenerReturns
<1>3. queue' \in [Pubsubs -> 0..ChanCap]
  BY AppAssumption DEF RedisPublishes, ListenerStep, ListenerPasses, ListenerReturns, IInv, RedisTypes
<1>4. /\ listener' \in [Pubsubs -> {"none", "running"}]
      /\ \A q \in Pubsubs : pubsub[q] = "open" => listener'[q] = listener[q]
  BY DEF RedisPublishes, ListenerStep, ListenerPasses, ListenerReturns, IInv, RedisTypes
<1>5. AppTypes' /\ ManagerTypes' /\ RedisTypes'
  BY <1>1, <1>2, <1>3, <1>4 DEF IInv, AppTypes, ManagerTypes, RedisTypes, app, srv, mgr
<1> QED
  BY <1>1, <1>2, <1>4, <1>5 DEF IInv, OneOpen, SubscriptionHasClients, ShutdownInOrder, app, mgr

(* App.Stop: the context is cancelled before anything is closed. *)
LEMMA StopKeeps ==
  ASSUME IInv, NEW x \in Stoppers, StopBegins(x) \/ StopStep(x)
  PROVE  IInv'
<1>1. UNCHANGED <<conn, mgr, subscription, queue, listener>>
  BY DEF StopBegins, StopStep, ShutdownReturns, ShutdownTimesOut, GracefulStop, CloseSubscriber,
         StopReturnsTo, pubs
<1>2. /\ stop' \in [Stoppers -> {"waiting", "http", "grpc", "close", "storage", "returned"}]
      /\ \A y \in Stoppers : stop'[y] # "waiting" => cancelled'
  BY DEF StopBegins, StopStep, ShutdownReturns, ShutdownTimesOut, GracefulStop, CloseSubscriber,
         StopReturnsTo, StopGoes, IInv, AppTypes, ShutdownInOrder
<1>3. /\ UNCHANGED <<servers, failed, rpcs>>
      /\ stopped' \subseteq Servers /\ cancelled' \in BOOLEAN /\ (cancelled => cancelled')
  BY DEF StopBegins, StopStep, ShutdownReturns, ShutdownTimesOut, GracefulStop, CloseSubscriber,
         StopReturnsTo, srv, IInv, AppTypes, Servers
<1>4. ManagerTypes' /\ SubscriptionHasClients'
  BY <1>1 DEF IInv, ManagerTypes, SubscriptionHasClients, mgr
<1>5. CASE CloseSubscriber(x)
  <2>1. /\ pubsub' = [p \in Pubsubs |-> IF p = subscription THEN "closed" ELSE pubsub[p]]
        /\ redisOpen' = FALSE /\ messagesOpen' = FALSE
        /\ proc' \in {proc, "panicked"} /\ cancelled
    BY <1>5 DEF CloseSubscriber, StopGoes, IInv, ShutdownInOrder
  <2>2. AppTypes'
    BY <1>2, <1>3, <2>1 DEF IInv, AppTypes
  <2>3. RedisTypes' /\ OneOpen'
    BY <1>1, <2>1 DEF IInv, RedisTypes, OneOpen
  <2>4. ShutdownInOrder'
    BY <1>1, <1>2, <1>3, <2>1 DEF IInv, ShutdownInOrder, mgr
  <2> QED
    BY <1>4, <2>2, <2>3, <2>4 DEF IInv
<1>6. CASE ~CloseSubscriber(x)
  <2>1. UNCHANGED <<pubsub, redisOpen, messagesOpen>> /\ proc' \in {proc, "exited"}
    BY <1>6 DEF StopBegins, StopStep, ShutdownReturns, ShutdownTimesOut, GracefulStop,
       StopReturnsTo, pubs
  <2>2. AppTypes'
    BY <1>2, <1>3, <2>1 DEF IInv, AppTypes
  <2>3. RedisTypes' /\ OneOpen'
    BY <1>1, <2>1 DEF IInv, RedisTypes, OneOpen
  <2>4. ShutdownInOrder'
    BY <1>1, <1>2, <1>3, <2>1 DEF IInv, ShutdownInOrder, mgr
  <2> QED
    BY <1>4, <2>2, <2>3, <2>4 DEF IInv
<1> QED
  BY <1>5, <1>6

-------------------------------------------------------------------------------
(* The conjuncts of IInv hold together in every reachable state. *)
LEMMA Invariance == Spec => []IInv
<1>1. Init => IInv
  BY Initially
<1>2. IInv /\ [Next]_vars => IInv'
  <2> SUFFICES ASSUME IInv, [Next]_vars PROVE IInv'
    OBVIOUS
  <2>1. CASE Next
    BY <2>1, ServersKeep, LoopKeeps, ListenersKeep, StopKeeps DEF Next
  <2>2. CASE UNCHANGED vars
    BY <2>2 DEF vars, app, srv, mgr, pubs, IInv, AppTypes, ManagerTypes, RedisTypes, OneOpen,
       SubscriptionHasClients, ShutdownInOrder
  <2> QED
    BY <2>1, <2>2
<1> QED
  BY <1>1, <1>2, PTL DEF Spec

(* The one open PubSub is the one in the map and has its listener; it goes *)
(* with the last client, and nothing panics before Close.                  *)
THEOREM SubscriptionIsListenedTo == Spec => []ListenersFollowSubscription
<1>1. IInv => ListenersFollowSubscription
  <2> SUFFICES ASSUME IInv PROVE ListenersFollowSubscription
    OBVIOUS
  <2>1. TypeOK
    BY DEF IInv, TypeOK, AppTypes, ManagerTypes, RedisTypes
  <2>2. {p \in Pubsubs : pubsub[p] = "open"} =
          IF redisOpen THEN {subscription} \ {NoPubsub} ELSE {}
    BY AppAssumption DEF IInv, OneOpen, RedisTypes
  <2>3. \A p \in Pubsubs : pubsub[p] = "open" => ~Free(p)
    BY DEF IInv, OneOpen, Free
  <2> QED
    BY <2>1, <2>2, <2>3 DEF IInv, SubscriptionHasClients, ShutdownInOrder, ListenersFollowSubscription
<1> QED
  BY <1>1, Invariance, PTL
===============================================================================
