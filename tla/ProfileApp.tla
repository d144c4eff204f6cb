----------------------------- MODULE ProfileApp -----------------------------
(***************************************************************************)
(* The life of the Profile service: its two servers, the WebSocket         *)
(* manager's goroutines, the Redis subscriber with a listener for each     *)
(* subscription, and App.Stop, which main calls on a signal and App.Run    *)
(* when a server fails.                                                    *)
(*                                                                         *)
(* WsManager says what the manager does with its maps; here it matters     *)
(* what it waits for.  Each connection is of another user and all hold the *)
(* same symbol, whose subscription comes with the first and goes with the  *)
(* last.  listenToRedis, which takes from Messages, holds nothing that     *)
(* another goroutine here waits for, and is left to WsManager.             *)
(***************************************************************************)
EXTENDS Naturals

CONSTANTS Conns,     \* WebSocket connections
          Pubsubs,   \* PubSub objects; one is used again when its listener is gone
          ChanCap,   \* capacity of a PubSub's channel (100 in go-redis)
          NoPubsub

ASSUME AppAssumption ==
  /\ NoPubsub \notin Pubsubs
  /\ ChanCap \in Nat \ {0}

VARIABLES proc,         \* the process
          cancelled,    \* a.ctx
          servers,      \* runGRPC and runHTTP
          stopped,      \* servers that were told to stop
          failed,       \* a server sent its error to errChan
          stop,         \* main and App.Run, and how far each is in Stop
          rpcs,         \* gRPC calls being served
          conn,         \* per connection, its handler and then its reader
          loop,         \* Manager.Run
          clients,      \* connections the manager has registered
          subscription, \* the PubSub in Subscriber.subscriptions
          redisOpen,    \* Subscriber.client is not closed
          pubsub, queue, listener, \* each PubSub, its channel and its listener
          messagesOpen  \* Subscriber.Messages is not closed

srv == <<servers, stopped, failed, rpcs>>
app == <<cancelled, stop, srv>>
mgr == <<loop, clients>>
pubs == <<subscription, redisOpen, pubsub, queue, listener>>
vars == <<proc, app, conn, mgr, pubs, messagesOpen>>

Servers == {"grpc", "http"}
Stoppers == {"main", "run"}

Init ==
  /\ proc = "running" /\ cancelled = FALSE
  /\ servers = [s \in Servers |-> IF s = "grpc" THEN "starting" ELSE "serving"]
  /\ stopped = {} /\ failed = FALSE
  /\ stop = [x \in Stoppers |-> "waiting"]
  /\ rpcs = 0
  /\ conn = [c \in Conns |-> "none"]
  /\ loop = "selecting" /\ clients = {}
  /\ subscription = NoPubsub /\ redisOpen = TRUE
  /\ pubsub = [p \in Pubsubs |-> "closed"]
  /\ queue = [p \in Pubsubs |-> 0]
  /\ listener = [p \in Pubsubs |-> "none"]
  /\ messagesOpen = TRUE

Running == proc = "running"

\* Subscriber.mu: the manager's loop holds it while it waits for Redis.
MuFree == loop # "receiving"

(***************************************************************************)
(* The servers and their calls                                             *)
(***************************************************************************)

ServerGoes(s, to) == servers' = [servers EXCEPT ![s] = to]

\* Serve of the gRPC server; stopped before, it returns an error.  That a server
\* cannot listen is, to App.Run, a listener that fails at once.
GrpcServes ==
  /\ Running /\ servers["grpc"] = "starting"
  /\ IF "grpc" \in stopped THEN ServerGoes("grpc", "done") /\ failed' = TRUE
                           ELSE ServerGoes("grpc", "serving") /\ UNCHANGED failed
  /\ UNCHANGED <<proc, cancelled, stopped, stop, rpcs, conn, mgr, pubs, messagesOpen>>

\* A server serves until it is stopped, which is no error, or its listener fails.
ServerEnds(s) ==
  /\ Running /\ servers[s] = "serving"
  /\ ServerGoes(s, "done")
  /\ failed' = (failed \/ s \notin stopped)
  /\ UNCHANGED <<proc, cancelled, stopped, stop, rpcs, conn, mgr, pubs, messagesOpen>>

Accepts(s) == Running /\ servers[s] = "serving" /\ s \notin stopped

\* One call at a time stands for all of them.
RpcBegins ==
  /\ Accepts("grpc") /\ rpcs = 0 /\ rpcs' = 1
  /\ UNCHANGED <<proc, cancelled, stop, servers, stopped, failed, conn, mgr, pubs, messagesOpen>>

RpcReturns ==
  /\ Running /\ rpcs = 1 /\ rpcs' = 0
  /\ UNCHANGED <<proc, cancelled, stop, servers, stopped, failed, conn, mgr, pubs, messagesOpen>>

(***************************************************************************)
(* Connections                                                             *)
(***************************************************************************)

ConnGoes(c, from, to) == Running /\ conn[c] = from /\ conn' = [conn EXCEPT ![c] = to]

\* wsConnect: the handler, which Shutdown waits for until the upgrade takes the
\* connection from the server; then it waits in Register.
WsConnect(c) ==
  /\ Accepts("http") /\ ConnGoes(c, "none", "opening")
  /\ UNCHANGED <<proc, app, mgr, pubs, messagesOpen>>

Upgrade(c) ==
  /\ ConnGoes(c, "opening", "registering") \/ ConnGoes(c, "opening", "none")
  /\ UNCHANGED <<proc, app, mgr, pubs, messagesOpen>>

\* The reader fails and waits in Unregister.
ReadFails(c) ==
  /\ ConnGoes(c, "reading", "unregistering")
  /\ UNCHANGED <<proc, app, mgr, pubs, messagesOpen>>

(***************************************************************************)
(* Manager.Run                                                             *)
(***************************************************************************)

\* registerClient; followCoin calls Subscribe for what nobody subscribed to,
\* which takes the lock and waits for Redis without a deadline.
RegisterClient(c) ==
  /\ loop = "selecting" /\ ConnGoes(c, "registering", "reading")
  /\ clients' = clients \union {c}
  /\ loop' = IF subscription = NoPubsub THEN "receiving" ELSE "selecting"
  /\ UNCHANGED <<proc, app, pubs, messagesOpen>>

(* Mutant: the PubSub leaves the map and stays open. *)
ForgetPubsub == subscription' = NoPubsub /\ UNCHANGED pubsub

\* Subscriber.Unsubscribe.
Unsubscribe ==
  /\ subscription' = NoPubsub
  /\ pubsub' = [p \in Pubsubs |-> IF p = subscription THEN "closed" ELSE pubsub[p]]

\* unregisterClient; unfollowAllCoins unsubscribes after the last one.
UnregisterClient(c) ==
  /\ loop = "selecting" /\ ConnGoes(c, "unregistering", "none")
  /\ clients' = clients \ {c}
  /\ IF clients' = {} THEN Unsubscribe ELSE UNCHANGED <<subscription, pubsub>>
  /\ UNCHANGED <<proc, app, loop, redisOpen, queue, listener, messagesOpen>>

Free(p) == listener[p] = "none"

Subscribed ==
  LET p == CHOOSE p \in Pubsubs : Free(p) IN
  /\ Running /\ loop = "receiving" /\ redisOpen
  /\ \E q \in Pubsubs : Free(q)
  /\ subscription' = p
  /\ pubsub' = [pubsub EXCEPT ![p] = "open"]
  /\ queue' = [queue EXCEPT ![p] = 0]
  /\ listener' = [listener EXCEPT ![p] = "running"]
  /\ loop' = "selecting"
  /\ UNCHANGED <<proc, app, conn, clients, redisOpen, messagesOpen>>

(* Mutant: an error of Subscribe ends the loop. *)
SubscribeFailsForGood ==
  /\ Running /\ loop = "receiving"
  /\ loop' = "returned"
  /\ UNCHANGED <<proc, app, conn, clients, pubs, messagesOpen>>

\* The error is logged; the PubSub is dropped without a Close.  It has no
\* listener, nobody refers to it, and it is not counted among Pubsubs.
SubscribeFails ==
  /\ Running /\ loop = "receiving"
  /\ loop' = "selecting"
  /\ UNCHANGED <<proc, app, conn, clients, pubs, messagesOpen>>

LoopReturns ==
  /\ Running /\ loop = "selecting" /\ cancelled
  /\ loop' = "returned"
  /\ UNCHANGED <<proc, app, conn, clients, pubs, messagesOpen>>

(***************************************************************************)
(* Prices: Redis and the listeners                                         *)
(***************************************************************************)

RedisPublishes(p) ==
  /\ Running /\ pubsub[p] = "open" /\ queue[p] < ChanCap
  /\ queue' = [queue EXCEPT ![p] = @ + 1]
  /\ UNCHANGED <<proc, app, conn, mgr, subscription, redisOpen, pubsub, listener, messagesOpen>>

\* A closed PubSub's channel is drained before its listener returns.  The send
\* to Messages never waits, since a full channel drops the price; a closed one
\* panics.
ListenerPasses(p) ==
  /\ Running /\ listener[p] = "running" /\ queue[p] > 0
  /\ queue' = [queue EXCEPT ![p] = @ - 1]
  /\ proc' = IF messagesOpen THEN proc ELSE "panicked"
  /\ UNCHANGED <<app, conn, mgr, subscription, redisOpen, pubsub, listener, messagesOpen>>

ListenerReturns(p) ==
  /\ Running /\ listener[p] = "running" /\ queue[p] = 0 /\ pubsub[p] = "closed"
  /\ listener' = [listener EXCEPT ![p] = "none"]
  /\ UNCHANGED <<proc, app, conn, mgr, subscription, redisOpen, pubsub, queue, messagesOpen>>

(***************************************************************************)
(* App.Stop                                                                *)
(***************************************************************************)

StopGoes(x, from, to) == Running /\ stop[x] = from /\ stop' = [stop EXCEPT ![x] = to]

\* A signal reaches main, or an error App.Run; Stop cancels the context and
\* tells the HTTP server.
StopBegins(x) ==
  /\ StopGoes(x, "waiting", "http")
  /\ x = "run" => failed
  /\ cancelled' = TRUE
  /\ stopped' = stopped \union {"http"}
  /\ UNCHANGED <<proc, servers, failed, rpcs, conn, mgr, pubs, messagesOpen>>

\* Shutdown returns when no handler is active, or at its timeout; then the gRPC
\* server is told.
HttpDrained == \A c \in Conns : conn[c] # "opening"
ShutdownReturns(x) ==
  /\ StopGoes(x, "http", "grpc") /\ HttpDrained
  /\ stopped' = stopped \union {"grpc"}
  /\ UNCHANGED <<proc, cancelled, servers, failed, rpcs, conn, mgr, pubs, messagesOpen>>

(* Mutant: Shutdown has no timeout. *)
ShutdownWaits(x) == ShutdownReturns(x)

ShutdownTimesOut(x) ==
  /\ StopGoes(x, "http", "grpc") /\ ~HttpDrained
  /\ stopped' = stopped \union {"grpc"}
  /\ UNCHANGED <<proc, cancelled, servers, failed, rpcs, conn, mgr, pubs, messagesOpen>>

\* GracefulStop waits for the calls without a timeout.
GracefulStop(x) ==
  /\ StopGoes(x, "grpc", "close") /\ rpcs = 0
  /\ UNCHANGED <<proc, cancelled, srv, conn, mgr, pubs, messagesOpen>>

\* Subscriber.Close: every PubSub, the client, and Messages, which a second
\* Close closes again.
CloseSubscriber(x) ==
  /\ StopGoes(x, "close", "storage") /\ MuFree
  /\ pubsub' = [p \in Pubsubs |-> IF p = subscription THEN "closed" ELSE pubsub[p]]
  /\ redisOpen' = FALSE
  /\ messagesOpen' = FALSE
  /\ proc' = IF messagesOpen THEN proc ELSE "panicked"
  /\ UNCHANGED <<cancelled, srv, conn, mgr, subscription, queue, listener>>

\* The storage is closed; main returns, or App.Run does and os.Exit follows.
StopReturnsTo(x) ==
  /\ StopGoes(x, "storage", "returned")
  /\ proc' = "exited"
  /\ UNCHANGED <<cancelled, srv, conn, mgr, pubs, messagesOpen>>

StopStep(x) ==
  \/ ShutdownReturns(x) \/ ShutdownTimesOut(x) \/ GracefulStop(x)
  \/ CloseSubscriber(x) \/ StopReturnsTo(x)
ServeClient(c) == RegisterClient(c) \/ UnregisterClient(c)
LoopStep ==
  \/ \E c \in Conns : ServeClient(c)
  \/ Subscribed \/ SubscribeFails \/ LoopReturns
ListenerStep(p) == ListenerPasses(p) \/ ListenerReturns(p)

Next ==
  \/ GrpcServes \/ \E s \in Servers : ServerEnds(s)
  \/ RpcBegins \/ RpcReturns
  \/ \E c \in Conns : WsConnect(c) \/ Upgrade(c) \/ ReadFails(c)
  \/ LoopStep
  \/ \E p \in Pubsubs : RedisPublishes(p) \/ ListenerStep(p)
  \/ \E x \in Stoppers : StopBegins(x) \/ StopStep(x)

\* A goroutine that waits in Register or Unregister is served in its turn, the
\* channels being first in first out and select random.  Stop goes on, and gets a
\* mutex that is free again and again, as Go's mutexes are fair to who waits
\* long.  A reply of Redis and the end of a call or of a handler are owed by
\* nobody.
Spec ==
  /\ Init /\ [][Next]_vars
  /\ \A c \in Conns : SF_vars(ServeClient(c))
  /\ \A x \in Stoppers : WF_vars(StopStep(x)) /\ SF_vars(CloseSubscriber(x))

(***************************************************************************)
(* Properties                                                              *)
(***************************************************************************)

TypeOK ==
  /\ proc \in {"running", "exited", "panicked"} /\ cancelled \in BOOLEAN
  /\ servers \in [Servers -> {"starting", "serving", "done"}]
  /\ stopped \subseteq Servers /\ failed \in BOOLEAN
  /\ stop \in [Stoppers -> {"waiting", "http", "grpc", "close", "storage", "returned"}]
  /\ rpcs \in 0..1
  /\ conn \in [Conns -> {"none", "opening", "registering", "reading", "unregistering"}]
  /\ loop \in {"selecting", "receiving", "returned"}
  /\ clients \subseteq Conns
  /\ subscription \in Pubsubs \union {NoPubsub} /\ redisOpen \in BOOLEAN
  /\ pubsub \in [Pubsubs -> {"open", "closed"}] /\ queue \in [Pubsubs -> 0..ChanCap]
  /\ listener \in [Pubsubs -> {"none", "running"}]
  /\ messagesOpen \in BOOLEAN

\* Of the PubSubs that got their confirmation, the only one that is open is the
\* one in the map, until Close closes it; it has its listener, and it goes with
\* the last client: no subscription outlives
\* its clients and no symbol is listened to twice, so that the only panic is one
\* of a shutdown past Close, which an old listener or a second Stop meets
\* (redis.go:61, 79-90, 124-135).
ListenersFollowSubscription ==
  /\ TypeOK
  /\ {p \in Pubsubs : pubsub[p] = "open"} =
       IF redisOpen THEN {subscription} \ {NoPubsub} ELSE {}
  /\ \A p \in Pubsubs : pubsub[p] = "open" => ~Free(p)
  /\ clients = {} => subscription = NoPubsub
  /\ redisOpen = messagesOpen
  /\ ~cancelled => messagesOpen /\ loop # "returned"
  /\ proc = "panicked" => ~messagesOpen

RedisAnswers == []<>(loop # "receiving")
RpcsReturn == []<>(rpcs = 0)

\* A handler in Register and a reader in Unregister are served as long as the
\* service runs and Redis answers; it is the shutdown alone that may leave them
\* waiting on a channel nobody reads (manager.go:63-70, 91, 95).
Waits(c) == conn[c] \in {"registering", "unregistering"}
ConnectionsAreServed ==
  RedisAnswers => \A c \in Conns : Waits(c) ~> (~Waits(c) \/ cancelled)

\* Once Stop begins, the process ends, whatever the HTTP handlers and the
\* WebSocket connections do: only a call of the gRPC server that never returns
\* and a Redis that never answers a SUBSCRIBE, which holds the subscriber's
\* lock, could keep it (app.go:132-146, redis.go:55).
ProcessEnds ==
  RedisAnswers /\ RpcsReturn => (cancelled ~> ~Running)
=============================================================================
