------------------------------ MODULE WsManager -------------------------------
(***************************************************************************)
(* The Profile service's WebSocket manager (websocket/manager.go) with the *)
(* goroutines of its clients, the handler that creates them                *)
(* (handler.go, wsConnect) and the Redis subscriptions it keeps            *)
(* (storage/redis/redis.go).                                               *)
(*                                                                         *)
(* registerClient, unregisterClient and processRedisMessage hold m.mu, so  *)
(* each is one action; the first two run in the manager's loop, the third  *)
(* in listenToRedis.  Each client has a Reader, a Writer and, before them, *)
(* the HTTP handler that is blocked in Register.  The HTTP calls that      *)
(* followCoin and unfollowAllCoins launch towards the Aggregator run on    *)
(* their own and change nothing here: Gets and Deletes say which ones a    *)
(* step launches, and PriceSubscription sends them.                        *)
(***************************************************************************)
EXTENDS Naturals, Sequences

CONSTANTS Users,
          Symbols,
          Conns,      \* WebSocket connections, each with its Client
          UserOf,     \* Client.UserID: [Conns -> Users]
          Portfolios, \* the sets of symbols a profile may be loaded with
          NoConn,     \* m.clients has no entry for the user
          SendCap,    \* capacity of Client.Send (256 in the code)
          MsgCap      \* capacity of Subscriber.Messages (1000 in the code)

ASSUME WsManagerAssumption ==
    /\ UserOf \in [Conns -> Users]
    /\ Portfolios \subseteq SUBSET Symbols
    /\ NoConn \notin Conns
    /\ SendCap \in Nat \ {0}
    /\ MsgCap \in Nat \ {0}

VARIABLES clients,         \* m.clients
          coinSubscribers, \* m.coinSubscribers; a missing key is {}
          activeRedisSub,  \* m.activeRedisSub
          subscriptions,   \* Subscriber.subscriptions
          messages,        \* Subscriber.Messages
          profile,         \* the symbols of Client.Profile.Coins
          reader,          \* the handler, then the Reader, of each client
          writer,          \* the Writer of each client
          sendOpen,        \* Client.Send is not closed
          backlog,         \* messages in Client.Send
          socketOpen,      \* Conn was not closed by this service
          loop             \* Manager.Run

manager == <<clients, coinSubscribers, activeRedisSub, subscriptions>>
sockets == <<reader, writer, socketOpen>>
vars == <<manager, messages, profile, sockets, sendOpen, backlog, loop>>

ReaderPhases == {"none", "registering", "reading", "unregistering", "closing", "done"}
WriterPhases == {"none", "running", "done"}

TypeOK ==
    /\ clients \in [Users -> Conns \cup {NoConn}]
    /\ coinSubscribers \in [Symbols -> SUBSET Users]
    /\ activeRedisSub \in SUBSET Symbols
    /\ subscriptions \in SUBSET Symbols
    /\ messages \in Seq(Symbols) /\ Len(messages) <= MsgCap
    /\ profile \in [Conns -> SUBSET Symbols]
    /\ reader \in [Conns -> ReaderPhases]
    /\ writer \in [Conns -> WriterPhases]
    /\ sendOpen \in [Conns -> BOOLEAN]
    /\ backlog \in [Conns -> 0..SendCap]
    /\ socketOpen \in [Conns -> BOOLEAN]
    /\ loop \in {"running", "stopped"}

Init ==
    /\ clients = [u \in Users |-> NoConn]
    /\ coinSubscribers = [s \in Symbols |-> {}]
    /\ activeRedisSub = {}
    /\ subscriptions = {}
    /\ messages = <<>>
    /\ profile = [c \in Conns |-> {}]
    /\ reader = [c \in Conns |-> "none"]
    /\ writer = [c \in Conns |-> "none"]
    /\ sendOpen = [c \in Conns |-> TRUE]
    /\ backlog = [c \in Conns |-> 0]
    /\ socketOpen = [c \in Conns |-> FALSE]
    /\ loop = "running"

Registered(u) == clients[u] # NoConn

-------------------------------------------------------------------------------
(* The manager's loop. *)

(* wsConnect: the profile is loaded once, the connection upgraded, and the *)
(* handler blocks in Register, the channel being unbuffered.               *)
Connect(c, coins) ==
    /\ reader[c] = "none"
    /\ profile' = [profile EXCEPT ![c] = coins]
    /\ reader' = [reader EXCEPT ![c] = "registering"]
    /\ socketOpen' = [socketOpen EXCEPT ![c] = TRUE]
    /\ UNCHANGED <<manager, messages, writer, sendOpen, backlog, loop>>

(* The symbols followCoin finds without a Redis subscription. *)
Unsubscribed(c) == profile[c] \ activeRedisSub

(* The GET calls registerClient(c) launches: one for each of those symbols, *)
(* in the name of the user who registers.                                   *)
Gets(c) == [method : {"GET"}, user : {UserOf[c]}, symbol : Unsubscribed(c)]

(* Mutant: only symbols without a subscription yet are followed. *)
FollowNewCoins(c, failed) ==
    /\ coinSubscribers' = [s \in Symbols |->
           IF s \in Unsubscribed(c) THEN coinSubscribers[s] \cup {UserOf[c]} ELSE coinSubscribers[s]]
    /\ activeRedisSub' = activeRedisSub \cup (Unsubscribed(c) \ failed)
    /\ subscriptions' = subscriptions \cup (Unsubscribed(c) \ failed)

(* followCoin for every coin of c's profile; failed are the symbols whose  *)
(* Subscribe returned an error.                                            *)
FollowCoins(c, failed) ==
    /\ coinSubscribers' = [s \in Symbols |->
           IF s \in profile[c] THEN coinSubscribers[s] \cup {UserOf[c]} ELSE coinSubscribers[s]]
    /\ activeRedisSub' = activeRedisSub \cup (Unsubscribed(c) \ failed)
    /\ subscriptions' = subscriptions \cup (Unsubscribed(c) \ failed)

(* The handler hands the client over and starts its Reader and Writer. *)
Launch(c) ==
    /\ reader' = [reader EXCEPT ![c] = "reading"]
    /\ writer' = [writer EXCEPT ![c] = "running"]

(* Mutant: a second connection of a user leaves the first one in m.clients. *)
RegisterKeepsOld(c, failed) ==
    LET old == clients[UserOf[c]] IN
    /\ loop = "running"
    /\ reader[c] = "registering"
    /\ clients' = IF old = NoConn THEN [clients EXCEPT ![UserOf[c]] = c] ELSE clients
    /\ sendOpen' = IF old = NoConn THEN sendOpen ELSE [sendOpen EXCEPT ![old] = FALSE]
    /\ socketOpen' = IF old = NoConn THEN socketOpen ELSE [socketOpen EXCEPT ![old] = FALSE]
    /\ FollowCoins(c, failed)
    /\ Launch(c)
    /\ UNCHANGED <<messages, profile, backlog, loop>>

(* registerClient: a client already registered for the user is replaced,   *)
(* its Send closed and its connection closed; what it followed stays.      *)
Register(c, failed) ==
    LET old == clients[UserOf[c]] IN
    /\ loop = "running"
    /\ reader[c] = "registering"
    /\ clients' = [clients EXCEPT ![UserOf[c]] = c]
    /\ sendOpen' = IF old = NoConn THEN sendOpen ELSE [sendOpen EXCEPT ![old] = FALSE]
    /\ socketOpen' = IF old = NoConn THEN socketOpen ELSE [socketOpen EXCEPT ![old] = FALSE]
    /\ FollowCoins(c, failed)
    /\ Launch(c)
    /\ UNCHANGED <<messages, profile, backlog, loop>>

(* The symbols unfollowAllCoins finds without subscribers once u is gone.  *)
LeftBy(u) == {s \in Symbols : coinSubscribers[s] = {u}}

(* The DELETE calls unregisterClient(c) launches, in the name of the user  *)
(* who left last.                                                          *)
Deletes(c) == IF Registered(UserOf[c])
                THEN [method : {"DELETE"}, user : {UserOf[c]}, symbol : LeftBy(UserOf[c])]
                ELSE {}

(* unfollowAllCoins. *)
UnfollowAll(u) ==
    /\ coinSubscribers' = [s \in Symbols |-> coinSubscribers[s] \ {u}]
    /\ activeRedisSub' = activeRedisSub \ LeftBy(u)
    /\ subscriptions' = subscriptions \ LeftBy(u)

(* Mutant: the user leaves m.clients but keeps following its coins. *)
UnregisterKeepsCoins(c) ==
    /\ loop = "running"
    /\ reader[c] = "unregistering"
    /\ clients' = [clients EXCEPT ![UserOf[c]] = NoConn]
    /\ UNCHANGED <<coinSubscribers, activeRedisSub, subscriptions>>
    /\ reader' = [reader EXCEPT ![c] = "closing"]
    /\ profile' = [profile EXCEPT ![c] = {}]
    /\ UNCHANGED <<messages, writer, sendOpen, backlog, socketOpen, loop>>

(* unregisterClient: whoever is registered for the user of c is removed,   *)
(* be it c or a client that replaced c.  Send is not closed.  The profile  *)
(* of c is read by nobody from now on.                                     *)
Unregister(c) ==
    LET u == UserOf[c] IN
    /\ loop = "running"
    /\ reader[c] = "unregistering"
    /\ IF Registered(u)
         THEN clients' = [clients EXCEPT ![u] = NoConn] /\ UnfollowAll(u)
         ELSE UNCHANGED manager
    /\ reader' = [reader EXCEPT ![c] = "closing"]
    /\ profile' = [profile EXCEPT ![c] = {}]
    /\ UNCHANGED <<messages, writer, sendOpen, backlog, socketOpen, loop>>

(* App.Stop cancels the context, and the loop's select picks that.  Until  *)
(* it does the loop serves requests as before, cancelled or not.           *)
LoopStops == /\ loop = "running"
             /\ loop' = "stopped"
             /\ UNCHANGED <<manager, messages, profile, sockets, sendOpen, backlog>>

-------------------------------------------------------------------------------
(* Redis messages. *)

(* A listener puts a price of s in Messages; it drops it when that is full. *)
Publish(s) ==
    /\ s \in subscriptions
    /\ Len(messages) < MsgCap
    /\ messages' = Append(messages, s)
    /\ UNCHANGED <<manager, profile, sockets, sendOpen, backlog, loop>>

(* The clients processRedisMessage sends the price of s to. *)
Receivers(s) == {clients[u] : u \in {v \in coinSubscribers[s] : Registered(v)}}

(* processRedisMessage: a client whose Send is full misses the message. *)
ProcessMessage ==
    /\ messages # <<>>
    /\ messages' = Tail(messages)
    /\ backlog' = [c \in Conns |->
           IF c \in Receivers(Head(messages)) /\ backlog[c] < SendCap THEN backlog[c] + 1
                                                                      ELSE backlog[c]]
    /\ UNCHANGED <<manager, profile, sockets, sendOpen, loop>>

-------------------------------------------------------------------------------
(* The goroutines of a client, and its peer. *)

(* Mutant: the Reader leaves its loop only for errors the peer caused. *)
ReadFailsUnexpectedly(c) ==
    /\ reader[c] = "reading"
    /\ socketOpen[c]
    /\ reader' = [reader EXCEPT ![c] = "unregistering"]
    /\ UNCHANGED <<manager, messages, profile, writer, sendOpen, backlog, socketOpen, loop>>

(* ReadMessage fails: the connection was closed, here or by the peer, or   *)
(* no pong came in time.                                                   *)
ReadFails(c) ==
    /\ reader[c] = "reading"
    /\ reader' = [reader EXCEPT ![c] = "unregistering"]
    /\ UNCHANGED <<manager, messages, profile, writer, sendOpen, backlog, socketOpen, loop>>

(* Mutant: the deferred Conn.Close() is missing. *)
ReaderForgetsClose(c) ==
    /\ reader[c] = "closing"
    /\ reader' = [reader EXCEPT ![c] = "done"]
    /\ UNCHANGED <<manager, messages, profile, writer, sendOpen, backlog, socketOpen, loop>>

(* Unregister returned: the deferred Conn.Close(). *)
ReaderCloses(c) ==
    /\ reader[c] = "closing"
    /\ reader' = [reader EXCEPT ![c] = "done"]
    /\ socketOpen' = [socketOpen EXCEPT ![c] = FALSE]
    /\ UNCHANGED <<manager, messages, profile, writer, sendOpen, backlog, loop>>

(* The Writer writes a message of Send. *)
WriterSends(c) ==
    /\ writer[c] = "running"
    /\ backlog[c] > 0
    /\ socketOpen[c]
    /\ backlog' = [backlog EXCEPT ![c] = @ - 1]
    /\ UNCHANGED <<manager, messages, profile, sockets, sendOpen, loop>>

(* A write of a message or of a ping fails, or Send is closed and drained:    *)
(* the Writer closes the connection and returns.                           *)
WriterEnds(c) ==
    /\ writer[c] = "running"
    /\ writer' = [writer EXCEPT ![c] = "done"]
    /\ socketOpen' = [socketOpen EXCEPT ![c] = FALSE]
    /\ \/ UNCHANGED backlog
       \/ backlog[c] > 0 /\ backlog' = [backlog EXCEPT ![c] = @ - 1]
    /\ UNCHANGED <<manager, messages, profile, reader, sendOpen, loop>>

Next ==
    \/ \E c \in Conns :
         \/ \E coins \in Portfolios : Connect(c, coins)
         \/ \E failed \in SUBSET Symbols : Register(c, failed)
         \/ Unregister(c) \/ ReadFails(c) \/ ReaderCloses(c)
         \/ WriterSends(c) \/ WriterEnds(c)
    \/ \E s \in Symbols : Publish(s)
    \/ ProcessMessage \/ LoopStops

(* The loop serves whoever is blocked on its channels; a read of a closed  *)
(* connection fails, and so does the Writer's ping, at the latest when its *)
(* ticker fires.                                                           *)
Fairness ==
    \A c \in Conns :
        /\ WF_vars(\E failed \in SUBSET Symbols : Register(c, failed))
        /\ WF_vars(Unregister(c))
        /\ WF_vars(~socketOpen[c] /\ ReadFails(c))
        /\ WF_vars(ReaderCloses(c))
        /\ WF_vars(~socketOpen[c] /\ WriterEnds(c))

Spec == Init /\ [][Next]_vars /\ Fairness

-------------------------------------------------------------------------------
(* Properties. *)

(* No send on a closed channel and no second close: both would panic the   *)
(* whole service.  A client is only sent to, and its Send only closed,     *)
(* while it is in m.clients; there Send is open and the client was         *)
(* launched.                                                               *)
RegisteredCanReceive ==
    \A u \in Users : Registered(u) =>
        /\ UserOf[clients[u]] = u
        /\ sendOpen[clients[u]]
        /\ writer[clients[u]] # "none"

(* Whoever follows a symbol is registered. *)
SubscribersAreRegistered ==
    \A s \in Symbols : \A u \in coinSubscribers[s] : Registered(u)

(* A registered client follows every coin of its own portfolio, also when  *)
(* it replaced a connection with another portfolio.                        *)
FollowsItsPortfolio ==
    \A u \in Users : Registered(u) =>
        \A s \in profile[clients[u]] : u \in coinSubscribers[s]

(* The manager's record of Redis subscriptions is the subscriber's own,    *)
(* and no symbol without followers keeps one.                              *)
RedisMatchesFollowers ==
    /\ activeRedisSub = subscriptions
    /\ \A s \in activeRedisSub : coinSubscribers[s] # {}

(* The manager's three maps agree with one another and with the subscriber, *)
(* whichever subscriptions fail and whichever connections replace or leave  *)
(* each other: no price is computed for a user who is gone, the last one to *)
(* leave a symbol is always noticed, and none leaves a subscription behind  *)
(* (manager.go:121-161).                                                    *)
MapsAgree == TypeOK /\ SubscribersAreRegistered /\ RedisMatchesFollowers

(* A client whose connection was replaced loses both its goroutines,       *)
(* unless the service stops first.                                         *)
ReplacedClientEnds ==
    \A c \in Conns : ~sendOpen[c] ~>
        \/ reader[c] = "done" /\ writer[c] = "done"
        \/ loop = "stopped"

(* A Writer does not outlive its Reader, though unregistering does not     *)
(* close Send: its pings fail.                                             *)
WriterFollowsReader ==
    \A c \in Conns : reader[c] = "done" ~> writer[c] = "done"

(* README.md:629: a connected client receives a message at every change of *)
(* a price.  Only registered clients do: whoever has an open connection    *)
(* that was registered is registered still.                                *)
OpenConnectionStaysRegistered ==
    \A c \in Conns : reader[c] = "reading" /\ socketOpen[c] => Registered(UserOf[c])
===============================================================================
