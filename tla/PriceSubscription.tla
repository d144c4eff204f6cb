--------------------------- MODULE PriceSubscription --------------------------
(***************************************************************************)
(* How a portfolio's symbols get their price streams: the Profile service's *)
(* WsManager and the Aggregator's StreamManager, and between them the      *)
(* GET/DELETE /coin calls of Manager.notifyAggregator.  Each call runs in  *)
(* a goroutine of its own, so calls in flight arrive in any order; a call  *)
(* carries the user whose step launched it, the first follower of a symbol *)
(* for a GET, the last one to leave it for a DELETE.                       *)
(*                                                                         *)
(* Steps of the price flow itself (Redis messages, the Writers' sends) and *)
(* the shutdown of either service leave subscriptions alone and are left   *)
(* to the two components' own modules.                                     *)
(*                                                                         *)
(* The module extends that of the Profile's manager, whose actions have    *)
(* their names here, and has the Aggregator's as an instance.              *)
(***************************************************************************)
EXTENDS WsManager

CONSTANTS Workers, NoWorker, NoSymbol, MaxRetries, ChanCap, MaxLate

VARIABLES followers, streams, phase, symbolOf, cancelled, attempts, queued,
          main, shutdownErr, inFlight,
          calls,    \* how many of each call are in flight
          disturbed \* ghost: symbols whose first follower may be unknown

(* The Profile queries the Aggregator with the spelling of its portfolios; *)
(* here all portfolios use the Aggregator's, so Lower changes nothing.     *)
Aggregator == INSTANCE StreamManager WITH
                  Spellings <- Symbols, Lower <- [s \in Symbols |-> s]

profileVars == vars
aggregatorVars == <<followers, streams, phase, symbolOf, cancelled, attempts, queued,
                    main, shutdownErr, inFlight>>
joinedVars == <<profileVars, aggregatorVars, calls, disturbed>>

Calls == [method : {"GET", "DELETE"}, user : Users, symbol : Symbols]

JoinedInit == /\ Init
              /\ Aggregator!Init
              /\ calls = [k \in Calls |-> 0]
              /\ disturbed = {}

-------------------------------------------------------------------------------
(* go m.notifyAggregator(...) for every call of the set ks. *)
LaunchCalls(ks) == calls' = [k \in Calls |-> IF k \in ks THEN calls[k] + 1 ELSE calls[k]]

(* Ghost: a GET makes its symbol's stream known again, unless a DELETE of  *)
(* the same user is still on its way and may come after it.                *)
Announce(gets) ==
    LET late == {k \in gets : calls[[k EXCEPT !.method = "DELETE"]] > 0} IN
    disturbed' = (disturbed \ {k.symbol : k \in gets}) \cup {k.symbol : k \in late}

(* A client registers, and its new symbols are announced. *)
RegisterClient(c, failed) ==
    /\ Register(c, failed)
    /\ LaunchCalls(Gets(c))
    /\ Announce(Gets(c))
    /\ UNCHANGED aggregatorVars

(* Mutant: every symbol of the one who leaves is given up, not only those  *)
(* nobody else follows.                                                    *)
UnregisterGivesUpAll(c) ==
    /\ Unregister(c)
    /\ LaunchCalls([method : {"DELETE"}, user : {UserOf[c]}, symbol : profile[c]])
    /\ UNCHANGED <<aggregatorVars, disturbed>>

(* A client unregisters, and the symbols left without followers are given up. *)
UnregisterClient(c) ==
    /\ Unregister(c)
    /\ LaunchCalls(Deletes(c))
    /\ UNCHANGED <<aggregatorVars, disturbed>>

(* The rest of a client's life launches no call. *)
ClientStep(c) ==
    /\ \/ \E coins \in Portfolios : Connect(c, coins)
       \/ ReadFails(c) \/ ReaderCloses(c) \/ WriterEnds(c)
    /\ UNCHANGED <<aggregatorVars, calls, disturbed>>

(* A call reaches the Aggregator; a GET of a user who follows already is   *)
(* answered "already_subscribed".                                          *)
Serve(k) ==
    /\ calls[k] > 0
    /\ calls' = [calls EXCEPT ![k] = @ - 1]
    /\ \/ k.method = "GET" /\ Aggregator!AddCoin(k.symbol, k.user)
       \/ k.method = "GET" /\ k.user \in followers[k.symbol] /\ UNCHANGED aggregatorVars
       \/ k.method = "DELETE" /\ Aggregator!DeleteCoin(k.symbol, k.user)
    /\ UNCHANGED <<profileVars, disturbed>>

(* A call fails, by its timeout or an error of the network, before it      *)
(* takes effect; notifyAggregator logs that and does not repeat it.  A     *)
(* call that fails after it took effect is Serve.                          *)
Lose(k) ==
    /\ calls[k] > 0
    /\ calls' = [calls EXCEPT ![k] = @ - 1]
    /\ disturbed' = IF k.method = "GET" THEN disturbed \cup {k.symbol} ELSE disturbed
    /\ UNCHANGED <<profileVars, aggregatorVars>>

(* The Aggregator is killed and starts again, with no followers and no     *)
(* streams; the Profile does not notice.                                   *)
AggregatorRestarts ==
    /\ followers' = [s \in Symbols |-> {}]
    /\ streams' = [s \in Symbols |-> NoWorker]
    /\ phase' = [w \in Workers |-> "idle"]
    /\ symbolOf' = [w \in Workers |-> NoSymbol]
    /\ cancelled' = [w \in Workers |-> FALSE]
    /\ attempts' = [w \in Workers |-> 0]
    /\ queued' = 0
    /\ main' = "serving" /\ shutdownErr' = FALSE /\ inFlight' = 0
    /\ disturbed' = disturbed \cup activeRedisSub
    /\ UNCHANGED <<profileVars, calls>>

(* A stream goroutine connects, receives, fails or ends. *)
StreamStep ==
    /\ Aggregator!TakeRaw \/ \E w \in Workers : Aggregator!Worker(w)
    /\ UNCHANGED <<profileVars, calls, disturbed>>

JoinedNext ==
    \/ \E c \in Conns :
         \/ \E failed \in SUBSET Symbols : RegisterClient(c, failed)
         \/ UnregisterClient(c)
         \/ ClientStep(c)
    \/ \E k \in Calls : Serve(k) \/ Lose(k)
    \/ AggregatorRestarts
    \/ StreamStep

JoinedSpec == JoinedInit /\ [][JoinedNext]_joinedVars

-------------------------------------------------------------------------------
(* Properties. *)

Quiet == \A k \in Calls : calls[k] = 0

(* Once all calls have arrived or failed, a symbol the Profile listens to  *)
(* has a follower at the Aggregator, in whatever order they arrived: unless *)
(* the GET that announced it was lost or overtaken by an older DELETE of   *)
(* the same user, or the Aggregator restarted under it.  None of these     *)
(* outlasts the symbol's present users: the first one to come after they   *)
(* have left announces it anew (manager.go:134-136, 155).                  *)
SubscribedSymbolIsFollowed ==
    Quiet => \A s \in activeRedisSub \ disturbed : followers[s] # {}
===============================================================================
