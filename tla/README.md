# Verification of the crypto asset tracker

TLA+ specifications of the services under `src/`, the TLC configurations that
check them, and TLAPS proofs. Every definition is translated from the Go code;
`PROJECT.json` maps it to the lines it stands for.

## The system

Prices flow from Binance to the users' browsers and to an analytics store:

```
Binance --ws--> Socket --gRPC--> Aggregator --Redis--> Profile --ws--> browser
                                     |                    |
                                   Kafka          HTTP GET/DELETE /coin
                                     |           (Profile to Aggregator)
                                     v
                              Kafka-ClickHouse --> ClickHouse --> Dashboard

browser --HTTP--> Profile --gRPC--> Authorization --> PostgreSQL
```

| Component | State | Operations | What is hard | What makes it correct |
|---|---|---|---|---|
| Aggregator, stream manager (`gateway/strman`) | followers of each symbol, cancel function of each stream | `AddCoin`, `DeleteCoin`, one goroutine per stream | handlers run while a goroutine dials, retries, is cancelled or cleans up | one stream per symbol, none for a symbol nobody follows, `wg.Wait` of an orderly shutdown covers them all |
| Aggregator, mini ticker pipeline (`gateway/converting`, `adapters/kaffka`) | six bounded channels, the batch buffer and its timer | a chain of goroutines from the gRPC stream to Kafka | back pressure; who closes a channel while who sends on it; shutdown in no fixed order | no ticker lost or doubled while running; shutdown ends |
| Aggregator, second stat pipeline (`convertingAggTrade.go`, `adapters/reddis`) | latest price per symbol, three bounded channels | a converter, its worker with a ticker, the Redis writer | a send that drops, a channel closed while its sender may still send, a writer that gives up | the latest price is published in the end; only an interrupt ends the chain |
| Profile, WebSocket manager (`internal/websocket`, `storage/redis`) | clients, subscribers of each coin, active Redis subscriptions | register, unregister, message from Redis, reader and writer of each connection | a user who reconnects, late unregisters, a closed `Send` channel | the three maps agree, no send on a closed channel, lost connections end |
| Profile to Aggregator | calls in flight | `notifyAggregator` | one goroutine per call: no order, no retry; a call may be lost and the Aggregator restart | a symbol someone listens to is followed |
| Profile, App and Redis subscriber (`internal/app`, `storage/redis`) | two servers, how far each `Stop` is, the PubSubs and their listeners | serve, fail, stop, subscribe, unsubscribe, close | Stop runs beside everything, perhaps twice; the manager waits for Redis with the lock held | one listener per subscription, waiting connections are served, the process ends |
| Socket (`connsock`, `svr`) | one connection per symbol, its reader, an error channel | connect, reconnect, read, serve a gRPC stream | reconnects against a reader that reads, sends or reports | one reader, on the producer's connection, and no other connection open but the one a retried first dial loses |
| Kafka-ClickHouse | committed offset, a channel, a batch | consume, commit, batch, insert | the commit precedes the insert; crashes, rebalances, doubtful inserts | every message stored once, in order |
| Authorization | users and sessions in PostgreSQL | Register, Login, RefreshToken, Logout, cleanup | concurrent transactions, READ COMMITTED, crashes, expiry | a refresh token works once, a login has one session |
| Profile, coins and users (`internal/service`, `internal/repository`) | users and coins in PostgreSQL | quantity changes, deletion, profile creation | a read-modify-write without a lock, soft deletion, a `Save` that inserts | the sum of the changes, but for the rounding of its column, as long as no commit passes another; a change covered beyond the rounding is not refused; a missing profile is made |
| Profile, HTTP handlers, middleware, gRPC server | none of their own | call the services above | order of the calls to two services | each call's effect is that of the service it calls |
| ClickHouse client, configuration, hashing, database opening, Dashboard | none | | | |

The last row is not modelled. Of the handlers the ones that change state are
modelled, as actions of the services they call.

## Modules

Each component is one module with its variables, one action per operation or
goroutine step, and its properties; an `MC...` module and `.cfg` files
instantiate it for TLC. An operator whose comment begins with "Mutant" is a
plausible bug in the definition after it, used to see that a property depends
on the code: no specification uses it.

**SymbolFeed** is abstract: for each symbol who is interested, and a feed that
is off, on or closing. A feed opens only when there is none, closes only with
the last interest, and a closing feed ends.

**StreamManager** details it. `AddCoin` and `DeleteCoin` hold the mutex from
the first line to the last and are one action each. A goroutine goes through
connecting, opening, receiving, sending and exiting; `AttemptFails` counts the
retries of `createClientConn` and `createAggTradeStream`, `StopOnContext` is
each of its `ctx.Done()` cases, `Cleanup` its deferred function, which takes
the mutex again. `MainTo` and the actions made of it are the end of `main`:
`server.Shutdown` returns when the last handler has (`ServerShutdown`) or when
its 3 seconds are over (`ServerShutdownTimesOut`, `shutdownErr`), and then some
handlers, `inFlight`, still run beside `wg.Wait`. The group counts to zero
(`WaitReleased`) before Wait returns (`Exit`); a handler that starts a stream
between the two makes it panic (`WaitPanics`) or goes unnoticed. Messages are
counted, not told apart. `followers` of a missing key and of an empty set act
alike in the code and are one value here.

**WsManager** has the three maps of `Manager`, the subscriptions of Redis, and
for each connection the state of its reader, its writer, its `Send` channel
and its socket. `Register` and `Unregister` are what `Manager.Run` does with a
client from its channels; the client itself is blocked in its send until then.
The set of symbols for which `Subscribe` fails is chosen at each registration.

**PriceSubscription** extends WsManager and has StreamManager as an `INSTANCE`,
the two sharing no variable: `calls` counts the GET and DELETE calls in flight.
What the composition adds has names of its own (`JoinedInit`, `JoinedNext`,
`JoinedSpec`, `RegisterClient`, `UnregisterClient`). `LaunchCalls` is the
`go m.notifyAggregator(...)` of a manager step, `Serve` the handler of the
Aggregator taking any one of them, `Lose` a call that fails before it takes
effect (one that fails after it is `Serve`: nothing looks at the answer).
`AggregatorRestarts` sets StreamManager back to its initial state while
WsManager goes on. The ghost `disturbed` collects the symbols of which the code
cannot know the follower: a GET was lost or may be overtaken by an older DELETE
of the same user, or the Aggregator restarted. `Announce`, a registration that
asks for the symbol anew, takes it out again, so the property also says that a
fault does not outlast the users it met.

**SocketProducer** has the loop of `socketProducer.Start` as a program counter
through `doReconnect`, and one reader goroutine per connection. `conn`
is `sp.conn`. `RetryConnect` is the retry of a first dial: its connection goes to
the variable of an inner scope (`conn.go:52`), so `conn` stays nil and the open
connection is `lost`. Nothing in the program closes it; `LostIsCollected` is the
finalizer of its socket, which may run or not. The streams
of `server.ReceiveRawAggTrade` take messages from `outputChan`. The producers
of different symbols, and that of the mini tickers, run the same code and share
nothing, so one stands for all.

**EtlPipeline** has the consumer goroutine, the inserter goroutine, the channel
between them, and what survives the process: the topic, the committed offset
and the table. A message is its offset. `Join`, `Leave` and `Flush` stand for
the kafka-go reader between the calls made of it: joining a group, losing
partitions, and sending the offset of an earlier `CommitMessages`.

**AuthSessions** has handlers that run the statements of one call each, on
tables in which a row locked by a transaction makes another deleter wait, and a
statement sees what is committed when it starts (READ COMMITTED, the default
of PostgreSQL, which the code does not change). `Crash` and `Fail` may come at
every step; a transaction that does not commit leaves nothing.

**DailyStatPipeline** has the goroutines from the mini ticker stream to Kafka.
All channels are one variable, `chan`, each with its contents and whether it is
closed; `held` is what a goroutine has taken and not passed on. The goroutine of
`ReceiveKafkaMsg` is called "maker". A *place* is a goroutine or a channel, and
`At` and `Have` say which tickers a place has: `EachTickerOnce` speaks of places. The process
panics (`panic`) of a send on a closed channel, of a nil connection
(`receive_msgs.go:68-77`: `Dial` after the retries of `createClientConn` ran out, or
after an interrupt), or of a division by a close price of zero
(`models/internal.go:37`); then nothing moves any more. Trades, which share the
first channel, leave at the distributor. Kafka is the set of tickers it has, as
a failed `WriteMessages` may have written some of a batch.

**SecondStatPipeline** has the way of a trade to Redis: `DistributeMessages` as
far as it puts trades on a channel, `ConvertRawToSS`, its worker
`receiveSecondStat`, and `saver.Start`. A price is known by the number of the trade
it comes from, which stands for what `PriceFloat` makes of that trade: the -1 of a
price that is no number goes the same way as any other. `ReceiveTick` makes the set `todo` of the symbols to offer, `Offer`
takes any of them (the order of a Go map) and drops the price when the channel
is full; `OfferPanics` is a send after `ConvertReturns` closed the channel.
`Ping` may end the writer for good. What happens to trades before the
distributor is StreamManager and SocketProducer. Names that DailyStatPipeline has
too begin with `Stat`, so that one module of proofs can extend both.

**CoinLedger** has handlers that run the statements of `UpdateCoinQuantity`,
`DeleteCoin`, registration, `wsConnect` and profile creation, one action each,
on the rows of a coin with their soft deletion. `upsert` is the INSERT that
gorm's `Save` makes when its UPDATE finds no row. Quantities are whole numbers of a
unit as fine as any request's decimals, and `Unit` of these are one in the eighth
place, which is all the column keeps: a commit writes the quantity `Round`ed. The
ghost `ledger` is what the committed calls add up to, exactly, and `rounded` counts
those of them whose quantity the column changed; the ghost `disturbed` has the users one of whose
commits was passed by another between its read and its commit, which is where
the code loses updates. The field `stale` of a call says that this happened to
it. Statements fail and the process crashes at every step.

**ProfileApp** has the life of the Profile service: two servers, the calls they
serve, connections up to `Unregister`, the manager's loop, PubSubs with a
channel and a listener each, and `App.Stop` step by step, run by `main` and by
`App.Run`. It complements WsManager: here all connections hold one symbol, and
it matters who waits for whom. The loop is "receiving" while `Subscribe` waits
for Redis with the subscriber's lock held; `MuFree` is what `Close` needs.

The modules named `...Proofs` have the theorems about the modules they extend:
`PriceSubscriptionProofs` those about WsManager as well, and
`AggregatorPipelinesProofs` those about DailyStatPipeline and SecondStatPipeline.

## Runs

| Run | Expectation | Instance | What it shows |
|---|---|---|---|
| `stream_manager` | pass | 2 symbols in 3 spellings, 2 users, 2 goroutines, 2 attempts, a channel of 1, 1 late handler | `EntriesMatchWorkers`, `OneStreamPerSymbol`, `UnfollowedIsCancelled`; `CancelsOnlyUnfollowed`; `WaitCoversStreams`; `CancelledWorkerEnds`, `ShutdownCompletes`; and `RefinesFeed`, the refinement of SymbolFeed |
| `ws_manager` | pass | 2 users, one of whom connects twice, 1 coin held or not | the maps agree (`MapsAgree`), a client is a subscriber of its portfolio (`FollowsItsPortfolio`), no send to a closed channel (`RegisteredCanReceive`), goroutines of lost connections end (`ReplacedClientEnds`, `WriterFollowsReader`) |
| `ws_manager_replaced` | violation | the same | a replaced connection's unregister removes its successor (`OpenConnectionStaysRegistered`) |
| `price_subscription` | pass | 2 users sharing a symbol, one of whom connects again, 1 goroutine; calls in any order or lost, restarts of the Aggregator at any time | `SubscribedSymbolIsFollowed` |
| `profile_app` | pass | 2 connections, 2 PubSubs with a channel of 1 | `ListenersFollowSubscription`: one listener per subscription, none without clients, and no panic before `Close`; `ConnectionsAreServed`, `ProcessEnds` |
| `coin_ledger` | pass | 2 handlers, 1 user, changes of 0, of one in the last place and of a third of it, quantities to one, 3 rows, 2 rounded changes | `TableKeepsLedger`, `RefusedOnlyIfShort`, `ProfileIsRepaired` |
| `socket_producer` | pass | 2 readers, 2 streams, 2 attempts, a channel of 1 | `ReaderHasConnection`, `ConnectedIsRead`, `ReturnsClean`, `BrokenConnectionIsDropped`, `ShutdownReturns` |
| `etl_pipeline` | pass | 3 messages of which one does not parse, a channel of 1, batches of 2, one rebalance, doubtful insert and restart each | `ExactlyOnceInOrder` until something disturbs the service, `CommittedWasHandedOn` always, `BufferedIsStored`, `InterruptEnds` |
| `etl_shutdown` | violation | the same without disturbances | an orderly interrupt loses committed messages (`ShutdownInsertsRemaining`) |
| `auth_sessions` | pass | 2 handlers, 1 name, 3 tokens | `ExchangedOnce`, `OneSessionPerLogin`, `LoggedOutIsSpent`, `CallsAreAnswered` |
| `daily_stat_pipeline` | pass | a trade and two arrays of a ticker each, 2 workers, channels of 1, batches of 2 | `EachTickerOnce`, `ChannelsCloseOnInterrupt`, `ReceivedIsWritten`, `InterruptEnds` |
| `second_stat_pipeline` | pass | 2 symbols of a trade each, channels of 1 | `RunsUntilInterrupt`, `LatestIsPublished`, `StatInterruptEnds` |

The violations are disagreements of the code with what the repository says of
itself. `PROJECT.json` lists them under `findings`, each with the quotation; the
findings without a run of their own were met while modelling, and most are
cases a passing property excepts by name: the disturbed coins of `TableKeepsLedger`
and its rounding, the `lost` connection of `ConnectedIsRead`, the timed-out
`server.Shutdown` of `WaitCoversStreams`, the stranded sends of `InterruptEnds`,
the panics past `Close` of `ListenersFollowSubscription`.

### Bounds

The hazards take two actors on one object, so two of each are enough to meet
them: two users and two goroutines to a symbol, two connections of a user, two
handlers of a token or of a coin, two workers to a channel. A channel of one
place is full after one message, and batches of two have a full, a partial and
an empty case. Two attempts have a first, a last, and a failure between. Of two
price users, one of whom comes back, the first follower and the last differ, and
an older DELETE of a user meets a newer GET of the same. Three tokens are a
login and two rotations, so that an old token can be offered beside its
successor's. Two symbols compete for a `secondStatChan` of one place, so that
one of them is dropped; one trade of each is the hard case, as no later trade
makes a lost price good. Two PubSubs are one that drains and one that has taken
its place. Coins change by one in the last place, up or down, or by a third of it
(`Unit` is 3), which is rounded down alone and up as the second; a quantity of one
in the last place is one below what two changes make; three rows are the two that concurrent first changes
make and one more that a `Save` revives.

Each bound of the code is a CONSTANT with the value of the code beside its
declaration. The bounds that are not in the code (`MsgLimit`, `LeaveLimit`,
`DoubtLimit`, `RestartLimit`, `TokenLimit`, `MaxTrades`, `MaxRows`, `MaxRounded`,
`MaxLate`, the number of connections, PubSubs and goroutines) cut the behaviours, not the state a step
can reach within them. Symmetry is not used: most runs check liveness.

Deadlock is checked for StreamManager, whose `Exited` step says that the
process is gone (returned or panicked), for AuthSessions and for CoinLedger. The other systems may
stop: a connection that has ended for good, an interrupted process, a stream of
messages that is used up.

### Fairness

- *Goroutines that can run, run* (weak fairness of their steps), and timers
  fire. The Go scheduler does this.
- *A `select` with several ready cases chooses at random*, so a case that is
  ready again and again is taken: strong fairness for the cancellation case of
  the Socket loop, the end of the inserter, the producer's messages and its
  end, whose timer case may be ready each time, and of a trade, a tick and the
  context in `receiveSecondStat`.
- *The order of a Go map is random*: strong fairness of the offer of each symbol
  that finds room (`OfferWithRoom`).
- *Between two ticks there is a second*, in which a Redis writer that can go on
  does: strong fairness of its steps while the worker selects (`BetweenTicks`).
  Without it the writer might take only amid the offers, and always the same
  symbol's.
- A row lock is granted in turn (PostgreSQL): strong fairness of the handlers
  of AuthSessions.
- ClickHouse accepts an insert that is tried for ever, and Redis a price of a
  symbol that is published again and again: strong fairness of `Inserted` and
  of `Publish`. Without them `BufferedIsStored` and `LatestIsPublished` say nothing.
- Who waits to send on a Go channel, and who waits for a Go mutex, has it in
  its turn: strong fairness of `ServeClient` and `CloseSubscriber` in ProfileApp.
- A read of a closed connection fails, and a writer's ping too.
- *No* fairness for requests, messages, interrupts, failures, connecting and
  opening: none of these need happen. In ProfileApp not even a reply of Redis or
  the end of a gRPC call is owed: `ConnectionsAreServed` and `ProcessEnds` have
  them as their conditions (`RedisAnswers`, `RpcsReturn`), since
  `Subscribe` and `GracefulStop` wait for them without a deadline.

`InterruptEnds` of DailyStatPipeline names the two cases in which the shutdown
does not end: a panic, and one of the two sends without a `ctx.Done()` case on
a full channel whose reader has returned. Both are reachable.

## Proofs

Each module of proofs has an inductive invariant for each specification it is
about (`IInv`, `JoinedInv`, `OrderInv`, `StatInv`, `DailyInv`), a lemma per group
of steps that they keep it, and the theorems that follow. They assume of the
constants what the modules' ASSUMEs say, and nothing of how many there are.
Every safety invariant and every action property that a passing run checks is
also a theorem.

| Module | Theorem | Statement |
|---|---|---|
| `StreamManagerProofs` | `Invariance`, `TypeCorrect`, `EntriesAlwaysMatch`, `AtMostOneStream`, `NoForgottenStream` | `IInv`, `TypeOK`, `EntriesMatchWorkers`, `OneStreamPerSymbol`, `UnfollowedIsCancelled` always hold |
| | `CancelIsOfUnfollowed`, `WaitCovers` | `Spec => CancelsOnlyUnfollowed`, `Spec => WaitCoversStreams` |
| | `ImplementsFeed` | every step of StreamManager is one of SymbolFeed or a stutter |
| `PriceSubscriptionProofs` | `MapsAlwaysAgree`, `NoSendOnClosed`, `PortfolioIsFollowed` | of WsManager: `MapsAgree`, `RegisteredCanReceive`, `FollowsItsPortfolio` always hold |
| | `SubscriptionsAreFollowed` | `JoinedSpec => []SubscribedSymbolIsFollowed` |
| | `JoinedIsManager` | `JoinedSpec => Init /\ [][Next]_vars`, the manager's |
| | `JoinedIsStreamManager` | `JoinedSpec` implies the stream manager's steps and restarts |
| | `ManagerIsSafeJoined` | the manager's three invariants hold under `JoinedSpec` |
| `ProfileAppProofs` | `SubscriptionIsListenedTo` | `Spec => []ListenersFollowSubscription` |
| `CoinLedgerProofs` | `LedgerInvariance`, `LedgerAlwaysKept` | `IInv`, `TableKeepsLedger` always hold |
| | `RefusalIsRight`, `ProfileRepair` | `Spec => RefusedOnlyIfShort`, `Spec => ProfileIsRepaired` |
| `SocketProducerProofs` | `ReaderReadsConnection`, `OnlyLostIsUnread`, `OnlyLostIsLeftBehind` | `ReaderHasConnection`, `ConnectedIsRead`, `ReturnsClean` always hold |
| `EtlPipelineProofs` | `RowsInOrder`, `CommitsFollowHandover` | `ExactlyOnceInOrder`, `CommittedWasHandedOn` always hold |
| `AuthSessionsProofs` | `TokenIsExchangedOnce`, `LoginKeepsOneSession` | `ExchangedOnce`, `OneSessionPerLogin` always hold |
| | `LogoutIsFinal` | `Spec => LoggedOutIsSpent` |
| `AggregatorPipelinesProofs` | `TickersAreOnce`, `ChannelsClosedOnInterrupt` | of DailyStatPipeline: `EachTickerOnce`, `ChannelsCloseOnInterrupt` always hold |
| | `RunsUntilInterrupted` | of SecondStatPipeline: `RunsUntilInterrupt` always holds |
| | `PricesGoForward` | `StatSpec => [][\A s \in Symbols : told[s] <= told'[s]]_statVars` |

The arguments:

- *StreamManager.* That `AddCoin` finds no entry says something of goroutines
  only if a running goroutine always has its entry, and that `Cleanup`, which
  deletes by symbol, does not delete a successor's entry needs the converse.
  `EntriesMatchWorkers` says both; with the types and `UnfollowedIsCancelled` it
  is inductive, `OneStreamPerSymbol` follows without an induction of its own,
  and so does the refinement: a cleanup ends the feed of its symbol and of no
  other. For `WaitCovers`: as long as `server.Shutdown` did not time out, no
  handler runs once `main` waits, so a group that was released stays empty
  (`WaitInv`).
- *WsManager.* The properties and `Unlaunched`: a connection whose handler is
  still in `Register` has an open `Send` and is in no map, so the client a
  registration replaces, and closes, is another one.
- *PriceSubscription.* `SubscribedSymbolIsFollowed` speaks only of moments
  without calls. What is inductive is `Announced`: an undisturbed symbol Profile
  listens to always has a user with no DELETE of it on its way, who follows it
  at the Aggregator or has a GET on its way. The two services together take only
  steps of each: `RegisterClient` is a `Register`, `Serve` a handler of the
  Aggregator or nothing. So what was proved of the manager alone holds of it here
  too, and need not be proved again; of the stream manager the restarts are one
  step more.
- *ProfileApp.* A loop that waits for Redis has clients and no subscription, so
  the new subscription replaces none; and whatever `Close` did, the context was
  cancelled before.
- *CoinLedger.* `TableKeepsLedger` says nothing of the calls under way. A call that
  no commit passed since it read still agrees with the table (`Current`); a
  commit makes every other call of its user stale. A commit that is rounded moves
  the table from the ledger by half of the last place at most (`RoundIs`), and
  `rounded` has one more to allow it (`OneMoreRounding`).
- *SocketProducer.* Only `sp.conn` and the lost connection are not closed
  (`OneLink`, `LostIsApart`), there is none while
  the loop dials (`NoConnWhileDialling`), and a reader that ended by itself left
  an error or the context is done (`ReaderOrError`).
- *EtlPipeline*, the order. The places a message passes through are one line
  (`Line`: the table, the batch, the channel, and the message in hand while it is
  still to be offered). Each step moves the boundary between two of them or adds
  the next offset at the end, where it is the greatest as the reader is past all
  it fetched (`ReaderIsAhead`); a message is offered only if it parses.
- *EtlPipeline*, the commits. An offset that is committed, about to be, or behind the reader
  and not in its hand went on to the inserter (`PassedOn`): that is more than
  the property, as after a rebalance the reader reads again what it passed.
- *AuthSessions.* A refresh about to store its new session holds the lock of the
  old one's row (`Locks`), and a token that was exchanged or logged out has no
  row (`Spent`), so no other refresh comes that far with it.
- *DailyStatPipeline.* `DailyInv` has the types, `Shape` (a goroutine holds
  something exactly while it sends, one message unless it is the converter),
  `Closing` (a channel is closed, and the converter or the maker on its way out,
  only after an interrupt) and `EachOnce`: the tickers at each place are apart from
  each other, from those at other places and from those written, and all were
  received, so that a new message brings none that is anywhere yet. `TransferKeeps`
  and `DropKeeps` say so of a move from one place to the next and of what is
  dropped; every action but `Recv`, `Convert` and `ProducerWrites` is one of the two.
- *SecondStatPipeline.* `StatInv` adds to `RunsUntilInterrupt` that what is to be
  sent, published or offered is a price. For `PricesGoForward` the places of a
  price are ordered: what Redis was told, what the writer has, `secondStatChan`,
  `latestPrices` (`ToldInOrder`), the trades to come, `rawAggTradeChan` and the
  last trade (`ComingInOrder`). The order is stated between any two places, not of
  one line, since a context or a full channel takes prices out of the middle.

Only model-checked: all liveness, since fairness involves ENABLED, which is out
of the provers' reach (`CancelledWorkerEnds`, `ShutdownCompletes`,
`ReplacedClientEnds`, `WriterFollowsReader`, `ConnectionsAreServed`,
`ProcessEnds`, `BrokenConnectionIsDropped`, `ShutdownReturns`, `BufferedIsStored`,
`InterruptEnds` of EtlPipeline and of DailyStatPipeline, `StatInterruptEnds`,
`ReceivedIsWritten`, `LatestIsPublished`, `CallsAreAnswered`, and the fairness
part of `RefinesFeed`). Only proved: `PricesGoForward` and the three theorems
about the joined services.

## Plan

What could still be added, in this order:

1. An abstract at-most-once log that EtlPipeline implements, and the
   composition of DailyStatPipeline and EtlPipeline through the topic.
2. Registration across Authorization and Profile: AuthSessions and CoinLedger
   joined by the gRPC calls between them, of which the answers may be lost.

## Not modelled

- HTTP and gRPC parsing and status codes, the JWT and its middleware, bcrypt and
  SHA-256, configuration, opening of databases and their retries, the table's
  creation, and the Dashboard: they keep no state that two steps share.
- `NewProducer`'s probe of Kafka and the ClickHouse client's start: I/O before
  any goroutine runs.
- `DeleteUserProfile` of the users' service, which nothing calls.
- The handlers that only read (portfolio, profile, coins).
- The contents of messages, except for what decides a branch; two spellings of
  one symbol outside StreamManager (a finding). Metrics and logs.
