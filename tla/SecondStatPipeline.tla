------------------------- MODULE SecondStatPipeline -------------------------
(***************************************************************************)
(* The Aggregator's way from trades to Redis: the distributor puts raw     *)
(* trades on a channel, ConvertRawToSS parses them, its worker             *)
(* receiveSecondStat keeps the latest price of each symbol and offers all  *)
(* of them every second, the Redis writer publishes what it gets.          *)
(*                                                                         *)
(* A price is known by the number of the trade it comes from, and 0 is     *)
(* none; Nil is a message that does not parse.  The number stands for what *)
(* PriceFloat makes of that trade's price, be it the -1 of a price that is *)
(* no number: that is kept, offered and published as any other.  A symbol  *)
(* is known by its lower-case spelling, in which this pipeline keeps and   *)
(* publishes it.                                                           *)
(* Names DailyStatPipeline, beside which the proofs extend this module, has *)
(* of its own begin with Stat here.                                        *)
(***************************************************************************)
EXTENDS Naturals, Sequences

CONSTANTS Symbols,
          MaxTrades,   \* bound: trades of each symbol
          RawCap,      \* capacity of rawAggTradeChan
          TradeCap,    \* capacity of aggTrChan
          OutCap,      \* capacity of secondStatChan
          Nil          \* no price

Price(s, n) == [symbol |-> s, n |-> n]
Prices == [symbol : Symbols, n : 1..MaxTrades]

ASSUME CapAssumption == {MaxTrades, RawCap, TradeCap, OutCap} \subseteq Nat \ {0}
ASSUME NilAssumption == Nil \notin Prices

VARIABLES cancelled,          \* main's context
          traded,             \* per symbol, trades distributed
          raw, rawOpen,       \* rawAggTradeChan
          conv, parsed,       \* ConvertRawToSS and the trade it wants to pass on
          trades,             \* aggTrChan, which nobody closes
          recv, latest, todo, \* receiveSecondStat, latestPrices, symbols to offer
          out, outOpen,       \* secondStatChan
          writer, stat,       \* saver.Start and the price it publishes
          told                \* per symbol, the trade whose price Redis was last told

convVars == <<conv, parsed>>
recvVars == <<recv, latest, todo>>
rawVars == <<raw, rawOpen>>
outVars == <<out, outOpen>>
writerVars == <<writer, stat>>
statVars == <<cancelled, traded, raw, rawOpen, conv, parsed, trades, recv, latest,
          todo, out, outOpen, writer, stat, told>>

StatInit ==
  /\ cancelled = FALSE
  /\ traded = [s \in Symbols |-> 0]
  /\ raw = <<>> /\ rawOpen = TRUE
  /\ conv = "taking" /\ parsed = Nil
  /\ trades = <<>>
  /\ recv = "selecting" /\ latest = [s \in Symbols |-> 0] /\ todo = {}
  /\ out = <<>> /\ outOpen = TRUE
  /\ writer = "ping" /\ stat = Nil
  /\ told = [s \in Symbols |-> 0]

\* A send on a closed channel panics, and the process is gone.
StatAlive == recv # "panicked"

(***************************************************************************)
(* DistributeMessages                                                      *)
(***************************************************************************)

\* A trade, or a message that starts like one and does not parse.
DistributeTrade(s) ==
  /\ StatAlive /\ rawOpen /\ Len(raw) < RawCap
  /\ \/ /\ traded[s] < MaxTrades
        /\ traded' = [traded EXCEPT ![s] = @ + 1]
        /\ raw' = Append(raw, Price(s, traded[s] + 1))
     \/ raw' = Append(raw, Nil) /\ UNCHANGED traded
  /\ UNCHANGED <<cancelled, rawOpen, convVars, trades, recvVars, outVars, writerVars, told>>

\* It returns on the context only, and closes the channel.
TradesEnd ==
  /\ StatAlive /\ cancelled /\ rawOpen
  /\ rawOpen' = FALSE
  /\ UNCHANGED <<cancelled, traded, raw, convVars, trades, recvVars, outVars, writerVars, told>>

(***************************************************************************)
(* ConvertRawToSS                                                          *)
(***************************************************************************)

\* Its deferred close of outChan.
ConvReturns == conv' = "returned" /\ parsed' = Nil /\ outOpen' = FALSE /\ UNCHANGED out

(* Mutant: a message that does not parse ends the converter. *)
ConvertTakesStrictly ==
  /\ StatAlive /\ conv = "taking" /\ raw # <<>>
  /\ raw' = Tail(raw)
  /\ IF Head(raw) = Nil THEN ConvReturns
                        ELSE conv' = "sending" /\ parsed' = Head(raw) /\ UNCHANGED outVars
  /\ UNCHANGED <<cancelled, traded, rawOpen, trades, recvVars, writerVars, told>>

ConvertTakes ==
  /\ StatAlive /\ conv = "taking" /\ raw # <<>>
  /\ raw' = Tail(raw)
  /\ IF Head(raw) = Nil THEN UNCHANGED convVars
                        ELSE conv' = "sending" /\ parsed' = Head(raw)
  /\ UNCHANGED <<cancelled, traded, rawOpen, trades, recvVars, outVars, writerVars, told>>

ConvertSends ==
  /\ StatAlive /\ conv = "sending" /\ Len(trades) < TradeCap
  /\ trades' = Append(trades, parsed)
  /\ conv' = "taking" /\ parsed' = Nil
  /\ UNCHANGED <<cancelled, traded, rawVars, recvVars, outVars, writerVars, told>>

\* On the context it waits for its worker, on a closed channel it does not.
ConvertSeesClosed ==
  /\ StatAlive /\ conv = "taking" /\ raw = <<>> /\ ~rawOpen
  /\ ConvReturns
  /\ UNCHANGED <<cancelled, traded, rawVars, trades, recvVars, writerVars, told>>

(* Mutant: the send to the worker does not look at the context. *)
ConvertSeesCancelTaking ==
  /\ StatAlive /\ cancelled /\ conv = "taking"
  /\ conv' = "waiting" /\ parsed' = Nil
  /\ UNCHANGED <<cancelled, traded, rawVars, trades, recvVars, outVars, writerVars, told>>

ConvertSeesCancel ==
  /\ StatAlive /\ cancelled /\ conv \in {"taking", "sending"}
  /\ conv' = "waiting" /\ parsed' = Nil
  /\ UNCHANGED <<cancelled, traded, rawVars, trades, recvVars, outVars, writerVars, told>>

ConvertWaited ==
  /\ StatAlive /\ conv = "waiting" /\ recv = "returned"
  /\ ConvReturns
  /\ UNCHANGED <<cancelled, traded, rawVars, trades, recvVars, writerVars, told>>

(***************************************************************************)
(* receiveSecondStat                                                       *)
(***************************************************************************)

ReceiveTrade ==
  /\ recv = "selecting" /\ trades # <<>>
  /\ trades' = Tail(trades)
  /\ latest' = [latest EXCEPT ![Head(trades).symbol] = Head(trades).n]
  /\ UNCHANGED <<cancelled, traded, rawVars, convVars, recv, todo, outVars, writerVars, told>>

\* A tick, which may come at any moment.  latestPrices never loses a symbol: every
\* tick offers all that ever traded.
ReceiveTick ==
  /\ recv = "selecting"
  /\ todo' = {s \in Symbols : latest[s] > 0}
  /\ recv' = IF todo' = {} THEN "selecting" ELSE "offering"
  /\ UNCHANGED <<cancelled, traded, rawVars, convVars, trades, latest, outVars, writerVars, told>>

Offered(s) ==
  /\ todo' = todo \ {s}
  /\ recv' = IF todo' = {} THEN "selecting" ELSE "offering"

(* Mutant: an offered price is forgotten, so that the map does not grow. *)
OfferAndForget(s) ==
  /\ recv = "offering" /\ s \in todo /\ outOpen
  /\ IF Len(out) < OutCap THEN out' = Append(out, Price(s, latest[s])) ELSE UNCHANGED out
  /\ Offered(s)
  /\ latest' = [latest EXCEPT ![s] = 0]
  /\ UNCHANGED <<cancelled, traded, rawVars, convVars, trades, outOpen, writerVars, told>>

\* The send does not wait: a full channel drops the price.  The map's order is
\* random.
Offer(s) ==
  /\ recv = "offering" /\ s \in todo /\ outOpen
  /\ IF Len(out) < OutCap THEN out' = Append(out, Price(s, latest[s])) ELSE UNCHANGED out
  /\ Offered(s)
  /\ UNCHANGED <<cancelled, traded, rawVars, convVars, trades, latest, outOpen, writerVars, told>>

OfferPanics ==
  /\ recv = "offering" /\ ~outOpen
  /\ recv' = "panicked"
  /\ UNCHANGED <<cancelled, traded, rawVars, convVars, trades, latest, todo, outVars, writerVars, told>>

ReceiveSeesCancel ==
  /\ cancelled /\ recv \in {"selecting", "offering"}
  /\ recv' = "returned" /\ todo' = {}
  /\ UNCHANGED <<cancelled, traded, rawVars, convVars, trades, latest, outVars, writerVars, told>>

(***************************************************************************)
(* saver.Start                                                             *)
(***************************************************************************)

\* The one ping decides whether there is a writer at all.
Ping ==
  /\ StatAlive /\ writer = "ping"
  /\ writer' \in {"taking", "returned"}
  /\ UNCHANGED <<cancelled, traded, rawVars, convVars, trades, recvVars, outVars, stat, told>>

WriterTakes ==
  /\ StatAlive /\ writer = "taking" /\ out # <<>>
  /\ writer' = "publishing" /\ stat' = Head(out) /\ out' = Tail(out)
  /\ UNCHANGED <<cancelled, traded, rawVars, convVars, trades, recvVars, outOpen, told>>

\* saveSecondStat; Start goes on whatever comes of it.
Publish(s) ==
  /\ StatAlive /\ writer = "publishing" /\ stat.symbol = s
  /\ told' = [told EXCEPT ![s] = stat.n]
  /\ writer' = "taking" /\ stat' = Nil
  /\ UNCHANGED <<cancelled, traded, rawVars, convVars, trades, recvVars, outVars>>

PublishFails ==
  /\ StatAlive /\ writer = "publishing"
  /\ writer' = "taking" /\ stat' = Nil
  /\ UNCHANGED <<cancelled, traded, rawVars, convVars, trades, recvVars, outVars, told>>

WriterReturns ==
  /\ StatAlive /\ writer = "taking" /\ (cancelled \/ (out = <<>> /\ ~outOpen))
  /\ writer' = "returned"
  /\ UNCHANGED <<cancelled, traded, rawVars, convVars, trades, recvVars, outVars, stat, told>>

StatInterrupt ==
  /\ StatAlive /\ ~cancelled /\ cancelled' = TRUE
  /\ UNCHANGED <<traded, rawVars, convVars, trades, recvVars, outVars, writerVars, told>>

TradeConverter == ConvertTakes \/ ConvertSends \/ ConvertSeesClosed \/ ConvertSeesCancel \/ ConvertWaited
StatReceiver == ReceiveTrade \/ ReceiveTick \/ (\E s \in Symbols : Offer(s)) \/ OfferPanics \/ ReceiveSeesCancel
Writer == Ping \/ WriterTakes \/ (\E s \in Symbols : Publish(s)) \/ PublishFails \/ WriterReturns

StatNext ==
  \/ \E s \in Symbols : DistributeTrade(s)
  \/ TradesEnd
  \/ TradeConverter \/ StatReceiver \/ Writer
  \/ StatInterrupt

\* Every goroutine goes on.  A select that finds a case
\* ready again and again takes it, since Go chooses at random: strong fairness
\* of a trade, a tick and the context.  The order of a map is random too: strong
\* fairness of the offer that finds room.  Between two ticks the worker waits in
\* its select for a second, against which the offers take no time: a writer that
\* can go on again and again does so then, not always amid the offers.  A Redis
\* that is asked again and again takes a price of each symbol.
OfferWithRoom(s) == Len(out) < OutCap /\ Offer(s)
BetweenTicks(A) == recv = "selecting" /\ A
StatSpec ==
  /\ StatInit /\ [][StatNext]_statVars
  /\ WF_statVars(TradesEnd)
  /\ WF_statVars(TradeConverter) /\ WF_statVars(StatReceiver) /\ WF_statVars(Writer)
  /\ SF_statVars(ReceiveTrade) /\ SF_statVars(ReceiveTick) /\ SF_statVars(ReceiveSeesCancel)
  /\ \A s \in Symbols : SF_statVars(OfferWithRoom(s)) /\ SF_statVars(Publish(s))
                         /\ SF_statVars(BetweenTicks(Publish(s)))
  /\ SF_statVars(BetweenTicks(WriterTakes))

(***************************************************************************)
(* Properties                                                              *)
(***************************************************************************)

StatTypeOK ==
  /\ cancelled \in BOOLEAN /\ rawOpen \in BOOLEAN /\ outOpen \in BOOLEAN
  /\ traded \in [Symbols -> 0..MaxTrades]
  /\ latest \in [Symbols -> 0..MaxTrades] /\ told \in [Symbols -> 0..MaxTrades]
  /\ raw \in Seq(Prices \union {Nil}) /\ Len(raw) <= RawCap
  /\ trades \in Seq(Prices) /\ Len(trades) <= TradeCap
  /\ out \in Seq(Prices) /\ Len(out) <= OutCap
  /\ conv \in {"taking", "sending", "waiting", "returned"} /\ parsed \in Prices \union {Nil}
  /\ recv \in {"selecting", "offering", "returned", "panicked"} /\ todo \subseteq Symbols
  /\ writer \in {"ping", "taking", "publishing", "returned"} /\ stat \in Prices \union {Nil}

\* Until the interrupt nothing that comes from a stream ends a goroutine or
\* closes a channel of the pipeline, so that the worker's send cannot panic; the
\* writer alone may be gone, when its first ping failed (convertingAggTrade.go:35,
\* 42, 93; writer.go:62).
RunsUntilInterrupt ==
  /\ StatTypeOK
  /\ ~cancelled => /\ rawOpen /\ outOpen
                   /\ conv \in {"taking", "sending"}
                   /\ recv \in {"selecting", "offering"}

\* A price that was dropped at a full channel, or that Redis did not take, is
\* made good: the last trade of a symbol that entered the pipeline is published
\* in the end, unless the service is interrupted or its writer never started
\* (convertingAggTrade.go:82-95, writer.go:80-86).
LatestIsPublished ==
  \A s \in Symbols : \A n \in 1..MaxTrades :
    (traded[s] = n) ~> (told[s] >= n \/ cancelled \/ writer = "returned")

\* After the interrupt the goroutines main waits for return, unless the worker
\* panics on the channel the converter closed without waiting for it
\* (convertingAggTrade.go:36-38, main.go:137).
StatInterruptEnds ==
  cancelled ~> (~StatAlive \/ (~rawOpen /\ conv = "returned" /\ writer = "returned"))
=============================================================================
